------------------------------- MODULE Inbox -------------------------------
(***************************************************************************)
(* Durable Telegram ingress: the polling listener, the inbound_updates     *)
(* table and the InboxWorker that claims, routes and settles its rows.     *)
(*                                                                         *)
(*   presentation/telegram/listener.py     getUpdates loop, offset         *)
(*   domain/conversation/inbox.py          InboxItem, InboxClaim           *)
(*   infrastructure/.../inbox.py           the SQL of every transition     *)
(*   application/conversation/inbox_worker.py  producer and consumers      *)
(*   application/runtime/bot_runtime.py    phased shutdown, supervision    *)
(*                                                                         *)
(* Time is abstracted: a retry delay or a lease is only known to have      *)
(* elapsed or not, so a retry_wait row may be claimed at any moment and a  *)
(* lease may elapse at any moment.  A batch claim is a sequence of single  *)
(* claims: the heads of different conversations do not depend on each      *)
(* other.  What the router does with an update is an outcome here.         *)
(***************************************************************************)
EXTENDS Integers, FiniteSets

CONSTANTS MaxUpdate,      \* Telegram numbers the updates 1 .. MaxUpdate
          Conversations,  \* conversation ids
          ConversationOf, \* the conversation each update belongs to
          Workers,        \* consumer slots, one capacity token each
          NoClaim,        \* what an idle consumer holds
          MaxAttempts,    \* FullJitterRetryPolicy.max_attempts
          MaxFaults       \* bound on crashes, stops, errors, slow handlers

Updates == 1 .. MaxUpdate

(* The stages of a consumer between taking a claim and settling it: the    *)
(* router runs, then has accepted the update, or failed with an error the  *)
(* retry policy takes for transient or for permanent.                      *)
Outcomes == {"accepted", "transient", "permanent"}
Stages   == {"routing"} \cup Outcomes

(* A LeaseToken is a fresh UUID and is only ever compared, so the ordinal  *)
(* of the claim that drew it stands for it: it is fresh for its row.       *)
InboxClaim == [update : Updates, version : Nat, attempt : Nat, stage : Stages]

ASSUME UpdateAssumption ==
  /\ MaxUpdate \in Nat \ {0}
  /\ ConversationOf \in [Updates -> Conversations]

ASSUME WorkerAssumption ==
  /\ MaxAttempts \in Nat \ {0}
  /\ MaxFaults \in Nat
  /\ NoClaim \notin InboxClaim

VARIABLES
  sent,       \* last update the users have sent to the bot
  forgotten,  \* first update Telegram still keeps for getUpdates
  offset,     \* listener's next offset, 0 for None
  batch,      \* next and last update of the batch being persisted
  status,     \* row status, "absent" before the INSERT
  version,    \* row version
  attempts,   \* row attempt_count
  token,      \* claim that owns the row, by its ordinal; 0 for NULL
  elapsed,    \* processing rows with lease_expires_at <= now
  held,       \* the claim each consumer slot works on
  accepted,   \* attempts of an update that the router accepted
  settledBy,  \* attempt whose settlement ended the row, 0 before that
  phase,      \* BotRuntime: running, stopping by phases, or not running
  faults      \* faults so far

telegram == <<sent, forgotten>>
listener == <<offset, batch>>
row      == <<status, version, attempts, token, elapsed, settledBy>>
vars     == <<telegram, listener, row, held, accepted, phase, faults>>

Unsettled == {"pending", "processing", "retry_wait"}
Terminal  == {"processed", "failed_final"}
Statuses  == {"absent"} \cup Unsettled \cup Terminal

NoBatch == [next |-> 0, last |-> 0]

Init ==
  /\ sent = 0
  /\ forgotten = 1
  /\ offset = 0
  /\ batch = NoBatch
  /\ status = [u \in Updates |-> "absent"]
  /\ version = [u \in Updates |-> 0]
  /\ attempts = [u \in Updates |-> 0]
  /\ token = [u \in Updates |-> 0]
  /\ elapsed = {}
  /\ held = [w \in Workers |-> NoClaim]
  /\ accepted = [u \in Updates |-> {}]
  /\ settledBy = [u \in Updates |-> 0]
  /\ phase = "running"
  /\ faults = 0

Fault == faults < MaxFaults /\ faults' = faults + 1

----------------------------------------------------------------------------
(* Telegram and the listener *)

TelegramReceives ==
  /\ sent < MaxUpdate
  /\ sent' = sent + 1
  /\ UNCHANGED <<forgotten, listener, row, held, accepted, phase, faults>>

(* getUpdates(offset) makes Telegram forget everything below the offset    *)
(* and answers with the oldest updates it keeps, or with none.             *)
GetUpdates ==
  /\ phase = "running"
  /\ batch = NoBatch
  /\ LET first == IF offset > forgotten THEN offset ELSE forgotten IN
       /\ forgotten' = first
       /\ \/ batch' = NoBatch
          \/ \E last \in first .. sent : batch' = [next |-> first, last |-> last]
  /\ UNCHANGED <<sent, offset, row, held, accepted, phase, faults>>

(* add_inbound: INSERT .. ON CONFLICT DO NOTHING; an update that is        *)
(* already stored is a replay and changes nothing.                         *)
AddInbound ==
  /\ phase \in {"running", "ingress"}
  /\ batch # NoBatch
  /\ batch.next <= batch.last
  /\ status' = [status EXCEPT ![batch.next] = IF @ = "absent" THEN "pending" ELSE @]
  /\ batch' = [batch EXCEPT !.next = @ + 1]
  /\ UNCHANGED <<telegram, offset, version, attempts, token, elapsed, settledBy,
                 held, accepted, phase, faults>>

(* Mutants of AdvanceOffset: before the batch is written; one too far. *)
AdvanceOffsetEarly ==
  /\ phase \in {"running", "ingress"}
  /\ batch # NoBatch
  /\ offset' = batch.last + 1
  /\ batch' = NoBatch
  /\ UNCHANGED <<telegram, row, held, accepted, phase, faults>>

AdvanceOffsetTooFar ==
  /\ phase \in {"running", "ingress"}
  /\ batch # NoBatch
  /\ batch.next > batch.last
  /\ offset' = batch.next + 1
  /\ batch' = NoBatch
  /\ UNCHANGED <<telegram, row, held, accepted, phase, faults>>

(* The offset moves only after the whole batch has been written. *)
AdvanceOffset ==
  /\ phase \in {"running", "ingress"}
  /\ batch # NoBatch
  /\ batch.next > batch.last
  /\ offset' = batch.last + 1
  /\ batch' = NoBatch
  /\ UNCHANGED <<telegram, row, held, accepted, phase, faults>>

(* A poll, a mapping or an INSERT fails, perhaps after part of the batch   *)
(* or even the failing row was committed; the listener backs off and polls *)
(* again with the same offset.                                             *)
ListenerFails ==
  /\ batch # NoBatch
  /\ Fault
  /\ batch' = NoBatch
  /\ UNCHANGED <<telegram, offset, row, held, accepted, phase>>

----------------------------------------------------------------------------
(* The InboxWorker's producer *)

(* Mutant of Head: an update that waits for its retry is overtaken. *)
HeadIgnoresRetryWait(u) ==
  \A e \in Updates :
    (ConversationOf[e] = ConversationOf[u] /\ e < u)
      => status[e] \notin {"pending", "processing"}

(* The conversation-head predicate of claim_inbound. *)
Head(u) ==
  \A e \in Updates :
    (ConversationOf[e] = ConversationOf[u] /\ e < u) => status[e] \notin Unsettled

(* Mutant of Claimable: rows that wait for a retry are never picked up. *)
ClaimableOnlyPending(u) == status[u] = "pending" /\ Head(u)

Claimable(u) == status[u] \in {"pending", "retry_wait"} /\ Head(u)

ClaimInbound(w, u) ==
  /\ phase \in {"running", "ingress"}
  /\ held[w] = NoClaim
  /\ Claimable(u)
  /\ status' = [status EXCEPT ![u] = "processing"]
  /\ version' = [version EXCEPT ![u] = @ + 1]
  /\ attempts' = [attempts EXCEPT ![u] = @ + 1]
  /\ token' = [token EXCEPT ![u] = attempts[u] + 1]
  /\ held' = [held EXCEPT ![w] = [update  |-> u,
                                  version |-> version[u] + 1,
                                  attempt |-> attempts[u] + 1,
                                  stage   |-> "routing"]]
  /\ UNCHANGED <<telegram, listener, elapsed, settledBy, accepted, phase, faults>>

(* One UPDATE hands every row with an elapsed lease back to retry_wait,    *)
(* whatever its attempt_count.                                             *)
RecoverExpired ==
  /\ phase \in {"running", "ingress"}
  /\ elapsed # {}
  /\ status' = [u \in Updates |-> IF u \in elapsed THEN "retry_wait" ELSE status[u]]
  /\ version' = [u \in Updates |-> IF u \in elapsed THEN version[u] + 1 ELSE version[u]]
  /\ token' = [u \in Updates |-> IF u \in elapsed THEN 0 ELSE token[u]]
  /\ elapsed' = {}
  /\ UNCHANGED <<telegram, listener, attempts, settledBy, held, accepted, phase, faults>>

(* Mutant of Owns: neither version nor token is compared. *)
OwnsAnyProcessing(c) == status[c.update] = "processing"

(* The producer loop: a due recovery, then as many claims as capacity.     *)
Produce ==
  \/ \E w \in Workers, u \in Updates : ClaimInbound(w, u)
  \/ RecoverExpired

(* The compare-and-set predicate of the three settling UPDATEs. *)
Owns(c) ==
  /\ status[c.update] = "processing"
  /\ version[c.update] = c.version
  /\ token[c.update] = c.attempt

Current(u) == \E w \in Workers : held[w] # NoClaim /\ held[w].update = u /\ Owns(held[w])

(* There is no heartbeat: a lease elapses under a consumer that is slow,   *)
(* which costs a fault, and under one that is gone, which does not.        *)
LeaseElapses(u) ==
  /\ status[u] = "processing"
  /\ u \notin elapsed
  /\ IF Current(u) THEN Fault ELSE UNCHANGED faults
  /\ elapsed' = elapsed \cup {u}
  /\ UNCHANGED <<telegram, listener, status, version, attempts, token, settledBy,
                 held, accepted, phase>>

----------------------------------------------------------------------------
(* The InboxWorker's consumers *)

RouteReturns(w) ==
  /\ held[w] # NoClaim
  /\ held[w].stage = "routing"
  /\ \E outcome \in Outcomes :
       /\ held' = [held EXCEPT ![w].stage = outcome]
       /\ accepted' = IF outcome = "accepted"
                        THEN [accepted EXCEPT ![held[w].update] = @ \cup {held[w].attempt}]
                        ELSE accepted
  /\ UNCHANGED <<telegram, listener, row, phase, faults>>

(* FullJitterRetryPolicy.decide: FailFinal or RetryAt. *)
FailFinal(c) ==
  \/ c.stage = "permanent"
  \/ c.stage = "transient" /\ c.attempt >= MaxAttempts

RetryAt(c) == c.stage = "transient" /\ c.attempt < MaxAttempts

(* A settlement that its claim still owns: one version, the token cleared, *)
(* the capacity token back.                                                *)
Settle(w, target) ==
  LET c == held[w] IN
  /\ Owns(c)
  /\ status' = [status EXCEPT ![c.update] = target]
  /\ version' = [version EXCEPT ![c.update] = c.version + 1]
  /\ token' = [token EXCEPT ![c.update] = 0]
  /\ elapsed' = elapsed \ {c.update}
  /\ settledBy' = [settledBy EXCEPT ![c.update] = IF target \in Terminal THEN c.attempt ELSE @]
  /\ held' = [held EXCEPT ![w] = NoClaim]
  /\ UNCHANGED <<telegram, listener, attempts, accepted, phase, faults>>

CompleteInbound(w) ==
  /\ held[w] # NoClaim
  /\ held[w].stage = "accepted"
  /\ Settle(w, "processed")

ScheduleInboundRetry(w) ==
  /\ held[w] # NoClaim
  /\ RetryAt(held[w])
  /\ Settle(w, "retry_wait")

DeadLetterInbound(w) ==
  /\ held[w] # NoClaim
  /\ FailFinal(held[w])
  /\ Settle(w, "failed_final")

(* Mutant of StaleClaim: the consumer keeps its capacity token. *)
StaleClaimKept(w) ==
  /\ held[w] # NoClaim
  /\ held[w].stage # "routing"
  /\ ~Owns(held[w])
  /\ UNCHANGED vars

(* The UPDATE matches no row: StaleClaimError is logged, nothing written. *)
StaleClaim(w) ==
  /\ held[w] # NoClaim
  /\ held[w].stage # "routing"
  /\ ~Owns(held[w])
  /\ held' = [held EXCEPT ![w] = NoClaim]
  /\ UNCHANGED <<telegram, listener, row, accepted, phase, faults>>

(* The settlement raises before it writes: the database is down, or the    *)
(* jitter drew a zero delay and InboxItem.retry refuses a retry_at that is *)
(* not later than failed_at.  The consumer logs it and drops the claim.    *)
FinalizationFails(w) ==
  /\ held[w] # NoClaim
  /\ held[w].stage # "routing"
  /\ Fault
  /\ held' = [held EXCEPT ![w] = NoClaim]
  /\ UNCHANGED <<telegram, listener, row, accepted, phase>>

----------------------------------------------------------------------------
(* The process: BotRuntime stops ingress first, then acceptance. *)

Stop ==
  /\ phase = "running"
  /\ Fault
  /\ phase' = "ingress"
  /\ UNCHANGED <<telegram, listener, row, held, accepted>>

IngressStopped ==
  /\ phase = "ingress"
  /\ batch = NoBatch
  /\ phase' = "acceptance"
  /\ UNCHANGED <<telegram, listener, row, held, accepted, faults>>

(* work_queue.join() has returned: no consumer holds a claim. *)
AcceptanceStopped ==
  /\ phase = "acceptance"
  /\ \A w \in Workers : held[w] = NoClaim
  /\ phase' = "down"
  /\ offset' = 0
  /\ UNCHANGED <<telegram, batch, row, held, accepted, faults>>

(* A crash, or a CANCEL shutdown: claims and the offset are forgotten, the *)
(* rows stay as they are.                                                  *)
Crash ==
  /\ phase # "down"
  /\ Fault
  /\ phase' = "down"
  /\ offset' = 0
  /\ batch' = NoBatch
  /\ held' = [w \in Workers |-> NoClaim]
  /\ UNCHANGED <<telegram, row, accepted>>

Start ==
  /\ phase = "down"
  /\ phase' = "running"
  /\ UNCHANGED <<telegram, listener, row, held, accepted, faults>>

----------------------------------------------------------------------------
Listener == GetUpdates \/ AddInbound \/ AdvanceOffset

Consume(w) ==
  \/ RouteReturns(w)
  \/ CompleteInbound(w)
  \/ ScheduleInboundRetry(w)
  \/ DeadLetterInbound(w)
  \/ StaleClaim(w)

Process == IngressStopped \/ AcceptanceStopped \/ Start

Next ==
  \/ TelegramReceives
  \/ Listener
  \/ ListenerFails
  \/ Produce
  \/ \E u \in Updates : LeaseElapses(u)
  \/ \E w \in Workers : Consume(w) \/ FinalizationFails(w)
  \/ Stop
  \/ Crash
  \/ Process

Spec == Init /\ [][Next]_vars

(* Every loop of the process keeps running, the router answers, a lease    *)
(* that nobody settles elapses, and the container restarts the process.    *)
(* Users need not send anything and no fault has to happen.                *)
Fairness ==
  /\ WF_vars(Listener)
  /\ \A u \in Updates : WF_vars(\E w \in Workers : ClaimInbound(w, u))
  /\ WF_vars(RecoverExpired)
  /\ \A u \in Updates : WF_vars(~Current(u) /\ LeaseElapses(u))
  /\ \A w \in Workers : WF_vars(Consume(w))
  /\ WF_vars(Process)

FairSpec == Spec /\ Fairness

----------------------------------------------------------------------------
TypeOK ==
  /\ sent \in 0 .. MaxUpdate
  /\ forgotten \in 1 .. MaxUpdate + 1
  /\ offset \in 0 .. MaxUpdate + 1
  /\ batch \in [next : Nat, last : 0 .. MaxUpdate]
  /\ status \in [Updates -> Statuses]
  /\ version \in [Updates -> Nat]
  /\ attempts \in [Updates -> Nat]
  /\ token \in [Updates -> Nat]
  /\ elapsed \in SUBSET Updates
  /\ held \in [Workers -> InboxClaim \cup {NoClaim}]
  /\ accepted \in [Updates -> SUBSET Nat]
  /\ settledBy \in [Updates -> Nat]
  /\ phase \in {"running", "ingress", "acceptance", "down"}
  /\ faults \in 0 .. MaxFaults

(* Telegram never forgets an update that is not stored: whatever crashes   *)
(* or errors interrupt a batch, an acknowledged update has its row.        *)
NoUpdateLost == \A u \in Updates : u < forgotten => status[u] # "absent"

(* Head-of-line order survives retries, recoveries and late settlements:   *)
(* once an update has been claimed, every earlier update of its            *)
(* conversation is settled for good.                                       *)
SettledInOrder ==
  \A u, v \in Updates :
    (ConversationOf[u] = ConversationOf[v] /\ u < v /\ attempts[v] > 0)
      => status[u] \in Terminal

(* Fencing: the settlement that ends a row is the one of the last claim    *)
(* granted on it, and "processed" is never written on the word of a claim  *)
(* whose routing was not accepted.                                         *)
LastClaimSettles ==
  \A u \in Updates :
    /\ status[u] \in Terminal => settledBy[u] = attempts[u]
    /\ status[u] = "processed" => settledBy[u] \in accepted[u]

(* Every claim is closed exactly once, by a settlement or by a recovery,   *)
(* before the next is granted; a row read back by claim_inbound therefore  *)
(* always passes the version and attempt checks of InboxItem.restore.      *)
ClaimsAndClosuresAlternate ==
  \A u \in Updates :
    /\ version[u] = 2 * attempts[u] - (IF status[u] = "processing" THEN 1 ELSE 0)
    /\ attempts[u] = 0 <=> status[u] \in {"absent", "pending"}
    /\ token[u] = IF status[u] = "processing" THEN attempts[u] ELSE 0

(* A settled row is never written again, not by the recovery sweep, a      *)
(* replayed INSERT or a late consumer, and every other write of a row      *)
(* that exists moves its version by one, on which fencing rests.           *)
RowHistory ==
  [][\A u \in Updates :
       /\ status[u] \in Terminal => UNCHANGED <<status[u], version[u], settledBy[u]>>
       /\ (status[u] # "absent" /\ status'[u] # status[u]) => version'[u] = version[u] + 1]_vars

(* Every update a user sent is settled in the end, whatever crashes, stops *)
(* and lost leases happen on the way, as long as they stop happening.      *)
EveryUpdateSettles == \A u \in Updates : (u <= sent) ~> (status[u] \in Terminal)

(* A graceful stop ends: no consumer waits for a claim it lost. *)
StopEnds == (phase = "ingress") ~> (phase = "down")

(* What docs/runtime-architecture.md says of a poison update: its attempts *)
(* are bounded.                                                            *)
BoundedAttempts == \A u \in Updates : attempts[u] <= MaxAttempts
=============================================================================
