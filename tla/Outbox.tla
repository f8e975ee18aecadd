------------------------------- MODULE Outbox -------------------------------
(***************************************************************************)
(* Durable Telegram delivery: the outbound_messages table, the turns whose *)
(* delivery plan it holds, and the OutboxWorker that claims its rows, asks *)
(* Telegram to show them and settles them.                                 *)
(*                                                                         *)
(*   domain/conversation/outbox.py             OutboundMessage             *)
(*   infrastructure/.../outbox.py              the SQL of every transition *)
(*   application/conversation/outbox_worker.py  producer and consumers     *)
(*   infrastructure/telegram/outbox_delivery.py  one delivery attempt      *)
(*                                                                         *)
(* A delivery stream is a chat.  The writers of one stream exclude each    *)
(* other with a transaction-level advisory lock, so a write is one step.   *)
(* As in Inbox, a retry delay or a lease is only known to have elapsed or  *)
(* not, and a batch claim is a sequence of single claims.  A claim draws a *)
(* fresh lease token exactly when it moves attempt_count, and the version  *)
(* moves with every write: the attempt number stands for both.             *)
(***************************************************************************)
EXTENDS Integers, FiniteSets

CONSTANTS Messages,    \* messages, numbered in the order a plan lists them
          Streams,     \* delivery streams
          StreamOf,    \* the stream each message goes to
          Turns,       \* conversation turns
          NoTurn,      \* turn_id of a standalone message
          TurnOf,      \* the turn each message belongs to
          Progress,    \* messages of kind SEND_TELEGRAM_ASSISTANT_PROGRESS
          NoMessage,   \* the source of a message that replaces none
          SourceOf,    \* the message a tool's final progress block replaces
          Workers,     \* consumer slots, one capacity token each
          NoClaim,     \* what an idle consumer holds
          MaxAttempts, \* FullJitterDeliveryRetryPolicy.max_attempts
          MaxStored,   \* bound on the messages stored
          MaxFaults    \* bound on crashes, slow sends, lost finalizations

ASSUME MessageAssumption ==
  /\ Messages \subseteq Nat
  /\ IsFiniteSet(Messages)
  /\ StreamOf \in [Messages -> Streams]
  /\ NoTurn \notin Turns
  /\ TurnOf \in [Messages -> Turns \cup {NoTurn}]
  /\ Progress \subseteq {m \in Messages : TurnOf[m] \in Turns}

(* A replaced block belongs to the turn and chat of the block that does.   *)
ASSUME SourceAssumption ==
  /\ NoMessage \notin Messages
  /\ SourceOf \in [Messages -> Messages \cup {NoMessage}]
  /\ \A m \in Messages : SourceOf[m] # NoMessage =>
       /\ m \in Progress /\ SourceOf[m] \in Progress
       /\ TurnOf[SourceOf[m]] = TurnOf[m]
       /\ StreamOf[SourceOf[m]] = StreamOf[m]

InPlan(m) == TurnOf[m] # NoTurn /\ m \notin Progress

Plan(t) == {m \in Messages : TurnOf[m] = t /\ m \notin Progress}

(* A reply is never empty; all a turn shows goes to one chat. *)
ASSUME PlanAssumption ==
  /\ \A t \in Turns : Plan(t) # {}
  /\ \A a, b \in Messages :
       (TurnOf[a] = TurnOf[b] /\ TurnOf[a] \in Turns) => StreamOf[a] = StreamOf[b]

(* The stages of a consumer: it is about to send, or it knows how the      *)
(* attempt ended.  "transient" is a rate limit, or a timeout or a network  *)
(* error after which Telegram may have shown the message all the same;     *)
(* "refused" is a replacement whose source was not delivered.              *)
Outcomes == {"shown", "transient", "permanent", "refused"}
Stages   == {"sending"} \cup Outcomes

OutboundClaim == [message : Messages, attempt : Nat, stage : Stages]

ASSUME WorkerAssumption ==
  /\ MaxAttempts \in Nat \ {0}
  /\ MaxStored \in Nat
  /\ MaxFaults \in Nat
  /\ NoClaim \notin OutboundClaim

VARIABLES
  turn,      \* state of each turn
  last,      \* MAX(stream_sequence) of each stream, 0 for an empty one
  sequence,  \* row stream_sequence, 0 before the INSERT
  status,    \* row status, "absent" before the INSERT
  attempts,  \* row attempt_count
  elapsed,   \* processing rows with lease_expires_at <= now
  held,      \* the claim each consumer slot works on
  receipt,   \* messages whose owner has Telegram's receipt, never lost since
  faults     \* faults so far

row  == <<last, sequence, status, attempts, elapsed>>
vars == <<turn, row, held, receipt, faults>>

Active   == {"pending", "processing", "retry_wait"}
Settled  == {"delivered", "failed_final", "cancelled"}
Statuses == {"absent"} \cup Active \cup Settled

(* running stands for every state of the turn before its reply. *)
TurnStates == {"running", "waiting_delivery", "delivered", "failed_final"}

Init ==
  /\ turn = [t \in Turns |-> "running"]
  /\ last = [s \in Streams |-> 0]
  /\ sequence = [m \in Messages |-> 0]
  /\ status = [m \in Messages |-> "absent"]
  /\ attempts = [m \in Messages |-> 0]
  /\ elapsed = {}
  /\ held = [w \in Workers |-> NoClaim]
  /\ receipt = {}
  /\ faults = 0

Fault == faults < MaxFaults /\ faults' = faults + 1

----------------------------------------------------------------------------
(* Writers *)

Rank(m, rows) == Cardinality({p \in rows : p <= m})

(* The INSERTs of one transaction into one stream, in the plan's order.    *)
Insert(s, rows) ==
  /\ Cardinality({m \in Messages : status[m] # "absent"} \cup rows) <= MaxStored
  /\ status' = [m \in Messages |-> IF m \in rows THEN "pending" ELSE status[m]]
  /\ sequence' = [m \in Messages |->
                    IF m \in rows THEN last[s] + Rank(m, rows) ELSE sequence[m]]
  /\ last' = [last EXCEPT ![s] = @ + Cardinality(rows)]
  /\ UNCHANGED <<attempts, elapsed, held, receipt, faults>>

(* A command's answer, a reset notice, an announcement.  A message that is *)
(* already stored is a replay and changes nothing.                         *)
EnqueueStandalone(m) ==
  /\ TurnOf[m] = NoTurn
  /\ status[m] = "absent"
  /\ Insert(StreamOf[m], {m})
  /\ UNCHANGED turn

(* Mutant of PublishProgress: the generation is not fenced. *)
PublishProgressUnfenced(m) ==
  /\ m \in Progress
  /\ status[m] = "absent"
  /\ SourceOf[m] # NoMessage => status[SourceOf[m]] # "absent"
  /\ Insert(StreamOf[m], {m})
  /\ UNCHANGED turn

(* publish_progress: fenced by the generation, which is only current until *)
(* the reply is stored; a tool's start block is written before its end.    *)
PublishProgress(m) ==
  /\ m \in Progress
  /\ turn[TurnOf[m]] = "running"
  /\ status[m] = "absent"
  /\ SourceOf[m] # NoMessage => status[SourceOf[m]] # "absent"
  /\ Insert(StreamOf[m], {m})
  /\ UNCHANGED turn

(* Inference completes, or fails with an apology: its plan and the turn's  *)
(* waiting_delivery are one transaction.                                   *)
EnqueuePlan(t) ==
  /\ turn[t] = "running"
  /\ \E s \in {StreamOf[m] : m \in Plan(t)} : Insert(s, Plan(t))
  /\ turn' = [turn EXCEPT ![t] = "waiting_delivery"]

----------------------------------------------------------------------------
(* The OutboxWorker's producer *)

(* _cancel_abandoned_delivery_plans, which every claim runs first.         *)
Abandoned ==
  {m \in Messages :
     /\ InPlan(m)
     /\ turn[TurnOf[m]] = "failed_final"
     /\ status[m] \in {"pending", "retry_wait"}}

Swept == [m \in Messages |-> IF m \in Abandoned THEN "cancelled" ELSE status[m]]

(* Mutant of Head: a message that waits for its retry is overtaken. *)
HeadIgnoresRetryWait(m, rows) ==
  \A e \in Messages :
    (StreamOf[e] = StreamOf[m] /\ sequence[e] < sequence[m])
      => rows[e] \notin {"pending", "processing"}

(* The stream-head predicate of claim_outbound. *)
Head(m, rows) ==
  \A e \in Messages :
    (StreamOf[e] = StreamOf[m] /\ sequence[e] < sequence[m]) => rows[e] \notin Active

(* Mutant of Claimable: progress waits for the turn like its reply. *)
ClaimableProgressGated(m, rows) ==
  /\ rows[m] \in {"pending", "retry_wait"}
  /\ TurnOf[m] # NoTurn => turn[TurnOf[m]] = "waiting_delivery"
  /\ Head(m, rows)

(* A pending or retrying head; a reply waits for its turn to be ready for  *)
(* delivery, progress and standalone messages do not.                      *)
Claimable(m, rows) ==
  /\ rows[m] \in {"pending", "retry_wait"}
  /\ InPlan(m) => turn[TurnOf[m]] = "waiting_delivery"
  /\ Head(m, rows)

ClaimOutbound(w, m) ==
  /\ held[w] = NoClaim
  /\ Claimable(m, Swept)
  /\ status' = [Swept EXCEPT ![m] = "processing"]
  /\ attempts' = [attempts EXCEPT ![m] = @ + 1]
  /\ held' = [held EXCEPT ![w] = [message |-> m,
                                  attempt |-> attempts[m] + 1,
                                  stage   |-> "sending"]]
  /\ UNCHANGED <<turn, last, sequence, elapsed, receipt, faults>>

(* One transaction hands every row with an elapsed lease back to           *)
(* retry_wait, whatever its attempt_count and whatever Telegram did.       *)
RecoverExpired ==
  /\ elapsed # {}
  /\ status' = [m \in Messages |-> IF m \in elapsed THEN "retry_wait" ELSE status[m]]
  /\ elapsed' = {}
  /\ receipt' = receipt \ elapsed
  /\ UNCHANGED <<turn, last, sequence, attempts, held, faults>>

(* Mutant of Owns: the claim token is not compared. *)
OwnsAnyProcessing(c) == status[c.message] = "processing"

(* The compare-and-set predicate of the three settling UPDATEs. *)
Owns(c) == status[c.message] = "processing" /\ attempts[c.message] = c.attempt

Current(m) == \E w \in Workers : held[w] # NoClaim /\ held[w].message = m /\ Owns(held[w])

(* attempt_timeout is shorter than the lease, so a lease elapses under its *)
(* consumer only when the process is held up, which costs a fault; a lease *)
(* whose consumer is gone elapses for free.                                *)
LeaseElapses(m) ==
  /\ status[m] = "processing"
  /\ m \notin elapsed
  /\ IF Current(m) THEN Fault ELSE UNCHANGED faults
  /\ elapsed' = elapsed \cup {m}
  /\ UNCHANGED <<turn, last, sequence, status, attempts, held, receipt>>

----------------------------------------------------------------------------
(* The OutboxWorker's consumers *)

EndAttempt(w, outcome) == held' = [held EXCEPT ![w].stage = outcome]

(* A replacement first looks its source up; a source that is settled never *)
(* changes again, so lookup and edit are one step.                         *)
Refused(m) == SourceOf[m] # NoMessage /\ status[SourceOf[m]] # "delivered"

(* One attempt; a receipt only counts for the claim that owns the row.     *)
Deliver(w) ==
  /\ held[w] # NoClaim
  /\ held[w].stage = "sending"
  /\ LET m == held[w].message IN
       \/ /\ ~Refused(m)
          /\ EndAttempt(w, "shown")
          /\ receipt' = receipt \cup (IF Owns(held[w]) THEN {m} ELSE {})
       \/ /\ ~Refused(m)
          /\ \E outcome \in {"transient", "permanent"} : EndAttempt(w, outcome)
          /\ UNCHANGED receipt
       \/ /\ Refused(m)
          /\ EndAttempt(w, "refused")
          /\ UNCHANGED receipt
  /\ UNCHANGED <<turn, row, faults>>

(* FullJitterDeliveryRetryPolicy.decide; Retry-After only moves the time.  *)
FailDeliveryFinal(c) ==
  \/ c.stage \in {"permanent", "refused"}
  \/ c.stage = "transient" /\ c.attempt >= MaxAttempts

RetryDeliveryAt(c) == c.stage = "transient" /\ c.attempt < MaxAttempts

(* Mutant of PlanDelivered: progress blocks count as part of the reply. *)
PlanDeliveredWithProgress(t, rows) ==
  \A m \in {p \in Messages : TurnOf[p] = t} : rows[m] = "delivered"

PlanDelivered(t, rows) == \A m \in Plan(t) : rows[m] = "delivered"

(* Mutant of Settle: the lease stays on the settled row. *)
SettleKeepsLease(w) ==
  /\ Owns(held[w])
  /\ held' = [held EXCEPT ![w] = NoClaim]
  /\ UNCHANGED <<last, sequence, attempts, elapsed, receipt, faults>>

(* A settlement that its claim still owns clears the lease.                *)
Settle(w) ==
  /\ Owns(held[w])
  /\ elapsed' = elapsed \ {held[w].message}
  /\ held' = [held EXCEPT ![w] = NoClaim]
  /\ UNCHANGED <<last, sequence, attempts, receipt, faults>>

(* The last message of a plan takes the turn with it.                      *)
CompleteOutbound(w) ==
  /\ held[w] # NoClaim
  /\ held[w].stage = "shown"
  /\ Settle(w)
  /\ LET m == held[w].message
         t == TurnOf[m]
         rows == [status EXCEPT ![m] = "delivered"]
     IN /\ status' = rows
        /\ IF InPlan(m) /\ PlanDelivered(t, rows)
             THEN turn' = [turn EXCEPT ![t] = IF @ = "failed_final" THEN @ ELSE "delivered"]
             ELSE UNCHANGED turn

ScheduleOutboundRetry(w) ==
  /\ held[w] # NoClaim
  /\ RetryDeliveryAt(held[w])
  /\ Settle(w)
  /\ status' = [status EXCEPT ![held[w].message] = "retry_wait"]
  /\ UNCHANGED turn

(* _cancel_unclaimed_delivery_plan *)
Siblings(m) ==
  {p \in Messages \ {m} :
     InPlan(m) /\ p \in Plan(TurnOf[m]) /\ status[p] \in {"pending", "retry_wait"}}

(* A message of a plan that cannot be delivered fails its turn and cancels *)
(* what the plan still has to send.                                        *)
DeadLetterOutbound(w) ==
  /\ held[w] # NoClaim
  /\ FailDeliveryFinal(held[w])
  /\ Settle(w)
  /\ LET m == held[w].message IN
       /\ status' = [p \in Messages |->
                       IF p = m THEN "failed_final"
                       ELSE IF p \in Siblings(m) THEN "cancelled" ELSE status[p]]
       /\ turn' = [t \in Turns |->
                     IF InPlan(m) /\ t = TurnOf[m] THEN "failed_final" ELSE turn[t]]

(* The UPDATE matches no row: StaleClaimError is logged, nothing written. *)
StaleClaim(w) ==
  /\ held[w] # NoClaim
  /\ held[w].stage # "sending"
  /\ ~Owns(held[w])
  /\ held' = [held EXCEPT ![w] = NoClaim]
  /\ UNCHANGED <<turn, row, receipt, faults>>

(* The receipts that are lost with the claims of these consumers.          *)
ReceiptsOf(workers) ==
  {held[w].message : w \in {v \in workers : held[v] # NoClaim /\ Owns(held[v])}}

(* The settlement raises before it commits; the consumer logs it, drops    *)
(* the claim and leaves the row to the lease.                              *)
FinalizationFails(w) ==
  /\ held[w] # NoClaim
  /\ held[w].stage # "sending"
  /\ Fault
  /\ held' = [held EXCEPT ![w] = NoClaim]
  /\ receipt' = receipt \ ReceiptsOf({w})
  /\ UNCHANGED <<turn, row>>

(* The process crashes, or a CANCEL shutdown drops its claims.             *)
Crash ==
  /\ Fault
  /\ held' = [w \in Workers |-> NoClaim]
  /\ receipt' = receipt \ ReceiptsOf(Workers)
  /\ UNCHANGED <<turn, row>>

----------------------------------------------------------------------------
Enqueue ==
  \/ \E m \in Messages : EnqueueStandalone(m) \/ PublishProgress(m)
  \/ \E t \in Turns : EnqueuePlan(t)

Consume(w) ==
  \/ Deliver(w)
  \/ CompleteOutbound(w)
  \/ ScheduleOutboundRetry(w)
  \/ DeadLetterOutbound(w)
  \/ StaleClaim(w)

Next ==
  \/ Enqueue
  \/ \E w \in Workers, m \in Messages : ClaimOutbound(w, m)
  \/ RecoverExpired
  \/ \E m \in Messages : LeaseElapses(m)
  \/ \E w \in Workers : Consume(w) \/ FinalizationFails(w)
  \/ Crash

Spec == Init /\ [][Next]_vars

(* Producer and consumers keep running (the process is restarted at once), *)
(* an attempt ends by attempt_timeout, and a lease nobody settles elapses. *)
(* Nothing has to be written, and no fault has to happen.                  *)
Fairness ==
  /\ \A m \in Messages : WF_vars(\E w \in Workers : ClaimOutbound(w, m))
  /\ WF_vars(RecoverExpired)
  /\ \A m \in Messages : WF_vars(~Current(m) /\ LeaseElapses(m))
  /\ \A w \in Workers : WF_vars(Consume(w))

FairSpec == Spec /\ Fairness

----------------------------------------------------------------------------
TypeOK ==
  /\ turn \in [Turns -> TurnStates]
  /\ last \in [Streams -> Nat]
  /\ sequence \in [Messages -> Nat]
  /\ status \in [Messages -> Statuses]
  /\ attempts \in [Messages -> Nat]
  /\ elapsed \in SUBSET {m \in Messages : status[m] = "processing"}
  /\ held \in [Workers -> OutboundClaim \cup {NoClaim}]
  /\ receipt \in SUBSET Messages
  /\ faults \in 0 .. MaxFaults

(* A chat reads in the order it was written, whatever retries, recoveries  *)
(* and crashes happen: once a message was handed to Telegram, every        *)
(* message stored before it in its stream is settled for good.             *)
StreamOrder ==
  \A a, b \in Messages :
    ( /\ StreamOf[a] = StreamOf[b]
      /\ status[a] # "absent"
      /\ sequence[a] < sequence[b]
      /\ attempts[b] > 0 ) => status[a] \in Settled

(* The turn says what happened to its reply: it is delivered when all of   *)
(* the plan is, and failed when the plan was delivered up to one message   *)
(* that failed, behind which nothing was or will be sent.                  *)
PlanOutcome ==
  \A t \in Turns :
    /\ turn[t] = "delivered" <=> \A m \in Plan(t) : status[m] = "delivered"
    /\ turn[t] = "failed_final" <=> \E m \in Plan(t) : status[m] = "failed_final"
    /\ \A m, p \in Plan(t) : status[m] = "failed_final" =>
         /\ p < m => status[p] = "delivered"
         /\ p > m => status[p] = "cancelled" /\ attempts[p] = 0

(* The sweep every claim starts with finds nothing: the dead letter of a   *)
(* plan leaves no sibling behind, and none can be added later.             *)
NothingAbandoned == Abandoned = {}

(* At-least-once without needless repeats: what is recorded as delivered   *)
(* has its receipt, what was cancelled was never sent, and a message whose *)
(* receipt was not lost is never sent again, be it slow, recovered by the  *)
(* sweep or settled late by a consumer that lost its lease.                *)
ReceiptsDecide ==
  \A m \in Messages :
    /\ status[m] = "delivered" => m \in receipt
    /\ status[m] = "cancelled" => attempts[m] = 0
    /\ m \in receipt =>
         \/ status[m] = "delivered"
         \/ \E w \in Workers : /\ held[w] # NoClaim
                               /\ held[w].message = m
                               /\ held[w].stage = "shown"
                               /\ Owns(held[w])

(* A turn's progress blocks never trail its reply: once a message of the   *)
(* reply was handed to Telegram, every stored block is settled, and no     *)
(* block is stored anymore.                                                *)
ProgressPrecedesReply ==
  \A p \in Progress : \A m \in Plan(TurnOf[p]) :
    attempts[m] > 0 => status[p] \in Settled \cup {"absent"}

(* A replacement is refused only because its source failed for good, never *)
(* because it came before its source was settled.                          *)
RefusedForGood ==
  \A w \in Workers :
    (held[w] # NoClaim /\ held[w].stage = "refused")
      => status[SourceOf[held[w].message]] = "failed_final"

(* Every stored message is settled in the end: no failed or cancelled plan *)
(* and no progress block blocks its chat, as long as faults stop.          *)
EveryMessageSettles ==
  \A m \in Messages : (status[m] # "absent") ~> (status[m] \in Settled)
=============================================================================
