---------------------------- MODULE TurnInference ----------------------------
(***************************************************************************)
(* A conversation turn and its durable inference activity, from the        *)
(* acceptance of an input to the commit of a reply: opening turns, steering *)
(* a running one, claiming, retrying, failing, recovering and resetting.   *)
(*                                                                         *)
(*   domain/conversation/turn.py, _inference_activity.py                   *)
(*   infrastructure/database/assistant_turn_acceptance.py  accept, steer   *)
(*   infrastructure/database/conversation_workflow/inference.py  the SQL   *)
(*   infrastructure/database/conversation_reset.py         /clear          *)
(*   application/conversation/inference_worker.py          the workers     *)
(*   application/assistant/durable_inference.py            the context     *)
(*                                                                         *)
(* An action is one transaction, or one step of a worker between two.  A   *)
(* turn and its activity are named by the input that opened them.  The     *)
(* clock only orders what the code compares: when an input's handling      *)
(* began (accepted_at), when an activity was created and when it was last  *)
(* claimed or steered.  It ticks when a handling begins, by two, and a     *)
(* claim happens at the odd instant in between.  A retry delay is only     *)
(* known to have elapsed or not.                                           *)
(***************************************************************************)
EXTENDS Integers, FiniteSets, Sequences

CONSTANTS MaxInput,       \* the inputs are 1 .. MaxInput, in arrival order
          Conversations,
          ConversationOf, \* the conversation of each input
          UserOf,         \* its user
          Scheduled,      \* inputs raised by the scheduler, not by Telegram
          Plain,          \* Telegram texts for the Assistant without upload
          Capacity,       \* InferenceWorker.worker_count
          MaxBudget,      \* FullJitterInferenceRetryPolicy.max_attempts
          MaxResets,      \* bound on /clear commands
          MaxFaults       \* bound on crashes, lost claims, replays, waits

Inputs == 1 .. MaxInput

ASSUME InputAssumption ==
  /\ MaxInput \in Nat \ {0}
  /\ ConversationOf \in [Inputs -> Conversations]
  /\ Scheduled \subseteq Inputs
  /\ Plain \subseteq Inputs \ Scheduled

ASSUME BoundAssumption ==
  /\ Capacity \in Nat \ {0}
  /\ MaxBudget \in Nat \ {0}
  /\ MaxResets \in Nat
  /\ MaxFaults \in Nat

(* A conversation_messages row of a turn: a user's input, or, with input   *)
(* 0, the assistant's.                                                     *)
Message == [turn : Inputs, input : 0 .. MaxInput]

(* A claim, what its worker has read and how far it got.  Version, token   *)
(* (the ordinal of the claim) and input revision are its fence.            *)
Stages == {"claimed", "inferring", "mismatch", "dependency",
           "retryable", "permanent", "succeeded"}

Claim == [turn : Inputs, version : Nat, attempt : Nat, revision : Nat,
          stage : Stages, seen : SUBSET Message]

VARIABLES
  clock,     \* the last instant the code has read
  stamp,     \* accepted_at of the handling under way, 0 for none
  refused,   \* inputs whose acceptance raised: their update is dead-lettered
  turn,      \* state of the turn an input opened
  status,    \* status of its inference activity
  version,
  attempts,  \* attempt_count
  budget,    \* retry_budget_used
  revision,  \* input_revision
  token,     \* claim that owns the activity, by its ordinal; 0 for NULL
  created,   \* created_at
  updated,   \* updated_at of a running activity, 0 when nothing compares it
  elapsed,   \* processing activities with lease_expires_at <= now
  log,       \* conversation_messages by sequence
  floors,    \* through_sequence of the resets of a conversation
  held,      \* claims in the worker: at most Capacity
  answered,  \* the context a committed reply was made from
  resets,
  faults

intake   == <<stamp, refused>>
activity == <<status, version, attempts, budget, revision, token, elapsed>>
times    == <<created, updated>>
history  == <<log, floors>>
vars     == <<clock, intake, turn, activity, times, history, held, answered,
              resets, faults>>

(* Mutant of Claimable: a steered activity is not among the rows to claim. *)
ClaimableUnlessSteered == {"pending", "retry"}

Claimable == {"pending", "steer_pending", "retry"}
Active    == Claimable \cup {"processing"}
Ended     == {"completed", "failed", "cancelled"}
Statuses  == {"absent"} \cup Active \cup Ended

(* waiting_delivery stands for every later state of the turn. *)
TurnStates == {"absent", "waiting_inference", "inference_retry_wait",
               "waiting_delivery", "cancelled"}

Init ==
  /\ clock = 0
  /\ stamp = [i \in Inputs |-> 0]
  /\ refused = {}
  /\ turn = [i \in Inputs |-> "absent"]
  /\ status = [i \in Inputs |-> "absent"]
  /\ version = [i \in Inputs |-> 0]
  /\ attempts = [i \in Inputs |-> 0]
  /\ budget = [i \in Inputs |-> 0]
  /\ revision = [i \in Inputs |-> 0]
  /\ token = [i \in Inputs |-> 0]
  /\ created = [i \in Inputs |-> 0]
  /\ updated = [i \in Inputs |-> 0]
  /\ elapsed = {}
  /\ log = [k \in Conversations |-> <<>>]
  /\ floors = [k \in Conversations |-> {}]
  /\ held = {}
  /\ answered = [i \in Inputs |-> {}]
  /\ resets = 0
  /\ faults = 0

Fault == faults < MaxFaults /\ faults' = faults + 1

Rows(k) == {log[k][n] : n \in DOMAIN log[k]}

AppendMessage(k, m) == log' = [log EXCEPT ![k] = Append(@, m)]

Steered(i) == \E m \in Rows(ConversationOf[i]) : m.input = i /\ m.turn # i

Handled(i) == turn[i] # "absent" \/ Steered(i) \/ i \in refused

----------------------------------------------------------------------------
(* Acceptance of an input *)

(* The ingress, or the scheduler, reads the clock and calls accept; the    *)
(* transaction comes later.  Telegram inputs of a conversation are routed  *)
(* one after the other; an input that was handled may be routed again, by  *)
(* a consumer that took over its lease, until its inbox row is settled.    *)
Observe(i) ==
  /\ stamp[i] = 0
  /\ i \notin Scheduled =>
       \A j \in Inputs \ Scheduled :
         (j < i /\ ConversationOf[j] = ConversationOf[i]) => Handled(j) /\ stamp[j] = 0
  /\ IF Handled(i) THEN i \notin Scheduled /\ Fault ELSE UNCHANGED faults
  /\ clock' = clock + 2
  /\ stamp' = [stamp EXCEPT ![i] = clock + 2]
  /\ UNCHANGED <<refused, turn, activity, times, history, held, answered, resets>>

(* Mutant of Known: a steer that is already appended is not looked up. *)
KnownTurnOnly(i) == turn[i] # "absent"

(* _existing_turn_state and _existing_steer. *)
Known(i) == turn[i] # "absent" \/ Steered(i)

(* The running Assistant turns an input may steer: same conversation, same *)
(* user, no upload on either side.                                         *)
Steerable(i, t) ==
  /\ i \in Plain
  /\ status[t] \in {"processing", "steer_pending"}
  /\ turn[t] = "waiting_inference"
  /\ ConversationOf[t] = ConversationOf[i]
  /\ UserOf[t] = UserOf[i]
  /\ t \in Plain \cup Scheduled

(* ORDER BY created_at LIMIT 1 *)
SteerTarget(i, t) ==
  /\ Steerable(i, t)
  /\ \A e \in Inputs : Steerable(i, e) => created[t] <= created[e]

Accepting(i) == stamp[i] # 0 /\ stamp' = [stamp EXCEPT ![i] = 0]

AcceptReplay(i) ==
  /\ Accepting(i)
  /\ Known(i)
  /\ UNCHANGED <<clock, refused, turn, activity, times, history, held, answered,
                 resets, faults>>

(* Mutant of AcceptSteer: the generation that runs keeps its fence. *)
AcceptSteerUnfenced(i) ==
  /\ Accepting(i)
  /\ ~Known(i)
  /\ \E t \in Inputs :
       /\ SteerTarget(i, t)
       /\ stamp[i] >= updated[t]
       /\ AppendMessage(ConversationOf[i], [turn |-> t, input |-> i])
  /\ UNCHANGED <<clock, refused, turn, activity, times, floors, held, answered,
                 resets, faults>>

(* _try_accept_steer: the input joins the running turn, whose generation   *)
(* is fenced off and which is to be claimed again with a fresh budget.     *)
AcceptSteer(i) ==
  /\ Accepting(i)
  /\ ~Known(i)
  /\ \E t \in Inputs :
       /\ SteerTarget(i, t)
       /\ stamp[i] >= updated[t]
       /\ status' = [status EXCEPT ![t] = "steer_pending"]
       /\ version' = [version EXCEPT ![t] = @ + 1]
       /\ revision' = [revision EXCEPT ![t] = @ + 1]
       /\ budget' = [budget EXCEPT ![t] = 0]
       /\ token' = [token EXCEPT ![t] = 0]
       /\ updated' = [updated EXCEPT ![t] = stamp[i]]
       /\ elapsed' = elapsed \ {t}
       /\ AppendMessage(ConversationOf[i], [turn |-> t, input |-> i])
  /\ UNCHANGED <<clock, refused, turn, attempts, created, floors, held, answered,
                 resets, faults>>

(* The activity was claimed after the clock was read and before accept saw *)
(* it: InferenceActivity.steer raises ValueError, which the ingress takes  *)
(* for a permanent failure.                                                *)
RefuseSteer(i) ==
  /\ Accepting(i)
  /\ ~Known(i)
  /\ \E t \in Inputs : SteerTarget(i, t) /\ stamp[i] < updated[t]
  /\ refused' = refused \cup {i}
  /\ UNCHANGED <<clock, turn, activity, times, history, held, answered, resets, faults>>

(* create_and_accept_turn: the turn, its first message and its activity.   *)
OpenTurn(i) ==
  /\ Accepting(i)
  /\ ~Known(i)
  /\ ~ \E t \in Inputs : Steerable(i, t)
  /\ turn' = [turn EXCEPT ![i] = "waiting_inference"]
  /\ status' = [status EXCEPT ![i] = "pending"]
  /\ created' = [created EXCEPT ![i] = stamp[i]]
  /\ AppendMessage(ConversationOf[i], [turn |-> i, input |-> i])
  /\ UNCHANGED <<clock, refused, updated, version, attempts, budget, revision, token, elapsed,
                 floors, held, answered, resets, faults>>

Accept(i) == AcceptReplay(i) \/ AcceptSteer(i) \/ RefuseSteer(i) \/ OpenTurn(i)

----------------------------------------------------------------------------
(* The InferenceWorker's producer *)

(* The head predicate of claim_inference_activities, by created_at. *)
ConversationHead(a) ==
  /\ status[a] \in Claimable
  /\ \A e \in Inputs :
       (ConversationOf[e] = ConversationOf[a] /\ created[e] < created[a])
         => status[e] \notin Active

(* One SELECT .. LIMIT: every head that is due, as far as capacity goes.   *)
(* Only a retry may not be due yet.                                        *)
Batch(S) ==
  /\ S # {}
  /\ \A a \in S : ConversationHead(a)
  /\ Cardinality(held) + Cardinality(S) <= Capacity
  /\ \/ Cardinality(held) + Cardinality(S) = Capacity
     \/ \A a \in Inputs \ S : ConversationHead(a) => status[a] = "retry"

(* uq_inference_activities_processing_conversation *)
OneProcessing(S) ==
  \A a \in S, b \in Inputs :
    (a # b /\ ConversationOf[a] = ConversationOf[b])
      => status[b] # "processing" /\ b \notin S

(* The turn state each status has to be claimed in. *)
Resumable(a) ==
  turn[a] = IF status[a] = "retry" THEN "inference_retry_wait" ELSE "waiting_inference"

NewClaim(a) == [turn |-> a, version |-> version[a] + 1, attempt |-> attempts[a] + 1,
                revision |-> revision[a], stage |-> "claimed", seen |-> {}]

(* The whole batch is claimed in one transaction, or none of it is: one    *)
(* row that breaks the unique index or whose turn is in another state      *)
(* aborts it.                                                              *)
ClaimActivities(S) ==
  /\ Batch(S)
  /\ \A a \in S : Resumable(a)
  /\ OneProcessing(S)
  /\ status' = [a \in Inputs |-> IF a \in S THEN "processing" ELSE status[a]]
  /\ version' = [a \in Inputs |-> IF a \in S THEN version[a] + 1 ELSE version[a]]
  /\ attempts' = [a \in Inputs |-> IF a \in S THEN attempts[a] + 1 ELSE attempts[a]]
  /\ token' = [a \in Inputs |-> IF a \in S THEN attempts[a] + 1 ELSE token[a]]
  /\ updated' = [a \in Inputs |-> IF a \in S THEN clock + 1 ELSE updated[a]]
  /\ turn' = [a \in Inputs |-> IF a \in S THEN "waiting_inference" ELSE turn[a]]
  /\ held' = held \cup {NewClaim(a) : a \in S}
  /\ UNCHANGED <<clock, intake, budget, revision, created, elapsed, history, answered,
                 resets, faults>>

(* Mutant of RecoverExpired: the turn of a recovered activity is left as it was. *)
RecoverExpiredOnly ==
  /\ elapsed # {}
  /\ \A a \in elapsed : turn[a] = "waiting_inference"
  /\ status' = [a \in Inputs |-> IF a \in elapsed THEN "retry" ELSE status[a]]
  /\ version' = [a \in Inputs |-> IF a \in elapsed THEN version[a] + 1 ELSE version[a]]
  /\ token' = [a \in Inputs |-> IF a \in elapsed THEN 0 ELSE token[a]]
  /\ updated' = [a \in Inputs |-> IF a \in elapsed THEN 0 ELSE updated[a]]
  /\ elapsed' = {}
  /\ UNCHANGED <<clock, intake, turn, attempts, budget, revision, created, history, held,
                 answered, resets, faults>>

(* recover_expired_inference_leases: attempts and budget stay.  A turn in  *)
(* any other state would abort the sweep.                                  *)
RecoverExpired ==
  /\ elapsed # {}
  /\ \A a \in elapsed : turn[a] = "waiting_inference"
  /\ status' = [a \in Inputs |-> IF a \in elapsed THEN "retry" ELSE status[a]]
  /\ version' = [a \in Inputs |-> IF a \in elapsed THEN version[a] + 1 ELSE version[a]]
  /\ token' = [a \in Inputs |-> IF a \in elapsed THEN 0 ELSE token[a]]
  /\ updated' = [a \in Inputs |-> IF a \in elapsed THEN 0 ELSE updated[a]]
  /\ turn' = [a \in Inputs |-> IF a \in elapsed THEN "inference_retry_wait" ELSE turn[a]]
  /\ elapsed' = {}
  /\ UNCHANGED <<clock, intake, attempts, budget, revision, created, history, held,
                 answered, resets, faults>>

----------------------------------------------------------------------------
(* The workers *)

(* assert_current_generation, which the agent loop calls around every step *)
(* and before the final answer.                                            *)
CurrentGeneration(c) ==
  /\ status[c.turn] = "processing"
  /\ token[c.turn] = c.attempt
  /\ revision[c.turn] = c.revision

(* What a settling transaction compares before it writes. *)
Owns(c) ==
  /\ CurrentGeneration(c)
  /\ version[c.turn] = c.version
  /\ turn[c.turn] = "waiting_inference"

(* There is no heartbeat: a lease elapses under a worker that is slow,     *)
(* which costs a fault, and under one that is gone, which does not.        *)
LeaseElapses(a) ==
  /\ status[a] = "processing"
  /\ a \notin elapsed
  /\ IF \E c \in held : c.turn = a /\ Owns(c) THEN Fault ELSE UNCHANGED faults
  /\ elapsed' = elapsed \cup {a}
  /\ UNCHANGED <<clock, intake, turn, status, version, attempts, budget, revision, token,
                 times, history, held, answered, resets>>

Advance(c, d) ==
  /\ held' = (held \ {c}) \cup {d}
  /\ UNCHANGED <<clock, intake, turn, activity, times, history, answered, resets>>

UserRows(t, rows) == {m \in rows : m.turn = t /\ m.input # 0}

(* Where the messages of a turn are: history_bounds takes the least and the *)
(* greatest of them.                                                       *)
TurnRows(t) == {n \in DOMAIN log[ConversationOf[t]] : log[ConversationOf[t]][n].turn = t}

(* The epoch floor of a turn is the last reset before its first message.   *)
AboveFloor(t, n) ==
  \A f \in floors[ConversationOf[t]] : (\A r \in TurnRows(t) : f < r) => f < n

(* Mutant of Context: resets are ignored. *)
ContextFromStart(t) ==
  {log[ConversationOf[t]][n] : n \in {n \in DOMAIN log[ConversationOf[t]] :
     \E r \in TurnRows(t) : n <= r}}

(* The history of a turn: everything from its floor to its last message.   *)
(* An older prefix may be summarised, which counts as having it.           *)
Context(t) ==
  {log[ConversationOf[t]][n] : n \in {n \in DOMAIN log[ConversationOf[t]] :
     AboveFloor(t, n) /\ \E r \in TurnRows(t) : n <= r}}

(* _infer_generation reads the history after the claim was committed, and  *)
(* _validate_anchor rejects one that has not as many inputs of the turn as *)
(* the claim's revision says; or the history waits for a compaction.       *)
ReadContext(c) ==
  /\ c.stage = "claimed"
  /\ \/ LET seen == Context(c.turn)
        IN  /\ IF Cardinality(UserRows(c.turn, seen)) = c.revision + 1
                 THEN Advance(c, [c EXCEPT !.stage = "inferring", !.seen = seen])
                 ELSE Advance(c, [c EXCEPT !.stage = "mismatch"])
            /\ UNCHANGED faults
     \/ Advance(c, [c EXCEPT !.stage = "dependency"]) /\ Fault

(* The agent loop answers only for a generation that is still current. *)
InferReturns(c) ==
  /\ c.stage = "inferring"
  /\ \/ CurrentGeneration(c) /\ Advance(c, [c EXCEPT !.stage = "succeeded"])
     \/ \E failure \in {"retryable", "permanent"} :
          Advance(c, [c EXCEPT !.stage = failure, !.seen = {}])
  /\ UNCHANGED faults

Drop(c) ==
  /\ held' = held \ {c}
  /\ UNCHANGED <<clock, intake, turn, activity, times, history, answered, resets>>

(* StaleClaimError: in the agent loop, or from the settling transaction. *)
StaleClaim(c) ==
  /\ \/ c.stage = "inferring" /\ ~CurrentGeneration(c)
     \/ c.stage \notin {"claimed", "inferring"} /\ ~Owns(c)
  /\ Drop(c)
  /\ UNCHANGED faults

(* The settlement raises before it writes, as when the database is down. *)
FinalizationFails(c) ==
  /\ c.stage \notin {"claimed", "inferring"}
  /\ Fault
  /\ Drop(c)

(* Mutant of BudgetAfter: waiting for a dependency refunds an attempt. *)
BudgetAfterRefund(c) == budget[c.turn] + (IF c.stage = "dependency" THEN -1 ELSE 1)

(* The budget a failure leaves: waiting for a dependency is free. *)
BudgetAfter(c) == budget[c.turn] + (IF c.stage = "dependency" THEN 0 ELSE 1)

(* FullJitterInferenceRetryPolicy.decide *)
FailFinal(c) ==
  \/ c.stage \in {"permanent", "mismatch"}
  \/ c.stage = "retryable" /\ BudgetAfter(c) >= MaxBudget

RetryAt(c) ==
  \/ c.stage = "dependency"
  \/ c.stage = "retryable" /\ BudgetAfter(c) < MaxBudget

(* One settling transaction of a claim that still owns its activity.       *)
Settle(c, target, state) ==
  /\ Owns(c)
  /\ status' = [status EXCEPT ![c.turn] = target]
  /\ version' = [version EXCEPT ![c.turn] = c.version + 1]
  /\ token' = [token EXCEPT ![c.turn] = 0]
  /\ updated' = [updated EXCEPT ![c.turn] = 0]
  /\ turn' = [turn EXCEPT ![c.turn] = state]
  /\ elapsed' = elapsed \ {c.turn}
  /\ held' = held \ {c}
  /\ UNCHANGED <<clock, intake, attempts, revision, created, floors, resets, faults>>

Reply(t) == [turn |-> t, input |-> 0]

(* The reply and the outbox messages are committed with the activity. *)
CompleteActivity(c) ==
  /\ c.stage = "succeeded"
  /\ Settle(c, "completed", "waiting_delivery")
  /\ AppendMessage(ConversationOf[c.turn], Reply(c.turn))
  /\ answered' = [answered EXCEPT ![c.turn] = c.seen]
  /\ UNCHANGED budget

RetryActivity(c) ==
  /\ RetryAt(c)
  /\ Settle(c, "retry", "inference_retry_wait")
  /\ budget' = [budget EXCEPT ![c.turn] = BudgetAfter(c)]
  /\ UNCHANGED <<log, answered>>

(* The user is told: a failed turn has a message to deliver as well. *)
FailActivity(c) ==
  /\ FailFinal(c)
  /\ Settle(c, "failed", "waiting_delivery")
  /\ budget' = [budget EXCEPT ![c.turn] = BudgetAfter(c)]
  /\ AppendMessage(ConversationOf[c.turn], Reply(c.turn))
  /\ UNCHANGED answered

----------------------------------------------------------------------------
(* PostgresConversationResetUoW.reset: every active turn is cancelled and  *)
(* the history so far is closed off.  A turn in an unexpected state would  *)
(* abort it.                                                               *)
Reset(k) ==
  /\ resets < MaxResets
  /\ LET running == {a \in Inputs : ConversationOf[a] = k /\ status[a] \in Active} IN
       /\ \A a \in running : turn[a] \in {"waiting_inference", "inference_retry_wait"}
       /\ status' = [a \in Inputs |-> IF a \in running THEN "cancelled" ELSE status[a]]
       /\ version' = [a \in Inputs |-> IF a \in running THEN version[a] + 1 ELSE version[a]]
       /\ token' = [a \in Inputs |-> IF a \in running THEN 0 ELSE token[a]]
       /\ updated' = [a \in Inputs |-> IF a \in running THEN 0 ELSE updated[a]]
       /\ turn' = [a \in Inputs |-> IF a \in running THEN "cancelled" ELSE turn[a]]
       /\ elapsed' = elapsed \ running
  /\ floors' = [floors EXCEPT ![k] = @ \cup {Len(log[k])}]
  /\ resets' = resets + 1
  /\ UNCHANGED <<clock, intake, attempts, budget, revision, created, log, held, answered,
                 faults>>

(* The process dies and is started again: what it held is forgotten. *)
Crash ==
  /\ Fault
  /\ held' = {}
  /\ stamp' = [i \in Inputs |-> 0]
  /\ UNCHANGED <<clock, refused, turn, activity, times, history, answered, resets>>

----------------------------------------------------------------------------
Work(c) ==
  \/ ReadContext(c)
  \/ InferReturns(c)
  \/ CompleteActivity(c)
  \/ RetryActivity(c)
  \/ FailActivity(c)
  \/ StaleClaim(c)

Next ==
  \/ \E i \in Inputs : Observe(i) \/ Accept(i)
  \/ \E S \in SUBSET Inputs : ClaimActivities(S)
  \/ RecoverExpired
  \/ \E a \in Inputs : LeaseElapses(a)
  \/ \E c \in held : Work(c) \/ FinalizationFails(c)
  \/ \E k \in Conversations : Reset(k)
  \/ Crash

Spec == Init /\ [][Next]_vars

(* The loops of the worker run on, acceptance and inference return, and a  *)
(* lease that nobody settles elapses.  The inputs come as they please.     *)
Fairness ==
  /\ \A i \in Inputs : WF_vars(Accept(i))
  /\ WF_vars(\E S \in SUBSET Inputs : ClaimActivities(S))
  /\ WF_vars(RecoverExpired)
  /\ \A a \in Inputs : WF_vars(LeaseElapses(a) /\ UNCHANGED faults)
  /\ \A t \in Inputs : WF_vars(\E c \in held : c.turn = t /\ Work(c) /\ UNCHANGED faults)

FairSpec == Spec /\ Fairness

----------------------------------------------------------------------------
TypeOK ==
  /\ clock \in Nat
  /\ stamp \in [Inputs -> Nat]
  /\ refused \subseteq Inputs
  /\ turn \in [Inputs -> TurnStates]
  /\ status \in [Inputs -> Statuses]
  /\ version \in [Inputs -> Nat]
  /\ attempts \in [Inputs -> Nat]
  /\ budget \in [Inputs -> Nat]
  /\ revision \in [Inputs -> Nat]
  /\ token \in [Inputs -> Nat]
  /\ created \in [Inputs -> Nat]
  /\ updated \in [Inputs -> Nat]
  /\ elapsed \subseteq Inputs
  /\ log \in [Conversations -> Seq(Message)]
  /\ floors \in [Conversations -> SUBSET Nat]
  /\ held \subseteq Claim
  /\ answered \in [Inputs -> SUBSET Message]
  /\ resets \in 0 .. MaxResets
  /\ faults \in 0 .. MaxFaults

(* A turn and its activity, written by different transactions, always      *)
(* agree.  One pair that did not would abort every claim batch, recovery   *)
(* sweep or reset that meets it, those of other conversations included.    *)
TurnMatchesActivity ==
  \A t \in Inputs :
    turn[t] = CASE status[t] = "absent" -> "absent"
                [] status[t] \in {"pending", "processing", "steer_pending"} -> "waiting_inference"
                [] status[t] = "retry" -> "inference_retry_wait"
                [] status[t] \in {"completed", "failed"} -> "waiting_delivery"
                [] status[t] = "cancelled" -> "cancelled"

(* A reply answers every input its turn ever took in: a steer that races   *)
(* the reply is part of what was answered, or it is on another turn.       *)
ReplyAnswersEveryInput ==
  \A t \in Inputs :
    status[t] = "completed" =>
      UserRows(t, answered[t]) = UserRows(t, Rows(ConversationOf[t]))

(* However often an input is routed again, it is stored at most once: it   *)
(* opens one turn or steers one.                                           *)
StoredOnce ==
  \A k \in Conversations :
    /\ \A a, b \in DOMAIN log[k] :
         (log[k][a].input = log[k][b].input /\ log[k][a].input # 0) => a = b
    /\ \A i \in Inputs :
         (turn[i] # "absent" /\ ConversationOf[i] = k)
           => \E n \in DOMAIN log[k] : log[k][n] = [turn |-> i, input |-> i]

(* A turn never fails because its history ran ahead of its claim: a worker *)
(* that read a steer its claim does not cover has lost the claim.          *)
MismatchIsStale == \A c \in held : c.stage = "mismatch" => ~Owns(c)

(* A steer starts a new generation with a whole budget, and the retry      *)
(* budget stays within the attempts, as the table's CHECK demands: a       *)
(* violation would abort the batch that meets it.                          *)
BudgetWithinAttempts ==
  \A t \in Inputs :
    /\ budget[t] <= attempts[t]
    /\ status[t] = "processing" => budget[t] < attempts[t]
    /\ status[t] # "failed" => budget[t] < MaxBudget

(* A reply committed after a reset knows nothing of what was reset, even   *)
(* if it was being generated meanwhile.                                    *)
RepliesForgetReset ==
  [][\A t \in Inputs : (status[t] # "completed" /\ status'[t] = "completed") =>
       \A f \in floors[ConversationOf[t]] : \A n \in 1 .. f :
         log[ConversationOf[t]][n] \notin answered'[t]]_vars

(* What has ended stays as it ended: no late worker, steer, sweep or reset *)
(* writes an activity that is completed, failed or cancelled.              *)
EndedForGood ==
  [][\A t \in Inputs : status[t] \in Ended =>
       UNCHANGED <<status[t], version[t], turn[t], revision[t], answered[t]>>]_vars

(* Every turn that was opened is answered, failed or cancelled in the end. *)
EveryTurnEnds == \A t \in Inputs : (status[t] # "absent") ~> (status[t] \in Ended)

(* resources/telegram_help.md: a message sent while the bot answers steers *)
(* the turn; acceptance never turns it away.                               *)
SteerNeverRefused == refused = {}

(* docs/runtime-architecture.md: different aggregates run concurrently.  A *)
(* head of an idle conversation is never kept from being claimed by one    *)
(* of another conversation.                                                *)
ConversationsIndependent ==
  \A a, b \in Inputs :
    (ConversationHead(a) /\ ConversationHead(b) /\ OneProcessing({a})) => OneProcessing({b})
=============================================================================
