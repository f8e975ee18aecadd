------------------------- MODULE TurnInferenceProofs -------------------------
(***************************************************************************)
(* Theorems about TurnInference, for any number of inputs, conversations,  *)
(* users and claims, any budget and any bound on resets and faults.        *)
(***************************************************************************)
EXTENDS TurnInference, FiniteSetTheorems, TLAPS

(* What a context holds are messages of its turn's conversation. *)
LEMMA ContextInLog ==
  ASSUME TypeOK, NEW t \in Inputs
  PROVE  Context(t) \subseteq Rows(ConversationOf[t]) /\ Context(t) \subseteq Message
<1>1. ConversationOf[t] \in Conversations  BY InputAssumption
<1>2. log[ConversationOf[t]] \in Seq(Message)  BY <1>1 DEF TypeOK
<1> QED  BY <1>2 DEF Context, Rows

(* Every state variable keeps its type. *)
THEOREM TypeCorrect == Spec => []TypeOK
<1>1. Init => TypeOK
  <2> HAVE Init
  <2>1. MaxResets \in Nat /\ MaxFaults \in Nat  BY BoundAssumption
  <2>2. log \in [Conversations -> Seq(Message)]  BY DEF Init
  <2> QED  BY <2>1, <2>2 DEF Init, TypeOK, TurnStates, Statuses
<1>2. TypeOK /\ [Next]_vars => TypeOK'
  <2> SUFFICES ASSUME TypeOK, [Next]_vars PROVE TypeOK'  OBVIOUS
  <2> USE DEF intake, activity, times, history
  <2>0. /\ \A i \in Inputs : i \in Nat /\ ConversationOf[i] \in Conversations
        /\ \A t, i \in Inputs : [turn |-> t, input |-> i] \in Message
        /\ \A t \in Inputs : Reply(t) \in Message
        /\ MaxInput \in Nat /\ MaxResets \in Nat /\ MaxFaults \in Nat
    BY InputAssumption, BoundAssumption DEF Inputs, Message, Reply
  <2>n. \A a \in Inputs : /\ version[a] + 1 \in Nat /\ attempts[a] + 1 \in Nat
                          /\ revision[a] + 1 \in Nat
    BY DEF TypeOK
  <2>f. Fault => faults' \in 0 .. MaxFaults  BY <2>0 DEF Fault, TypeOK
  <2>l. ASSUME NEW t \in Inputs, NEW m \in Message, AppendMessage(ConversationOf[t], m)
        PROVE  log' \in [Conversations -> Seq(Message)]
    BY <2>l, <2>0 DEF AppendMessage, TypeOK
  <2>a. ASSUME NEW i \in Inputs, Observe(i) PROVE TypeOK'
    <3>1. faults' \in 0 .. MaxFaults  BY <2>a, <2>f DEF Observe, TypeOK
    <3> QED  BY <2>a, <3>1 DEF Observe, TypeOK
  <2>b. ASSUME NEW i \in Inputs, Accept(i) PROVE TypeOK'
    <3>1. CASE AcceptReplay(i)  BY <3>1 DEF AcceptReplay, Accepting, TypeOK
    <3>2. CASE AcceptSteer(i)
      <4>1. PICK t \in Inputs : AcceptSteer(i)!3!(t)  BY <3>2 DEF AcceptSteer
      <4>2. log' \in [Conversations -> Seq(Message)]
        <5>1. ConversationOf[t] \in Conversations  BY <2>0
        <5>2. [turn |-> t, input |-> i] \in Message  BY <2>0
        <5> QED  BY <4>1, <5>2, <2>l
      <4>3. "steer_pending" \in Statuses  BY DEF Statuses, Active, Claimable
      <4>4. status' \in [Inputs -> Statuses] /\ stamp' \in [Inputs -> Nat]
        BY <3>2, <4>1, <4>3 DEF AcceptSteer, Accepting, TypeOK
      <4>5. version' \in [Inputs -> Nat] /\ revision' \in [Inputs -> Nat]  BY <4>1, <2>n DEF TypeOK
      <4>6. budget' \in [Inputs -> Nat] /\ token' \in [Inputs -> Nat]  BY <4>1, <2>n DEF TypeOK
      <4>7. updated' \in [Inputs -> Nat] /\ elapsed' \subseteq Inputs  BY <4>1, <2>n DEF TypeOK
      <4> QED  BY <3>2, <4>2, <4>4, <4>5, <4>6, <4>7 DEF AcceptSteer, TypeOK
    <3>3. CASE RefuseSteer(i)  BY <3>3 DEF RefuseSteer, Accepting, TypeOK
    <3>4. CASE OpenTurn(i)
      <4>1. log' \in [Conversations -> Seq(Message)]
        <5>1. [turn |-> i, input |-> i] \in Message  BY <2>0
        <5> QED  BY <3>4, <5>1, <2>l DEF OpenTurn
      <4> QED  BY <3>4, <4>1 DEF OpenTurn, Accepting, TypeOK, Statuses, Active, Claimable, TurnStates
    <3> QED  BY <2>b, <3>1, <3>2, <3>3, <3>4 DEF Accept
  <2>c. ASSUME NEW S \in SUBSET Inputs, ClaimActivities(S) PROVE TypeOK'
    <3>1. \A a \in S : NewClaim(a) \in Claim
      BY DEF NewClaim, Claim, Stages, TypeOK
    <3>2. held' \subseteq Claim  BY <2>c, <3>1 DEF ClaimActivities, TypeOK
    <3>3. "processing" \in Statuses /\ "waiting_inference" \in TurnStates
      BY DEF Statuses, Active, TurnStates
    <3>4. status' \in [Inputs -> Statuses] /\ turn' \in [Inputs -> TurnStates]
      BY <2>c, <3>3 DEF ClaimActivities, TypeOK
    <3>5. version' \in [Inputs -> Nat] /\ attempts' \in [Inputs -> Nat]  BY <2>c, <2>n DEF ClaimActivities, TypeOK
    <3>6. token' \in [Inputs -> Nat] /\ updated' \in [Inputs -> Nat]  BY <2>c, <2>n DEF ClaimActivities, TypeOK
    <3> QED  BY <2>c, <3>2, <3>4, <3>5, <3>6 DEF ClaimActivities, TypeOK
  <2>d. CASE RecoverExpired
    <3>1. "retry" \in Statuses /\ "inference_retry_wait" \in TurnStates
      BY DEF Statuses, Active, Claimable, TurnStates
    <3>2. status' \in [Inputs -> Statuses] /\ turn' \in [Inputs -> TurnStates]
      BY <2>d, <3>1 DEF RecoverExpired, TypeOK
    <3>3. version' \in [Inputs -> Nat] /\ token' \in [Inputs -> Nat]  BY <2>d, <2>n DEF RecoverExpired, TypeOK
    <3>4. updated' \in [Inputs -> Nat] /\ elapsed' \subseteq Inputs  BY <2>d, <2>n DEF RecoverExpired, TypeOK
    <3> QED  BY <2>d, <3>2, <3>3, <3>4 DEF RecoverExpired, TypeOK
  <2>e. ASSUME NEW a \in Inputs, LeaseElapses(a) PROVE TypeOK'
    <3>1. faults' \in 0 .. MaxFaults  BY <2>e, <2>f DEF LeaseElapses, TypeOK
    <3> QED  BY <2>e, <3>1 DEF LeaseElapses, TypeOK
  <2>g. ASSUME NEW c \in held, Work(c) \/ FinalizationFails(c) PROVE TypeOK'
    <3>0. c \in Claim /\ c.turn \in Inputs /\ c.version \in Nat  BY DEF TypeOK, Claim
    <3>1. CASE ReadContext(c)
      <4>1. Context(c.turn) \subseteq Message  BY <3>0, ContextInLog
      <4>2. held' \subseteq Claim
        <5>1. [c EXCEPT !.stage = "inferring", !.seen = Context(c.turn)] \in Claim
          BY <3>0, <4>1 DEF Claim, Stages
        <5>2. /\ [c EXCEPT !.stage = "mismatch"] \in Claim
              /\ [c EXCEPT !.stage = "dependency"] \in Claim
          BY <3>0 DEF Claim, Stages
        <5> QED  BY <3>1, <5>1, <5>2 DEF ReadContext, Advance, TypeOK
      <4>3. faults' \in 0 .. MaxFaults  BY <3>1, <2>f DEF ReadContext, TypeOK
      <4> QED  BY <3>1, <4>2, <4>3 DEF ReadContext, Advance, TypeOK
    <3>2. CASE InferReturns(c)
      <4>1. held' \subseteq Claim
        <5>1. [c EXCEPT !.stage = "succeeded"] \in Claim  BY <3>0 DEF Claim, Stages
        <5>2. \A f \in {"retryable", "permanent"} :
                [c EXCEPT !.stage = f, !.seen = {}] \in Claim
          BY <3>0 DEF Claim, Stages
        <5> QED  BY <3>2, <5>1, <5>2 DEF InferReturns, Advance, TypeOK
      <4> QED  BY <3>2, <4>1 DEF InferReturns, Advance, TypeOK
    <3>3. ASSUME NEW target \in Statuses, NEW state \in TurnStates, Settle(c, target, state),
                 log' \in [Conversations -> Seq(Message)], budget' \in [Inputs -> Nat],
                 answered' \in [Inputs -> SUBSET Message]
          PROVE TypeOK'
      <4>1. status' \in [Inputs -> Statuses] /\ turn' \in [Inputs -> TurnStates]
        BY <3>0, <3>3 DEF Settle, TypeOK
      <4>2. /\ version' \in [Inputs -> Nat] /\ token' \in [Inputs -> Nat]
            /\ updated' \in [Inputs -> Nat] /\ elapsed' \subseteq Inputs
        BY <3>0, <3>3 DEF Settle, TypeOK
      <4> QED  BY <3>3, <4>1, <4>2 DEF Settle, TypeOK
    <3>4. budget[c.turn] \in Nat /\ BudgetAfter(c) \in Nat  BY <3>0 DEF BudgetAfter, TypeOK
    <3>5. log' \in [Conversations -> Seq(Message)]
      BY <3>0, <2>0, <2>l, <2>g DEF Work, ReadContext, Advance, InferReturns, CompleteActivity,
         RetryActivity, FailActivity, StaleClaim, Drop, FinalizationFails, TypeOK
    <3>6. CASE CompleteActivity(c)
      <4>1. answered' \in [Inputs -> SUBSET Message]  BY <3>0, <3>6 DEF CompleteActivity, TypeOK, Claim
      <4> QED  BY <3>3, <3>5, <3>6, <4>1 DEF CompleteActivity, Statuses, TurnStates, Ended, TypeOK
    <3>7. CASE RetryActivity(c)
      BY <3>3, <3>4, <3>5, <3>7 DEF RetryActivity, Statuses, TurnStates, Active, Claimable, TypeOK
    <3>8. CASE FailActivity(c)
      BY <3>3, <3>4, <3>5, <3>8 DEF FailActivity, Statuses, TurnStates, Ended, TypeOK
    <3>9. CASE StaleClaim(c)  BY <3>9 DEF StaleClaim, Drop, TypeOK
    <3>10. CASE FinalizationFails(c)  BY <3>10, <2>f DEF FinalizationFails, Drop, TypeOK
    <3> QED  BY <2>g, <3>1, <3>2, <3>6, <3>7, <3>8, <3>9, <3>10 DEF Work
  <2>h. ASSUME NEW k \in Conversations, Reset(k) PROVE TypeOK'
    <3>1. floors' \in [Conversations -> SUBSET Nat]
      BY <2>h DEF Reset, TypeOK
    <3>2. resets' \in 0 .. MaxResets  BY <2>h, <2>0 DEF Reset, TypeOK
    <3> QED  BY <2>h, <3>1, <3>2 DEF Reset, TypeOK, Statuses, Ended, TurnStates
  <2>i. CASE Crash
    BY <2>i, <2>f DEF Crash, TypeOK
  <2>j. CASE UNCHANGED vars  BY <2>j DEF vars, TypeOK
  <2> QED  BY <2>a, <2>b, <2>c, <2>d, <2>e, <2>g, <2>h, <2>i, <2>j DEF Next
<1> QED  BY <1>1, <1>2, PTL DEF Spec

(***************************************************************************)
(* The statuses of the activities and the states of the turns              *)
(***************************************************************************)

(* A turn and its activity, written by different transactions, always      *)
(* agree: no batch, sweep or reset is aborted by a pair that does not.     *)
THEOREM TurnsAgree == Spec => []TurnMatchesActivity
<1>1. Init => TurnMatchesActivity  BY DEF Init, TurnMatchesActivity
<1>2. TypeOK /\ TurnMatchesActivity /\ [Next]_vars => TurnMatchesActivity'
  <2> SUFFICES ASSUME TypeOK, TurnMatchesActivity, [Next]_vars PROVE TurnMatchesActivity'
    OBVIOUS
  <2> USE DEF intake, activity, times, history, TurnMatchesActivity
  <2>0. CASE UNCHANGED <<turn, status>>  BY <2>0
  <2>a. ASSUME NEW i \in Inputs, Observe(i) PROVE TurnMatchesActivity'
    BY <2>a, <2>0 DEF Observe
  <2>b. ASSUME NEW i \in Inputs, Accept(i) PROVE TurnMatchesActivity'
    <3>1. CASE AcceptReplay(i)  BY <3>1, <2>0 DEF AcceptReplay
    <3>2. CASE AcceptSteer(i)
      BY <3>2 DEF AcceptSteer, SteerTarget, Steerable, TypeOK
    <3>3. CASE RefuseSteer(i)  BY <3>3, <2>0 DEF RefuseSteer
    <3>4. CASE OpenTurn(i)  BY <3>4 DEF OpenTurn, TypeOK
    <3> QED  BY <2>b, <3>1, <3>2, <3>3, <3>4 DEF Accept
  <2>c. ASSUME NEW S \in SUBSET Inputs, ClaimActivities(S) PROVE TurnMatchesActivity'
    BY <2>c DEF ClaimActivities
  <2>d. CASE RecoverExpired  BY <2>d DEF RecoverExpired
  <2>e. ASSUME NEW a \in Inputs, LeaseElapses(a) PROVE TurnMatchesActivity'
    BY <2>e, <2>0 DEF LeaseElapses
  <2>g. ASSUME NEW c \in held, Work(c) \/ FinalizationFails(c) PROVE TurnMatchesActivity'
    <3>0. c.turn \in Inputs  BY DEF TypeOK, Claim
    <3>1. CASE ReadContext(c) \/ InferReturns(c)
      BY <3>1, <2>0 DEF ReadContext, InferReturns, Advance
    <3>2. CASE CompleteActivity(c)  BY <3>0, <3>2 DEF CompleteActivity, Settle, TypeOK
    <3>3. CASE RetryActivity(c)  BY <3>0, <3>3 DEF RetryActivity, Settle, TypeOK
    <3>4. CASE FailActivity(c)  BY <3>0, <3>4 DEF FailActivity, Settle, TypeOK
    <3>5. CASE StaleClaim(c) \/ FinalizationFails(c)
      BY <3>5, <2>0 DEF StaleClaim, FinalizationFails, Drop
    <3> QED  BY <2>g, <3>1, <3>2, <3>3, <3>4, <3>5 DEF Work
  <2>h. ASSUME NEW k \in Conversations, Reset(k) PROVE TurnMatchesActivity'
    BY <2>h DEF Reset
  <2>i. CASE Crash  BY <2>i, <2>0 DEF Crash
  <2>j. CASE UNCHANGED vars  BY <2>j, <2>0 DEF vars
  <2> QED  BY <2>a, <2>b, <2>c, <2>d, <2>e, <2>g, <2>h, <2>i, <2>j DEF Next
<1> QED  BY <1>1, <1>2, TypeCorrect, PTL DEF Spec

(* Only an activity under way has a lease to lose, and a held claim is of  *)
(* an activity that exists, no newer than its generation.                  *)
Fenced ==
  /\ \A a \in elapsed : status[a] = "processing"
  /\ \A c \in held : status[c.turn] # "absent" /\ c.revision <= revision[c.turn]

LEMMA Fences == Spec => []Fenced
<1>1. Init => Fenced  BY DEF Init, Fenced
<1>2. TypeOK /\ TurnMatchesActivity /\ Fenced /\ [Next]_vars => Fenced'
  <2> SUFFICES ASSUME TypeOK, TurnMatchesActivity, Fenced, [Next]_vars PROVE Fenced'  OBVIOUS
  <2> USE DEF intake, activity, times, history, Fenced
  <2>n. /\ \A t \in Inputs : revision[t] \in Nat
        /\ \A c \in held : c \in Claim /\ c.turn \in Inputs /\ c.revision \in Nat
    BY DEF TypeOK, Claim
  <2>0. CASE UNCHANGED <<status, revision, elapsed, held>>  BY <2>0
  <2>a. ASSUME NEW i \in Inputs, Observe(i) PROVE Fenced'
    BY <2>a, <2>0 DEF Observe
  <2>b. ASSUME NEW i \in Inputs, Accept(i) PROVE Fenced'
    <3>1. CASE AcceptReplay(i)  BY <3>1, <2>0 DEF AcceptReplay
    <3>2. CASE AcceptSteer(i)
      <4>1. PICK t \in Inputs : AcceptSteer(i)!3!(t)  BY <3>2 DEF AcceptSteer
      <4>2. /\ \A a \in Inputs \ {t} : status'[a] = status[a] /\ revision'[a] = revision[a]
            /\ status'[t] = "steer_pending" /\ revision'[t] = revision[t] + 1
        BY <4>1 DEF TypeOK
      <4>3. elapsed' = elapsed \ {t} /\ held' = held  BY <3>2, <4>1 DEF AcceptSteer
      <4>4. \A a \in elapsed' : status'[a] = "processing"  BY <4>2, <4>3 DEF TypeOK
      <4>5. \A c \in held' : status'[c.turn] # "absent"  BY <4>2, <4>3, <2>n
      <4>6. \A a \in Inputs : revision[a] <= revision'[a]  BY <4>2, <2>n
      <4>7. \A c \in held' : c.revision <= revision'[c.turn]
        <5> TAKE c \in held'
        <5>1. /\ c.revision \in Nat /\ revision[c.turn] \in Nat /\ c.revision <= revision[c.turn]
              /\ revision'[c.turn] \in Nat /\ revision[c.turn] <= revision'[c.turn]
          BY <4>1, <4>2, <4>3, <4>6, <2>n
        <5> QED  BY <5>1
      <4> QED  BY <4>4, <4>5, <4>7
    <3>3. CASE RefuseSteer(i)  BY <3>3, <2>0 DEF RefuseSteer
    <3>4. CASE OpenTurn(i)
      <4>1. status[i] = "absent"
        BY <3>4 DEF OpenTurn, Known, TurnMatchesActivity, TypeOK, Statuses, Active, Claimable, Ended
      <4> QED  BY <3>4, <4>1, <2>n DEF OpenTurn, TypeOK
    <3> QED  BY <2>b, <3>1, <3>2, <3>3, <3>4 DEF Accept
  <2>c. ASSUME NEW S \in SUBSET Inputs, ClaimActivities(S) PROVE Fenced'
    <3>1. \A a \in Inputs : status'[a] # "absent" \/ status'[a] = status[a]
      BY <2>c DEF ClaimActivities
    <3>2. \A c \in held' : status'[c.turn] # "absent" /\ c.revision <= revision'[c.turn]
      <4> TAKE c \in held'
      <4>1. CASE c \in held  BY <4>1, <2>c, <2>n DEF ClaimActivities
      <4>2. CASE \E a \in S : c = NewClaim(a)
        BY <4>2, <2>c, <2>n DEF ClaimActivities, NewClaim
      <4> QED  BY <4>1, <4>2, <2>c DEF ClaimActivities
    <3> QED  BY <2>c, <3>2 DEF ClaimActivities, TypeOK
  <2>d. CASE RecoverExpired  BY <2>d, <2>n DEF RecoverExpired, TypeOK
  <2>e. ASSUME NEW a \in Inputs, LeaseElapses(a) PROVE Fenced'
    BY <2>e DEF LeaseElapses
  <2>g. ASSUME NEW c \in held, Work(c) \/ FinalizationFails(c) PROVE Fenced'
    <3>1. CASE ReadContext(c)
      <4>1. PICK d : /\ d.turn = c.turn /\ d.revision = c.revision
                     /\ Advance(c, d)
        <5>1. /\ [c EXCEPT !.stage = "inferring", !.seen = Context(c.turn)].turn = c.turn
              /\ [c EXCEPT !.stage = "inferring", !.seen = Context(c.turn)].revision = c.revision
              /\ \A s \in Stages : [c EXCEPT !.stage = s].turn = c.turn
                                /\ [c EXCEPT !.stage = s].revision = c.revision
          BY <2>n DEF Claim
        <5> QED  BY <3>1, <5>1 DEF ReadContext, Stages
      <4> QED  BY <4>1, <2>n DEF Advance
    <3>2. CASE InferReturns(c)  BY <3>2, <2>n DEF InferReturns, Advance, Claim
    <3>3. ASSUME NEW target \in Statuses \ {"absent"}, NEW state, Settle(c, target, state)
          PROVE  Fenced'
      BY <3>3, <2>n DEF Settle, TypeOK
    <3>4. CASE CompleteActivity(c) \/ RetryActivity(c) \/ FailActivity(c)
      BY <3>3, <3>4 DEF CompleteActivity, RetryActivity, FailActivity,
                        Statuses, Active, Claimable, Ended
    <3>5. CASE StaleClaim(c) \/ FinalizationFails(c)
      BY <3>5 DEF StaleClaim, FinalizationFails, Drop
    <3> QED  BY <2>g, <3>1, <3>2, <3>4, <3>5 DEF Work
  <2>h. ASSUME NEW k \in Conversations, Reset(k) PROVE Fenced'
    BY <2>h, <2>n DEF Reset, TypeOK
  <2>i. CASE Crash  BY <2>i DEF Crash
  <2>j. CASE UNCHANGED vars  BY <2>j, <2>0 DEF vars
  <2> QED  BY <2>a, <2>b, <2>c, <2>d, <2>e, <2>g, <2>h, <2>i, <2>j DEF Next
<1> QED  BY <1>1, <1>2, TypeCorrect, TurnsAgree, PTL DEF Spec

(* The retry budget stays within the attempts and below its bound, however *)
(* steers, waits, failures and recoveries follow one another.              *)
THEOREM BudgetBounded == Spec => []BudgetWithinAttempts
<1>1. Init => BudgetWithinAttempts  BY BoundAssumption DEF Init, BudgetWithinAttempts
<1>2. TypeOK /\ TurnMatchesActivity /\ Fenced /\ BudgetWithinAttempts /\ [Next]_vars => BudgetWithinAttempts'
  <2> SUFFICES ASSUME TypeOK, TurnMatchesActivity, Fenced, BudgetWithinAttempts, [Next]_vars
               PROVE  BudgetWithinAttempts'
    OBVIOUS
  <2> USE BoundAssumption DEF intake, activity, times, history, BudgetWithinAttempts
  <2>n. \A t \in Inputs : budget[t] \in Nat /\ attempts[t] \in Nat  BY DEF TypeOK
  <2>0. CASE UNCHANGED <<status, budget, attempts>>  BY <2>0
  <2>a. ASSUME NEW i \in Inputs, Observe(i) PROVE BudgetWithinAttempts'
    BY <2>a, <2>0 DEF Observe
  <2>b. ASSUME NEW i \in Inputs, Accept(i) PROVE BudgetWithinAttempts'
    <3>1. CASE AcceptReplay(i)  BY <3>1, <2>0 DEF AcceptReplay
    <3>2. CASE AcceptSteer(i)  BY <3>2, <2>n DEF AcceptSteer, TypeOK
    <3>3. CASE RefuseSteer(i)  BY <3>3, <2>0 DEF RefuseSteer
    <3>4. CASE OpenTurn(i)
      <4>1. status[i] = "absent"
        BY <3>4 DEF OpenTurn, Known, TurnMatchesActivity, TypeOK, Statuses, Active, Claimable, Ended
      <4> QED  BY <3>4, <4>1, <2>n DEF OpenTurn, TypeOK
    <3> QED  BY <2>b, <3>1, <3>2, <3>3, <3>4 DEF Accept
  <2>c. ASSUME NEW S \in SUBSET Inputs, ClaimActivities(S) PROVE BudgetWithinAttempts'
    BY <2>c, <2>n DEF ClaimActivities, Batch, ConversationHead, Claimable
  <2>d. CASE RecoverExpired  BY <2>d, <2>n DEF RecoverExpired, Fenced
  <2>e. ASSUME NEW a \in Inputs, LeaseElapses(a) PROVE BudgetWithinAttempts'
    BY <2>e, <2>0 DEF LeaseElapses
  <2>g. ASSUME NEW c \in held, Work(c) \/ FinalizationFails(c) PROVE BudgetWithinAttempts'
    <3>0. c.turn \in Inputs  BY DEF TypeOK, Claim
    <3>1. CASE ReadContext(c) \/ InferReturns(c)
      BY <3>1, <2>0 DEF ReadContext, InferReturns, Advance
    <3>2. CASE CompleteActivity(c)
      BY <3>0, <3>2, <2>n DEF CompleteActivity, Settle, Owns, CurrentGeneration, TypeOK
    <3>3. CASE RetryActivity(c)
      BY <3>0, <3>3, <2>n
         DEF RetryActivity, RetryAt, BudgetAfter, Settle, Owns, CurrentGeneration, TypeOK
    <3>4. CASE FailActivity(c)
      <4>1. BudgetAfter(c) = budget[c.turn] + 1  BY <3>4 DEF FailActivity, FailFinal, BudgetAfter
      <4>2. status[c.turn] = "processing"
        BY <3>4 DEF FailActivity, Settle, Owns, CurrentGeneration
      <4>3. /\ status' = [status EXCEPT ![c.turn] = "failed"]
            /\ budget' = [budget EXCEPT ![c.turn] = budget[c.turn] + 1]
            /\ attempts' = attempts
        BY <3>4, <4>1 DEF FailActivity, Settle
      <4> QED  BY <3>0, <4>2, <4>3, <2>n DEF TypeOK
    <3>5. CASE StaleClaim(c) \/ FinalizationFails(c)
      BY <3>5, <2>0 DEF StaleClaim, FinalizationFails, Drop
    <3> QED  BY <2>g, <3>1, <3>2, <3>3, <3>4, <3>5 DEF Work
  <2>h. ASSUME NEW k \in Conversations, Reset(k) PROVE BudgetWithinAttempts'
    BY <2>h, <2>n DEF Reset, Active, Claimable
  <2>i. CASE Crash  BY <2>i, <2>0 DEF Crash
  <2>j. CASE UNCHANGED vars  BY <2>j, <2>0 DEF vars
  <2> QED  BY <2>a, <2>b, <2>c, <2>d, <2>e, <2>g, <2>h, <2>i, <2>j DEF Next
<1> QED  BY <1>1, <1>2, TypeCorrect, TurnsAgree, Fences, PTL DEF Spec

(* What has ended stays as it ended: completed, failed and cancelled       *)
(* activities are never written again, whichever worker, steer, sweep or   *)
(* reset comes late.                                                       *)
THEOREM EndedStays == Spec => EndedForGood
<1>1. ASSUME TypeOK, TurnMatchesActivity, Fenced, [Next]_vars, NEW t \in Inputs,
             status[t] \in Ended
      PROVE  UNCHANGED <<status[t], version[t], turn[t], revision[t], answered[t]>>
  <2> DEFINE Same == UNCHANGED <<status[t], version[t], turn[t], revision[t], answered[t]>>
  <2> USE DEF intake, activity, times, history
  <2>0. CASE UNCHANGED <<status, version, turn, revision, answered>>  BY <2>0
  <2>1. status[t] \notin Active /\ status[t] # "absent" /\ turn[t] # "absent"
    BY <1>1 DEF Active, Claimable, Ended, TurnMatchesActivity
  <2>a. ASSUME NEW i \in Inputs, Observe(i) PROVE Same  BY <2>a, <2>0 DEF Observe
  <2>b. ASSUME NEW i \in Inputs, Accept(i) PROVE Same
    <3>1. CASE AcceptReplay(i) \/ RefuseSteer(i)  BY <3>1, <2>0 DEF AcceptReplay, RefuseSteer
    <3>2. CASE AcceptSteer(i)
      <4>1. PICK e \in Inputs : AcceptSteer(i)!3!(e)  BY <3>2 DEF AcceptSteer
      <4>2. e # t  BY <4>1, <2>1 DEF SteerTarget, Steerable, Active, Claimable
      <4>3. turn' = turn /\ answered' = answered  BY <3>2 DEF AcceptSteer
      <4> QED  BY <1>1, <4>1, <4>2, <4>3 DEF TypeOK
    <3>3. CASE OpenTurn(i)
      <4>1. i # t  BY <3>3, <2>1 DEF OpenTurn, Known
      <4> QED  BY <1>1, <3>3, <4>1 DEF OpenTurn, TypeOK
    <3> QED  BY <2>b, <3>1, <3>2, <3>3 DEF Accept
  <2>c. ASSUME NEW S \in SUBSET Inputs, ClaimActivities(S) PROVE Same
    <3>1. t \notin S  BY <2>c, <2>1 DEF ClaimActivities, Batch, ConversationHead, Active
    <3> QED  BY <2>c, <3>1 DEF ClaimActivities
  <2>d. CASE RecoverExpired
    <3>1. t \notin elapsed  BY <1>1 DEF Fenced, Ended
    <3> QED  BY <2>d, <3>1 DEF RecoverExpired
  <2>e. ASSUME NEW a \in Inputs, LeaseElapses(a) PROVE Same  BY <2>e, <2>0 DEF LeaseElapses
  <2>g. ASSUME NEW c \in held, Work(c) \/ FinalizationFails(c) PROVE Same
    <3>1. CASE ReadContext(c) \/ InferReturns(c)
      BY <3>1, <2>0 DEF ReadContext, InferReturns, Advance
    <3>2. ASSUME NEW target, NEW state, Settle(c, target, state),
                 answered' = answered \/ answered' = [answered EXCEPT ![c.turn] = c.seen]
          PROVE  Same
      <4>1. c.turn # t  BY <1>1, <3>2 DEF Settle, Owns, CurrentGeneration, Ended
      <4> QED  BY <1>1, <3>2, <4>1 DEF Settle, TypeOK
    <3>3. CASE CompleteActivity(c) \/ RetryActivity(c) \/ FailActivity(c)
      BY <3>2, <3>3 DEF CompleteActivity, RetryActivity, FailActivity
    <3>4. CASE StaleClaim(c) \/ FinalizationFails(c)
      BY <3>4, <2>0 DEF StaleClaim, FinalizationFails, Drop
    <3> QED  BY <2>g, <3>1, <3>3, <3>4 DEF Work
  <2>h. ASSUME NEW k \in Conversations, Reset(k) PROVE Same
    BY <2>h, <2>1 DEF Reset
  <2>i. CASE Crash  BY <2>i, <2>0 DEF Crash
  <2>j. CASE UNCHANGED vars  BY <2>j, <2>0 DEF vars
  <2> QED  BY <1>1, <2>a, <2>b, <2>c, <2>d, <2>e, <2>g, <2>h, <2>i, <2>j DEF Next
<1>2. TypeOK /\ TurnMatchesActivity /\ Fenced /\ [Next]_vars =>
        [\A t \in Inputs : status[t] \in Ended =>
           UNCHANGED <<status[t], version[t], turn[t], revision[t], answered[t]>>]_vars
  BY <1>1
<1> QED  BY <1>2, TypeCorrect, TurnsAgree, Fences, PTL DEF Spec, EndedForGood

(***************************************************************************)
(* The messages of a conversation                                          *)
(***************************************************************************)

(* Messages are in the log of their conversation and belong to turns that  *)
(* were opened; a turn has a reply only once it is settled.                *)
LogKept ==
  \A k \in Conversations : \A n \in DOMAIN log[k] :
    /\ ConversationOf[log[k][n].turn] = k
    /\ log[k][n].input # 0 => ConversationOf[log[k][n].input] = k
    /\ log[k][n].input = 0 => status[log[k][n].turn] \in {"completed", "failed"}
    /\ status[log[k][n].turn] # "absent"

(* No two messages of a conversation are the same. *)
Distinct ==
  \A k \in Conversations : \A a, b \in DOMAIN log[k] : log[k][a] = log[k][b] => a = b

(* The three things a step may do to the messages. *)
NoMessage ==
  /\ log' = log /\ revision' = revision
  /\ \A t \in Inputs : /\ status[t] = "absent" <=> status'[t] = "absent"
                       /\ status[t] \in {"completed", "failed"} => status'[t] = status[t]
                       /\ status'[t] \in Active => status[t] \in Active
                       /\ turn[t] = "absent" <=> turn'[t] = "absent"

InputStored(i, t) ==
  /\ AppendMessage(ConversationOf[i], [turn |-> t, input |-> i])
  /\ ~Known(i)
  /\ ConversationOf[t] = ConversationOf[i]
  /\ IF t = i THEN status[i] = "absent" ELSE status[t] \in {"processing", "steer_pending"}
  /\ \A a \in Inputs \ {t} : status'[a] = status[a] /\ turn'[a] = turn[a]
  /\ status'[t] \in {"pending", "steer_pending"} /\ turn'[t] = "waiting_inference"
  /\ revision' = IF t = i THEN revision ELSE [revision EXCEPT ![t] = @ + 1]

ReplyStored(t) ==
  /\ AppendMessage(ConversationOf[t], Reply(t))
  /\ status[t] = "processing" /\ turn[t] = "waiting_inference"
  /\ \A a \in Inputs \ {t} : status'[a] = status[a] /\ turn'[a] = turn[a]
  /\ status'[t] \in {"completed", "failed"} /\ turn'[t] = "waiting_delivery"
  /\ revision' = revision

(* A step stores an input with the turn it opens or steers, or the reply   *)
(* of a turn it settles, or nothing.                                       *)
LEMMA LogGrows ==
  ASSUME TypeOK, TurnMatchesActivity, Fenced, [Next]_vars
  PROVE  \/ NoMessage
         \/ \E i, t \in Inputs : InputStored(i, t)
         \/ \E t \in Inputs : ReplyStored(t)
<1> USE DEF intake, activity, times, history
<1>0. ASSUME UNCHANGED <<status, turn, log, revision>> PROVE NoMessage  BY <1>0 DEF NoMessage
<1>1. \A t \in Inputs : turn[t] = "absent" <=> status[t] = "absent"
  BY DEF TurnMatchesActivity, TypeOK, Statuses, Active, Claimable, Ended
<1>a. ASSUME NEW i \in Inputs, Observe(i) PROVE NoMessage  BY <1>a, <1>0 DEF Observe
<1>b. ASSUME NEW i \in Inputs, Accept(i) PROVE NoMessage \/ \E t \in Inputs : InputStored(i, t)
  <2>1. CASE AcceptReplay(i) \/ RefuseSteer(i)  BY <2>1, <1>0 DEF AcceptReplay, RefuseSteer
  <2>2. CASE AcceptSteer(i)
    <3>1. PICK t \in Inputs : AcceptSteer(i)!3!(t)  BY <2>2 DEF AcceptSteer
    <3>2. /\ ConversationOf[t] = ConversationOf[i] /\ turn[t] = "waiting_inference"
          /\ status[t] \in {"processing", "steer_pending"}
      BY <3>1 DEF SteerTarget, Steerable
    <3>3. ~Known(i) /\ turn' = turn /\ t # i  BY <2>2, <3>2 DEF AcceptSteer, Known
    <3>4. /\ status'[t] = "steer_pending"
          /\ \A a \in Inputs \ {t} : status'[a] = status[a]
      BY <3>1 DEF TypeOK
    <3>5. AppendMessage(ConversationOf[i], [turn |-> t, input |-> i])
      BY <3>1, <3>2
    <3>6. revision' = [revision EXCEPT ![t] = @ + 1]  BY <3>1
    <3> QED  BY <3>2, <3>3, <3>4, <3>5, <3>6 DEF InputStored
  <2>3. CASE OpenTurn(i)
    <3>1. status[i] = "absent" /\ ~Known(i)  BY <2>3, <1>1 DEF OpenTurn, Known
    <3>2. /\ status'[i] = "pending" /\ turn'[i] = "waiting_inference"
          /\ \A a \in Inputs \ {i} : status'[a] = status[a] /\ turn'[a] = turn[a]
      BY <2>3 DEF OpenTurn, TypeOK
    <3>3. AppendMessage(ConversationOf[i], [turn |-> i, input |-> i])  BY <2>3 DEF OpenTurn
    <3>4. revision' = revision  BY <2>3 DEF OpenTurn
    <3> QED  BY <3>1, <3>2, <3>3, <3>4 DEF InputStored
  <2> QED  BY <1>b, <2>1, <2>2, <2>3 DEF Accept
<1>c. ASSUME NEW S \in SUBSET Inputs, ClaimActivities(S) PROVE NoMessage
  <2>1. \A a \in S : status[a] \in Claimable
    BY <1>c DEF ClaimActivities, Batch, ConversationHead
  <2>2. \A a \in S : status[a] \notin {"completed", "failed", "absent"}
    BY <2>1 DEF Claimable
  <2>3. \A a \in S : turn[a] # "absent"  BY <2>2, <1>1
  <2> QED  BY <1>c, <2>1, <2>2, <2>3 DEF ClaimActivities, NoMessage, Active
<1>d. CASE RecoverExpired
  <2>1. \A a \in elapsed : status[a] = "processing" /\ turn[a] = "waiting_inference"
    BY <1>d DEF Fenced, RecoverExpired
  <2> QED  BY <1>d, <2>1 DEF RecoverExpired, NoMessage, Active
<1>e. ASSUME NEW a \in Inputs, LeaseElapses(a) PROVE NoMessage  BY <1>e, <1>0 DEF LeaseElapses
<1>g. ASSUME NEW c \in held, Work(c) \/ FinalizationFails(c)
      PROVE  NoMessage \/ ReplyStored(c.turn)
  <2>0. c.turn \in Inputs  BY DEF TypeOK, Claim
  <2>1. CASE ReadContext(c) \/ InferReturns(c)
    BY <2>1, <1>0 DEF ReadContext, InferReturns, Advance
  <2>2. ASSUME NEW target, NEW state, Settle(c, target, state)
        PROVE  /\ status[c.turn] = "processing" /\ turn[c.turn] = "waiting_inference"
               /\ \A a \in Inputs \ {c.turn} : status'[a] = status[a] /\ turn'[a] = turn[a]
               /\ status'[c.turn] = target /\ turn'[c.turn] = state
    BY <2>0, <2>2 DEF Settle, Owns, CurrentGeneration, TypeOK
  <2>3. CASE CompleteActivity(c)  BY <2>2, <2>3 DEF CompleteActivity, ReplyStored, Settle
  <2>4. CASE FailActivity(c)  BY <2>2, <2>4 DEF FailActivity, ReplyStored, Settle
  <2>5. CASE RetryActivity(c)
    <3>1. /\ Settle(c, "retry", "inference_retry_wait")
          /\ log' = log /\ revision' = revision
      BY <2>5 DEF RetryActivity, Settle
    <3> QED  BY <2>0, <2>2, <3>1 DEF NoMessage, Active
  <2>6. CASE StaleClaim(c) \/ FinalizationFails(c)
    BY <2>6, <1>0 DEF StaleClaim, FinalizationFails, Drop
  <2> QED  BY <1>g, <2>1, <2>3, <2>4, <2>5, <2>6 DEF Work
<1>h. ASSUME NEW k \in Conversations, Reset(k) PROVE NoMessage
  <2> DEFINE running == {a \in Inputs : ConversationOf[a] = k /\ status[a] \in Active}
  <2>1. /\ status' = [a \in Inputs |-> IF a \in running THEN "cancelled" ELSE status[a]]
        /\ turn' = [a \in Inputs |-> IF a \in running THEN "cancelled" ELSE turn[a]]
        /\ \A a \in running : turn[a] # "absent"
        /\ log' = log /\ revision' = revision
    BY <1>h DEF Reset
  <2>2. \A a \in running : status[a] \notin {"absent", "completed", "failed"}
    BY DEF Active, Claimable
  <2>3. "cancelled" \notin Active  BY DEF Active, Claimable
  <2> HIDE DEF running
  <2> QED  BY <2>1, <2>2, <2>3 DEF NoMessage
<1>i. CASE Crash  BY <1>i, <1>0 DEF Crash
<1>j. CASE UNCHANGED vars  BY <1>j, <1>0 DEF vars
<1>k. CASE \E c \in held : Work(c) \/ FinalizationFails(c)
  <2>1. \A c \in held : c.turn \in Inputs  BY DEF TypeOK, Claim
  <2> QED  BY <1>g, <1>k, <2>1
<1> QED  BY <1>a, <1>b, <1>c, <1>d, <1>e, <1>k, <1>h, <1>i, <1>j DEF Next

(* What appending a message to a conversation's log does. *)
LEMMA AppendFacts ==
  ASSUME TypeOK, NEW k \in Conversations, NEW m \in Message, AppendMessage(k, m)
  PROVE  /\ \A j \in Conversations \ {k} : log'[j] = log[j]
         /\ Len(log[k]) \in Nat /\ Len(log'[k]) = Len(log[k]) + 1
         /\ DOMAIN log[k] = 1 .. Len(log[k]) /\ DOMAIN log'[k] = 1 .. (Len(log[k]) + 1)
         /\ \A n \in DOMAIN log[k] : n \in DOMAIN log'[k] /\ log'[k][n] = log[k][n]
         /\ \A n \in DOMAIN log'[k] : n \in DOMAIN log[k] \/ n = Len(log[k]) + 1
         /\ log'[k][Len(log[k]) + 1] = m
         /\ Rows(k)' = Rows(k) \cup {m}
<1>1. log[k] \in Seq(Message) /\ log'[k] = Append(log[k], m)
  BY DEF TypeOK, AppendMessage
<1>2. /\ Len(log[k]) \in Nat /\ Len(log'[k]) = Len(log[k]) + 1
      /\ DOMAIN log[k] = 1 .. Len(log[k]) /\ DOMAIN log'[k] = 1 .. (Len(log[k]) + 1)
      /\ log'[k][Len(log[k]) + 1] = m
      /\ \A n \in 1 .. Len(log[k]) : log'[k][n] = log[k][n]
  BY <1>1
<1>3. \A n \in 1 .. (Len(log[k]) + 1) : n \in 1 .. Len(log[k]) \/ n = Len(log[k]) + 1
  BY <1>2
<1>4. \A j \in Conversations \ {k} : log'[j] = log[j]  BY DEF AppendMessage, TypeOK
<1>5. \A n \in 1 .. Len(log[k]) : n \in 1 .. (Len(log[k]) + 1)  BY <1>2
<1>6. Rows(k)' = Rows(k) \cup {m}
  <2>1. Len(log[k]) + 1 \in DOMAIN log'[k]  BY <1>2
  <2> QED  BY <1>2, <1>3, <1>5, <2>1 DEF Rows
<1> QED  BY <1>2, <1>3, <1>4, <1>5, <1>6

(* An input that is not known is nowhere in the messages. *)
LEMMA UnknownNotStored ==
  ASSUME TypeOK, TurnMatchesActivity, LogKept, NEW i \in Inputs, ~Known(i)
  PROVE  \A n \in DOMAIN log[ConversationOf[i]] : log[ConversationOf[i]][n].input # i
<1> TAKE n \in DOMAIN log[ConversationOf[i]]
<1> DEFINE m == log[ConversationOf[i]][n]
<1>1. ConversationOf[i] \in Conversations  BY InputAssumption
<1>2. log[ConversationOf[i]] \in Seq(Message)  BY <1>1 DEF TypeOK
<1>3. m \in Rows(ConversationOf[i]) /\ m.turn \in Inputs /\ status[m.turn] # "absent"
  <2>1. m \in Message  BY <1>2
  <2>2. m.turn \in Inputs  BY <2>1 DEF Message
  <2>3. m \in Rows(ConversationOf[i]) /\ status[m.turn] # "absent"
    BY <1>1 DEF Rows, LogKept
  <2> QED  BY <2>2, <2>3
<1>4. turn[m.turn] # "absent"
  BY <1>3 DEF TurnMatchesActivity, TypeOK, Statuses, Active, Claimable, Ended
<1> QED  BY <1>3, <1>4 DEF Known, Steered

LEMMA LogIsKept == Spec => []LogKept
<1>1. Init => LogKept  BY DEF Init, LogKept
<1>2. TypeOK /\ TurnMatchesActivity /\ Fenced /\ LogKept /\ [Next]_vars => LogKept'
  <2> SUFFICES ASSUME TypeOK, TurnMatchesActivity, Fenced, LogKept, [Next]_vars PROVE LogKept'
    OBVIOUS
  <2>m. \A k \in Conversations : \A n \in DOMAIN log[k] : log[k][n] \in Message
    BY DEF TypeOK
  <2>t. \A m \in Message : m.turn \in Inputs  BY DEF Message
  <2>c. \A i \in Inputs : i # 0 /\ ConversationOf[i] \in Conversations
    BY InputAssumption DEF Inputs
  <2>1. CASE NoMessage
    BY <2>1, <2>m, <2>t DEF NoMessage, LogKept
  <2>2. ASSUME NEW i \in Inputs, NEW t \in Inputs, InputStored(i, t) PROVE LogKept'
    <3> DEFINE k0 == ConversationOf[i]   m0 == [turn |-> t, input |-> i]
    <3>1. m0 \in Message /\ k0 \in Conversations /\ m0.turn = t /\ m0.input = i
      BY <2>c DEF Message, Inputs
    <3>2. /\ AppendMessage(k0, m0) /\ ConversationOf[t] = k0
          /\ status'[t] \notin {"absent", "completed", "failed"}
          /\ status[t] \notin {"completed", "failed"}
          /\ \A a \in Inputs \ {t} : status'[a] = status[a]
      BY <2>2 DEF InputStored
    <3> HIDE DEF k0, m0
    <3> SUFFICES ASSUME NEW k \in Conversations, NEW n \in DOMAIN log'[k]
                 PROVE  /\ ConversationOf[log'[k][n].turn] = k
                        /\ log'[k][n].input # 0 => ConversationOf[log'[k][n].input] = k
                        /\ log'[k][n].input = 0 => status'[log'[k][n].turn] \in {"completed", "failed"}
                        /\ status'[log'[k][n].turn] # "absent"
      BY DEF LogKept
    <3>3. CASE n \in DOMAIN log[k] /\ log'[k][n] = log[k][n]
      BY <3>2, <3>3, <2>m, <2>t DEF LogKept
    <3>4. CASE k = k0 /\ log'[k][n] = m0
      BY <3>1, <3>2, <3>4, <2>c DEF k0
    <3> QED  BY <3>1, <3>2, <3>3, <3>4, AppendFacts
  <2>3. ASSUME NEW t \in Inputs, ReplyStored(t) PROVE LogKept'
    <3> DEFINE k0 == ConversationOf[t]   m0 == Reply(t)
    <3>1. m0 \in Message /\ k0 \in Conversations /\ m0.turn = t /\ m0.input = 0
      BY <2>c, InputAssumption DEF Message, Reply
    <3>2. /\ AppendMessage(k0, m0)
          /\ status'[t] \in {"completed", "failed"}
          /\ \A a \in Inputs \ {t} : status'[a] = status[a]
      BY <2>3 DEF ReplyStored
    <3>k. k0 = ConversationOf[t]  OBVIOUS
    <3> HIDE DEF k0, m0
    <3> SUFFICES ASSUME NEW k \in Conversations, NEW n \in DOMAIN log'[k]
                 PROVE  /\ ConversationOf[log'[k][n].turn] = k
                        /\ log'[k][n].input # 0 => ConversationOf[log'[k][n].input] = k
                        /\ log'[k][n].input = 0 => status'[log'[k][n].turn] \in {"completed", "failed"}
                        /\ status'[log'[k][n].turn] # "absent"
      BY DEF LogKept
    <3>3. CASE n \in DOMAIN log[k] /\ log'[k][n] = log[k][n]
      BY <3>2, <3>3, <2>m, <2>t DEF LogKept
    <3>4. CASE k = k0 /\ log'[k][n] = m0  BY <3>1, <3>2, <3>4, <3>k
    <3> QED  BY <3>1, <3>2, <3>3, <3>4, AppendFacts
  <2> QED  BY <2>1, <2>2, <2>3, LogGrows
<1> QED  BY <1>1, <1>2, TypeCorrect, TurnsAgree, Fences, PTL DEF Spec

(* However often an input is routed, it is stored once, with the turn it   *)
(* opened or with the one it steered.                                      *)
THEOREM OnceStored == Spec => []StoredOnce
<1>1. Init => StoredOnce  BY DEF Init, StoredOnce
<1>2. TypeOK /\ TurnMatchesActivity /\ Fenced /\ LogKept /\ StoredOnce /\ [Next]_vars => StoredOnce'
  <2> SUFFICES ASSUME TypeOK, TurnMatchesActivity, Fenced, LogKept, StoredOnce, [Next]_vars
               PROVE  StoredOnce'
    OBVIOUS
  <2>c. \A i \in Inputs : i # 0 /\ ConversationOf[i] \in Conversations
    BY InputAssumption DEF Inputs
  <2>1. CASE NoMessage  BY <2>1 DEF NoMessage, StoredOnce
  <2>g. ASSUME NEW k0 \in Conversations, NEW m0 \in Message, AppendMessage(k0, m0),
               m0.input # 0 => \A n \in DOMAIN log[k0] : log[k0][n].input # m0.input,
               \A i \in Inputs : turn[i] # "absent" \/ (m0 = [turn |-> i, input |-> i] /\ ConversationOf[i] = k0)
                                \/ turn'[i] = "absent"
        PROVE  StoredOnce'
    <3> SUFFICES ASSUME NEW k \in Conversations
                 PROVE  /\ \A a, b \in DOMAIN log'[k] :
                             (log'[k][a].input = log'[k][b].input /\ log'[k][a].input # 0) => a = b
                        /\ \A i \in Inputs :
                             (turn'[i] # "absent" /\ ConversationOf[i] = k)
                               => \E n \in DOMAIN log'[k] : log'[k][n] = [turn |-> i, input |-> i]
      BY DEF StoredOnce
    <3>1. CASE k # k0
      <4>1. log'[k] = log[k]  BY <2>g, <3>1, AppendFacts
      <4> QED  BY <2>g, <3>1, <4>1 DEF StoredOnce
    <3>2. CASE k = k0
      <4> DEFINE L == Len(log[k0]) + 1
      <4>1. /\ \A n \in DOMAIN log'[k0] : n \in DOMAIN log[k0] \/ n = L
            /\ \A n \in DOMAIN log[k0] : n \in DOMAIN log'[k0] /\ log'[k0][n] = log[k0][n]
            /\ log'[k0][L] = m0 /\ L \in DOMAIN log'[k0]
        BY <2>g, AppendFacts
      <4> HIDE DEF L
      <4>2. \A a, b \in DOMAIN log'[k0] :
              (log'[k0][a].input = log'[k0][b].input /\ log'[k0][a].input # 0) => a = b
        BY <2>g, <4>1 DEF StoredOnce
      <4>3. \A i \in Inputs :
              (turn'[i] # "absent" /\ ConversationOf[i] = k0)
                => \E n \in DOMAIN log'[k0] : log'[k0][n] = [turn |-> i, input |-> i]
        BY <2>g, <4>1 DEF StoredOnce
      <4> QED  BY <3>2, <4>2, <4>3
    <3> QED  BY <3>1, <3>2
  <2>2. ASSUME NEW i \in Inputs, NEW t \in Inputs, InputStored(i, t) PROVE StoredOnce'
    <3>1. /\ [turn |-> t, input |-> i] \in Message
          /\ ConversationOf[i] \in Conversations /\ ConversationOf[t] = ConversationOf[i]
      BY <2>2, <2>c DEF Message, Inputs, InputStored
    <3>2. \A n \in DOMAIN log[ConversationOf[i]] : log[ConversationOf[i]][n].input # i
      BY <2>2, UnknownNotStored DEF InputStored
    <3>3. \A a \in Inputs : turn[a] # "absent" \/ a = t \/ turn'[a] = "absent"
      BY <2>2 DEF InputStored
    <3>4. t = i \/ turn[t] # "absent"
      BY <2>2 DEF InputStored, TurnMatchesActivity
    <3> QED  BY <2>2, <3>1, <3>2, <3>3, <3>4, <2>g DEF InputStored
  <2>3. ASSUME NEW t \in Inputs, ReplyStored(t) PROVE StoredOnce'
    <3>1. Reply(t) \in Message /\ Reply(t).input = 0 /\ ConversationOf[t] \in Conversations
      BY <2>c, InputAssumption DEF Message, Reply
    <3>2. \A a \in Inputs : turn[a] # "absent" \/ turn'[a] = "absent"
      BY <2>3 DEF ReplyStored
    <3> QED  BY <2>3, <3>1, <3>2, <2>g DEF ReplyStored
  <2> QED  BY <2>1, <2>2, <2>3, LogGrows
<1> QED  BY <1>1, <1>2, TypeCorrect, TurnsAgree, Fences, LogIsKept, PTL DEF Spec

LEMMA LogIsDistinct == Spec => []Distinct
<1>1. Init => Distinct  BY DEF Init, Distinct
<1>2. TypeOK /\ TurnMatchesActivity /\ Fenced /\ LogKept /\ Distinct /\ [Next]_vars => Distinct'
  <2> SUFFICES ASSUME TypeOK, TurnMatchesActivity, Fenced, LogKept, Distinct, [Next]_vars
               PROVE  Distinct'
    OBVIOUS
  <2>c. \A i \in Inputs : i # 0 /\ ConversationOf[i] \in Conversations
    BY InputAssumption DEF Inputs
  <2>1. CASE NoMessage  BY <2>1 DEF NoMessage, Distinct
  <2>g. ASSUME NEW k0 \in Conversations, NEW m0 \in Message, AppendMessage(k0, m0),
               \A n \in DOMAIN log[k0] : log[k0][n] # m0
        PROVE  Distinct'
    <3> SUFFICES ASSUME NEW k \in Conversations
                 PROVE  \A a, b \in DOMAIN log'[k] : log'[k][a] = log'[k][b] => a = b
      BY DEF Distinct
    <3>1. CASE k # k0
      <4>1. log'[k] = log[k]  BY <2>g, <3>1, AppendFacts
      <4> QED  BY <4>1 DEF Distinct
    <3>2. CASE k = k0
      <4> DEFINE L == Len(log[k0]) + 1
      <4>1. /\ \A n \in DOMAIN log'[k0] : n \in DOMAIN log[k0] \/ n = L
            /\ \A n \in DOMAIN log[k0] : log'[k0][n] = log[k0][n]
            /\ log'[k0][L] = m0
        BY <2>g, AppendFacts
      <4> HIDE DEF L
      <4> QED  BY <2>g, <3>2, <4>1 DEF Distinct
    <3> QED  BY <3>1, <3>2
  <2>2. ASSUME NEW i \in Inputs, NEW t \in Inputs, InputStored(i, t) PROVE Distinct'
    <3>1. [turn |-> t, input |-> i] \in Message /\ ConversationOf[i] \in Conversations
      BY <2>c DEF Message, Inputs
    <3>2. \A n \in DOMAIN log[ConversationOf[i]] : log[ConversationOf[i]][n].input # i
      BY <2>2, UnknownNotStored DEF InputStored
    <3> QED  BY <2>2, <3>1, <3>2, <2>g DEF InputStored
  <2>3. ASSUME NEW t \in Inputs, ReplyStored(t) PROVE Distinct'
    <3>1. /\ Reply(t) \in Message /\ Reply(t).input = 0 /\ Reply(t).turn = t
          /\ ConversationOf[t] \in Conversations
      BY <2>c, InputAssumption DEF Message, Reply
    <3>2. \A n \in DOMAIN log[ConversationOf[t]] : log[ConversationOf[t]][n] # Reply(t)
      BY <2>3, <3>1 DEF ReplyStored, LogKept
    <3> QED  BY <2>3, <3>1, <3>2, <2>g DEF ReplyStored
  <2> QED  BY <2>1, <2>2, <2>3, LogGrows
<1> QED  BY <1>1, <1>2, TypeCorrect, TurnsAgree, Fences, LogIsKept, PTL DEF Spec

(***************************************************************************)
(* The inputs of a turn                                                    *)
(***************************************************************************)
InputsOf(t) == UserRows(t, Rows(ConversationOf[t]))

(* A steer adds one input to one turn, a new turn starts with one, and no  *)
(* other step changes the inputs of any turn.                              *)
LEMMA InputsGrow ==
  ASSUME TypeOK, TurnMatchesActivity, Fenced, LogKept, [Next]_vars
  PROVE  \/ NoMessage /\ \A t \in Inputs : InputsOf(t)' = InputsOf(t)
         \/ \E i, t \in Inputs :
              /\ InputStored(i, t)
              /\ [turn |-> t, input |-> i] \notin InputsOf(t)
              /\ InputsOf(t)' = InputsOf(t) \cup {[turn |-> t, input |-> i]}
              /\ \A a \in Inputs \ {t} : InputsOf(a)' = InputsOf(a)
         \/ \E t \in Inputs : ReplyStored(t) /\ \A a \in Inputs : InputsOf(a)' = InputsOf(a)
<1>c. \A i \in Inputs : i # 0 /\ ConversationOf[i] \in Conversations
  BY InputAssumption DEF Inputs
<1>1. ASSUME NEW k \in Conversations, log' = log PROVE Rows(k)' = Rows(k)  BY <1>1 DEF Rows
<1>2. CASE NoMessage  BY <1>2, <1>1, <1>c DEF NoMessage, InputsOf, UserRows
<1>g. ASSUME NEW k0 \in Conversations, NEW m0 \in Message, AppendMessage(k0, m0)
      PROVE  /\ Rows(k0)' = Rows(k0) \cup {m0}
             /\ \A k \in Conversations \ {k0} : Rows(k)' = Rows(k)
  BY <1>g, AppendFacts DEF Rows
<1>3. ASSUME NEW i \in Inputs, NEW t \in Inputs, InputStored(i, t)
      PROVE  /\ [turn |-> t, input |-> i] \notin InputsOf(t)
             /\ InputsOf(t)' = InputsOf(t) \cup {[turn |-> t, input |-> i]}
             /\ \A a \in Inputs \ {t} : InputsOf(a)' = InputsOf(a)
  <2> DEFINE k0 == ConversationOf[i]   m0 == [turn |-> t, input |-> i]
  <2>1. /\ m0 \in Message /\ k0 \in Conversations /\ m0.turn = t /\ m0.input = i /\ m0.input # 0
    BY <1>c DEF Message, Inputs
  <2>2. \A n \in DOMAIN log[k0] : log[k0][n].input # i  BY <1>3, UnknownNotStored DEF InputStored
  <2>3. ConversationOf[t] = k0 /\ AppendMessage(k0, m0)  BY <1>3 DEF InputStored
  <2>4. m0 \notin Rows(k0)  BY <2>1, <2>2 DEF Rows
  <2> HIDE DEF k0, m0
  <2>5. /\ Rows(k0)' = Rows(k0) \cup {m0}
        /\ \A k \in Conversations \ {k0} : Rows(k)' = Rows(k)
    BY <2>1, <2>3, <1>g
  <2>6. m0 \notin InputsOf(t)  BY <2>3, <2>4 DEF InputsOf, UserRows
  <2>7. InputsOf(t)' = InputsOf(t) \cup {m0}  BY <2>1, <2>3, <2>5 DEF InputsOf, UserRows
  <2>8. \A a \in Inputs \ {t} : InputsOf(a)' = InputsOf(a)
    BY <2>1, <2>5, <1>c DEF InputsOf, UserRows
  <2> QED  BY <2>6, <2>7, <2>8 DEF m0
<1>4. ASSUME NEW t \in Inputs, ReplyStored(t) PROVE \A a \in Inputs : InputsOf(a)' = InputsOf(a)
  <2>1. /\ Reply(t) \in Message /\ Reply(t).input = 0 /\ ConversationOf[t] \in Conversations
    BY <1>c, InputAssumption DEF Message, Reply
  <2>2. /\ Rows(ConversationOf[t])' = Rows(ConversationOf[t]) \cup {Reply(t)}
        /\ \A k \in Conversations \ {ConversationOf[t]} : Rows(k)' = Rows(k)
    BY <1>4, <2>1, <1>g DEF ReplyStored
  <2> QED  BY <2>1, <2>2, <1>c DEF InputsOf, UserRows
<1> QED  BY <1>2, <1>3, <1>4, LogGrows

(* The input revision of an activity counts the steers of its turn. *)
Counted ==
  \A t \in Inputs :
    /\ IsFiniteSet(InputsOf(t))
    /\ status[t] = "absent" => revision[t] = 0 /\ InputsOf(t) = {}
    /\ status[t] # "absent" => Cardinality(InputsOf(t)) = revision[t] + 1

LEMMA RevisionsCount == Spec => []Counted
<1>1. Init => Counted
  <2> HAVE Init
  <2>1. \A t \in Inputs : InputsOf(t) = {}
    BY InputAssumption DEF Init, InputsOf, UserRows, Rows
  <2> QED  BY <2>1, FS_EmptySet DEF Init, Counted
<1>2. TypeOK /\ TurnMatchesActivity /\ Fenced /\ LogKept /\ Counted /\ [Next]_vars => Counted'
  <2> SUFFICES ASSUME TypeOK, TurnMatchesActivity, Fenced, LogKept, Counted, [Next]_vars,
                      NEW a \in Inputs
               PROVE  /\ IsFiniteSet(InputsOf(a)')
                      /\ status'[a] = "absent" => revision'[a] = 0 /\ InputsOf(a)' = {}
                      /\ status'[a] # "absent" => Cardinality(InputsOf(a)') = revision'[a] + 1
    BY DEF Counted
  <2>1. CASE NoMessage /\ InputsOf(a)' = InputsOf(a)
    <3>1. status'[a] # "absent" <=> status[a] # "absent"
      BY <2>1 DEF NoMessage
    <3> QED  BY <2>1, <3>1 DEF NoMessage, Counted
  <2>2. ASSUME NEW i \in Inputs, NEW t \in Inputs, InputStored(i, t),
               [turn |-> t, input |-> i] \notin InputsOf(t),
               InputsOf(t)' = InputsOf(t) \cup {[turn |-> t, input |-> i]}, a = t
        PROVE  /\ IsFiniteSet(InputsOf(a)')
               /\ status'[a] # "absent" /\ Cardinality(InputsOf(a)') = revision'[a] + 1
    <3>1. /\ IsFiniteSet(InputsOf(t)')
          /\ Cardinality(InputsOf(t)') = Cardinality(InputsOf(t)) + 1
      <4>1. IsFiniteSet(InputsOf(t))  BY DEF Counted
      <4> QED  BY <2>2, <4>1, FS_AddElement
    <3>2. CASE t = i
      <4>1. Cardinality(InputsOf(t)) = 0 /\ revision'[t] = 0
        BY <2>2, <3>2, FS_EmptySet DEF Counted, InputStored
      <4> QED  BY <2>2, <3>1, <4>1 DEF InputStored
    <3>3. CASE t # i
      <4>1. revision'[t] = revision[t] + 1  BY <2>2, <3>3 DEF InputStored, TypeOK
      <4>2. Cardinality(InputsOf(t)) = revision[t] + 1  BY <2>2, <3>3 DEF InputStored, Counted
      <4> QED  BY <2>2, <3>1, <4>1, <4>2 DEF InputStored
    <3> QED  BY <3>2, <3>3
  <2>3. ASSUME NEW i \in Inputs, NEW t \in Inputs, InputStored(i, t), a # t,
               InputsOf(a)' = InputsOf(a)
        PROVE  /\ IsFiniteSet(InputsOf(a)') /\ revision'[a] = revision[a]
               /\ status'[a] = status[a]
    BY <2>3 DEF InputStored, Counted, TypeOK
  <2>4. ASSUME NEW t \in Inputs, ReplyStored(t), InputsOf(a)' = InputsOf(a)
        PROVE  /\ IsFiniteSet(InputsOf(a)') /\ revision'[a] = revision[a]
               /\ status'[a] = "absent" <=> status[a] = "absent"
    BY <2>4 DEF ReplyStored, Counted
  <2>5. CASE /\ IsFiniteSet(InputsOf(a)') /\ revision'[a] = revision[a]
             /\ status'[a] = "absent" <=> status[a] = "absent"
             /\ InputsOf(a)' = InputsOf(a)
    BY <2>5 DEF Counted
  <2> QED  BY <2>1, <2>2, <2>3, <2>4, <2>5, InputsGrow
<1> QED  BY <1>1, <1>2, TypeCorrect, TurnsAgree, Fences, LogIsKept, PTL DEF Spec

(***************************************************************************)
(* What the workers have read                                              *)
(***************************************************************************)

(* A reset closes off what precedes it, and leaves no turn active.         *)
Floored ==
  \A k \in Conversations : \A f \in floors[k] :
    /\ f <= Len(log[k])
    /\ \A t \in Inputs :
         (ConversationOf[t] = k /\ status[t] \in Active) => \A r \in TurnRows(t) : f < r

LEMMA ResetsClose == Spec => []Floored
<1>1. Init => Floored  BY DEF Init, Floored
<1>2. TypeOK /\ TurnMatchesActivity /\ Fenced /\ LogKept /\ Floored /\ [Next]_vars => Floored'
  <2> SUFFICES ASSUME TypeOK, TurnMatchesActivity, Fenced, LogKept, Floored, [Next]_vars
               PROVE  Floored'
    OBVIOUS
  <2>c. \A i \in Inputs : i # 0 /\ ConversationOf[i] \in Conversations
    BY InputAssumption DEF Inputs
  <2>l. \A k \in Conversations : /\ log[k] \in Seq(Message) /\ Len(log[k]) \in Nat
                                 /\ DOMAIN log[k] = 1 .. Len(log[k])
                                 /\ \A f \in floors[k] : f \in Nat
    BY DEF TypeOK
  <2>a. ASSUME floors' = floors, NoMessage PROVE Floored'
    BY <2>a, <2>c DEF NoMessage, Floored, TurnRows
  <2>b. ASSUME floors' = floors, NEW k0 \in Conversations, NEW m0 \in Message,
               AppendMessage(k0, m0),
               \A t \in Inputs : \/ status'[t] \in Active => status[t] \in Active
                                 \/ ConversationOf[t] = k0 /\ TurnRows(t) = {}
        PROVE  Floored'
    <3> SUFFICES ASSUME NEW k \in Conversations, NEW f \in floors[k]
                 PROVE  /\ f <= Len(log'[k])
                        /\ \A t \in Inputs :
                             (ConversationOf[t] = k /\ status'[t] \in Active)
                               => \A r \in TurnRows(t)' : f < r
      BY <2>b DEF Floored
    <3>1. CASE k # k0
      <4>1. log'[k] = log[k]  BY <2>b, <3>1, AppendFacts
      <4>2. \A t \in Inputs : ConversationOf[t] = k => TurnRows(t)' = TurnRows(t)
        BY <4>1 DEF TurnRows
      <4> QED  BY <2>b, <3>1, <4>1, <4>2 DEF Floored
    <3>2. CASE k = k0
      <4>1. /\ Len(log'[k]) = Len(log[k]) + 1
            /\ \A n \in DOMAIN log'[k] : n \in DOMAIN log[k] \/ n = Len(log[k]) + 1
            /\ \A n \in DOMAIN log[k] : log'[k][n] = log[k][n]
        BY <2>b, <3>2, AppendFacts
      <4>2. f \in Nat /\ f <= Len(log[k]) /\ f < Len(log[k]) + 1
        BY <2>l DEF Floored
      <4>3. ASSUME NEW t \in Inputs, ConversationOf[t] = k, status'[t] \in Active,
                   NEW r \in TurnRows(t)'
            PROVE  f < r
        <5>1. r \in TurnRows(t) \/ r = Len(log[k]) + 1  BY <4>1, <4>3 DEF TurnRows
        <5>2. CASE r = Len(log[k]) + 1  BY <4>2, <5>2
        <5>3. CASE r \in TurnRows(t)
          <6>1. status[t] \in Active  BY <2>b, <4>3, <5>3
          <6> QED  BY <4>3, <5>3, <6>1 DEF Floored
        <5> QED  BY <5>1, <5>2, <5>3
      <4>4. f <= Len(log'[k])  BY <4>1, <4>2, <2>l
      <4> QED  BY <4>3, <4>4
    <3> QED  BY <3>1, <3>2
  <2>1. ASSUME floors' = floors PROVE Floored'
    <3>1. ASSUME NEW i \in Inputs, NEW t \in Inputs, InputStored(i, t) PROVE Floored'
      <4>1. [turn |-> t, input |-> i] \in Message  BY <2>c DEF Message, Inputs
      <4>2. \A a \in Inputs \ {t} : status'[a] = status[a]  BY <3>1 DEF InputStored
      <4>5. /\ ConversationOf[i] \in Conversations
            /\ AppendMessage(ConversationOf[i], [turn |-> t, input |-> i])
        BY <3>1, <2>c DEF InputStored
      <4>3. CASE t = i
        <5>1. status[i] = "absent"  BY <3>1, <4>3 DEF InputStored
        <5>2. TurnRows(i) = {}
          BY <5>1, <2>c DEF TurnRows, LogKept
        <5>3. \A a \in Inputs : \/ status'[a] \in Active => status[a] \in Active
                                \/ ConversationOf[a] = ConversationOf[i] /\ TurnRows(a) = {}
          BY <4>2, <4>3, <5>2
        <5> QED  BY <2>1, <4>1, <4>5, <5>3, <2>b
      <4>4. CASE t # i
        <5>1. status[t] \in Active  BY <3>1, <4>4 DEF InputStored, Active, Claimable
        <5>2. \A a \in Inputs : status'[a] \in Active => status[a] \in Active  BY <4>2, <5>1
        <5> QED  BY <2>1, <4>1, <4>5, <5>2, <2>b
      <4> QED  BY <4>3, <4>4
    <3>2. ASSUME NEW t \in Inputs, ReplyStored(t) PROVE Floored'
      <4>1. Reply(t) \in Message  BY InputAssumption DEF Message, Reply, Inputs
      <4>2. \A a \in Inputs : status'[a] \in Active => status[a] \in Active
        BY <3>2 DEF ReplyStored, Active
      <4>3. ConversationOf[t] \in Conversations /\ AppendMessage(ConversationOf[t], Reply(t))
        BY <3>2, <2>c DEF ReplyStored
      <4> QED  BY <2>1, <4>1, <4>2, <4>3, <2>b
    <3> QED  BY <2>1, <2>a, <3>1, <3>2, LogGrows
  <2>2. ASSUME NEW k0 \in Conversations, Reset(k0) PROVE Floored'
    <3>1. /\ log' = log
          /\ floors' = [floors EXCEPT ![k0] = @ \cup {Len(log[k0])}]
          /\ \A t \in Inputs : /\ status'[t] \in Active => status[t] \in Active
                               /\ ConversationOf[t] = k0 => status'[t] \notin Active
      BY <2>2 DEF Reset, Active, Claimable, history
    <3> SUFFICES ASSUME NEW k \in Conversations, NEW f \in floors'[k]
                 PROVE  /\ f <= Len(log[k])
                        /\ \A t \in Inputs :
                             (ConversationOf[t] = k /\ status'[t] \in Active)
                               => \A r \in TurnRows(t) : f < r
      BY <3>1 DEF Floored, TurnRows
    <3>2. CASE f \in floors[k]
      BY <3>1, <3>2 DEF Floored
    <3>3. CASE k = k0 /\ f = Len(log[k0])
      BY <3>1, <3>3, <2>l
    <3>4. f \in floors[k] \/ (k = k0 /\ f = Len(log[k0]))  BY <3>1 DEF TypeOK
    <3> QED  BY <3>2, <3>3, <3>4
  <2>3. floors' = floors \/ \E k \in Conversations : Reset(k)
    BY DEF Next, vars, intake, history, Observe, Accept, AcceptReplay, AcceptSteer, RefuseSteer,
       OpenTurn, ClaimActivities, RecoverExpired, LeaseElapses, Work, ReadContext, InferReturns,
       Advance, CompleteActivity, RetryActivity, FailActivity, Settle, StaleClaim, Drop,
       FinalizationFails, Crash
  <2> QED  BY <2>1, <2>2, <2>3
<1> QED  BY <1>1, <1>2, TypeCorrect, TurnsAgree, Fences, LogIsKept, PTL DEF Spec

(* The context of a turn has all of the turn's inputs, and of an active    *)
(* turn nothing that a reset has closed off.                               *)
LEMMA ContextFacts ==
  ASSUME TypeOK, Distinct, Floored, NEW t \in Inputs
  PROVE  /\ UserRows(t, Context(t)) = InputsOf(t)
         /\ status[t] \in Active =>
              \A f \in floors[ConversationOf[t]] : \A n \in 1 .. f :
                log[ConversationOf[t]][n] \notin Context(t)
<1> DEFINE k == ConversationOf[t]
<1>0. k \in Conversations  BY InputAssumption
<1>1. /\ log[k] \in Seq(Message) /\ Len(log[k]) \in Nat /\ DOMAIN log[k] = 1 .. Len(log[k])
      /\ \A f \in floors[k] : f \in Nat
  BY <1>0 DEF TypeOK
<1>2. TurnRows(t) \subseteq DOMAIN log[k] /\ \A n \in DOMAIN log[k] : n \in Nat
  BY <1>1 DEF TurnRows
<1>3. \A n \in TurnRows(t) : log[k][n] \in Context(t)
  <2> TAKE n \in TurnRows(t)
  <2>1. AboveFloor(t, n)  BY DEF AboveFloor
  <2>2. n <= n  BY <1>2
  <2> QED  BY <1>2, <2>1, <2>2 DEF Context
<1>4. UserRows(t, Context(t)) = InputsOf(t)
  <2>1. Context(t) \subseteq Rows(k)  BY ContextInLog
  <2>2. \A m \in InputsOf(t) : m \in Context(t)
    BY <1>3 DEF InputsOf, UserRows, Rows, TurnRows
  <2> QED  BY <2>1, <2>2 DEF InputsOf, UserRows
<1>5. ASSUME status[t] \in Active, NEW f \in floors[k], NEW n \in 1 .. f
      PROVE  log[k][n] \notin Context(t)
  <2>1. \A r \in TurnRows(t) : f < r  BY <1>0, <1>5 DEF Floored
  <2>2. f \in Nat /\ f <= Len(log[k])  BY <1>0, <1>1 DEF Floored
  <2>3. n \in DOMAIN log[k] /\ n <= f  BY <1>1, <2>2
  <2> SUFFICES ASSUME NEW j \in DOMAIN log[k], AboveFloor(t, j), log[k][n] = log[k][j]
               PROVE  FALSE
    BY DEF Context
  <2>4. f < j  BY <2>1 DEF AboveFloor
  <2>5. n = j  BY <1>0, <2>3 DEF Distinct
  <2> QED  BY <1>2, <2>2, <2>3, <2>4, <2>5
<1> QED  BY <1>4, <1>5

(* What a worker has read is, as long as its claim is current, all of the  *)
(* turn's inputs; a mismatch was found by a claim that is not; and nothing *)
(* a reset has closed off is in what was read for an active turn.          *)
ReadWell(c) ==
  /\ (c.stage \in {"inferring", "succeeded"} /\ c.revision = revision[c.turn])
       => UserRows(c.turn, c.seen) = InputsOf(c.turn)
  /\ c.stage = "mismatch" => c.revision # revision[c.turn]
  /\ (c.stage \in {"inferring", "succeeded"} /\ status[c.turn] \in Active)
       => \A f \in floors[ConversationOf[c.turn]] : \A n \in 1 .. f :
            log[ConversationOf[c.turn]][n] \notin c.seen

Read == \A c \in held : ReadWell(c)

(* Where the claims of the next state come from. *)
LEMMA ClaimSteps ==
  ASSUME TypeOK, [Next]_vars, NEW d \in held'
  PROVE  \/ d \in held
         \/ d.stage \in {"claimed", "dependency", "retryable", "permanent"}
         \/ /\ UNCHANGED <<status, revision, log, floors>>
            /\ \E c \in held :
                 /\ d.turn = c.turn /\ d.revision = c.revision
                 /\ \/ d.stage = "inferring" /\ d.seen = Context(c.turn)
                    \/ d.stage = "mismatch" /\ Cardinality(UserRows(c.turn, Context(c.turn))) # c.revision + 1
                    \/ c.stage = "inferring" /\ d.stage = "succeeded" /\ d.seen = c.seen
<1> USE DEF intake, activity, times, history
<1>c. \A c \in held : c \in Claim  BY DEF TypeOK
<1>1. ASSUME NEW S \in SUBSET Inputs, ClaimActivities(S)
      PROVE  d \in held \/ d.stage = "claimed"
  BY <1>1 DEF ClaimActivities, NewClaim
<1>2. ASSUME NEW c \in held, ReadContext(c)
      PROVE  \/ d \in held
             \/ d.stage = "dependency"
             \/ /\ UNCHANGED <<status, revision, log, floors>>
                /\ d.turn = c.turn /\ d.revision = c.revision
                /\ \/ d.stage = "inferring" /\ d.seen = Context(c.turn)
                   \/ d.stage = "mismatch" /\ Cardinality(UserRows(c.turn, Context(c.turn))) # c.revision + 1
  <2> DEFINE read == [c EXCEPT !.stage = "inferring", !.seen = Context(c.turn)]
             bad  == [c EXCEPT !.stage = "mismatch"]
             wait == [c EXCEPT !.stage = "dependency"]
  <2>1. /\ read.turn = c.turn /\ read.revision = c.revision
        /\ read.stage = "inferring" /\ read.seen = Context(c.turn)
        /\ bad.turn = c.turn /\ bad.revision = c.revision /\ bad.stage = "mismatch"
        /\ wait.stage = "dependency"
    BY <1>c DEF Claim
  <2>2. \/ Advance(c, read)
        \/ Cardinality(UserRows(c.turn, Context(c.turn))) # c.revision + 1 /\ Advance(c, bad)
        \/ Advance(c, wait)
    BY <1>2 DEF ReadContext
  <2> HIDE DEF read, bad, wait
  <2> QED  BY <2>1, <2>2 DEF Advance
<1>3. ASSUME NEW c \in held, InferReturns(c)
      PROVE  \/ d \in held
             \/ d.stage \in {"retryable", "permanent"}
             \/ /\ UNCHANGED <<status, revision, log, floors>>
                /\ d.turn = c.turn /\ d.revision = c.revision
                /\ c.stage = "inferring" /\ d.stage = "succeeded" /\ d.seen = c.seen
  <2> DEFINE done == [c EXCEPT !.stage = "succeeded"]
  <2>1. /\ done.turn = c.turn /\ done.revision = c.revision
        /\ done.stage = "succeeded" /\ done.seen = c.seen
        /\ \A f \in {"retryable", "permanent"} : [c EXCEPT !.stage = f, !.seen = {}].stage = f
    BY <1>c DEF Claim
  <2>2. \/ c.stage = "inferring" /\ Advance(c, done)
        \/ \E f \in {"retryable", "permanent"} : Advance(c, [c EXCEPT !.stage = f, !.seen = {}])
    BY <1>3 DEF InferReturns
  <2> HIDE DEF done
  <2> QED  BY <2>1, <2>2 DEF Advance
<1>4. ASSUME ~ \E S \in SUBSET Inputs : ClaimActivities(S),
             ~ \E c \in held : ReadContext(c) \/ InferReturns(c)
      PROVE  d \in held
  BY <1>4 DEF Next, vars, Observe, Accept, AcceptReplay, AcceptSteer, RefuseSteer, OpenTurn,
     RecoverExpired, LeaseElapses, Work, CompleteActivity, RetryActivity, FailActivity, Settle,
     StaleClaim, Drop, FinalizationFails, Reset, Crash
<1> QED  BY <1>1, <1>2, <1>3, <1>4

(* What a step leaves of a turn that was opened. *)
LEMMA StepFacts ==
  ASSUME TypeOK, TurnMatchesActivity, Fenced, LogKept, [Next]_vars,
         NEW t \in Inputs, status[t] # "absent"
  PROVE  /\ revision[t] <= revision'[t] /\ revision'[t] \in Nat
         /\ revision'[t] = revision[t] => InputsOf(t)' = InputsOf(t)
         /\ status'[t] \in Active => status[t] \in Active
         /\ \A n \in DOMAIN log[ConversationOf[t]] :
              log'[ConversationOf[t]][n] = log[ConversationOf[t]][n]
         /\ floors'[ConversationOf[t]] = floors[ConversationOf[t]] \/ status'[t] \notin Active
<1>c. ConversationOf[t] \in Conversations /\ revision[t] \in Nat  BY InputAssumption DEF TypeOK
<1>1. /\ revision[t] <= revision'[t] /\ revision'[t] \in Nat
      /\ revision'[t] = revision[t] => InputsOf(t)' = InputsOf(t)
      /\ status'[t] \in Active => status[t] \in Active
  <2>1. CASE NoMessage /\ InputsOf(t)' = InputsOf(t)  BY <2>1, <1>c DEF NoMessage
  <2>2. ASSUME NEW i \in Inputs, NEW e \in Inputs, InputStored(i, e), e = t
        PROVE  /\ revision[t] + 1 = revision'[t] /\ status[t] \in Active
    BY <2>2 DEF InputStored, Active, Claimable, TypeOK
  <2>3. ASSUME NEW i \in Inputs, NEW e \in Inputs, InputStored(i, e), e # t,
               InputsOf(t)' = InputsOf(t)
        PROVE  revision'[t] = revision[t] /\ status'[t] = status[t]
    BY <2>3 DEF InputStored, TypeOK
  <2>4. ASSUME NEW e \in Inputs, ReplyStored(e), InputsOf(t)' = InputsOf(t)
        PROVE  revision'[t] = revision[t] /\ (status'[t] \in Active => status[t] \in Active)
    BY <2>4 DEF ReplyStored, Active
  <2>5. CASE \E i, e \in Inputs : /\ InputStored(i, e)
                                  /\ \A a \in Inputs \ {e} : InputsOf(a)' = InputsOf(a)
    <3>1. PICK i \in Inputs, e \in Inputs :
            InputStored(i, e) /\ \A a \in Inputs \ {e} : InputsOf(a)' = InputsOf(a)
      BY <2>5
    <3>2. CASE e = t  BY <2>2, <3>1, <3>2, <1>c
    <3>3. CASE e # t
      <4>1. InputsOf(t)' = InputsOf(t)  BY <3>1, <3>3
      <4> QED  BY <2>3, <3>1, <3>3, <4>1, <1>c
    <3> QED  BY <3>2, <3>3
  <2>6. CASE \E e \in Inputs : ReplyStored(e) /\ \A a \in Inputs : InputsOf(a)' = InputsOf(a)
    BY <2>4, <2>6, <1>c
  <2> QED  BY <2>1, <2>5, <2>6, InputsGrow
<1>2. \A n \in DOMAIN log[ConversationOf[t]] :
        log'[ConversationOf[t]][n] = log[ConversationOf[t]][n]
  <2>1. ASSUME NEW k0 \in Conversations, NEW m0 \in Message, AppendMessage(k0, m0)
        PROVE  \A n \in DOMAIN log[ConversationOf[t]] :
                 log'[ConversationOf[t]][n] = log[ConversationOf[t]][n]
    BY <2>1, <1>c, AppendFacts
  <2>2. ASSUME NEW i \in Inputs, NEW e \in Inputs, InputStored(i, e)
        PROVE  [turn |-> e, input |-> i] \in Message /\ ConversationOf[i] \in Conversations
               /\ AppendMessage(ConversationOf[i], [turn |-> e, input |-> i])
    BY <2>2, InputAssumption DEF InputStored, Message, Inputs
  <2>3. ASSUME NEW e \in Inputs, ReplyStored(e)
        PROVE  Reply(e) \in Message /\ ConversationOf[e] \in Conversations
               /\ AppendMessage(ConversationOf[e], Reply(e))
    BY <2>3, InputAssumption DEF ReplyStored, Message, Reply
  <2>4. CASE NoMessage  BY <2>4 DEF NoMessage
  <2> QED  BY <2>1, <2>2, <2>3, <2>4, LogGrows
<1>3. floors'[ConversationOf[t]] = floors[ConversationOf[t]] \/ status'[t] \notin Active
  <2>1. ASSUME NEW k \in Conversations, Reset(k)
        PROVE  /\ \A j \in Conversations \ {k} : floors'[j] = floors[j]
               /\ ConversationOf[t] = k => status'[t] \notin Active
    BY <2>1 DEF Reset, Active, Claimable, TypeOK
  <2>2. floors' = floors \/ \E k \in Conversations : Reset(k)
    BY DEF Next, vars, intake, history, Observe, Accept, AcceptReplay, AcceptSteer, RefuseSteer,
       OpenTurn, ClaimActivities, RecoverExpired, LeaseElapses, Work, ReadContext, InferReturns,
       Advance, CompleteActivity, RetryActivity, FailActivity, Settle, StaleClaim, Drop,
       FinalizationFails, Crash
  <2> QED  BY <2>1, <2>2, <1>c
<1> QED  BY <1>1, <1>2, <1>3

LEMMA ReadsWell == Spec => []Read
<1>1. Init => Read  BY DEF Init, Read
<1>2. TypeOK /\ TurnMatchesActivity /\ Fenced /\ LogKept /\ Distinct /\ Counted /\ Floored
        /\ Read /\ [Next]_vars => Read'
  <2> SUFFICES ASSUME TypeOK, TurnMatchesActivity, Fenced, LogKept, Distinct, Counted, Floored,
                      Read, [Next]_vars, NEW d \in held'
               PROVE  ReadWell(d)'
    BY DEF Read
  <2>1. CASE d \in held
    <3> DEFINE t == d.turn   k == ConversationOf[t]
    <3>1. /\ t \in Inputs /\ status[t] # "absent"
          /\ d.revision \in Nat /\ revision[t] \in Nat /\ d.revision <= revision[t]
      BY <2>1 DEF TypeOK, Claim, Fenced
    <3>2. /\ revision[t] <= revision'[t] /\ revision'[t] \in Nat
          /\ revision'[t] = revision[t] => InputsOf(t)' = InputsOf(t)
          /\ status'[t] \in Active => status[t] \in Active
          /\ \A n \in DOMAIN log[k] : log'[k][n] = log[k][n]
          /\ floors'[k] = floors[k] \/ status'[t] \notin Active
      BY <3>1, StepFacts
    <3>3. ReadWell(d)  BY <2>1 DEF Read
    <3>4. k \in Conversations  BY <3>1, InputAssumption
    <3>5. \A f \in floors[k] : f \in Nat /\ f <= Len(log[k])
      BY <3>4 DEF TypeOK, Floored
    <3>6. Len(log[k]) \in Nat /\ DOMAIN log[k] = 1 .. Len(log[k])
      BY <3>4 DEF TypeOK
    <3>7. \A f \in floors[k] : \A n \in 1 .. f : n \in DOMAIN log[k]
      BY <3>5, <3>6
    <3> HIDE DEF t, k
    <3>t. d.turn = t /\ k = ConversationOf[t]  BY DEF t, k
    <3>8. (d.stage \in {"inferring", "succeeded"} /\ d.revision = revision'[t])
            => UserRows(t, d.seen) = InputsOf(t)'
      BY <3>1, <3>2, <3>3, <3>t DEF ReadWell
    <3>9. d.stage = "mismatch" => d.revision # revision'[t]
      BY <3>1, <3>2, <3>3, <3>t DEF ReadWell
    <3>10. (d.stage \in {"inferring", "succeeded"} /\ status'[t] \in Active)
             => \A f \in floors'[k] : \A n \in 1 .. f : log'[k][n] \notin d.seen
      BY <3>2, <3>3, <3>7, <3>t DEF ReadWell
    <3> QED  BY <3>8, <3>9, <3>10, <3>t DEF ReadWell
  <2>2. CASE d.stage \in {"claimed", "dependency", "retryable", "permanent"}
    BY <2>2 DEF ReadWell
  <2>3. ASSUME UNCHANGED <<status, revision, log, floors>>, NEW c \in held,
               d.turn = c.turn, d.revision = c.revision,
               \/ d.stage = "inferring" /\ d.seen = Context(c.turn)
               \/ d.stage = "mismatch" /\ Cardinality(UserRows(c.turn, Context(c.turn))) # c.revision + 1
               \/ c.stage = "inferring" /\ d.stage = "succeeded" /\ d.seen = c.seen
        PROVE  ReadWell(d)'
    <3>1. /\ c.turn \in Inputs /\ status[c.turn] # "absent"
          /\ c.revision \in Nat /\ revision[c.turn] \in Nat /\ ReadWell(c)
      BY DEF TypeOK, Claim, Fenced, Read
    <3>2. InputsOf(d.turn)' = InputsOf(c.turn)
      BY <2>3 DEF InputsOf, UserRows, Rows
    <3>3. UserRows(c.turn, Context(c.turn)) = InputsOf(c.turn)
      BY <3>1, ContextFacts
    <3>4. Cardinality(InputsOf(c.turn)) = revision[c.turn] + 1
      BY <3>1 DEF Counted
    <3>5. status[c.turn] \in Active =>
            \A f \in floors[ConversationOf[c.turn]] : \A n \in 1 .. f :
              log[ConversationOf[c.turn]][n] \notin Context(c.turn)
      BY <3>1, ContextFacts
    <3> QED  BY <2>3, <3>1, <3>2, <3>3, <3>4, <3>5 DEF ReadWell
  <2> QED  BY <2>1, <2>2, <2>3, ClaimSteps
<1> QED  BY <1>1, <1>2, TypeCorrect, TurnsAgree, Fences, LogIsKept, LogIsDistinct,
            RevisionsCount, ResetsClose, PTL DEF Spec

(* A worker whose history does not match its claim has lost the claim, so  *)
(* no turn fails because a steer raced the worker's reading.               *)
THEOREM MismatchesAreStale == Spec => []MismatchIsStale
<1>1. Read => MismatchIsStale  BY DEF Read, ReadWell, MismatchIsStale, Owns, CurrentGeneration
<1> QED  BY <1>1, ReadsWell, PTL

(* An activity is completed by the transaction of a claim that owns it. *)
LEMMA Completion ==
  ASSUME TypeOK, TurnMatchesActivity, Fenced, [Next]_vars, NEW t \in Inputs,
         status'[t] = "completed"
  PROVE  \/ status[t] = "completed" /\ answered'[t] = answered[t]
         \/ \E c \in held : CompleteActivity(c) /\ c.turn = t
<1> DEFINE Goal == \/ status[t] = "completed" /\ answered'[t] = answered[t]
                   \/ \E c \in held : CompleteActivity(c) /\ c.turn = t
<1> USE DEF intake, activity, times, history
<1>0. ASSUME status'[t] = status[t], answered' = answered PROVE Goal  BY <1>0
<1>a. ASSUME NEW i \in Inputs, Observe(i) PROVE Goal  BY <1>a, <1>0 DEF Observe
<1>b. ASSUME NEW i \in Inputs, Accept(i) PROVE Goal
  <2>1. answered' = answered /\ (status'[t] = status[t] \/ status'[t] # "completed")
    BY <1>b DEF Accept, AcceptReplay, AcceptSteer, RefuseSteer, OpenTurn, TypeOK
  <2> QED  BY <2>1, <1>0
<1>c. ASSUME NEW S \in SUBSET Inputs, ClaimActivities(S) PROVE Goal
  BY <1>c, <1>0 DEF ClaimActivities
<1>d. CASE RecoverExpired  BY <1>d, <1>0 DEF RecoverExpired
<1>e. ASSUME NEW a \in Inputs, LeaseElapses(a) PROVE Goal  BY <1>e, <1>0 DEF LeaseElapses
<1>g. ASSUME NEW c \in held, Work(c) \/ FinalizationFails(c) PROVE Goal
  <2>0. c.turn \in Inputs  BY DEF TypeOK, Claim
  <2>1. CASE ReadContext(c) \/ InferReturns(c)
    BY <2>1, <1>0 DEF ReadContext, InferReturns, Advance
  <2>2. CASE CompleteActivity(c)
    <3>1. c.turn = t \/ (status'[t] = status[t] /\ answered'[t] = answered[t])
      BY <2>0, <2>2 DEF CompleteActivity, Settle, TypeOK
    <3> QED  BY <2>2, <3>1
  <2>3. CASE RetryActivity(c) \/ FailActivity(c)
    BY <2>0, <2>3, <1>0 DEF RetryActivity, FailActivity, Settle, TypeOK
  <2>4. CASE StaleClaim(c) \/ FinalizationFails(c)
    BY <2>4, <1>0 DEF StaleClaim, FinalizationFails, Drop
  <2> QED  BY <1>g, <2>1, <2>2, <2>3, <2>4 DEF Work
<1>h. ASSUME NEW k \in Conversations, Reset(k) PROVE Goal  BY <1>h, <1>0 DEF Reset
<1>i. CASE Crash  BY <1>i, <1>0 DEF Crash
<1>j. CASE UNCHANGED vars  BY <1>j, <1>0 DEF vars
<1> QED  BY <1>a, <1>b, <1>c, <1>d, <1>e, <1>g, <1>h, <1>i, <1>j DEF Next

(* A reply answers every input its turn ever took in.                      *)
THEOREM EveryInputAnswered == Spec => []ReplyAnswersEveryInput
<1>1. Init => ReplyAnswersEveryInput  BY DEF Init, ReplyAnswersEveryInput
<1>2. TypeOK /\ TurnMatchesActivity /\ Fenced /\ LogKept /\ Read /\ ReplyAnswersEveryInput
        /\ [Next]_vars => ReplyAnswersEveryInput'
  <2> SUFFICES ASSUME TypeOK, TurnMatchesActivity, Fenced, LogKept, Read, ReplyAnswersEveryInput,
                      [Next]_vars, NEW t \in Inputs, status'[t] = "completed"
               PROVE  UserRows(t, answered'[t]) = InputsOf(t)'
    BY DEF ReplyAnswersEveryInput, InputsOf, UserRows
  <2>1. InputsOf(t)' = InputsOf(t)
    <3>1. ASSUME NEW i \in Inputs, InputStored(i, t) PROVE FALSE  BY <3>1 DEF InputStored
    <3> QED  BY <3>1, InputsGrow
  <2>2. CASE \E c \in held : CompleteActivity(c) /\ c.turn = t
    <3>1. PICK c \in held : CompleteActivity(c) /\ c.turn = t  BY <2>2
    <3>2. c.stage = "succeeded" /\ c.revision = revision[t]
      BY <3>1 DEF CompleteActivity, Settle, Owns, CurrentGeneration
    <3>3. UserRows(t, c.seen) = InputsOf(t)  BY <3>1, <3>2 DEF Read, ReadWell
    <3>4. answered'[t] = c.seen  BY <3>1 DEF CompleteActivity, TypeOK
    <3> QED  BY <2>1, <3>3, <3>4
  <2>3. CASE status[t] = "completed" /\ answered'[t] = answered[t]
    BY <2>1, <2>3 DEF ReplyAnswersEveryInput, InputsOf
  <2>4. \/ status[t] = "completed" /\ answered'[t] = answered[t]
        \/ \E c \in held : CompleteActivity(c) /\ c.turn = t
    BY Completion
  <2> QED  BY <2>2, <2>3, <2>4
<1> QED  BY <1>1, <1>2, TypeCorrect, TurnsAgree, Fences, LogIsKept, ReadsWell, PTL DEF Spec

(* A reply knows nothing of what was reset before it was committed, even   *)
(* if it was being generated meanwhile.                                    *)
THEOREM ResetsForget == Spec => RepliesForgetReset
<1>1. TypeOK /\ TurnMatchesActivity /\ Fenced /\ Read /\ [Next]_vars =>
        [\A t \in Inputs : (status[t] # "completed" /\ status'[t] = "completed") =>
           \A f \in floors[ConversationOf[t]] : \A n \in 1 .. f :
             log[ConversationOf[t]][n] \notin answered'[t]]_vars
  <2> SUFFICES ASSUME TypeOK, TurnMatchesActivity, Fenced, Read, [Next]_vars, NEW t \in Inputs,
                      status[t] # "completed", status'[t] = "completed",
                      NEW f \in floors[ConversationOf[t]], NEW n \in 1 .. f
               PROVE  log[ConversationOf[t]][n] \notin answered'[t]
    OBVIOUS
  <2>1. PICK c \in held : CompleteActivity(c) /\ c.turn = t  BY Completion
  <2>2. c.stage = "succeeded" /\ status[t] \in Active
    BY <2>1 DEF CompleteActivity, Settle, Owns, CurrentGeneration, Active
  <2>3. answered'[t] = c.seen  BY <2>1 DEF CompleteActivity, TypeOK
  <2> QED  BY <2>1, <2>2, <2>3 DEF Read, ReadWell
<1> QED  BY <1>1, TypeCorrect, TurnsAgree, Fences, ReadsWell, PTL DEF Spec, RepliesForgetReset
=============================================================================
