---------------------------- MODULE OutboxProofs ---------------------------
(***************************************************************************)
(* Machine-checked proofs about Outbox, for any messages, streams, turns,  *)
(* consumer slots, attempts and faults.                                    *)
(*                                                                         *)
(* Each layer of the inductive invariant rests on the ones before it:      *)
(* types; what a row holds; the order in which rows are written; the order *)
(* in which they are sent; what that makes of a turn's plan; the claims of *)
(* the consumers; receipts; replacements.                                  *)
(***************************************************************************)
EXTENDS Outbox, FiniteSetTheorems, TLAPS

(* A transaction numbers its rows upward, by steps of at least one.        *)
LEMMA RankFacts ==
  ASSUME NEW rows \in SUBSET Messages
  PROVE  /\ Cardinality(rows) \in Nat
         /\ \A m \in Messages : Rank(m, rows) \in Nat
         /\ \A m \in rows : 1 <= Rank(m, rows) /\ Rank(m, rows) <= Cardinality(rows)
         /\ \A a, b \in rows : a < b => Rank(a, rows) < Rank(b, rows)
<1> DEFINE Upto(m) == {p \in rows : p <= m}
<1>1. IsFiniteSet(rows)
  BY MessageAssumption, FS_Subset
<1>2. \A m : IsFiniteSet(Upto(m)) /\ Cardinality(Upto(m)) <= Cardinality(rows)
  BY <1>1, FS_Subset
<1>3. Cardinality(rows) \in Nat /\ \A m : Cardinality(Upto(m)) \in Nat
  BY <1>1, <1>2, FS_CardinalityType
<1>4. \A m \in rows : 1 <= Cardinality(Upto(m))
  <2> TAKE m \in rows
  <2>1. m \in Upto(m)
    BY MessageAssumption
  <2>2. Cardinality(Upto(m)) # 0
    BY <2>1, <1>2, FS_EmptySet
  <2> QED
    BY <2>2, <1>3
<1>5. \A a, b \in rows : a < b => Cardinality(Upto(a)) < Cardinality(Upto(b))
  <2> TAKE a, b \in rows
  <2> HAVE a < b
  <2>1. a \in Nat /\ b \in Nat /\ rows \subseteq Nat
    BY MessageAssumption
  <2>a. \A p \in rows : p <= a => p <= b
    BY <2>1
  <2>b. b <= b /\ ~(b <= a)
    BY <2>1
  <2>2. Upto(a) \subseteq Upto(b) /\ b \in Upto(b) /\ b \notin Upto(a)
    BY <2>a, <2>b
  <2>3. Cardinality(Upto(a)) <= Cardinality(Upto(b)) /\ Cardinality(Upto(a)) # Cardinality(Upto(b))
    BY <2>2, <1>2, FS_Subset
  <2> QED
    BY <2>3, <1>3
<1> QED
  BY <1>2, <1>3, <1>4, <1>5 DEF Rank

(* A consumer that is not idle holds a well-formed claim.                  *)
LEMMA HeldClaim ==
  ASSUME TypeOK, NEW w \in Workers, held[w] # NoClaim
  PROVE  /\ held[w] \in OutboundClaim
         /\ held[w].message \in Messages
         /\ held[w].attempt \in Nat
         /\ held[w].stage \in Stages
BY DEF TypeOK, OutboundClaim

(* What a settlement that owns its row leaves alone.                       *)
LEMMA SettleFacts ==
  ASSUME TypeOK, NEW w \in Workers, held[w] # NoClaim, Settle(w)
  PROVE  /\ status[held[w].message] = "processing"
         /\ attempts[held[w].message] = held[w].attempt
         /\ held' = [held EXCEPT ![w] = NoClaim]
         /\ elapsed' = elapsed \ {held[w].message}
         /\ UNCHANGED <<last, sequence, attempts, receipt, faults>>
BY DEF Settle, Owns

(* A reply is stored when its turn becomes ready for delivery, not before. *)
ReplyAwaitsTurn ==
  \A t \in Turns : turn[t] = "running" => \A m \in Plan(t) : status[m] = "absent"

(* The first layer: types, and what a write of a plan relies on.           *)
LEMMA Base == Spec => [](TypeOK /\ ReplyAwaitsTurn)
<1> USE MessageAssumption, WorkerAssumption
<1>1. Init => TypeOK /\ ReplyAwaitsTurn
  BY DEF Init, TypeOK, Statuses, Active, Settled, TurnStates, ReplyAwaitsTurn, Plan
<1>2. TypeOK /\ ReplyAwaitsTurn /\ [Next]_vars => TypeOK' /\ ReplyAwaitsTurn'
  <2> SUFFICES ASSUME TypeOK, ReplyAwaitsTurn, [Next]_vars
               PROVE  TypeOK' /\ ReplyAwaitsTurn'
    OBVIOUS
  <2> DEFINE AbsentStays == /\ \A m \in Messages : status[m] = "absent" => status'[m] = "absent"
                            /\ \A t \in Turns : turn'[t] = "running" => turn[t] = "running"
  <2>a. AbsentStays => ReplyAwaitsTurn'
    BY DEF ReplyAwaitsTurn, Plan
  <2>1. ASSUME NEW s \in Streams, NEW rows \in SUBSET Messages, Insert(s, rows),
               \A m \in rows : status[m] = "absent",
               turn' \in [Turns -> TurnStates]
        PROVE  TypeOK'
    <3>1. last' \in [Streams -> Nat] /\ sequence' \in [Messages -> Nat]
      BY <2>1, RankFacts DEF Insert, TypeOK
    <3>2. status' \in [Messages -> Statuses]
      BY <2>1 DEF Insert, TypeOK, Statuses, Active
    <3>3. elapsed' \in SUBSET {m \in Messages : status'[m] = "processing"}
      BY <2>1 DEF Insert, TypeOK
    <3> QED
      BY <2>1, <3>1, <3>2, <3>3 DEF Insert, TypeOK
  <2>2. ASSUME NEW m \in Messages, EnqueueStandalone(m) \/ PublishProgress(m)
        PROVE  TypeOK' /\ ReplyAwaitsTurn'
    <3>1. /\ Insert(StreamOf[m], {m}) /\ status[m] = "absent" /\ turn' = turn
          /\ m \in Progress \/ TurnOf[m] = NoTurn
      BY <2>2 DEF EnqueueStandalone, PublishProgress
    <3>2. TypeOK'
      BY <3>1, <2>1 DEF TypeOK
    <3>3. \A t \in Turns : m \notin Plan(t)
      BY <3>1 DEF Plan
    <3> QED
      BY <3>1, <3>2, <3>3 DEF Insert, ReplyAwaitsTurn, Plan
  <2>3. ASSUME NEW t \in Turns, EnqueuePlan(t)
        PROVE  TypeOK' /\ ReplyAwaitsTurn'
    <3>1. PICK s \in {StreamOf[m] : m \in Plan(t)} : Insert(s, Plan(t))
      BY <2>3 DEF EnqueuePlan
    <3>2. s \in Streams /\ Plan(t) \in SUBSET Messages
      BY <3>1 DEF Plan
    <3>3. turn' \in [Turns -> TurnStates]
      BY <2>3 DEF EnqueuePlan, TypeOK, TurnStates
    <3>4. \A m \in Plan(t) : status[m] = "absent"
      BY <2>3 DEF EnqueuePlan, ReplyAwaitsTurn
    <3>5. TypeOK'
      BY <3>1, <3>2, <3>3, <3>4, <2>1
    <3>6. \A u \in Turns : u # t => turn'[u] = turn[u] /\ \A m \in Plan(u) : m \notin Plan(t)
      BY <2>3 DEF EnqueuePlan, TypeOK, Plan
    <3>7. turn'[t] # "running"
      BY <2>3 DEF EnqueuePlan, TypeOK
    <3>8. \A m \in Messages \ Plan(t) : status'[m] = status[m]
      BY <3>1 DEF Insert
    <3> QED
      BY <3>5, <3>6, <3>7, <3>8 DEF ReplyAwaitsTurn, Plan
  <2>4. ASSUME NEW w \in Workers, NEW m \in Messages, ClaimOutbound(w, m)
        PROVE  TypeOK' /\ ReplyAwaitsTurn'
    <3>1. [message |-> m, attempt |-> attempts[m] + 1, stage |-> "sending"] \in OutboundClaim
      BY DEF TypeOK, OutboundClaim, Stages
    <3>2. held' \in [Workers -> OutboundClaim \cup {NoClaim}] /\ attempts' \in [Messages -> Nat]
      BY <2>4, <3>1 DEF ClaimOutbound, TypeOK
    <3>3. /\ status' \in [Messages -> Statuses] 
          /\ \A p \in Messages : status[p] \in {"absent", "processing"} => status'[p] # "cancelled"
          /\ \A p \in Messages : status[p] = "processing" => status'[p] = "processing"
      BY <2>4 DEF ClaimOutbound, Swept, Abandoned, TypeOK, Statuses, Active, Settled
    <3>4. AbsentStays
      BY <2>4 DEF ClaimOutbound, Claimable, Swept, Abandoned, TypeOK
    <3> QED
      BY <2>4, <2>a, <3>2, <3>3, <3>4 DEF ClaimOutbound, TypeOK
  <2>5. CASE RecoverExpired
    BY <2>5, <2>a DEF RecoverExpired, TypeOK, Statuses, Active
  <2>6. ASSUME NEW m \in Messages, LeaseElapses(m)
        PROVE  TypeOK' /\ ReplyAwaitsTurn'
    BY <2>6, <2>a DEF LeaseElapses, Fault, TypeOK
  <2>7. ASSUME NEW w \in Workers, Deliver(w)
        PROVE  TypeOK' /\ ReplyAwaitsTurn'
    <3>1. \A o \in Outcomes : [held[w] EXCEPT !.stage = o] \in OutboundClaim
      BY <2>7, HeldClaim DEF Deliver, OutboundClaim, Outcomes, Stages
    <3>2. PICK o \in Outcomes : EndAttempt(w, o)
      BY <2>7 DEF Deliver, Outcomes
    <3>3. held' \in [Workers -> OutboundClaim \cup {NoClaim}]
      BY <3>1, <3>2 DEF EndAttempt, TypeOK
    <3>4. receipt' \in SUBSET Messages
      BY <2>7, HeldClaim DEF Deliver, TypeOK
    <3> QED
      BY <2>7, <2>a, <3>3, <3>4 DEF Deliver, row, TypeOK
  <2>8. ASSUME NEW w \in Workers, held[w] # NoClaim, Settle(w),
               turn' \in [Turns -> TurnStates],
               \A t \in Turns : turn[t] # "running" => turn'[t] # "running",
               status' \in [Messages -> Statuses],
               \A p \in Messages : status[p] = "absent" => status'[p] = "absent",
               \A p \in Messages \ {held[w].message} :
                 status[p] = "processing" => status'[p] = "processing"
        PROVE  TypeOK' /\ ReplyAwaitsTurn'
    <3>1. AbsentStays
      BY <2>8
    <3> QED
      BY <2>8, <2>a, <3>1, SettleFacts DEF TypeOK
  <2>9. ASSUME NEW w \in Workers, CompleteOutbound(w)
        PROVE  TypeOK' /\ ReplyAwaitsTurn'
    <3>1. held[w] # NoClaim /\ Settle(w) /\ held[w].message \in Messages
      BY <2>9, HeldClaim DEF CompleteOutbound
    <3>2. turn' \in [Turns -> TurnStates] /\ \A t \in Turns : turn[t] # "running" => turn'[t] # "running"
      BY <2>9, <3>1 DEF CompleteOutbound, TypeOK, TurnStates, InPlan
    <3>3. status' = [status EXCEPT ![held[w].message] = "delivered"]
      BY <2>9 DEF CompleteOutbound
    <3>4. status[held[w].message] = "processing"
      BY <3>1, SettleFacts
    <3>5. status' \in [Messages -> Statuses]
      BY <3>1, <3>3 DEF TypeOK, Statuses, Settled
    <3> QED
      BY <3>1, <3>2, <3>3, <3>4, <3>5, <2>8 DEF TypeOK
  <2>10. ASSUME NEW w \in Workers, ScheduleOutboundRetry(w)
         PROVE  TypeOK' /\ ReplyAwaitsTurn'
    <3>1. held[w] # NoClaim /\ Settle(w) /\ held[w].message \in Messages
      BY <2>10, HeldClaim DEF ScheduleOutboundRetry
    <3>2. turn' = turn /\ status' = [status EXCEPT ![held[w].message] = "retry_wait"]
      BY <2>10 DEF ScheduleOutboundRetry
    <3>3. status[held[w].message] = "processing"
      BY <3>1, SettleFacts
    <3>4. status' \in [Messages -> Statuses]
      BY <3>1, <3>2 DEF TypeOK, Statuses, Active
    <3> QED
      BY <3>1, <3>2, <3>3, <3>4, <2>8 DEF TypeOK
  <2>11. ASSUME NEW w \in Workers, DeadLetterOutbound(w)
         PROVE  TypeOK' /\ ReplyAwaitsTurn'
    <3>1. held[w] # NoClaim /\ Settle(w) /\ held[w].message \in Messages
      BY <2>11, HeldClaim DEF DeadLetterOutbound
    <3>2. turn' \in [Turns -> TurnStates] /\ \A t \in Turns : turn[t] # "running" => turn'[t] # "running"
      BY <2>11 DEF DeadLetterOutbound, TypeOK, TurnStates
    <3>3. status[held[w].message] = "processing"
      BY <3>1, SettleFacts
    <3>4. status' \in [Messages -> Statuses]
      BY <2>11 DEF DeadLetterOutbound, TypeOK, Statuses, Settled
    <3>5. \A p \in Messages \ {held[w].message} : status[p] \in {"absent", "processing"} => status'[p] = status[p]
      BY <2>11 DEF DeadLetterOutbound, Siblings
    <3>6. \A p \in Messages : status[p] = "absent" => status'[p] = "absent"
      BY <3>1, <3>3, <3>5
    <3> QED
      BY <3>1, <3>2, <3>4, <3>5, <3>6, <2>8
  <2>12. ASSUME NEW w \in Workers, StaleClaim(w) \/ FinalizationFails(w)
         PROVE  TypeOK' /\ ReplyAwaitsTurn'
    BY <2>12, <2>a DEF StaleClaim, FinalizationFails, Fault, row, TypeOK
  <2>13. CASE Crash
    BY <2>13, <2>a DEF Crash, Fault, row, TypeOK
  <2>14. CASE UNCHANGED vars
    BY <2>14, <2>a DEF vars, row, TypeOK
  <2> QED
    BY <2>2, <2>3, <2>4, <2>5, <2>6, <2>7, <2>9, <2>10, <2>11, <2>12, <2>13, <2>14
       DEF Next, Enqueue, Consume
<1> QED
  BY <1>1, <1>2, PTL DEF Spec

(* Every variable has its type, and only claimed rows carry a lease.       *)
THEOREM TypeCorrect == Spec => []TypeOK
BY Base, PTL

----------------------------------------------------------------------------
(* What a step does to the rows *)

(* The effect of one writing transaction: a standalone message or a        *)
(* progress block on its own, or the whole plan of a turn.                 *)
Written(s, rows) ==
  /\ \A m \in rows : /\ StreamOf[m] = s
                     /\ status[m] = "absent" /\ status'[m] = "pending"
                     /\ last[s] < sequence'[m] /\ sequence'[m] <= last'[s]
  /\ \A a, b \in rows : a < b => sequence'[a] < sequence'[b]
  /\ \A m \in Messages \ rows : status'[m] = status[m] /\ sequence'[m] = sequence[m]
  /\ \A x \in Streams : last[x] <= last'[x]
  /\ UNCHANGED <<attempts, elapsed, held, receipt>>
  /\ \/ \E m \in Messages :
          /\ rows = {m}
          /\ ~InPlan(m)
          /\ m \in Progress => turn[TurnOf[m]] = "running"
          /\ SourceOf[m] # NoMessage => status[SourceOf[m]] # "absent"
          /\ turn' = turn
     \/ \E t \in Turns :
          /\ rows = Plan(t)
          /\ turn[t] = "running"
          /\ turn' = [turn EXCEPT ![t] = "waiting_delivery"]

(* Steps of a consumer, a lease or the process that write no row.          *)
Quiet == UNCHANGED <<turn, last, sequence, status, attempts>>

LEMMA InsertWrites ==
  ASSUME TypeOK, NEW s \in Streams, NEW rows \in SUBSET Messages, Insert(s, rows),
         \A m \in rows : StreamOf[m] = s /\ status[m] = "absent"
  PROVE  /\ \A m \in rows : /\ StreamOf[m] = s
                            /\ status[m] = "absent" /\ status'[m] = "pending"
                            /\ last[s] < sequence'[m] /\ sequence'[m] <= last'[s]
         /\ \A a, b \in rows : a < b => sequence'[a] < sequence'[b]
         /\ \A m \in Messages \ rows : status'[m] = status[m] /\ sequence'[m] = sequence[m]
         /\ \A x \in Streams : last[x] <= last'[x]
         /\ UNCHANGED <<attempts, elapsed, held, receipt>>
<1>1. \A x \in Streams : last[x] \in Nat
  BY DEF TypeOK
<1>2. \A m \in rows : sequence'[m] = last[s] + Rank(m, rows) /\ status'[m] = "pending"
  BY DEF Insert
<1>3. last'[s] = last[s] + Cardinality(rows) /\ \A x \in Streams : x # s => last'[x] = last[x]
  BY DEF Insert, TypeOK
<1>4. \A x \in Streams : last[x] <= last'[x]
  BY <1>1, <1>3, RankFacts
<1>5. \A m \in rows : last[s] < sequence'[m] /\ sequence'[m] <= last'[s]
  BY <1>1, <1>2, <1>3, RankFacts
<1>6. \A a, b \in rows : a < b => sequence'[a] < sequence'[b]
  BY <1>1, <1>2, RankFacts
<1> QED
  BY <1>2, <1>4, <1>5, <1>6 DEF Insert

LEMMA RowCases ==
  ASSUME TypeOK, ReplyAwaitsTurn, [Next]_vars
  PROVE  \/ \E s \in Streams, rows \in SUBSET Messages : Written(s, rows)
         \/ \E w \in Workers, m \in Messages : ClaimOutbound(w, m)
         \/ RecoverExpired
         \/ \E w \in Workers : CompleteOutbound(w)
         \/ \E w \in Workers : ScheduleOutboundRetry(w)
         \/ \E w \in Workers : DeadLetterOutbound(w)
         \/ Quiet
<1>1. ASSUME NEW m \in Messages, EnqueueStandalone(m) \/ PublishProgress(m)
      PROVE  \E s \in Streams, rows \in SUBSET Messages : Written(s, rows)
  <2>1. /\ Insert(StreamOf[m], {m}) /\ status[m] = "absent" /\ turn' = turn
        /\ m \in Progress => turn[TurnOf[m]] = "running"
        /\ SourceOf[m] # NoMessage => status[SourceOf[m]] # "absent"
        /\ ~InPlan(m)
    BY <1>1, MessageAssumption, SourceAssumption DEF EnqueueStandalone, PublishProgress, InPlan
  <2>2. StreamOf[m] \in Streams /\ {m} \in SUBSET Messages
    BY MessageAssumption
  <2>3. Written(StreamOf[m], {m})
    BY <2>1, <2>2, InsertWrites DEF Written
  <2> QED
    BY <2>2, <2>3
<1>2. ASSUME NEW t \in Turns, EnqueuePlan(t)
      PROVE  \E s \in Streams, rows \in SUBSET Messages : Written(s, rows)
  <2>1. PICK s \in {StreamOf[m] : m \in Plan(t)} : Insert(s, Plan(t))
    BY <1>2 DEF EnqueuePlan
  <2>2. s \in Streams /\ Plan(t) \in SUBSET Messages
    BY <2>1, MessageAssumption DEF Plan
  <2>3. \A m \in Plan(t) : StreamOf[m] = s /\ status[m] = "absent"
    BY <1>2, <2>1, PlanAssumption DEF EnqueuePlan, ReplyAwaitsTurn, Plan
  <2>4. turn[t] = "running" /\ turn' = [turn EXCEPT ![t] = "waiting_delivery"]
    BY <1>2 DEF EnqueuePlan
  <2> DEFINE rows == Plan(t)
  <2>a. rows = Plan(t) /\ rows \in SUBSET Messages
    BY <2>2
  <2> HIDE DEF rows
  <2>b. Insert(s, rows) /\ \A m \in rows : StreamOf[m] = s /\ status[m] = "absent"
    BY <2>a, <2>1, <2>3
  <2>c. \E u \in Turns : /\ rows = Plan(u)
                       /\ turn[u] = "running"
                       /\ turn' = [turn EXCEPT ![u] = "waiting_delivery"]
    BY <2>a, <2>4
  <2>d. /\ \A m \in rows : /\ StreamOf[m] = s
                          /\ status[m] = "absent" /\ status'[m] = "pending"
                          /\ last[s] < sequence'[m] /\ sequence'[m] <= last'[s]
        /\ \A a, b \in rows : a < b => sequence'[a] < sequence'[b]
        /\ \A m \in Messages \ rows : status'[m] = status[m] /\ sequence'[m] = sequence[m]
        /\ \A x \in Streams : last[x] <= last'[x]
        /\ UNCHANGED <<attempts, elapsed, held, receipt>>
    BY <2>a, <2>b, <2>2, InsertWrites
  <2>5. Written(s, rows)
    BY <2>c, <2>d DEF Written
  <2> QED
    BY <2>2, <2>a, <2>5
<1>3. ASSUME \/ \E m \in Messages : LeaseElapses(m)
             \/ \E w \in Workers : Deliver(w) \/ StaleClaim(w) \/ FinalizationFails(w)
             \/ Crash
             \/ UNCHANGED vars
      PROVE  Quiet
  BY <1>3 DEF Quiet, LeaseElapses, Deliver, StaleClaim, FinalizationFails, Crash, vars, row
<1> QED
  BY <1>1, <1>2, <1>3 DEF Next, Enqueue, Consume

(* What any step does to any row.                                          *)
Claimed == {"processing", "retry_wait", "delivered", "failed_final"}

RowMoves ==
  \A m \in Messages :
    /\ status[m] \in Settled => status'[m] = status[m]
    /\ status[m] # "absent" => status'[m] # "absent" /\ sequence'[m] = sequence[m]
    /\ status'[m] \in {"absent", "pending"}
         => status[m] \in {"absent", "pending"} /\ attempts'[m] = attempts[m]
    /\ status'[m] = "absent" => sequence'[m] = sequence[m]
    /\ attempts'[m] = attempts[m] => (status'[m] \in Claimed => status[m] \in Claimed)
    /\ attempts'[m] # attempts[m] =>
         /\ attempts'[m] = attempts[m] + 1
         /\ status[m] \in {"pending", "retry_wait"}
         /\ status'[m] = "processing"
         /\ \A e \in Messages :
              (StreamOf[e] = StreamOf[m] /\ sequence[e] < sequence[m]) => status'[e] \notin Active

LEMMA RowsMove ==
  ASSUME TypeOK, ReplyAwaitsTurn, [Next]_vars
  PROVE  RowMoves
<1>1. ASSUME NEW s \in Streams, NEW rows \in SUBSET Messages, Written(s, rows)
      PROVE  RowMoves
  BY <1>1 DEF Written, RowMoves, Settled, Claimed
<1>2. ASSUME NEW w \in Workers, NEW m \in Messages, ClaimOutbound(w, m)
      PROVE  RowMoves
  <2>1. /\ status[m] \in {"pending", "retry_wait"} /\ status'[m] = "processing"
        /\ attempts'[m] = attempts[m] + 1 /\ sequence' = sequence
        /\ \A p \in Messages \ {m} : attempts'[p] = attempts[p]
    BY <1>2 DEF ClaimOutbound, Claimable, Swept, TypeOK
  <2>2. \A p \in Messages \ {m} :
          \/ status'[p] = status[p]
          \/ status[p] \in {"pending", "retry_wait"} /\ status'[p] = "cancelled"
    BY <1>2 DEF ClaimOutbound, Swept, Abandoned, TypeOK
  <2>3. \A e \in Messages : (StreamOf[e] = StreamOf[m] /\ sequence[e] < sequence[m])
          => e # m /\ status'[e] \notin Active
    <3> TAKE e \in Messages
    <3> HAVE StreamOf[e] = StreamOf[m] /\ sequence[e] < sequence[m]
    <3>1. e # m
      BY DEF TypeOK
    <3>2. status'[e] = Swept[e]
      BY <1>2, <3>1 DEF ClaimOutbound, Swept
    <3> QED
      BY <1>2, <3>1, <3>2 DEF ClaimOutbound, Claimable, Head
  <2>4. \A p \in Messages : attempts[p] \in Nat
    BY DEF TypeOK
  <2> QED
    BY <2>1, <2>2, <2>3, <2>4 DEF RowMoves, Settled, Claimed
<1>3. CASE RecoverExpired
  <2>1. \A m \in Messages : \/ status'[m] = status[m]
                            \/ status[m] = "processing" /\ status'[m] = "retry_wait"
    BY <1>3 DEF RecoverExpired, TypeOK
  <2> QED
    BY <1>3, <2>1 DEF RecoverExpired, RowMoves, Settled, Claimed
<1>4. ASSUME NEW w \in Workers, held[w] # NoClaim, Settle(w),
             status'[held[w].message] \in {"delivered", "retry_wait", "failed_final"},
             \A p \in Messages \ {held[w].message} :
               \/ status'[p] = status[p]
               \/ status[p] \in {"pending", "retry_wait"} /\ status'[p] = "cancelled"
      PROVE  RowMoves
  BY <1>4, SettleFacts, HeldClaim DEF RowMoves, Settled, Claimed
<1>5. ASSUME NEW w \in Workers, CompleteOutbound(w) \/ ScheduleOutboundRetry(w)
      PROVE  RowMoves
  <2>1. held[w] # NoClaim /\ Settle(w) /\ held[w].message \in Messages
    BY <1>5, HeldClaim DEF CompleteOutbound, ScheduleOutboundRetry
  <2>2. \E o \in {"delivered", "retry_wait"} : status' = [status EXCEPT ![held[w].message] = o]
    BY <1>5 DEF CompleteOutbound, ScheduleOutboundRetry
  <2> QED
    BY <2>1, <2>2, <1>4 DEF TypeOK
<1>6. ASSUME NEW w \in Workers, DeadLetterOutbound(w)
      PROVE  RowMoves
  <2>1. held[w] # NoClaim /\ Settle(w) /\ held[w].message \in Messages
    BY <1>6, HeldClaim DEF DeadLetterOutbound
  <2> QED
    BY <2>1, <1>6, <1>4 DEF DeadLetterOutbound, Siblings
<1>7. CASE Quiet
  BY <1>7 DEF Quiet, RowMoves
<1> QED
  BY <1>1, <1>2, <1>3, <1>5, <1>6, <1>7, RowCases

(* A step that is no write numbers no row and stores none.                 *)
NoWrite ==
  /\ UNCHANGED <<last, sequence>>
  /\ \A m \in Messages : status'[m] = "absent" <=> status[m] = "absent"
  /\ \A t \in Turns : turn'[t] = "running" <=> turn[t] = "running"

LEMMA WriteOrNot ==
  ASSUME TypeOK, ReplyAwaitsTurn, [Next]_vars
  PROVE  \/ \E s \in Streams, rows \in SUBSET Messages : Written(s, rows)
         \/ NoWrite
<1>1. ASSUME NEW w \in Workers, NEW m \in Messages, ClaimOutbound(w, m)
      PROVE  NoWrite
  BY <1>1 DEF ClaimOutbound, Claimable, Swept, Abandoned, TypeOK, NoWrite
<1>2. ASSUME RecoverExpired
      PROVE  NoWrite
  BY <1>2 DEF RecoverExpired, TypeOK, NoWrite
<1>3. ASSUME NEW w \in Workers, CompleteOutbound(w)
      PROVE  NoWrite
  <2>1. held[w] # NoClaim /\ Settle(w) /\ held[w].message \in Messages
    BY <1>3, HeldClaim DEF CompleteOutbound
  <2>a. InPlan(held[w].message) => turn[TurnOf[held[w].message]] # "running"
    BY <2>1, SettleFacts, MessageAssumption DEF ReplyAwaitsTurn, InPlan, Plan
  <2>2. \A t \in Turns : turn'[t] = "running" <=> turn[t] = "running"
    BY <2>a, <1>3 DEF CompleteOutbound, TypeOK
  <2> QED
    BY <2>1, <2>2, <1>3, SettleFacts DEF CompleteOutbound, TypeOK, NoWrite
<1>4. ASSUME NEW w \in Workers, ScheduleOutboundRetry(w)
      PROVE  NoWrite
  <2>1. held[w] # NoClaim /\ Settle(w) /\ held[w].message \in Messages
    BY <1>4, HeldClaim DEF ScheduleOutboundRetry
  <2> QED
    BY <2>1, <1>4, SettleFacts DEF ScheduleOutboundRetry, TypeOK, NoWrite
<1>5. ASSUME NEW w \in Workers, DeadLetterOutbound(w)
      PROVE  NoWrite
  <2>1. held[w] # NoClaim /\ Settle(w) /\ held[w].message \in Messages
    BY <1>5, HeldClaim DEF DeadLetterOutbound
  <2>a. InPlan(held[w].message) => turn[TurnOf[held[w].message]] # "running"
    BY <2>1, SettleFacts, MessageAssumption DEF ReplyAwaitsTurn, InPlan, Plan
  <2>2. \A t \in Turns : turn'[t] = "running" <=> turn[t] = "running"
    BY <2>a, <1>5 DEF DeadLetterOutbound, TypeOK
  <2> QED
    BY <2>1, <2>2, <1>5, SettleFacts DEF DeadLetterOutbound, Siblings, TypeOK, NoWrite
<1> QED
  BY <1>1, <1>2, <1>3, <1>4, <1>5, RowCases DEF Quiet, NoWrite

----------------------------------------------------------------------------
(* Rows and the order in which they are written *)

(* A row has a number once it is stored, no number exceeds its stream's,   *)
(* and its attempts tell whether it was ever claimed.                      *)
Rows ==
  \A m \in Messages :
    /\ status[m] = "absent" <=> sequence[m] = 0
    /\ sequence[m] <= last[StreamOf[m]]
    /\ status[m] \in {"absent", "pending"} => attempts[m] = 0
    /\ status[m] \in Claimed => attempts[m] > 0

LEMMA RowsHold == Spec => []Rows
<1> USE MessageAssumption
<1>1. Init => Rows
  BY DEF Init, Rows, Claimed
<1>2. TypeOK /\ TypeOK' /\ ReplyAwaitsTurn /\ Rows /\ [Next]_vars => Rows'
  <2> SUFFICES ASSUME TypeOK, TypeOK', ReplyAwaitsTurn, Rows, [Next]_vars
               PROVE  Rows'
    OBVIOUS
  <2>1. \A m \in Messages : /\ sequence[m] \in Nat /\ last[StreamOf[m]] \in Nat
                            /\ attempts[m] \in Nat /\ StreamOf[m] \in Streams
    BY DEF TypeOK
  <2>2. \A m \in Messages : /\ status'[m] \in {"absent", "pending"} => attempts'[m] = 0
                            /\ status'[m] \in Claimed => attempts'[m] > 0
    BY <2>1, RowsMove DEF RowMoves, Rows
  <2>3. ASSUME NEW s \in Streams, NEW rows \in SUBSET Messages, Written(s, rows)
        PROVE  \A m \in Messages : /\ status'[m] = "absent" <=> sequence'[m] = 0
                                   /\ sequence'[m] <= last'[StreamOf[m]]
    <3>1. ASSUME NEW m \in rows
          PROVE  /\ status'[m] = "absent" <=> sequence'[m] = 0
                 /\ sequence'[m] <= last'[StreamOf[m]]
      <4>1. /\ StreamOf[m] = s /\ status'[m] = "pending"
            /\ last[s] < sequence'[m] /\ sequence'[m] <= last'[s] /\ last[s] \in Nat
        BY <2>3, <3>1, <2>1 DEF Written
      <4>2. sequence'[m] # 0
        BY <4>1
      <4> QED
        BY <4>1, <4>2
    <3>2. ASSUME NEW m \in Messages \ rows
          PROVE  /\ status'[m] = "absent" <=> sequence'[m] = 0
                 /\ sequence'[m] <= last'[StreamOf[m]]
      <4>1. /\ status'[m] = status[m] /\ sequence'[m] = sequence[m]
            /\ last[StreamOf[m]] <= last'[StreamOf[m]]
        BY <2>3, <2>1 DEF Written
      <4>2. last'[StreamOf[m]] \in Nat
        BY <2>1 DEF TypeOK
      <4> QED
        BY <4>1, <4>2, <2>1 DEF Rows
    <3> QED
      BY <3>1, <3>2
  <2>4. ASSUME NoWrite
        PROVE  \A m \in Messages : /\ status'[m] = "absent" <=> sequence'[m] = 0
                                   /\ sequence'[m] <= last'[StreamOf[m]]
    BY <2>4, <2>1 DEF NoWrite, Rows
  <2> QED
    BY <2>2, <2>3, <2>4, WriteOrNot DEF Rows
<1> QED
  BY <1>1, <1>2, Base, PTL DEF Spec

(* The rows of one chat are numbered in the order of the conversation: a   *)
(* plan as it lists its messages, progress before the reply of its turn,   *)
(* and the block that is replaced before the one that replaces it.         *)
Ordered ==
  /\ \A t \in Turns : turn[t] # "running" => \A m \in Plan(t) : status[m] # "absent"
  /\ \A t \in Turns : \A a, b \in Plan(t) :
       (a < b /\ status[a] # "absent") => sequence[a] < sequence[b]
  /\ \A p \in Progress : \A m \in Plan(TurnOf[p]) :
       (status[p] # "absent" /\ status[m] # "absent") => sequence[p] < sequence[m]
  /\ \A m \in Messages : (SourceOf[m] # NoMessage /\ status[m] # "absent") =>
       /\ status[SourceOf[m]] # "absent"
       /\ sequence[SourceOf[m]] < sequence[m]

LEMMA OrderedHolds == Spec => []Ordered
<1> USE MessageAssumption, SourceAssumption
<1>1. Init => Ordered
  BY DEF Init, Ordered, Plan
<1>2. TypeOK /\ TypeOK' /\ ReplyAwaitsTurn /\ Rows /\ Ordered /\ [Next]_vars => Ordered'
  <2> SUFFICES ASSUME TypeOK, TypeOK', ReplyAwaitsTurn, Rows, Ordered, [Next]_vars
               PROVE  Ordered'
    OBVIOUS
  <2>1. \A m \in Messages : /\ sequence[m] \in Nat /\ last[StreamOf[m]] \in Nat
                            /\ sequence'[m] \in Nat
                            /\ status[m] # "absent" => sequence[m] <= last[StreamOf[m]]
    BY DEF TypeOK, Rows
  <2>2. CASE NoWrite
    BY <2>2 DEF NoWrite, Ordered, Plan
  <2>3. ASSUME NEW s \in Streams, NEW rows \in SUBSET Messages, Written(s, rows)
        PROVE  Ordered'
    <3>1. \A a, b \in Messages :
            (a \notin rows /\ b \in rows /\ StreamOf[a] = StreamOf[b] /\ status[a] # "absent")
              => sequence'[a] < sequence'[b]
      BY <2>3, <2>1 DEF Written
    <3>2. \A m \in rows : status'[m] = "pending" /\ status[m] = "absent"
      BY <2>3 DEF Written
    <3>3. \A m \in Messages \ rows : status'[m] = status[m] /\ sequence'[m] = sequence[m]
      BY <2>3 DEF Written
    <3>4. CASE \E m \in Messages :
                 /\ rows = {m}
                 /\ ~InPlan(m)
                 /\ m \in Progress => turn[TurnOf[m]] = "running"
                 /\ SourceOf[m] # NoMessage => status[SourceOf[m]] # "absent"
                 /\ turn' = turn
      <4>1. PICK m \in Messages :
                 /\ rows = {m}
                 /\ ~InPlan(m)
                 /\ m \in Progress => turn[TurnOf[m]] = "running"
                 /\ SourceOf[m] # NoMessage => status[SourceOf[m]] # "absent"
                 /\ turn' = turn
        BY <3>4
      <4>2. \A t \in Turns : m \notin Plan(t)
        BY <4>1 DEF Plan, InPlan
      <4>3. \A t \in Turns : \A a \in Plan(t) :
              a \in Messages /\ status'[a] = status[a] /\ sequence'[a] = sequence[a]
        BY <4>1, <4>2, <3>3 DEF Plan
      <4>4. \A p \in Progress : \A a \in Plan(TurnOf[p]) :
              (status'[p] # "absent" /\ status'[a] # "absent") => sequence'[p] < sequence'[a]
        <5> TAKE p \in Progress
        <5> TAKE a \in Plan(TurnOf[p])
        <5>1. TurnOf[p] \in Turns /\ p \in Messages
          OBVIOUS
        <5>2. CASE p = m
          <6>1. status[a] = "absent"
            BY <4>1, <5>1, <5>2 DEF ReplyAwaitsTurn
          <6> QED
            BY <6>1, <5>1, <4>3
        <5>3. CASE p # m
          BY <5>1, <5>3, <4>1, <4>3, <3>3 DEF Ordered
        <5> QED
          BY <5>2, <5>3
      <4>5. \A a \in Messages : (SourceOf[a] # NoMessage /\ status'[a] # "absent") =>
              /\ status'[SourceOf[a]] # "absent"
              /\ sequence'[SourceOf[a]] < sequence'[a]
        <5> TAKE a \in Messages
        <5> HAVE SourceOf[a] # NoMessage /\ status'[a] # "absent"
        <5>1. SourceOf[a] \in Messages /\ StreamOf[SourceOf[a]] = StreamOf[a]
          OBVIOUS
        <5>2. CASE a = m
          <6>1. status[SourceOf[a]] # "absent" /\ SourceOf[a] \notin rows
            BY <4>1, <5>2, <3>2
          <6> QED
            BY <6>1, <5>1, <5>2, <4>1, <3>1, <3>3
        <5>3. CASE a # m
          <6>1. /\ status'[a] = status[a] /\ sequence'[a] = sequence[a]
                /\ status[SourceOf[a]] # "absent"
                /\ sequence[SourceOf[a]] < sequence[a]
            BY <5>3, <4>1, <3>3 DEF Ordered
          <6> QED
            BY <6>1, <5>1, <4>1, <3>2, <3>3
        <5> QED
          BY <5>2, <5>3
      <4> QED
        BY <4>1, <4>3, <4>4, <4>5 DEF Ordered
    <3>5. CASE \E t \in Turns :
                 /\ rows = Plan(t)
                 /\ turn[t] = "running"
                 /\ turn' = [turn EXCEPT ![t] = "waiting_delivery"]
      <4>1. PICK t \in Turns :
                 /\ rows = Plan(t)
                 /\ turn[t] = "running"
                 /\ turn' = [turn EXCEPT ![t] = "waiting_delivery"]
        BY <3>5
      <4>2. \A u \in Turns : u # t =>
              /\ turn'[u] = turn[u]
              /\ \A m \in Plan(u) : m \in Messages /\ m \notin rows
        BY <4>1 DEF TypeOK, Plan
      <4>3. \A u \in Turns : turn'[u] # "running" => \A m \in Plan(u) : status'[m] # "absent"
        BY <4>1, <4>2, <3>2, <3>3 DEF Ordered
      <4>4. \A u \in Turns : \A a, b \in Plan(u) :
              (a < b /\ status'[a] # "absent") => sequence'[a] < sequence'[b]
        BY <4>1, <4>2, <3>3, <2>3 DEF Ordered, Written
      <4>5. \A p \in Progress : p \notin rows /\ TurnOf[p] \in Turns /\ p \in Messages
        BY <4>1 DEF Plan
      <4>6. \A p \in Progress : \A a \in Plan(TurnOf[p]) :
              (status'[p] # "absent" /\ status'[a] # "absent") => sequence'[p] < sequence'[a]
        <5> TAKE p \in Progress
        <5> TAKE a \in Plan(TurnOf[p])
        <5>1. StreamOf[p] = StreamOf[a] /\ a \in Messages
          BY <4>5, PlanAssumption DEF Plan
        <5>2. CASE TurnOf[p] = t
          BY <5>1, <5>2, <4>1, <4>5, <3>1, <3>3
        <5>3. CASE TurnOf[p] # t
          BY <5>1, <5>3, <4>2, <4>5, <3>3 DEF Ordered
        <5> QED
          BY <5>2, <5>3
      <4>7. \A a \in Messages : (SourceOf[a] # NoMessage /\ status'[a] # "absent") =>
              /\ status'[SourceOf[a]] # "absent"
              /\ sequence'[SourceOf[a]] < sequence'[a]
        BY <4>5, <3>3 DEF Ordered
      <4> QED
        BY <4>3, <4>4, <4>6, <4>7 DEF Ordered
    <3> QED
      BY <3>4, <3>5, <2>3 DEF Written
  <2> QED
    BY <2>2, <2>3, WriteOrNot
<1> QED
  BY <1>1, <1>2, Base, RowsHold, PTL DEF Spec

(* A chat reads in the order it was written: once a message was handed to  *)
(* Telegram, every message stored before it in its stream is settled.      *)
THEOREM ChatsReadInOrder == Spec => []StreamOrder
<1> USE MessageAssumption
<1>1. Init => StreamOrder
  BY DEF Init, StreamOrder
<1>2. /\ TypeOK /\ TypeOK' /\ ReplyAwaitsTurn /\ Rows /\ StreamOrder /\ [Next]_vars
      => StreamOrder'
  <2> SUFFICES ASSUME TypeOK, TypeOK', ReplyAwaitsTurn, Rows, StreamOrder, [Next]_vars,
                      NEW a \in Messages, NEW b \in Messages,
                      StreamOf[a] = StreamOf[b], status'[a] # "absent",
                      sequence'[a] < sequence'[b], attempts'[b] > 0
               PROVE  status'[a] \in Settled
    BY DEF StreamOrder
  <2>1. RowMoves
    BY RowsMove
  <2>2. /\ sequence[a] \in Nat /\ sequence[b] \in Nat
        /\ attempts[b] \in Nat /\ attempts'[b] \in Nat /\ last[StreamOf[b]] \in Nat
        /\ sequence'[a] \in Nat /\ sequence'[b] \in Nat
    BY DEF TypeOK
  <2>3. status'[b] \notin {"absent", "pending"}
    BY <2>1, <2>2 DEF RowMoves, Rows
  <2>4. status[b] # "absent" /\ sequence'[b] = sequence[b]
    <3>1. ASSUME status[b] = "absent" PROVE FALSE
      <4>1. attempts[b] = 0
        BY <3>1 DEF Rows
      <4>2. attempts'[b] # attempts[b]
        BY <4>1, <2>2
      <4> QED
        BY <4>2, <3>1, <2>1 DEF RowMoves
    <3> QED
      BY <3>1, <2>1 DEF RowMoves
  <2>5. status[a] # "absent" /\ sequence'[a] = sequence[a]
    <3>1. ASSUME NEW s \in Streams, NEW rows \in SUBSET Messages, Written(s, rows),
                 status[a] = "absent"
          PROVE  FALSE
      <4>1. a \in rows
        BY <3>1 DEF Written
      <4>2. last[StreamOf[b]] < sequence'[a] /\ sequence[b] <= last[StreamOf[b]]
        BY <3>1, <4>1 DEF Written, Rows
      <4> QED
        BY <4>2, <2>2, <2>4
    <3>2. status[a] # "absent"
      BY <3>1, WriteOrNot DEF NoWrite
    <3> QED
      BY <3>2, <2>1 DEF RowMoves
  <2>6. CASE attempts'[b] = attempts[b]
    BY <2>1, <2>4, <2>5, <2>6 DEF StreamOrder, RowMoves
  <2>7. CASE attempts'[b] # attempts[b]
    <3>1. status'[a] \notin Active
      BY <2>1, <2>4, <2>5, <2>7 DEF RowMoves
    <3> QED
      BY <3>1 DEF TypeOK, Statuses
  <2> QED
    BY <2>6, <2>7
<1> QED
  BY <1>1, <1>2, Base, RowsHold, PTL DEF Spec

----------------------------------------------------------------------------
(* What the order makes of a turn *)

(* PlanOutcome, and what it takes for it to be inductive: only the rest of *)
(* a failed plan is ever cancelled, and it was never claimed.              *)
Plans ==
  /\ PlanOutcome
  /\ \A m \in Messages : status[m] = "cancelled" =>
       /\ InPlan(m)
       /\ turn[TurnOf[m]] = "failed_final"
       /\ attempts[m] = 0

LEMMA NoneAbandoned ==
  ASSUME TypeOK, Plans
  PROVE  Abandoned = {} /\ Swept = status
<1>1. ASSUME NEW m \in Abandoned PROVE FALSE
  <2>1. /\ m \in Messages /\ InPlan(m) /\ turn[TurnOf[m]] = "failed_final"
        /\ status[m] \in {"pending", "retry_wait"}
    BY DEF Abandoned
  <2>2. TurnOf[m] \in Turns /\ m \in Plan(TurnOf[m])
    BY <2>1, MessageAssumption DEF InPlan, Plan
  <2>3. PICK f \in Plan(TurnOf[m]) : status[f] = "failed_final"
    BY <2>1, <2>2 DEF Plans, PlanOutcome
  <2>4. f \in Nat /\ m \in Nat /\ f # m
    BY <2>1, <2>3, MessageAssumption DEF Plan
  <2>5. status[m] \in {"delivered", "cancelled"}
    BY <2>2, <2>3, <2>4 DEF Plans, PlanOutcome
  <2> QED
    BY <2>1, <2>5
<1> QED
  BY <1>1 DEF Swept, TypeOK

(* While a message of a plan is on its way, its turn waits for delivery,   *)
(* what precedes it in the plan is delivered, what follows is untouched.   *)
LEMMA PlanAtWork ==
  ASSUME TypeOK, ReplyAwaitsTurn, Rows, Ordered, StreamOrder, Plans,
         NEW t \in Turns, NEW m \in Plan(t), status[m] = "processing"
  PROVE  /\ turn[t] = "waiting_delivery"
         /\ \A p \in Plan(t) : p < m => status[p] = "delivered"
         /\ \A p \in Plan(t) : p > m => status[p] = "pending"
<1>1. m \in Messages /\ m \in Nat /\ Plan(t) \subseteq Messages /\ Plan(t) \subseteq Nat
  BY MessageAssumption DEF Plan
<1>2. turn[t] # "running" /\ turn[t] # "delivered"
  BY DEF ReplyAwaitsTurn, Plans, PlanOutcome
<1>3. turn[t] # "failed_final"
  <2>1. ASSUME NEW f \in Plan(t), status[f] = "failed_final" PROVE FALSE
    <3>1. status[m] \in {"delivered", "cancelled", "failed_final"}
      BY <2>1, <1>1 DEF Plans, PlanOutcome
    <3> QED
      BY <3>1
  <2> QED
    BY <2>1 DEF Plans, PlanOutcome
<1>4. turn[t] = "waiting_delivery"
  BY <1>2, <1>3 DEF TypeOK, TurnStates
<1>5. \A p \in Plan(t) : status[p] \notin {"absent", "failed_final", "cancelled"}
  BY <1>1, <1>3, <1>4 DEF Ordered, Plans, PlanOutcome, Plan
<1>6. \A p \in Plan(t) : StreamOf[p] = StreamOf[m]
  BY PlanAssumption DEF Plan
<1>7. attempts[m] > 0
  BY <1>1 DEF Rows, Claimed
<1>8. ASSUME NEW p \in Plan(t), p < m PROVE status[p] = "delivered"
  <2>1. sequence[p] < sequence[m]
    BY <1>5, <1>8 DEF Ordered
  <2>2. status[p] \in Settled
    BY <1>1, <1>5, <1>6, <1>7, <2>1 DEF StreamOrder
  <2> QED
    BY <2>2, <1>5 DEF Settled
<1>9. ASSUME NEW p \in Plan(t), p > m PROVE status[p] = "pending"
  <2>1. sequence[m] < sequence[p]
    BY <1>1, <1>5, <1>9 DEF Ordered
  <2>2. ~(attempts[p] > 0)
    BY <1>1, <1>5, <1>6, <2>1 DEF StreamOrder, Settled
  <2>3. status[p] \notin Claimed
    BY <1>1, <2>2 DEF Rows
  <2>4. status[p] \in Statuses
    BY <1>1 DEF TypeOK
  <2> QED
    BY <2>3, <2>4, <1>5 DEF Claimed, Statuses, Active, Settled
<1> QED
  BY <1>4, <1>8, <1>9

LEMMA PlansHold == Spec => []Plans
<1> USE MessageAssumption
<1>1. Init => Plans
  BY PlanAssumption DEF Init, Plans, PlanOutcome, Plan
<1>2. /\ TypeOK /\ ReplyAwaitsTurn /\ Rows /\ Ordered /\ StreamOrder /\ Plans /\ [Next]_vars
      => Plans'
  <2> SUFFICES ASSUME TypeOK, ReplyAwaitsTurn, Rows, Ordered, StreamOrder, Plans, [Next]_vars
               PROVE  Plans'
    OBVIOUS
  <2> DEFINE Same(m) == status'[m] = status[m] /\ attempts'[m] = attempts[m]
             Fate(t) == /\ turn'[t] = "delivered" <=> \A m \in Plan(t) : status'[m] = "delivered"
                        /\ turn'[t] = "failed_final"
                             <=> \E m \in Plan(t) : status'[m] = "failed_final"
                        /\ \A m, p \in Plan(t) : status'[m] = "failed_final" =>
                             /\ p < m => status'[p] = "delivered"
                             /\ p > m => status'[p] = "cancelled" /\ attempts'[p] = 0
             Cancels == \A m \in Messages : status'[m] = "cancelled" =>
                          /\ InPlan(m)
                          /\ turn'[TurnOf[m]] = "failed_final"
                          /\ attempts'[m] = 0
  <2>0. ((\A t \in Turns : Fate(t)) /\ Cancels) => Plans'
    BY DEF Plans, PlanOutcome
  <2>1. \A t \in Turns : Plan(t) # {} /\ Plan(t) \subseteq Messages
    BY PlanAssumption DEF Plan
  <2>2. ASSUME NEW t \in Turns, turn'[t] = turn[t],
               \A m \in Plan(t) :
                 Same(m) \/ (status[m] \notin Settled /\ status'[m] \notin Settled)
        PROVE  Fate(t)
    BY <2>2 DEF Plans, PlanOutcome, Settled
  <2>3. ASSUME turn' = turn,
               \A m \in Messages :
                 Same(m) \/ (status[m] \notin Settled /\ status'[m] \notin Settled)
        PROVE  Plans'
    <3>1. Cancels
      BY <2>3 DEF Plans, Settled
    <3> QED
      BY <2>0, <2>1, <2>2, <2>3, <3>1
  <2>4. ASSUME NEW s \in Streams, NEW rows \in SUBSET Messages, Written(s, rows)
        PROVE  Plans'
    <3>1. \A m \in rows : status[m] = "absent" /\ status'[m] = "pending"
      BY <2>4 DEF Written
    <3>2. \A m \in Messages \ rows : Same(m)
      BY <2>4 DEF Written
    <3>3. CASE turn' = turn
      BY <3>1, <3>2, <3>3, <2>3 DEF Settled
    <3>4. CASE \E t \in Turns : /\ rows = Plan(t)
                                /\ turn[t] = "running"
                                /\ turn' = [turn EXCEPT ![t] = "waiting_delivery"]
      <4>1. PICK t \in Turns : /\ rows = Plan(t)
                               /\ turn[t] = "running"
                               /\ turn' = [turn EXCEPT ![t] = "waiting_delivery"]
        BY <3>4
      <4>2. turn'[t] = "waiting_delivery" /\ \A u \in Turns \ {t} : turn'[u] = turn[u]
        BY <4>1 DEF TypeOK
      <4>3. Fate(t)
        BY <4>1, <4>2, <3>1, <2>1
      <4>4. \A u \in Turns \ {t} : Fate(u)
        BY <4>2, <3>1, <3>2, <2>1, <2>2 DEF Settled
      <4>5. Cancels
        BY <4>1, <4>2, <3>1, <3>2 DEF Plans, InPlan
      <4> QED
        BY <2>0, <4>3, <4>4, <4>5
    <3> QED
      BY <2>4, <3>3, <3>4 DEF Written
  <2>5. ASSUME NEW w \in Workers, NEW m \in Messages, ClaimOutbound(w, m)
        PROVE  Plans'
    <3>1. /\ Swept = status /\ turn' = turn /\ status[m] \in {"pending", "retry_wait"}
          /\ status' = [status EXCEPT ![m] = "processing"]
          /\ attempts' = [attempts EXCEPT ![m] = @ + 1]
      BY <2>5, NoneAbandoned DEF ClaimOutbound, Claimable
    <3> QED
      BY <3>1, <2>3 DEF TypeOK, Settled
  <2>6. CASE RecoverExpired
    <3>1. \A m \in Messages : Same(m) \/ (status[m] = "processing" /\ status'[m] = "retry_wait")
      BY <2>6 DEF RecoverExpired, TypeOK
    <3> QED
      BY <2>6, <3>1, <2>3 DEF RecoverExpired, Settled
  <2>7. ASSUME NEW w \in Workers, ScheduleOutboundRetry(w)
        PROVE  Plans'
    <3>1. held[w] # NoClaim /\ Settle(w) /\ held[w].message \in Messages
      BY <2>7, HeldClaim DEF ScheduleOutboundRetry
    <3> QED
      BY <3>1, <2>7, <2>3, SettleFacts DEF ScheduleOutboundRetry, TypeOK, Settled
  <2>8. ASSUME NEW w \in Workers, CompleteOutbound(w)
        PROVE  Plans'
    <3> DEFINE m == held[w].message
    <3>1. /\ held[w] # NoClaim /\ Settle(w) /\ m \in Messages
          /\ status[m] = "processing" /\ attempts' = attempts
          /\ status' = [status EXCEPT ![m] = "delivered"]
      BY <2>8, HeldClaim, SettleFacts DEF CompleteOutbound
    <3>2. \A p \in Messages \ {m} : Same(p)
      BY <3>1 DEF TypeOK
    <3>3. status'[m] = "delivered"
      BY <3>1 DEF TypeOK
    <3>4. CASE ~InPlan(m)
      <4>1. turn' = turn /\ \A t \in Turns : m \notin Plan(t)
        BY <2>8, <3>4 DEF CompleteOutbound, InPlan, Plan
      <4>2. \A t \in Turns : Fate(t)
        BY <4>1, <3>2, <2>1, <2>2
      <4>3. Cancels
        BY <4>1, <3>2, <3>3 DEF Plans
      <4> QED
        BY <2>0, <4>2, <4>3
    <3>5. CASE InPlan(m)
      <4> DEFINE t == TurnOf[m]
      <4>1. t \in Turns /\ m \in Plan(t) /\ \A u \in Turns \ {t} : m \notin Plan(u)
        BY <3>1, <3>5 DEF InPlan, Plan
      <4>2. turn[t] = "waiting_delivery"
        BY <3>1, <4>1, PlanAtWork
      <4>3. turn' = IF \A p \in Plan(t) : status'[p] = "delivered"
                      THEN [turn EXCEPT ![t] = "delivered"] ELSE turn
        BY <2>8, <3>5, <4>1, <4>2 DEF CompleteOutbound, PlanDelivered, TypeOK
      <4>4. \A p \in Plan(t) : status'[p] # "failed_final"
        BY <4>1, <4>2, <3>2, <3>3, <2>1 DEF Plans, PlanOutcome
      <4>5. Fate(t)
        BY <4>1, <4>2, <4>3, <4>4 DEF TypeOK
      <4>6. \A u \in Turns \ {t} : turn'[u] = turn[u]
        BY <4>1, <4>3 DEF TypeOK
      <4>7. \A u \in Turns \ {t} : Fate(u)
        BY <4>1, <4>6, <3>2, <2>1, <2>2
      <4>8. Cancels
        <5> TAKE p \in Messages
        <5> HAVE status'[p] = "cancelled"
        <5>1. p # m /\ status[p] = "cancelled" /\ attempts'[p] = attempts[p]
          BY <3>2, <3>3
        <5>2. InPlan(p) /\ turn[TurnOf[p]] = "failed_final" /\ attempts[p] = 0
          BY <5>1 DEF Plans
        <5>3. TurnOf[p] # t /\ TurnOf[p] \in Turns
          BY <5>2, <4>2 DEF InPlan
        <5> QED
          BY <5>1, <5>2, <5>3, <4>6
      <4> QED
        BY <2>0, <4>5, <4>7, <4>8
    <3> QED
      BY <3>4, <3>5
  <2>9. ASSUME NEW w \in Workers, DeadLetterOutbound(w)
        PROVE  Plans'
    <3> DEFINE m == held[w].message
    <3>1. /\ held[w] # NoClaim /\ Settle(w) /\ m \in Messages
          /\ status[m] = "processing" /\ attempts' = attempts
      BY <2>9, HeldClaim, SettleFacts DEF DeadLetterOutbound
    <3>2. \A p \in Messages : status'[p] = IF p = m THEN "failed_final"
                                           ELSE IF p \in Siblings(m) THEN "cancelled" ELSE status[p]
      BY <2>9 DEF DeadLetterOutbound
    <3>3. \A t \in Turns : turn'[t] = IF InPlan(m) /\ t = TurnOf[m] THEN "failed_final" ELSE turn[t]
      BY <2>9 DEF DeadLetterOutbound
    <3>4. CASE ~InPlan(m)
      <4>1. \A p \in Messages \ {m} : Same(p)
        BY <3>1, <3>2, <3>4 DEF Siblings
      <4>2. /\ \A t \in Turns : m \notin Plan(t) /\ turn'[t] = turn[t]
            /\ status'[m] = "failed_final"
        BY <3>1, <3>2, <3>3, <3>4 DEF InPlan, Plan
      <4>3. \A t \in Turns : turn'[t] = turn[t] /\ \A p \in Plan(t) : Same(p)
        BY <4>1, <4>2, <2>1
      <4>4. \A t \in Turns : Fate(t)
        BY <4>3, <2>2
      <4>5. Cancels
        BY <4>1, <4>2 DEF Plans, InPlan
      <4> QED
        BY <2>0, <4>4, <4>5
    <3>5. CASE InPlan(m)
      <4> DEFINE t == TurnOf[m]
      <4>1. t \in Turns /\ m \in Plan(t) /\ \A u \in Turns \ {t} : m \notin Plan(u)
        BY <3>1, <3>5 DEF InPlan, Plan
      <4>2. /\ turn[t] = "waiting_delivery"
            /\ \A p \in Plan(t) : p < m => status[p] = "delivered"
            /\ \A p \in Plan(t) : p > m => status[p] = "pending"
        BY <3>1, <4>1, PlanAtWork
      <4>3. /\ turn'[t] = "failed_final" /\ status'[m] = "failed_final"
            /\ \A u \in Turns \ {t} : turn'[u] = turn[u]
        BY <3>1, <3>2, <3>3, <3>5, <4>1
      <4>4. \A p \in Plan(t) : p \in Nat /\ p \in Messages
        BY <2>1, <4>1
      <4>5. \A p \in Plan(t) : p < m => status'[p] = "delivered"
        BY <3>2, <4>1, <4>2, <4>4 DEF Siblings
      <4>6. \A p \in Plan(t) : p > m => status'[p] = "cancelled" /\ attempts'[p] = 0
        BY <3>1, <3>2, <3>5, <4>1, <4>2, <4>4 DEF Siblings, Rows
      <4>7. \A p \in Plan(t) : status'[p] = "failed_final" => p = m
        BY <4>1, <4>4, <4>5, <4>6
      <4>8. Fate(t)
        BY <4>1, <4>3, <4>5, <4>6, <4>7
      <4>9. \A u \in Turns \ {t} : \A p \in Plan(u) : Same(p)
        BY <3>1, <3>2, <4>1, <2>1 DEF Siblings, Plan
      <4>10. \A u \in Turns \ {t} : Fate(u)
        BY <4>3, <4>9, <2>2
      <4>11. Cancels
        <5> TAKE p \in Messages
        <5> HAVE status'[p] = "cancelled"
        <5>1. CASE p \in Plan(t)
          <6>1. p # m
            BY <4>3
          <6>2. p > m \/ p < m
            BY <6>1, <4>1, <4>4, <5>1
          <6>3. ~(p < m)
            BY <5>1, <4>5
          <6>4. attempts'[p] = 0
            BY <6>2, <6>3, <5>1, <4>6
          <6>5. TurnOf[p] = t /\ InPlan(p)
            BY <5>1, <4>1 DEF InPlan, Plan
          <6> QED
            BY <6>4, <6>5, <4>3
        <5>2. CASE p \notin Plan(t)
          <6>1. status[p] = "cancelled" /\ attempts'[p] = attempts[p]
            BY <5>2, <3>1, <3>2, <4>1 DEF Siblings
          <6>2. InPlan(p) /\ turn[TurnOf[p]] = "failed_final" /\ attempts[p] = 0
            BY <6>1 DEF Plans
          <6>3. TurnOf[p] \in Turns \ {t}
            BY <6>2, <4>2 DEF InPlan
          <6> QED
            BY <6>1, <6>2, <6>3, <4>3
        <5> QED
          BY <5>1, <5>2
      <4> QED
        BY <2>0, <4>8, <4>10, <4>11
    <3> QED
      BY <3>4, <3>5
  <2>10. CASE Quiet
    BY <2>10, <2>3 DEF Quiet
  <2> QED
    BY <2>4, <2>5, <2>6, <2>7, <2>8, <2>9, <2>10, RowCases
<1> QED
  BY <1>1, <1>2, Base, RowsHold, OrderedHolds, ChatsReadInOrder, PTL DEF Spec

(* The turn says what happened to its reply, and what a failed reply       *)
(* showed is a prefix of it.                                               *)
THEOREM PlansEnd == Spec => []PlanOutcome
<1>1. Plans => PlanOutcome
  BY DEF Plans
<1> QED
  BY <1>1, PlansHold, PTL

(* The sweep of every claim finds nothing to cancel.                       *)
THEOREM SweepFindsNothing == Spec => []NothingAbandoned
<1>1. TypeOK /\ Plans => NothingAbandoned
  BY NoneAbandoned DEF NothingAbandoned
<1> QED
  BY <1>1, Base, PlansHold, PTL

(* Progress blocks never trail the reply of their turn.                    *)
THEOREM ProgressFirst == Spec => []ProgressPrecedesReply
<1>1. TypeOK /\ Rows /\ Ordered /\ StreamOrder => ProgressPrecedesReply
  <2> SUFFICES ASSUME TypeOK, Rows, Ordered, StreamOrder,
                      NEW p \in Progress, NEW m \in Plan(TurnOf[p]), attempts[m] > 0,
                      status[p] # "absent"
               PROVE  status[p] \in Settled
    BY DEF ProgressPrecedesReply
  <2>1. p \in Messages /\ m \in Messages /\ StreamOf[p] = StreamOf[m]
    BY MessageAssumption, PlanAssumption DEF Plan
  <2>2. status[m] # "absent"
    BY <2>1 DEF Rows
  <2>3. sequence[p] < sequence[m]
    BY <2>2 DEF Ordered
  <2> QED
    BY <2>1, <2>3 DEF StreamOrder
<1> QED
  BY <1>1, Base, RowsHold, OrderedHolds, ChatsReadInOrder, PTL

----------------------------------------------------------------------------
(* The claims of the consumers *)

(* Every claim is numbered, no two consumers hold the same one.            *)
Claims ==
  /\ \A w \in Workers : held[w] # NoClaim =>
       /\ 1 <= held[w].attempt
       /\ held[w].attempt <= attempts[held[w].message]
  /\ \A v, w \in Workers :
       ( /\ held[v] # NoClaim
         /\ held[w] # NoClaim
         /\ held[v].message = held[w].message
         /\ held[v].attempt = held[w].attempt ) => v = w

(* A step that claims nothing leaves attempts alone; a consumer keeps its  *)
(* claim, learns how it ended, or drops it.                                *)
Keeps(w) ==
  \/ held'[w] = held[w]
  \/ held'[w] = NoClaim
  \/ /\ held[w] # NoClaim /\ held'[w] # NoClaim
     /\ held'[w].message = held[w].message
     /\ held'[w].attempt = held[w].attempt
     /\ held[w].stage = "sending"
     /\ Deliver(w)

LEMMA HeldMove ==
  ASSUME TypeOK, ReplyAwaitsTurn, [Next]_vars
  PROVE  \/ \E w \in Workers, m \in Messages : ClaimOutbound(w, m)
         \/ attempts' = attempts /\ \A w \in Workers : Keeps(w)
<1>1. ASSUME NEW m \in Messages,
             EnqueueStandalone(m) \/ PublishProgress(m) \/ LeaseElapses(m)
      PROVE  attempts' = attempts /\ held' = held
  BY <1>1 DEF EnqueueStandalone, PublishProgress, LeaseElapses, Insert
<1>2. ASSUME NEW t \in Turns, EnqueuePlan(t)
      PROVE  attempts' = attempts /\ held' = held
  BY <1>2 DEF EnqueuePlan, Insert
<1>3. ASSUME NEW w \in Workers, Deliver(w)
      PROVE  attempts' = attempts /\ \A v \in Workers : Keeps(v)
  <2>1. PICK o \in Outcomes : EndAttempt(w, o)
    BY <1>3 DEF Deliver, Outcomes
  <2>2. held[w] # NoClaim /\ held[w].stage = "sending" /\ held[w] \in OutboundClaim
    BY <1>3, HeldClaim DEF Deliver
  <2>3. [held[w] EXCEPT !.stage = o] \in OutboundClaim
    BY <2>2 DEF OutboundClaim, Outcomes, Stages
  <2>4. held'[w] = [held[w] EXCEPT !.stage = o] /\ \A v \in Workers \ {w} : held'[v] = held[v]
    BY <2>1 DEF EndAttempt, TypeOK
  <2>5. /\ held'[w] # NoClaim
        /\ held'[w].message = held[w].message
        /\ held'[w].attempt = held[w].attempt
    BY <2>2, <2>3, <2>4, WorkerAssumption DEF OutboundClaim
  <2> QED
    BY <1>3, <2>2, <2>4, <2>5 DEF Keeps, Deliver, row
<1>4. ASSUME NEW w \in Workers,
             \/ CompleteOutbound(w) \/ ScheduleOutboundRetry(w) \/ DeadLetterOutbound(w)
             \/ StaleClaim(w) \/ FinalizationFails(w)
      PROVE  attempts' = attempts /\ \A v \in Workers : Keeps(v)
  <2>1. attempts' = attempts /\ held' = [held EXCEPT ![w] = NoClaim]
    BY <1>4 DEF CompleteOutbound, ScheduleOutboundRetry, DeadLetterOutbound, Settle,
                StaleClaim, FinalizationFails, row
  <2> QED
    BY <2>1 DEF Keeps, TypeOK
<1>5. ASSUME Crash
      PROVE  attempts' = attempts /\ \A v \in Workers : Keeps(v)
  BY <1>5 DEF Crash, row, Keeps
<1>6. ASSUME RecoverExpired \/ UNCHANGED vars
      PROVE  attempts' = attempts /\ held' = held
  BY <1>6 DEF RecoverExpired, vars, row
<1> QED
  BY <1>1, <1>2, <1>3, <1>4, <1>5, <1>6 DEF Next, Enqueue, Consume, Keeps

(* A claim is what the row says afterwards, in a slot that was idle.       *)
LEMMA NewClaim ==
  ASSUME TypeOK, NEW w \in Workers, NEW m \in Messages, ClaimOutbound(w, m)
  PROVE  /\ held[w] = NoClaim
         /\ held'[w] # NoClaim
         /\ held'[w].message = m /\ held'[w].stage = "sending"
         /\ held'[w].attempt = attempts[m] + 1
         /\ attempts'[m] = attempts[m] + 1 /\ attempts[m] \in Nat
         /\ \A v \in Workers \ {w} : held'[v] = held[v]
         /\ \A p \in Messages \ {m} : attempts'[p] = attempts[p]
<1>1. /\ held[w] = NoClaim /\ attempts[m] \in Nat
      /\ attempts'[m] = attempts[m] + 1
      /\ \A p \in Messages \ {m} : attempts'[p] = attempts[p]
  BY DEF ClaimOutbound, TypeOK
<1>2. /\ held'[w] = [message |-> m, attempt |-> attempts[m] + 1, stage |-> "sending"]
      /\ \A v \in Workers \ {w} : held'[v] = held[v]
  BY DEF ClaimOutbound, TypeOK
<1>3. held'[w] \in OutboundClaim
  BY <1>1, <1>2 DEF OutboundClaim, Stages
<1> QED
  BY <1>1, <1>2, <1>3, WorkerAssumption

LEMMA ClaimsHold == Spec => []Claims
<1>1. Init => Claims
  BY DEF Init, Claims
<1>2. TypeOK /\ TypeOK' /\ ReplyAwaitsTurn /\ Claims /\ [Next]_vars => Claims'
  <2> SUFFICES ASSUME TypeOK, TypeOK', ReplyAwaitsTurn, Claims, [Next]_vars
               PROVE  Claims'
    OBVIOUS
  <2>1. ASSUME NEW w \in Workers, NEW m \in Messages, ClaimOutbound(w, m)
        PROVE  Claims'
    <3>1. \A v \in Workers \ {w} : held[v] # NoClaim =>
            /\ held'[v] = held[v] /\ held[v].message \in Messages /\ held[v].attempt \in Nat
            /\ 1 <= held[v].attempt
            /\ held[v].attempt <= attempts[held[v].message]
      BY <2>1, NewClaim, HeldClaim DEF Claims
    <3>2. \A p \in Messages : attempts[p] \in Nat
      BY DEF TypeOK
    <3>3. \A v \in Workers : held'[v] # NoClaim =>
            1 <= held'[v].attempt /\ held'[v].attempt <= attempts'[held'[v].message]
      <4> TAKE v \in Workers
      <4> HAVE held'[v] # NoClaim
      <4>1. CASE v = w
        BY <4>1, <2>1, NewClaim
      <4>2. CASE v # w
        <5>1. held[v] # NoClaim /\ held'[v] = held[v]
          BY <4>2, <2>1, NewClaim
        <5>2. attempts'[held[v].message] >= attempts[held[v].message]
          BY <5>1, <4>2, <3>1, <3>2, <2>1, NewClaim
        <5>3. attempts'[held[v].message] \in Nat
          BY <5>1, <4>2, <3>1 DEF TypeOK
        <5> QED
          BY <5>1, <5>2, <5>3, <4>2, <3>1, <3>2
      <4> QED
        BY <4>1, <4>2
    <3>4. \A v \in Workers \ {w} :
            (held[v] # NoClaim /\ held[v].message = m) => held[v].attempt # attempts[m] + 1
      BY <3>1, <3>2
    <3>5. \A v, u \in Workers :
            ( /\ held'[v] # NoClaim /\ held'[u] # NoClaim
              /\ held'[v].message = held'[u].message
              /\ held'[v].attempt = held'[u].attempt ) => v = u
      BY <3>4, <2>1, NewClaim DEF Claims
    <3> QED
      BY <3>3, <3>5 DEF Claims
  <2>2. ASSUME attempts' = attempts, \A w \in Workers : Keeps(w)
        PROVE  Claims'
    <3>1. \A w \in Workers : held'[w] # NoClaim =>
            /\ held[w] # NoClaim
            /\ held'[w].message = held[w].message
            /\ held'[w].attempt = held[w].attempt
      BY <2>2 DEF Keeps
    <3> QED
      BY <2>2, <3>1 DEF Claims
  <2> QED
    BY <2>1, <2>2, HeldMove
<1> QED
  BY <1>1, <1>2, Base, PTL DEF Spec

(* RefusedForGood, and that a refused message has a source.                *)
Refusals ==
  \A w \in Workers : (held[w] # NoClaim /\ held[w].stage = "refused") =>
    /\ SourceOf[held[w].message] \in Messages
    /\ status[SourceOf[held[w].message]] = "failed_final"

(* When an attempt finds its source undelivered, the source has failed: it *)
(* precedes the replacement, so it is settled, and blocks are not          *)
(* cancelled.                                                              *)
LEMMA RefusalFacts ==
  ASSUME TypeOK, Rows, Ordered, StreamOrder, Plans, Claims,
         NEW w \in Workers, held[w] # NoClaim, Refused(held[w].message)
  PROVE  /\ SourceOf[held[w].message] \in Messages
         /\ status[SourceOf[held[w].message]] = "failed_final"
<1> DEFINE m == held[w].message
           e == SourceOf[m]
<1>1. m \in Messages /\ held[w].attempt \in Nat /\ attempts[m] \in Nat
  BY HeldClaim DEF TypeOK
<1>2. e # NoMessage /\ status[e] # "delivered"
  BY DEF Refused
<1>3. e \in Messages /\ e \in Progress /\ StreamOf[e] = StreamOf[m]
  BY <1>1, <1>2, SourceAssumption
<1>4. attempts[m] > 0
  BY <1>1 DEF Claims
<1>5. status[m] # "absent"
  BY <1>1, <1>4 DEF Rows
<1>6. status[e] # "absent" /\ sequence[e] < sequence[m]
  BY <1>1, <1>2, <1>5 DEF Ordered
<1>7. status[e] \in Settled
  BY <1>1, <1>3, <1>4, <1>6 DEF StreamOrder
<1>8. status[e] # "cancelled"
  BY <1>3 DEF Plans, InPlan
<1> QED
  BY <1>2, <1>3, <1>7, <1>8 DEF Settled

LEMMA RefusalsHold == Spec => []Refusals
<1>1. Init => Refusals
  BY DEF Init, Refusals
<1>2. /\ TypeOK /\ ReplyAwaitsTurn /\ Rows /\ Ordered /\ StreamOrder /\ Plans
      /\ Claims /\ Refusals /\ [Next]_vars
      => Refusals'
  <2> SUFFICES ASSUME TypeOK, ReplyAwaitsTurn, Rows, Ordered, StreamOrder, Plans,
                      Claims, Refusals, [Next]_vars,
                      NEW w \in Workers, held'[w] # NoClaim, held'[w].stage = "refused"
               PROVE  /\ SourceOf[held'[w].message] \in Messages
                      /\ status'[SourceOf[held'[w].message]] = "failed_final"
    BY DEF Refusals
  <2>1. RowMoves
    BY RowsMove
  <2>2. CASE held'[w] = held[w]
    BY <2>1, <2>2 DEF Refusals, RowMoves, Settled
  <2>3. CASE held'[w] # held[w]
    <3>1. ASSUME NEW v \in Workers, NEW m \in Messages, ClaimOutbound(v, m)
          PROVE  FALSE
      BY <3>1, <2>3, NewClaim
    <3>2. held[w] # NoClaim /\ Deliver(w) /\ held'[w].message = held[w].message
      BY <2>3, <3>1, HeldMove DEF Keeps
    <3>3. PICK o \in Outcomes : EndAttempt(w, o) /\ (o = "refused" => Refused(held[w].message))
      BY <3>2 DEF Deliver, Outcomes
    <3>4. held'[w] = [held[w] EXCEPT !.stage = o] /\ held[w] \in OutboundClaim
      BY <3>2, <3>3, HeldClaim DEF EndAttempt, TypeOK
    <3>5. o = "refused"
      BY <3>4 DEF OutboundClaim
    <3>6. status' = status
      BY <3>2 DEF Deliver, row
    <3> QED
      BY <3>2, <3>3, <3>5, <3>6, RefusalFacts
  <2> QED
    BY <2>2, <2>3
<1> QED
  BY <1>1, <1>2, Base, RowsHold, OrderedHolds, ChatsReadInOrder, PlansHold, ClaimsHold, PTL
     DEF Spec

(* A replacement is refused only because its source failed for good.       *)
THEOREM RefusedSourcesFailed == Spec => []RefusedForGood
<1>1. Refusals => RefusedForGood
  BY DEF Refusals, RefusedForGood
<1> QED
  BY <1>1, RefusalsHold, PTL

----------------------------------------------------------------------------
(* Receipts *)

(* ReceiptsDecide, and that a current claim that was shown has a receipt.  *)
Receipts ==
  /\ ReceiptsDecide
  /\ \A w \in Workers :
       (held[w] # NoClaim /\ held[w].stage = "shown" /\ Owns(held[w]))
         => held[w].message \in receipt

(* Only one consumer owns a row.                                           *)
LEMMA OneOwner ==
  ASSUME Claims, NEW v \in Workers, NEW w \in Workers,
         held[v] # NoClaim, held[w] # NoClaim,
         held[v].message = held[w].message, Owns(held[v]), Owns(held[w])
  PROVE  v = w
BY DEF Claims, Owns

LEMMA ReceiptsHold == Spec => []Receipts
<1>1. Init => Receipts
  BY DEF Init, Receipts, ReceiptsDecide
<1>2. /\ TypeOK /\ TypeOK' /\ ReplyAwaitsTurn /\ Plans /\ Plans' /\ Claims
      /\ Receipts /\ [Next]_vars
      => Receipts'
  <2> SUFFICES ASSUME TypeOK, TypeOK', ReplyAwaitsTurn, Plans, Plans', Claims,
                      Receipts, [Next]_vars
               PROVE  Receipts'
    OBVIOUS
  <2> DEFINE Holder(w, m) == /\ held[w] # NoClaim
                             /\ held[w].message = m
                             /\ held[w].stage = "shown"
                             /\ Owns(held[w])
             Kept(m) == m \in receipt' => (status'[m] = "delivered" \/ \E w \in Workers : Holder(w, m)')
             Shown(w) == (held'[w] # NoClaim /\ held'[w].stage = "shown" /\ Owns(held[w])')
                            => held'[w].message \in receipt'
  <2>0. (\A m \in Messages : status'[m] = "delivered" => m \in receipt')
          /\ (\A m \in Messages : Kept(m)) /\ (\A w \in Workers : Shown(w)) => Receipts'
    BY DEF Receipts, ReceiptsDecide, Plans
  <2>1. /\ \A m \in Messages : status[m] = "delivered" => m \in receipt
        /\ \A m \in Messages : m \in receipt =>
             status[m] = "delivered" \/ \E w \in Workers : Holder(w, m)
        /\ \A w \in Workers :
             (held[w] # NoClaim /\ held[w].stage = "shown" /\ Owns(held[w]))
               => held[w].message \in receipt
        /\ \A m \in Messages, w \in Workers : Holder(w, m) => status[m] = "processing"
    BY DEF Receipts, ReceiptsDecide, Owns
  <2> HIDE DEF Kept, Shown
  <2>2. ASSUME receipt' = receipt, held' = held, attempts' = attempts,
               \A m \in Messages :
                 \/ status'[m] = status[m]
                 \/ {status[m], status'[m]} \cap {"processing", "delivered"} = {}
        PROVE  Receipts'
    <3>1. \A w \in Workers : held[w] # NoClaim =>
            held[w].message \in Messages /\ (Owns(held[w])' <=> Owns(held[w]))
      BY <2>2, HeldClaim DEF Owns
    <3>2. \A m \in Messages : Kept(m)
      BY <2>1, <2>2, <3>1 DEF Kept
    <3>3. \A w \in Workers : Shown(w)
      BY <2>1, <2>2, <3>1 DEF Shown
    <3> QED
      BY <2>0, <2>1, <2>2, <3>2, <3>3
  <2>4. CASE (\E m \in Messages : LeaseElapses(m)) \/ UNCHANGED vars
    BY <2>4, <2>2 DEF LeaseElapses, vars, row
  <2>5. ASSUME NEW w \in Workers, NEW m \in Messages, ClaimOutbound(w, m)
        PROVE  Receipts'
    <3>1. /\ Swept = status /\ status[m] \in {"pending", "retry_wait"} /\ receipt' = receipt
          /\ status' = [status EXCEPT ![m] = "processing"]
      BY <2>5, NoneAbandoned DEF ClaimOutbound, Claimable
    <3>2. m \notin receipt
      BY <2>1, <3>1
    <3>3. \A p \in Messages \ {m} : status'[p] = status[p] /\ attempts'[p] = attempts[p]
      BY <3>1, <2>5, NewClaim DEF TypeOK
    <3>4. \A v \in Workers \ {w} : held[v] # NoClaim =>
            /\ held'[v] = held[v] /\ held[v].message \in Messages
            /\ held[v].message # m => (Owns(held[v])' <=> Owns(held[v]))
            /\ held[v].message = m => ~Owns(held[v])'
      <4> TAKE v \in Workers \ {w}
      <4> HAVE held[v] # NoClaim
      <4>1. held'[v] = held[v] /\ held[v].message \in Messages /\ held[v].attempt \in Nat
        BY <2>5, NewClaim, HeldClaim
      <4>2. held[v].message = m => held[v].attempt # attempts'[m]
        BY <4>1, <2>5, NewClaim DEF Claims
      <4> QED
        BY <4>1, <4>2, <3>3 DEF Owns
    <3>5. \A p \in Messages : Kept(p)
      <4> TAKE p \in Messages
      <4>1. CASE p = m
        BY <4>1, <3>1, <3>2 DEF Kept
      <4>2. CASE p # m
        BY <4>2, <2>1, <3>1, <3>3, <3>4, <2>5, NewClaim DEF Kept
      <4> QED
        BY <4>1, <4>2
    <3>6. \A v \in Workers : Shown(v)
      BY <2>1, <2>5, <3>1, <3>4, NewClaim DEF Shown
    <3>7. \A p \in Messages : status'[p] = "delivered" => p \in receipt'
      BY <2>1, <3>1 DEF TypeOK
    <3> QED
      BY <2>0, <3>5, <3>6, <3>7
  <2>6. CASE RecoverExpired
    <3>1. /\ receipt' = receipt \ elapsed /\ attempts' = attempts /\ held' = held
          /\ \A m \in Messages : IF m \in elapsed THEN status[m] = "processing" /\ status'[m] = "retry_wait"
                                                  ELSE status'[m] = status[m]
      BY <2>6 DEF RecoverExpired, TypeOK
    <3>2. \A w \in Workers : held[w] # NoClaim =>
            /\ held[w].message \in Messages
            /\ Owns(held[w])' <=> (Owns(held[w]) /\ held[w].message \notin elapsed)
      BY <3>1, HeldClaim DEF Owns
    <3>3. \A m \in Messages : Kept(m)
      BY <2>1, <3>1, <3>2 DEF Kept
    <3>4. \A w \in Workers : Shown(w)
      BY <2>1, <3>1, <3>2 DEF Shown
    <3>5. \A m \in Messages : status'[m] = "delivered" => m \in receipt'
      BY <2>1, <3>1
    <3> QED
      BY <2>0, <3>3, <3>4, <3>5
  <2>7. ASSUME NEW w \in Workers, Deliver(w)
        PROVE  Receipts'
    <3>1. PICK o \in Outcomes :
            /\ EndAttempt(w, o)
            /\ receipt' = receipt \cup
                 (IF o = "shown" /\ Owns(held[w]) THEN {held[w].message} ELSE {})
      BY <2>7 DEF Deliver, Outcomes
    <3>2. /\ held[w] # NoClaim /\ held[w].stage = "sending" /\ held[w] \in OutboundClaim
          /\ held[w].message \in Messages
          /\ UNCHANGED <<status, attempts>>
      BY <2>7, HeldClaim DEF Deliver, row
    <3>3. held'[w] = [held[w] EXCEPT !.stage = o] /\ \A v \in Workers \ {w} : held'[v] = held[v]
      BY <3>1, <3>2 DEF EndAttempt, TypeOK
    <3>4. [held[w] EXCEPT !.stage = o] \in OutboundClaim
      BY <3>2 DEF OutboundClaim, Outcomes, Stages
    <3>5. /\ held'[w] # NoClaim
          /\ held'[w].message = held[w].message /\ held'[w].attempt = held[w].attempt
          /\ held'[w].stage = o
      BY <3>2, <3>3, <3>4, WorkerAssumption DEF OutboundClaim
    <3>6. Owns(held[w])' <=> Owns(held[w])
      BY <3>2, <3>5 DEF Owns
    <3>7. \A v \in Workers \ {w} : held[v] # NoClaim => (Owns(held[v])' <=> Owns(held[v]))
      BY <3>2, <3>3 DEF Owns
    <3>8. \A m \in Messages : Kept(m)
      <4> TAKE m \in Messages
      <4>1. CASE m \in receipt
        <5>1. CASE status[m] = "delivered"
          BY <5>1, <3>2 DEF Kept
        <5>2. CASE status[m] # "delivered"
          <6>1. PICK v \in Workers : Holder(v, m)
            BY <5>2, <4>1, <2>1
          <6>2. v # w
            BY <6>1, <3>2
          <6> QED
            BY <6>1, <6>2, <3>3, <3>7 DEF Kept
        <5> QED
          BY <5>1, <5>2
      <4>2. CASE m \notin receipt
        BY <4>2, <3>1, <3>5, <3>6 DEF Kept
      <4> QED
        BY <4>1, <4>2
    <3>9. \A v \in Workers : Shown(v)
      <4>1. Shown(w)
        BY <3>1, <3>5, <3>6 DEF Shown
      <4>2. \A v \in Workers \ {w} : Shown(v)
        BY <2>1, <3>1, <3>3, <3>7 DEF Shown
      <4> QED
        BY <4>1, <4>2
    <3>10. \A m \in Messages : status'[m] = "delivered" => m \in receipt'
      BY <2>1, <3>1, <3>2
    <3> QED
      BY <2>0, <3>8, <3>9, <3>10
  <2>8. ASSUME NEW w \in Workers, held[w] # NoClaim, Settle(w),
               \/ status'[held[w].message] = "delivered" /\ held[w].stage = "shown"
               \/ status'[held[w].message] # "delivered" /\ held[w].stage # "shown",
               \A p \in Messages \ {held[w].message} :
                 \/ status'[p] = status[p]
                 \/ {status[p], status'[p]} \cap {"processing", "delivered"} = {}
        PROVE  Receipts'
    <3> DEFINE m == held[w].message
    <3>1. /\ m \in Messages /\ Owns(held[w]) /\ status[m] = "processing"
          /\ attempts' = attempts /\ receipt' = receipt
          /\ held'[w] = NoClaim /\ \A v \in Workers \ {w} : held'[v] = held[v]
      BY <2>8, HeldClaim, SettleFacts DEF Settle, TypeOK
    <3>2. \A v \in Workers \ {w} : held[v] # NoClaim =>
            /\ held[v].message \in Messages
            /\ held[v].message # m => (Owns(held[v])' <=> Owns(held[v]))
      BY <2>8, <3>1, HeldClaim DEF Owns
    <3>3. \A v \in Workers \ {w} : (held[v] # NoClaim /\ held[v].message = m) => ~Owns(held[v])
      BY <2>8, <3>1, OneOwner
    <3>4. \A v \in Workers \ {w} : (held[v] # NoClaim /\ held[v].message = m) => ~Owns(held[v])'
      <4> TAKE v \in Workers \ {w}
      <4> HAVE held[v] # NoClaim /\ held[v].message = m
      <4>1. attempts[m] # held[v].attempt
        BY <3>1, <3>3 DEF Owns
      <4> QED
        BY <4>1, <3>1 DEF Owns
    <3>5. m \in receipt <=> held[w].stage = "shown"
      BY <2>1, <2>8, <3>1, <3>3
    <3>6. \A p \in Messages : Kept(p)
      <4> TAKE p \in Messages
      <4>1. CASE p = m
        BY <4>1, <2>8, <3>1, <3>5 DEF Kept
      <4>2. CASE p # m /\ p \in receipt
        <5>1. CASE status[p] = "delivered"
          BY <5>1, <4>2, <2>8 DEF Kept
        <5>2. CASE status[p] # "delivered"
          <6>1. PICK v \in Workers : Holder(v, p)
            BY <5>2, <4>2, <2>1
          <6> QED
            BY <6>1, <4>2, <3>1, <3>2 DEF Kept
        <5> QED
          BY <5>1, <5>2
      <4> QED
        BY <4>1, <4>2, <3>1 DEF Kept
    <3>7. \A v \in Workers : Shown(v)
      BY <2>1, <3>1, <3>2, <3>4 DEF Shown
    <3>8. \A p \in Messages : status'[p] = "delivered" => p \in receipt'
      BY <2>1, <2>8, <3>1, <3>5
    <3> QED
      BY <2>0, <3>6, <3>7, <3>8
  <2>9. ASSUME NEW w \in Workers,
               CompleteOutbound(w) \/ ScheduleOutboundRetry(w) \/ DeadLetterOutbound(w)
        PROVE  Receipts'
    <3> DEFINE m == held[w].message
    <3>1. held[w] # NoClaim /\ Settle(w) /\ m \in Messages
      BY <2>9, HeldClaim DEF CompleteOutbound, ScheduleOutboundRetry, DeadLetterOutbound
    <3>2. CASE CompleteOutbound(w)
      <4>1. held[w].stage = "shown" /\ status' = [status EXCEPT ![m] = "delivered"]
        BY <3>2 DEF CompleteOutbound
      <4> QED
        BY <4>1, <3>1, <2>8 DEF TypeOK
    <3>3. CASE ScheduleOutboundRetry(w)
      <4>1. held[w].stage # "shown" /\ status' = [status EXCEPT ![m] = "retry_wait"]
        BY <3>3 DEF ScheduleOutboundRetry, RetryDeliveryAt
      <4> QED
        BY <4>1, <3>1, <2>8 DEF TypeOK
    <3>4. CASE DeadLetterOutbound(w)
      <4>1. /\ held[w].stage # "shown" /\ status'[m] = "failed_final"
            /\ \A p \in Messages \ {m} :
                 \/ status'[p] = status[p]
                 \/ status[p] \in {"pending", "retry_wait"} /\ status'[p] = "cancelled"
        BY <3>1, <3>4 DEF DeadLetterOutbound, FailDeliveryFinal, Siblings
      <4> QED
        BY <4>1, <3>1, <2>8
    <3> QED
      BY <2>9, <3>2, <3>3, <3>4
  <2>10. ASSUME NEW lost \in SUBSET Workers, UNCHANGED <<status, attempts>>,
                receipt' = receipt \ ReceiptsOf(lost),
                \A v \in Workers : held'[v] = IF v \in lost THEN NoClaim ELSE held[v]
         PROVE  Receipts'
    <3>1. \A m \in Messages : m \in ReceiptsOf(lost)
            <=> \E v \in lost : held[v] # NoClaim /\ held[v].message = m /\ Owns(held[v])
      BY DEF ReceiptsOf
    <3>2. \A v \in Workers : held'[v] # NoClaim =>
            /\ v \notin lost /\ held'[v] = held[v] /\ held[v].message \in Messages
            /\ Owns(held[v])' <=> Owns(held[v])
      BY <2>10, HeldClaim DEF Owns
    <3>3. \A m \in Messages : Kept(m)
      BY <2>1, <2>10, <3>1, <3>2 DEF Kept, Owns
    <3>4. \A v \in Workers : Shown(v)
      <4> TAKE v \in Workers
      <4>1. SUFFICES ASSUME held'[v] # NoClaim, held'[v].stage = "shown", Owns(held[v])'
                     PROVE  held'[v].message \in receipt'
        BY DEF Shown
      <4>2. held'[v] = held[v] /\ held[v].message \in receipt /\ Owns(held[v])
        BY <4>1, <3>2, <2>1
      <4>3. held[v].message \notin ReceiptsOf(lost)
        BY <4>1, <4>2, <3>1, <3>2, OneOwner
      <4> QED
        BY <4>2, <4>3, <2>10
    <3>5. \A m \in Messages : status'[m] = "delivered" => m \in receipt'
      BY <2>1, <2>10, <3>1 DEF Owns
    <3> QED
      BY <2>0, <3>3, <3>4, <3>5
  <2>11. ASSUME NEW w \in Workers, FinalizationFails(w)
         PROVE  Receipts'
    BY <2>11, <2>10 DEF FinalizationFails, row, TypeOK
  <2>12. CASE Crash
    BY <2>12, <2>10 DEF Crash, row
  <2>13. ASSUME NEW w \in Workers, StaleClaim(w)
         PROVE  Receipts'
    <3>1. ReceiptsOf({w}) = {}
      BY <2>13 DEF StaleClaim, ReceiptsOf
    <3> QED
      BY <2>13, <2>10, <3>1 DEF StaleClaim, row, TypeOK
  <2>14. ASSUME NEW m \in Messages, EnqueueStandalone(m) \/ PublishProgress(m)
         PROVE  Receipts'
    <3>1. Insert(StreamOf[m], {m}) /\ status[m] = "absent"
      BY <2>14 DEF EnqueueStandalone, PublishProgress
    <3> QED
      BY <3>1, <2>2 DEF Insert
  <2>15. ASSUME NEW t \in Turns, EnqueuePlan(t)
         PROVE  Receipts'
    <3>1. \A m \in Plan(t) : status[m] = "absent"
      BY <2>15 DEF EnqueuePlan, ReplyAwaitsTurn
    <3> QED
      BY <2>15, <3>1, <2>2 DEF EnqueuePlan, Insert
  <2> QED
    BY <2>4, <2>5, <2>6, <2>7, <2>9, <2>11, <2>12, <2>13, <2>14, <2>15
       DEF Next, Enqueue, Consume
<1> QED
  BY <1>1, <1>2, Base, PlansHold, ClaimsHold, PTL DEF Spec

(* What is recorded as delivered has its receipt, what was cancelled was   *)
(* never sent, and a message whose receipt was not lost is not sent again. *)
THEOREM DeliveredOnReceipt == Spec => []ReceiptsDecide
<1>1. Receipts => ReceiptsDecide
  BY DEF Receipts
<1> QED
  BY <1>1, ReceiptsHold, PTL
=============================================================================
