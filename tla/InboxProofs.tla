---------------------------- MODULE InboxProofs ----------------------------
(***************************************************************************)
(* Machine-checked proofs about Inbox, for any number of updates,          *)
(* conversations, consumer slots, attempts and faults.                     *)
(*                                                                         *)
(* Each theorem adds one layer to the inductive invariant and may use the  *)
(* layers below it: types; the version arithmetic of a row; the claims     *)
(* held by consumers; what is stored before Telegram forgets it; order.    *)
(***************************************************************************)
EXTENDS Inbox, TLAPS

(* Every variable has its type, in every reachable state of the pipeline. *)
THEOREM TypeCorrect == Spec => []TypeOK
<1> USE UpdateAssumption, WorkerAssumption
<1>1. Init => TypeOK
  BY DEF Init, TypeOK, NoBatch, Statuses, Unsettled, Terminal, InboxClaim
<1>2. TypeOK /\ [Next]_vars => TypeOK'
  <2> SUFFICES ASSUME TypeOK, [Next]_vars PROVE TypeOK'
    OBVIOUS
  <2> USE DEF TypeOK
  <2>1. CASE TelegramReceives
    BY <2>1 DEF TelegramReceives, row, listener
  <2>2. CASE GetUpdates
    BY <2>2 DEF GetUpdates, row, NoBatch
  <2>3. CASE AddInbound
    <3>1. \A u \in Updates : status'[u] \in {"pending", status[u]}
      BY <2>3 DEF AddInbound
    <3>2. status' \in [Updates -> Statuses]
      BY <2>3, <3>1 DEF AddInbound, Statuses, Unsettled
    <3>3. batch' \in [next : Nat, last : 0 .. MaxUpdate]
      BY <2>3 DEF AddInbound
    <3> QED
      BY <2>3, <3>2, <3>3 DEF AddInbound, telegram
  <2>4. CASE AdvanceOffset
    BY <2>4 DEF AdvanceOffset, telegram, row, NoBatch
  <2>5. CASE ListenerFails
    BY <2>5 DEF ListenerFails, Fault, telegram, row, NoBatch
  <2>6. ASSUME NEW w \in Workers, NEW u \in Updates, ClaimInbound(w, u)
        PROVE  TypeOK'
    <3>1. [update |-> u, version |-> version[u] + 1, attempt |-> attempts[u] + 1,
           stage |-> "routing"] \in InboxClaim
      BY DEF InboxClaim, Stages
    <3> QED
      BY <2>6, <3>1 DEF ClaimInbound, telegram, listener, Statuses, Unsettled, Terminal
  <2>7. CASE RecoverExpired
    BY <2>7 DEF RecoverExpired, telegram, listener, Statuses, Unsettled, Terminal
  <2>8. ASSUME NEW u \in Updates, LeaseElapses(u)
        PROVE  TypeOK'
    BY <2>8 DEF LeaseElapses, Fault, telegram, listener
  <2>9. ASSUME NEW w \in Workers, RouteReturns(w)
        PROVE  TypeOK'
    BY <2>9 DEF RouteReturns, telegram, listener, row, InboxClaim, Stages
  <2>10. ASSUME NEW w \in Workers, NEW target \in Statuses,
                held[w] # NoClaim, Settle(w, target)
         PROVE  TypeOK'
    BY <2>10 DEF Settle, telegram, listener, InboxClaim
  <2>11. ASSUME NEW w \in Workers, Consume(w)
         PROVE  TypeOK'
    BY <2>9, <2>10, <2>11 DEF Consume, CompleteInbound, ScheduleInboundRetry,
       DeadLetterInbound, StaleClaim, Statuses, Unsettled, Terminal,
       telegram, listener, row
  <2>12. ASSUME NEW w \in Workers, FinalizationFails(w)
         PROVE  TypeOK'
    BY <2>12 DEF FinalizationFails, Fault, telegram, listener, row
  <2>13. CASE Stop
    BY <2>13 DEF Stop, Fault, telegram, listener, row
  <2>14. CASE Crash
    BY <2>14 DEF Crash, Fault, telegram, row, NoBatch
  <2>15. CASE Process
    <3>1. CASE IngressStopped
      BY <3>1 DEF IngressStopped, telegram, listener, row
    <3>2. CASE AcceptanceStopped
      BY <3>2 DEF AcceptanceStopped, telegram, row
    <3>3. CASE Start
      BY <3>3 DEF Start, telegram, listener, row
    <3> QED
      BY <2>15, <3>1, <3>2, <3>3 DEF Process
  <2>16. CASE UNCHANGED vars
    BY <2>16 DEF vars, telegram, listener, row
  <2> QED
    BY <2>1, <2>2, <2>3, <2>4, <2>5, <2>6, <2>7, <2>8, <2>11, <2>12, <2>13,
       <2>14, <2>15, <2>16 DEF Next, Listener, Produce
<1> QED
  BY <1>1, <1>2, PTL DEF Spec

----------------------------------------------------------------------------
(* The rows: only a processing row can have an elapsed lease, and version, *)
(* attempt_count and claim_token determine each other.                     *)
ElapsedAreProcessing == \A u \in elapsed : status[u] = "processing"

RowInv == ElapsedAreProcessing /\ ClaimsAndClosuresAlternate

LEMMA RowInvariant == Spec => []RowInv
<1>1. Init => RowInv
  BY DEF Init, RowInv, ElapsedAreProcessing, ClaimsAndClosuresAlternate
<1>2. TypeOK /\ RowInv /\ [Next]_vars => RowInv'
  <2> SUFFICES ASSUME TypeOK, RowInv, [Next]_vars PROVE RowInv'
    OBVIOUS
  <2> USE DEF RowInv, TypeOK, ElapsedAreProcessing, ClaimsAndClosuresAlternate
  <2>1. CASE UNCHANGED row
    BY <2>1 DEF row
  <2>2. CASE AddInbound
    BY <2>2 DEF AddInbound
  <2>3. ASSUME NEW w \in Workers, NEW u \in Updates, ClaimInbound(w, u)
        PROVE  RowInv'
    BY <2>3 DEF ClaimInbound, Claimable
  <2>4. CASE RecoverExpired
    BY <2>4 DEF RecoverExpired
  <2>5. ASSUME NEW u \in Updates, LeaseElapses(u)
        PROVE  RowInv'
    BY <2>5 DEF LeaseElapses
  <2>6. ASSUME NEW w \in Workers, NEW target \in {"processed", "retry_wait", "failed_final"},
               held[w] # NoClaim, Settle(w, target)
        PROVE  RowInv'
    BY <2>6 DEF Settle, Owns, InboxClaim
  <2>7. CASE \/ TelegramReceives \/ GetUpdates \/ AdvanceOffset \/ ListenerFails
             \/ Stop \/ Crash \/ Process \/ UNCHANGED vars
    BY <2>1, <2>7 DEF TelegramReceives, GetUpdates, AdvanceOffset, ListenerFails,
       Stop, Crash, Process, IngressStopped, AcceptanceStopped, Start, vars
  <2>8. ASSUME NEW w \in Workers, Consume(w) \/ FinalizationFails(w)
        PROVE  RowInv'
    BY <2>1, <2>6, <2>8 DEF Consume, RouteReturns, CompleteInbound,
       ScheduleInboundRetry, DeadLetterInbound, StaleClaim, FinalizationFails
  <2> QED
    BY <2>2, <2>3, <2>4, <2>5, <2>7, <2>8 DEF Next, Listener, Produce
<1> QED
  BY <1>1, <1>2, TypeCorrect, PTL DEF Spec

(* Every claim on a row is closed by exactly one settlement or recovery    *)
(* before the next one is granted.                                         *)
THEOREM ClaimsAlternate == Spec => []ClaimsAndClosuresAlternate
<1>1. RowInv => ClaimsAndClosuresAlternate
  BY DEF RowInv
<1> QED
  BY <1>1, RowInvariant, PTL

----------------------------------------------------------------------------
(* The claims in the consumers' hands: each was granted, carries the       *)
(* version its grant wrote, and is marked accepted only if the router      *)
(* accepted that very attempt.                                             *)
HeldClaimsGranted ==
  \A w \in Workers : held[w] # NoClaim =>
    /\ held[w].attempt \in 1 .. attempts[held[w].update]
    /\ held[w].version = 2 * held[w].attempt - 1
    /\ held[w].stage = "accepted" => held[w].attempt \in accepted[held[w].update]

ClaimInv == HeldClaimsGranted /\ LastClaimSettles

(* Fencing: an owned claim is the last one granted on its row, because the *)
(* version it carries fixes its ordinal.                                   *)
LEMMA OwnerIsLast ==
  ASSUME TypeOK, RowInv, HeldClaimsGranted,
         NEW w \in Workers, held[w] # NoClaim, Owns(held[w])
  PROVE  /\ held[w].update \in Updates
         /\ held[w].attempt = attempts[held[w].update]
<1>1. held[w] \in InboxClaim
  BY DEF TypeOK
<1> QED
  BY <1>1 DEF TypeOK, InboxClaim, Owns, RowInv, ClaimsAndClosuresAlternate, HeldClaimsGranted

(* A row ends by the settlement of its last claim, and as processed only   *)
(* if the router accepted that attempt: a consumer that lost its lease     *)
(* cannot decide the fate of an update.                                    *)
THEOREM LastClaimDecides == Spec => []LastClaimSettles
<1>1. Init => ClaimInv
  BY DEF Init, ClaimInv, HeldClaimsGranted, LastClaimSettles, Terminal
<1>2. TypeOK /\ RowInv /\ ClaimInv /\ [Next]_vars => ClaimInv'
  <2> SUFFICES ASSUME TypeOK, RowInv, ClaimInv, [Next]_vars PROVE ClaimInv'
    OBVIOUS
  <2>0. \A w \in Workers : held[w] # NoClaim => held[w] \in InboxClaim
    BY DEF TypeOK
  <2> USE <2>0 DEF TypeOK, InboxClaim, ClaimInv, HeldClaimsGranted, LastClaimSettles, Terminal
  <2>1. CASE UNCHANGED <<row, held, accepted>>
    BY <2>1 DEF row
  <2>2. CASE AddInbound
    BY <2>2 DEF AddInbound
  <2>3. ASSUME NEW w \in Workers, NEW u \in Updates, ClaimInbound(w, u)
        PROVE  ClaimInv'
    <3>0. version[u] = 2 * attempts[u]
      BY <2>3 DEF ClaimInbound, Claimable, RowInv, ClaimsAndClosuresAlternate
    <3>1. version[u] + 1 = 2 * (attempts[u] + 1) - 1
      BY <3>0
    <3>2. HeldClaimsGranted'
      BY <2>3, <3>1 DEF ClaimInbound
    <3>3. LastClaimSettles'
      BY <2>3 DEF ClaimInbound
    <3> QED
      BY <3>2, <3>3
  <2>4. CASE RecoverExpired
    BY <2>4 DEF RecoverExpired
  <2>5. ASSUME NEW u \in Updates, LeaseElapses(u)
        PROVE  ClaimInv'
    BY <2>5 DEF LeaseElapses
  <2>6. ASSUME NEW w \in Workers, RouteReturns(w)
        PROVE  ClaimInv'
    <3>1. PICK outcome \in Outcomes :
            /\ held' = [held EXCEPT ![w].stage = outcome]
            /\ accepted' = IF outcome = "accepted"
                 THEN [accepted EXCEPT ![held[w].update] = @ \cup {held[w].attempt}]
                 ELSE accepted
      BY <2>6 DEF RouteReturns
    <3>2. \A u \in Updates : accepted[u] \subseteq accepted'[u]
      BY <3>1
    <3>3. ASSUME NEW x \in Workers, held'[x] # NoClaim
          PROVE  /\ held[x] # NoClaim
                 /\ held'[x].update = held[x].update
                 /\ held'[x].version = held[x].version
                 /\ held'[x].attempt = held[x].attempt
                 /\ held'[x].stage = "accepted" =>
                      held[x].attempt \in accepted'[held[x].update]
      BY <2>6, <3>1, <3>2, <3>3 DEF RouteReturns, Outcomes
    <3>4. HeldClaimsGranted'
      BY <2>6, <3>3 DEF RouteReturns, row
    <3> QED
      BY <2>6, <3>2, <3>4 DEF RouteReturns, row
  <2>7. ASSUME NEW w \in Workers, held[w] # NoClaim,
               NEW target \in {"processed", "retry_wait", "failed_final"},
               target = "processed" => held[w].stage = "accepted",
               Settle(w, target)
        PROVE  ClaimInv'
    <3>1. /\ held[w].update \in Updates
          /\ held[w].attempt = attempts[held[w].update]
      BY <2>7, OwnerIsLast DEF Settle
    <3> QED
      BY <2>7, <3>1 DEF Settle
  <2>8. CASE \/ TelegramReceives \/ GetUpdates \/ AdvanceOffset \/ ListenerFails
             \/ Stop \/ Process \/ UNCHANGED vars
    BY <2>1, <2>8 DEF TelegramReceives, GetUpdates, AdvanceOffset, ListenerFails,
       Stop, Process, IngressStopped, AcceptanceStopped, Start, vars
  <2>9. CASE Crash
    BY <2>9 DEF Crash, row
  <2>10. ASSUME NEW w \in Workers, StaleClaim(w) \/ FinalizationFails(w)
         PROVE  ClaimInv'
    BY <2>10 DEF StaleClaim, FinalizationFails, row
  <2>11. ASSUME NEW w \in Workers, Consume(w)
         PROVE  ClaimInv'
    BY <2>6, <2>7, <2>10, <2>11 DEF Consume, CompleteInbound,
       ScheduleInboundRetry, DeadLetterInbound
  <2> QED
    BY <2>2, <2>3, <2>4, <2>5, <2>8, <2>9, <2>10, <2>11 DEF Next, Listener, Produce
<1>3. ClaimInv => LastClaimSettles
  BY DEF ClaimInv
<1> QED
  BY <1>1, <1>2, <1>3, TypeCorrect, RowInvariant, PTL DEF Spec

----------------------------------------------------------------------------
(* What is stored: the rows are a prefix of the updates, which reaches     *)
(* past everything Telegram forgot, the offset and the batch in progress.  *)
Stored(u) == status[u] # "absent"

StoredPrefix ==
  /\ \A u, v \in Updates : u < v /\ Stored(v) => Stored(u)
  /\ \A u \in Updates : u < offset => Stored(u)
  /\ batch # NoBatch => \A u \in Updates : u < batch.next => Stored(u)

StoreInv == StoredPrefix /\ NoUpdateLost

LEMMA StoreInvariant == Spec => []StoreInv
<1>1. Init => StoreInv
  BY DEF Init, StoreInv, StoredPrefix, NoUpdateLost, Stored, NoBatch, Updates
<1>2. TypeOK /\ RowInv /\ StoreInv /\ [Next]_vars => StoreInv'
  <2> SUFFICES ASSUME TypeOK, RowInv, StoreInv, [Next]_vars PROVE StoreInv'
    OBVIOUS
  <2>0. \A u \in Updates : u \in 1 .. MaxUpdate
    BY DEF Updates
  <2> USE <2>0, UpdateAssumption DEF TypeOK, StoreInv, StoredPrefix, NoUpdateLost, Stored
  <2>1. CASE UNCHANGED status /\ UNCHANGED forgotten /\ offset' \in {0, offset}
             /\ batch' \in {NoBatch, batch}
    BY <2>1 DEF NoBatch
  <2>2. CASE GetUpdates
    BY <2>2 DEF GetUpdates, row, NoBatch
  <2>3. CASE AddInbound
    <3>1. /\ batch' = [batch EXCEPT !.next = @ + 1]
          /\ batch'.next = batch.next + 1
          /\ batch # NoBatch
          /\ UNCHANGED <<forgotten, offset>>
      BY <2>3 DEF AddInbound, telegram
    <3>2. \A u \in Updates : status'[u] = status[u] \/ (u = batch.next /\ status'[u] = "pending")
      BY <2>3 DEF AddInbound
    <3>3. batch.next \in Updates => status'[batch.next] # "absent"
      BY <2>3 DEF AddInbound
    <3>4. \A u \in Updates : u < batch.next + 1 => status'[u] # "absent"
      BY <3>1, <3>2, <3>3
    <3> QED
      BY <3>1, <3>2, <3>4
  <2>4. CASE AdvanceOffset
    BY <2>4 DEF AdvanceOffset, telegram, row, NoBatch
  <2>5. ASSUME UNCHANGED <<telegram, listener>>,
               \A u \in Updates : status[u] = "absent" <=> status'[u] = "absent"
        PROVE  StoreInv'
    BY <2>5 DEF telegram, listener, NoBatch
  <2>6. ASSUME NEW w \in Workers, NEW u \in Updates, ClaimInbound(w, u)
        PROVE  StoreInv'
    BY <2>5, <2>6 DEF ClaimInbound, Claimable
  <2>7. CASE RecoverExpired
    BY <2>5, <2>7 DEF RecoverExpired, RowInv, ElapsedAreProcessing
  <2>8. ASSUME NEW w \in Workers, NEW target \in {"processed", "retry_wait", "failed_final"},
               Settle(w, target)
        PROVE  StoreInv'
    BY <2>5, <2>8 DEF Settle, Owns
  <2>9. CASE \/ TelegramReceives \/ ListenerFails \/ Stop \/ Crash \/ Process
             \/ UNCHANGED vars \/ \E u \in Updates : LeaseElapses(u)
    BY <2>1, <2>9 DEF TelegramReceives, ListenerFails, Stop, Crash, Process, IngressStopped,
       AcceptanceStopped, Start, LeaseElapses, vars, telegram, listener, row
  <2>10. ASSUME NEW w \in Workers, Consume(w) \/ FinalizationFails(w)
         PROVE  StoreInv'
    BY <2>1, <2>8, <2>10 DEF Consume, RouteReturns, CompleteInbound, ScheduleInboundRetry,
       DeadLetterInbound, StaleClaim, FinalizationFails, telegram, listener, row
  <2> QED
    BY <2>2, <2>3, <2>4, <2>6, <2>7, <2>9, <2>10 DEF Next, Listener, Produce
<1> QED
  BY <1>1, <1>2, TypeCorrect, RowInvariant, PTL DEF Spec

(* Whatever Telegram has forgotten has a row: no crash, error or restart   *)
(* in the middle of a batch loses an update.                               *)
THEOREM NothingLost == Spec => []NoUpdateLost
<1>1. StoreInv => NoUpdateLost
  BY DEF StoreInv
<1> QED
  BY <1>1, StoreInvariant, PTL

----------------------------------------------------------------------------
(* A settled row stays as it is, and every other change of a stored row    *)
(* moves its version by one.                                               *)
THEOREM RowsOnlyMoveForward == Spec => RowHistory
<1> DEFINE Forward(u) ==
      /\ status[u] \in Terminal => UNCHANGED <<status[u], version[u], settledBy[u]>>
      /\ (status[u] # "absent" /\ status'[u] # status[u]) => version'[u] = version[u] + 1
<1>1. TypeOK /\ RowInv /\ [Next]_vars => [\A u \in Updates : Forward(u)]_vars
  <2> SUFFICES ASSUME TypeOK, RowInv, [Next]_vars, NEW u \in Updates PROVE Forward(u)
    OBVIOUS
  <2> USE DEF TypeOK, Terminal
  <2>1. CASE UNCHANGED <<status, version, settledBy>>
    BY <2>1
  <2>2. CASE AddInbound
    BY <2>2 DEF AddInbound
  <2>3. ASSUME NEW w \in Workers, NEW v \in Updates, ClaimInbound(w, v)
        PROVE  Forward(u)
    BY <2>3 DEF ClaimInbound, Claimable
  <2>4. CASE RecoverExpired
    BY <2>4 DEF RecoverExpired, RowInv, ElapsedAreProcessing
  <2>5. ASSUME NEW w \in Workers, NEW target \in {"processed", "retry_wait", "failed_final"},
               Settle(w, target)
        PROVE  Forward(u)
    BY <2>5 DEF Settle, Owns
  <2>6. CASE \/ TelegramReceives \/ GetUpdates \/ AdvanceOffset \/ ListenerFails \/ Stop
             \/ Crash \/ Process \/ UNCHANGED vars \/ \E v \in Updates : LeaseElapses(v)
    BY <2>1, <2>6 DEF TelegramReceives, GetUpdates, AdvanceOffset, ListenerFails, Stop, Crash,
       Process, IngressStopped, AcceptanceStopped, Start, LeaseElapses, vars, row
  <2>7. ASSUME NEW w \in Workers, Consume(w) \/ FinalizationFails(w)
        PROVE  Forward(u)
    BY <2>1, <2>5, <2>7 DEF Consume, RouteReturns, CompleteInbound, ScheduleInboundRetry,
       DeadLetterInbound, StaleClaim, FinalizationFails, row
  <2> QED
    BY <2>2, <2>3, <2>4, <2>5, <2>6, <2>7 DEF Next, Listener, Produce
<1> QED
  BY <1>1, TypeCorrect, RowInvariant, PTL DEF Spec, RowHistory

(* Head-of-line order: an update is claimed only when every earlier one of *)
(* its conversation is settled for good, and remains so.                   *)
THEOREM OrderKept == Spec => []SettledInOrder
<1>1. Init => SettledInOrder
  BY DEF Init, SettledInOrder
<1>2. TypeOK /\ RowInv /\ StoreInv /\ SettledInOrder /\ [Next]_vars => SettledInOrder'
  <2> SUFFICES ASSUME TypeOK, RowInv, StoreInv, SettledInOrder, [Next]_vars
               PROVE  SettledInOrder'
    OBVIOUS
  <2> USE UpdateAssumption DEF TypeOK, SettledInOrder, Terminal
  <2>1. CASE UNCHANGED <<status, attempts>>
    BY <2>1
  <2>2. CASE AddInbound
    BY <2>2 DEF AddInbound
  <2>3. ASSUME NEW w \in Workers, NEW u \in Updates, ClaimInbound(w, u)
        PROVE  SettledInOrder'
    <3>1. ASSUME NEW e \in Updates, e < u, ConversationOf[e] = ConversationOf[u]
          PROVE  status[e] \in Terminal
      BY <2>3, <3>1 DEF ClaimInbound, Claimable, Head, StoreInv, StoredPrefix, Stored,
         Statuses, Unsettled
    <3> QED
      BY <2>3, <3>1 DEF ClaimInbound, Claimable, Updates
  <2>4. CASE RecoverExpired
    BY <2>4 DEF RecoverExpired, RowInv, ElapsedAreProcessing
  <2>5. ASSUME NEW w \in Workers, NEW target \in {"processed", "retry_wait", "failed_final"},
               Settle(w, target)
        PROVE  SettledInOrder'
    BY <2>5 DEF Settle, Owns
  <2>6. CASE \/ TelegramReceives \/ GetUpdates \/ AdvanceOffset \/ ListenerFails \/ Stop
             \/ Crash \/ Process \/ UNCHANGED vars \/ \E v \in Updates : LeaseElapses(v)
    BY <2>1, <2>6 DEF TelegramReceives, GetUpdates, AdvanceOffset, ListenerFails, Stop, Crash,
       Process, IngressStopped, AcceptanceStopped, Start, LeaseElapses, vars, row
  <2>7. ASSUME NEW w \in Workers, Consume(w) \/ FinalizationFails(w)
        PROVE  SettledInOrder'
    BY <2>1, <2>5, <2>7 DEF Consume, RouteReturns, CompleteInbound, ScheduleInboundRetry,
       DeadLetterInbound, StaleClaim, FinalizationFails, row
  <2> QED
    BY <2>2, <2>3, <2>4, <2>5, <2>6, <2>7 DEF Next, Listener, Produce
<1> QED
  BY <1>1, <1>2, TypeCorrect, RowInvariant, StoreInvariant, PTL DEF Spec
=============================================================================
