--------------------------- MODULE SerialMailboxes --------------------------
(***************************************************************************)
(* What KeyedMailboxRuntime promises the rest of the program, without its  *)
(* heap, its worker tasks, its events and its lock: the work of one key    *)
(* runs one piece at a time and in the order it was accepted, the work of  *)
(* different keys runs at most Concurrency pieces at a time, what is not   *)
(* finished stays within the capacities, and only a cancelling shutdown    *)
(* drops work that was accepted.                                           *)
(***************************************************************************)
EXTENDS Integers, FiniteSets, Sequences

CONSTANTS Keys, Items, KeyOf, Concurrency, GlobalCapacity, PerKeyCapacity

VARIABLES
  phase,   \* "closed" before start and after shutdown
  line,    \* accepted work of each key that did not start, in order
  active,  \* work that runs
  ticket   \* what the WorkTicket of each item says, "none" before it exists

vars == <<phase, line, active, ticket>>

Phases  == {"new", "running", "draining", "cancelling", "closed"}
Tickets == {"none", "pending", "finished", "cancelled"}

Init ==
  /\ phase = "new"
  /\ line = [k \in Keys |-> <<>>]
  /\ active = {}
  /\ ticket = [i \in Items |-> "none"]

Of(k) == {i \in active : KeyOf[i] = k}

Waiting == {i \in Items : \E k \in Keys : \E n \in DOMAIN line[k] : line[k][n] = i}

Start ==
  /\ phase = "new"
  /\ phase' = "running"
  /\ UNCHANGED <<line, active, ticket>>

(* Work is accepted while the runtime runs, up to both capacities.         *)
Accept(i) ==
  LET k == KeyOf[i] IN
  /\ phase = "running"
  /\ ticket[i] = "none"
  /\ Len(line[k]) + Cardinality(Of(k)) < PerKeyCapacity
  /\ Cardinality(Waiting \cup active) < GlobalCapacity
  /\ line' = [line EXCEPT ![k] = Append(@, i)]
  /\ ticket' = [ticket EXCEPT ![i] = "pending"]
  /\ UNCHANGED <<phase, active>>

(* The first of an idle key starts.                                        *)
Begin(k) ==
  /\ phase \in {"running", "draining"}
  /\ line[k] # <<>>
  /\ Of(k) = {}
  /\ Cardinality(active) < Concurrency
  /\ active' = active \cup {Head(line[k])}
  /\ line' = [line EXCEPT ![k] = Tail(@)]
  /\ UNCHANGED <<phase, ticket>>

(* Running work ends; a ticket that was cancelled meanwhile stays so.      *)
End(i) ==
  /\ i \in active
  /\ active' = active \ {i}
  /\ ticket' = [ticket EXCEPT ![i] = IF @ = "pending" THEN "finished" ELSE @]
  /\ UNCHANGED <<phase, line>>

Drain ==
  /\ phase = "running"
  /\ phase' = "draining"
  /\ UNCHANGED <<line, active, ticket>>

(* Every unfinished ticket is cancelled, and nothing starts anymore.       *)
Cancel ==
  /\ phase \in {"running", "draining"}
  /\ phase' = "cancelling"
  /\ line' = [k \in Keys |-> <<>>]
  /\ ticket' = [i \in Items |-> IF ticket[i] = "pending" THEN "cancelled" ELSE ticket[i]]
  /\ UNCHANGED active

(* The runtime closes with nothing left to run and no ticket open.         *)
Close ==
  /\ phase # "running"
  /\ phase # "closed"
  /\ active = {}
  /\ \A i \in Items : ticket[i] # "pending"
  /\ phase' = "closed"
  /\ UNCHANGED <<line, active, ticket>>

Next ==
  \/ Start
  \/ \E i \in Items : Accept(i) \/ End(i)
  \/ \E k \in Keys : Begin(k)
  \/ Drain
  \/ Cancel
  \/ Close

Spec == Init /\ [][Next]_vars
=============================================================================
