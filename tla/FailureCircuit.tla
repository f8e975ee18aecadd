--------------------------- MODULE FailureCircuit ---------------------------
(***************************************************************************)
(* The failure circuits of application/runtime/failure_circuit.py, one for *)
(* every inference route.  The circuits live in the process and every      *)
(* operation is free of awaits, hence one atomic change of a record.       *)
(*                                                                         *)
(* Simplifications.  A caller has at most one unfinished permit, so its    *)
(* name stands for the ordinal of the permit.  The generation is left out: *)
(* whatever increments it clears active_attempts too, so a permit of an    *)
(* older generation is one whose caller is not among the active ones.  The *)
(* clock is left out: a cooldown may end at any time and any of the        *)
(* recorded failures may have left the window when the next one comes.     *)
(***************************************************************************)
EXTENDS Naturals

CONSTANTS
  Routes,           \* route_id of every provider route, in order of preference
  Callers,          \* the attempts that may hold a permit
  NoCaller,
  FailureThreshold  \* failure_threshold

ASSUME CircuitAssumption ==
  /\ Routes \subseteq Nat \ {0}
  /\ NoCaller \notin Callers
  /\ FailureThreshold \in Nat \ {0}

VARIABLE circuit

(* _FailureState; open_until is None, in the future ("cooling") or past.   *)
CircuitState ==
  [failures : Nat, open : {"no", "cooling", "due"}, probe : Callers \cup {NoCaller},
   active : SUBSET Callers]

Closed == [failures |-> 0, open |-> "no", probe |-> NoCaller, active |-> {}]
Opened == [failures |-> 0, open |-> "cooling", probe |-> NoCaller, active |-> {}]

CircuitInit == circuit = [r \in Routes |-> Closed]

(* try_acquire gives a permit: to anyone while closed, and to one probe    *)
(* once the cooldown is over.                                              *)
Admits(c) == c.open = "no" \/ (c.open = "due" /\ c.probe = NoCaller)

Acquired(c, w) ==
  [c EXCEPT !.active = @ \cup {w}, !.probe = IF c.open = "due" THEN w ELSE @]

(* While open, only the result of the probe counts. *)
ProbeOnly(c, w) == c.open # "no" => c.probe = w

Finished(c, w) == [c EXCEPT !.active = @ \ {w}]

(* Mutant of RecordSuccess: a permit that was finished or superseded counts. *)
RecordSuccessOfAny(c, w) == Closed

RecordSuccess(c, w) ==
  CASE w \notin c.active -> c
    [] w \in c.active /\ ProbeOnly(c, w) -> Closed
    [] w \in c.active /\ ~ProbeOnly(c, w) -> Finished(c, w)

(* kept: the failures that are still in the rolling window. *)
RecordFailure(c, w, kept) ==
  CASE w \notin c.active -> c
    [] w \in c.active /\ ~ProbeOnly(c, w) -> Finished(c, w)
    [] w \in c.active /\ ProbeOnly(c, w) ->
         IF c.open # "no" \/ kept + 1 >= FailureThreshold
           THEN Opened
           ELSE [Finished(c, w) EXCEPT !.failures = kept + 1]

Abandon(c, w) ==
  IF w \in c.active
    THEN [Finished(c, w) EXCEPT !.probe = IF @ = w THEN NoCaller ELSE @]
    ELSE c

CooldownEnds(r) ==
  /\ circuit[r].open = "cooling"
  /\ circuit' = [circuit EXCEPT ![r].open = "due"]
=============================================================================
