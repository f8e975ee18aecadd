---------------------------- MODULE AgentProofs -----------------------------
(***************************************************************************)
(* The agent loop implements the ledger of effects, and its circuits       *)
(* recover: proved for any workers, routes, plans and bounds.              *)
(*                                                                         *)
(* The invariant has two layers: a permit belongs to a run that is calling *)
(* its route, and a run is where the checkpoints and effects of its        *)
(* generation say.                                                         *)
(***************************************************************************)
EXTENDS AssistantAgent, SequenceTheorems, TLAPS

Runs == [pc : Places, claim : Nat, revision : 0 .. MaxRevision, route : Routes \cup {0},
         model : Nat, text : BOOLEAN, step : 0 .. MaxStep, ord : 0 .. MaxCalls,
         seen : Seq(Nat), plan : Seq(Modes), receipt : Nat, late : BOOLEAN]

Receipts == [status : {"none", "pending", "processing", "succeeded"}, token : Nat,
             live : BOOLEAN, request : Modes \cup {"none"}]

(* The unfinished permits of a circuit: a probe is one, and is made only    *)
(* while the circuit is open and its cooldown over.                         *)
Sound(c) ==
  /\ c \in CircuitState
  /\ c.probe # NoCaller => c.open = "due" /\ c.probe \in c.active

CircuitsTell ==
  /\ circuit \in [Routes -> CircuitState]
  /\ \A r \in Routes : Sound(circuit[r])

(* Only a run that calls a route has a permit of it. *)
PermitsTell ==
  \A r \in Routes, w \in Workers :
    w \in circuit[r].active => At(w, Calling) /\ agent[w].route = r

(* What the last step may plan, and any. *)
Fits(plan, step) == Len(plan) <= MaxCalls /\ (step = MaxStep => plan = <<>>)

(* Every step before was planned and carried out. *)
StepsDone(g, s) ==
  \A e \in 0 .. MaxStep : e < s =>
    /\ checkpoint[<<g, e>>] # NoStep
    /\ Ledger!CarriedOut(g, e, Len(checkpoint[<<g, e>>].plan) + 1)

AtCall == {"call"} \cup Executing

RunTells(w) ==
  /\ At(w, {"begin"}) => agent[w].step = 0
  /\ At(w, Calling) =>
       agent[w].route \in Routes /\ StepsDone(agent[w].revision, agent[w].step)
  /\ At(w, {"save"}) => Fits(agent[w].plan, agent[w].step)
  /\ At(w, AtCall) =>
       /\ checkpoint[Slot(w)] # NoStep /\ agent[w].plan = checkpoint[Slot(w)].plan
       /\ agent[w].ord \in DOMAIN agent[w].plan
       /\ Ledger!CarriedOut(agent[w].revision, agent[w].step, agent[w].ord)
  /\ At(w, Executing) => Mode(w) # "read"

(* A receipt has succeeded exactly when its effect was committed, once. *)
TablesTell ==
  /\ \A x \in Slots : Fits(checkpoint[x].plan, x[2])
  /\ \A c \in Calls : effects[c] = IF receipt[c].status = "succeeded" THEN 1 ELSE 0

AgentInv ==
  /\ TypeOK /\ CircuitsTell /\ PermitsTell /\ TablesTell
  /\ \A w \in Workers : RunTells(w)
-----------------------------------------------------------------------------
(* The circuits. *)

(* An open circuit closes only by the result of its probe. *)
ByItsProbe(c, d) == c.open # "no" /\ d.open = "no" => c.open = "due" /\ c.probe # NoCaller

LEMMA CircuitTypes ==
  ASSUME NEW c \in CircuitState
  PROVE  /\ c = [failures |-> c.failures, open |-> c.open, probe |-> c.probe,
                 active |-> c.active]
         /\ c.failures \in Nat /\ c.open \in {"no", "cooling", "due"}
         /\ c.probe \in Callers \cup {NoCaller} /\ c.active \in SUBSET Callers
BY DEF CircuitState

LEMMA EmptyIsSound == Sound(Closed) /\ Sound(Opened)
BY DEF Sound, Closed, Opened, CircuitState

LEMMA AcquiredIsSound ==
  ASSUME NEW c, Sound(c), Admits(c), NEW x \in Callers
  PROVE  /\ Sound(Acquired(c, x)) /\ Acquired(c, x).active = c.active \cup {x}
         /\ Acquired(c, x).open = c.open
<1> DEFINE d == Acquired(c, x)
<1>1. c \in CircuitState
  BY DEF Sound
<1>2. d = [failures |-> c.failures, open |-> c.open,
           probe |-> IF c.open = "due" THEN x ELSE c.probe, active |-> c.active \cup {x}]
  <2> DEFINE p == IF c.open = "due" THEN x ELSE c.probe
  <2>1. d = [c EXCEPT !.active = c.active \cup {x}, !.probe = p]
    BY DEF Acquired
  <2> HIDE DEF d, p
  <2>2. d = [failures |-> c.failures, open |-> c.open, probe |-> p,
             active |-> c.active \cup {x}]
    BY <1>1, <2>1 DEF CircuitState
  <2> QED
    BY <2>2 DEF p
<1> HIDE DEF d
<1>3. d \in CircuitState /\ d.active = c.active \cup {x} /\ d.open = c.open
  BY <1>1, <1>2, CircuitTypes DEF CircuitState
<1>4. d.probe # NoCaller => d.open = "due" /\ d.probe \in d.active
  BY <1>2 DEF Sound
<1> QED
  BY <1>3, <1>4 DEF Sound, d

LEMMA FinishedTells ==
  ASSUME NEW c \in CircuitState, NEW x
  PROVE  Finished(c, x) = [failures |-> c.failures, open |-> c.open, probe |-> c.probe,
                           active |-> c.active \ {x}]
BY CircuitTypes DEF Finished

(* How a permit ends: with a success, a failure or without a result. *)
LEMMA SuccessIsSound ==
  ASSUME NEW c, Sound(c), NEW x \in Callers, NEW d, d = RecordSuccess(c, x)
  PROVE  Sound(d) /\ d.active \subseteq c.active \ {x} /\ ByItsProbe(c, d)
<1>1. c \in CircuitState
  BY DEF Sound
<1>2. CASE x \notin c.active
  BY <1>2 DEF RecordSuccess, ByItsProbe
<1>3. CASE x \in c.active /\ ProbeOnly(c, x)
  <2>1. d = Closed
    BY <1>3 DEF RecordSuccess
  <2>2. c.open # "no" => c.probe = x /\ x # NoCaller
    BY <1>3, CircuitAssumption DEF ProbeOnly
  <2> QED
    BY <2>1, <2>2, EmptyIsSound DEF ByItsProbe, Closed, Sound
<1>4. CASE x \in c.active /\ ~ProbeOnly(c, x)
  <2>1. d = [failures |-> c.failures, open |-> c.open, probe |-> c.probe,
             active |-> c.active \ {x}]
    BY <1>1, <1>4, FinishedTells DEF RecordSuccess
  <2>2. d \in CircuitState
    BY <1>1, <2>1, CircuitTypes DEF CircuitState
  <2> QED
    BY <1>4, <2>1, <2>2 DEF Sound, ByItsProbe, ProbeOnly
<1> QED
  BY <1>2, <1>3, <1>4

LEMMA FailureIsSound ==
  ASSUME NEW c, Sound(c), NEW x \in Callers, NEW kept \in Nat,
         NEW d, d = RecordFailure(c, x, kept)
  PROVE  Sound(d) /\ d.active \subseteq c.active \ {x} /\ ByItsProbe(c, d)
<1>1. c \in CircuitState
  BY DEF Sound
<1>2. CASE x \notin c.active
  BY <1>2 DEF RecordFailure, ByItsProbe
<1>3. CASE x \in c.active /\ ProbeOnly(c, x) /\ (c.open # "no" \/ kept + 1 >= FailureThreshold)
  <2>1. d = Opened
    BY <1>3 DEF RecordFailure
  <2> QED
    BY <2>1, EmptyIsSound DEF ByItsProbe, Opened
<1>4. CASE x \in c.active /\ ProbeOnly(c, x) /\ c.open = "no" /\ ~(kept + 1 >= FailureThreshold)
  <2>1. d = [Finished(c, x) EXCEPT !.failures = kept + 1]
    BY <1>4 DEF RecordFailure
  <2>2. d = [failures |-> kept + 1, open |-> c.open, probe |-> c.probe,
             active |-> c.active \ {x}]
    BY <1>1, <2>1 DEF Finished, CircuitState
  <2>3. d \in CircuitState
    BY <1>1, <2>2, CircuitTypes DEF CircuitState
  <2> QED
    BY <1>4, <2>2, <2>3 DEF Sound, ByItsProbe
<1>5. CASE x \in c.active /\ ~ProbeOnly(c, x)
  <2>1. d = [failures |-> c.failures, open |-> c.open, probe |-> c.probe,
             active |-> c.active \ {x}]
    BY <1>1, <1>5, FinishedTells DEF RecordFailure
  <2>2. d \in CircuitState
    BY <1>1, <2>1, CircuitTypes DEF CircuitState
  <2> QED
    BY <1>5, <2>1, <2>2 DEF Sound, ByItsProbe, ProbeOnly
<1> QED
  BY <1>2, <1>3, <1>4, <1>5

LEMMA AbandonIsSound ==
  ASSUME NEW c, Sound(c), NEW x \in Callers, NEW d, d = Abandon(c, x)
  PROVE  Sound(d) /\ d.active \subseteq c.active \ {x} /\ ByItsProbe(c, d)
<1>1. c \in CircuitState
  BY DEF Sound
<1>2. CASE x \notin c.active
  BY <1>2 DEF Abandon, ByItsProbe
<1>3. CASE x \in c.active
  <2>1. d = [failures |-> c.failures, open |-> c.open,
             probe |-> IF c.probe = x THEN NoCaller ELSE c.probe, active |-> c.active \ {x}]
    BY <1>1, <1>3 DEF Abandon, Finished, CircuitState
  <2>2. d \in CircuitState
    BY <1>1, <2>1, CircuitTypes DEF CircuitState
  <2> QED
    BY <1>3, <2>1, <2>2 DEF Sound, ByItsProbe
<1> QED
  BY <1>2, <1>3
-----------------------------------------------------------------------------
(* The circuits in a step, and the permits of the runs. *)

CircuitsMove == \A r \in Routes : ByItsProbe(circuit[r], circuit'[r])

OnlyMoves(w) == \A v \in Workers \ {w} : agent'[v] = agent[v]

LEMMA NoneMoved == ASSUME UNCHANGED circuit PROVE CircuitsMove
BY DEF CircuitsMove, ByItsProbe

LEMMA PermitsStay ==
  ASSUME CircuitsTell, PermitsTell, UNCHANGED circuit, NEW w \in Workers, OnlyMoves(w),
         At(w, Calling) => At(w, Calling)' /\ agent'[w].route = agent[w].route
  PROVE  CircuitsTell' /\ PermitsTell' /\ CircuitsMove
<1>1. CircuitsTell'
  BY DEF CircuitsTell
<1>2. PermitsTell'
  BY DEF PermitsTell, OnlyMoves, At
<1> QED
  BY <1>1, <1>2, NoneMoved

(* However a run ends its permit, nothing but its own circuit changes. *)
LEMMA PermitEnds ==
  ASSUME CircuitsTell, PermitsTell, NEW w \in Workers, OnlyMoves(w), NEW r \in Routes,
         agent[w].route = r,
         circuit' \in [Routes -> CircuitState], Sound(circuit'[r]),
         circuit'[r].active \subseteq circuit[r].active \ {w},
         ByItsProbe(circuit[r], circuit'[r]),
         \A s \in Routes \ {r} : circuit'[s] = circuit[s]
  PROVE  CircuitsTell' /\ PermitsTell' /\ CircuitsMove
<1>1. CircuitsTell'
  BY DEF CircuitsTell
<1>2. \A s \in Routes : w \notin circuit'[s].active
  BY DEF PermitsTell
<1>3. PermitsTell'
  <2> SUFFICES ASSUME NEW s \in Routes, NEW v \in Workers, v \in circuit'[s].active
               PROVE  At(v, Calling)' /\ agent'[v].route = s
    BY DEF PermitsTell
  <2>1. v # w /\ v \in circuit[s].active
    BY <1>2
  <2> QED
    BY <2>1 DEF PermitsTell, OnlyMoves, At
<1>4. CircuitsMove
  BY DEF CircuitsMove, ByItsProbe
<1> QED
  BY <1>1, <1>3, <1>4

LEMMA LeaveEnds ==
  ASSUME AgentInv, NEW w \in Workers, At(w, Calling), NEW pc, pc \notin Calling,
         Leave(w, pc)
  PROVE  CircuitsTell' /\ PermitsTell' /\ CircuitsMove
<1> DEFINE r == agent[w].route
<1>1. r \in Routes /\ CircuitsTell /\ PermitsTell /\ w \in Callers
  BY AgentAssumption DEF AgentInv, RunTells
<1>2. OnlyMoves(w)
  BY DEF AgentInv, TypeOK, Leave, OnlyMoves
<1> DEFINE d == Abandon(circuit[r], w)
<1>3. circuit' = [circuit EXCEPT ![r] = d]
  BY DEF Leave
<1>4. Sound(d) /\ d.active \subseteq circuit[r].active \ {w} /\ ByItsProbe(circuit[r], d)
  BY <1>1, AbandonIsSound DEF CircuitsTell
<1>5. d \in CircuitState
  BY <1>4 DEF Sound
<1> HIDE DEF d
<1>6. /\ circuit' \in [Routes -> CircuitState] /\ circuit'[r] = d
      /\ \A s \in Routes \ {r} : circuit'[s] = circuit[s]
  BY <1>1, <1>3, <1>5 DEF CircuitsTell
<1> QED
  BY <1>1, <1>2, <1>4, <1>6, PermitEnds

(* A run that has left its route. *)
LEMMA OffRouteRuns ==
  \A a \in Runs, pc \in Places, text \in BOOLEAN :
    /\ OffRoute(a, pc, text) \in Runs /\ OffRoute(a, pc, text).pc = pc
    /\ OffRoute(a, pc, text).step = 0 /\ OffRoute(a, pc, text).revision = a.revision
<1> SUFFICES ASSUME NEW a \in Runs, NEW pc \in Places, NEW text \in BOOLEAN, NEW b,
                    b = OffRoute(a, pc, text)
             PROVE  b \in Runs /\ b.pc = pc /\ b.step = 0 /\ b.revision = a.revision
  OBVIOUS
<1>1. /\ 0 \in 0 .. MaxStep /\ 0 \in 0 .. MaxCalls /\ a.claim \in Nat
      /\ a.revision \in 0 .. MaxRevision
  BY AgentAssumption DEF Runs
<1>2. b = [pc |-> pc, claim |-> a.claim, revision |-> a.revision, route |-> 0, model |-> 0,
           text |-> text, step |-> 0, ord |-> 0, seen |-> <<>>, plan |-> <<>>,
           receipt |-> 0, late |-> FALSE]
  BY DEF OffRoute, Idle
<1> QED
  BY <1>1, <1>2 DEF Runs

(* The next route that gives a permit; the run has none before. *)
LEMMA RouteTried ==
  ASSUME NEW w \in Workers, NEW states \in [Routes -> CircuitState], NEW r,
         \A s \in Routes : Sound(states[s]) /\ w \notin states[s].active,
         \A s \in Routes, v \in Workers :
           v \in states[s].active => At(v, Calling) /\ agent[v].route = s,
         agent \in [Workers -> Runs], TryFrom(w, states, r)
  PROVE  /\ CircuitsTell' /\ PermitsTell' /\ OnlyMoves(w)
         /\ \A s \in Routes : circuit'[s].open = states[s].open
         /\ agent' \in [Workers -> Runs] /\ agent'[w].pc \in {"load", "begin", "retrying"}
         /\ agent'[w].pc = "load" => agent'[w].route \in Routes
         /\ agent[w].step = 0 => agent'[w].step = 0
         /\ agent'[w].revision = agent[w].revision
<1>1. w \in Callers
  BY AgentAssumption
<1>4. agent[w] \in Runs
  OBVIOUS
<1>5. "load" \in Places /\ "begin" \in Places /\ "retrying" \in Places
  BY DEF Places, Calling, Settling
<1>2. CASE \E n \in Routes :
             /\ NextRoute(states, r, n)
             /\ circuit' = [states EXCEPT ![n] = Acquired(@, w)]
             /\ agent' = [agent EXCEPT ![w].pc = "load", ![w].route = n, ![w].model = 1]
  <2>1. PICK n \in Routes : /\ NextRoute(states, r, n)
                            /\ circuit' = [states EXCEPT ![n] = Acquired(@, w)]
                            /\ agent' = [agent EXCEPT ![w].pc = "load", ![w].route = n, ![w].model = 1]
    BY <1>2
  <2> DEFINE d == Acquired(states[n], w)
  <2>2. Sound(d) /\ d.active = states[n].active \cup {w} /\ d.open = states[n].open
    BY <1>1, <2>1, AcquiredIsSound DEF NextRoute
  <2>3. circuit' = [states EXCEPT ![n] = d]
    BY <2>1
  <2>4. d \in CircuitState
    BY <2>2 DEF Sound
  <2> HIDE DEF d
  <2>5. /\ circuit' \in [Routes -> CircuitState] /\ circuit'[n] = d
        /\ \A s \in Routes \ {n} : circuit'[s] = states[s]
    BY <2>3, <2>4
  <2> DEFINE b == [agent[w] EXCEPT !.pc = "load", !.route = n, !.model = 1]
  <2>9. b \in Runs /\ b.pc = "load" /\ b.route = n /\ b.step = agent[w].step
        /\ b.revision = agent[w].revision
    BY <1>4, <1>5 DEF Runs
  <2>10. agent' = [agent EXCEPT ![w] = b]
    BY <2>1
  <2> HIDE DEF b
  <2>6. /\ OnlyMoves(w) /\ agent'[w] = b /\ agent' \in [Workers -> Runs]
    BY <2>9, <2>10 DEF OnlyMoves
  <2>7. CircuitsTell'
    BY <2>2, <2>5 DEF CircuitsTell
  <2>8. PermitsTell'
    <3> SUFFICES ASSUME NEW s \in Routes, NEW v \in Workers, v \in circuit'[s].active
                 PROVE  At(v, Calling)' /\ agent'[v].route = s
      BY DEF PermitsTell
    <3>1. CASE v = w
      BY <2>2, <2>5, <2>6, <2>9, <3>1 DEF At, Calling
    <3>2. CASE v # w
      BY <2>2, <2>5, <2>6, <3>2 DEF At, OnlyMoves
    <3> QED
      BY <3>1, <3>2
  <2> QED
    BY <2>2, <2>5, <2>6, <2>7, <2>8, <2>9
<1>3. CASE /\ circuit' = states
           /\ LET again == Images /\ ~agent[w].text IN
                agent' = [agent EXCEPT
                            ![w] = OffRoute(@, IF again THEN "begin" ELSE "retrying", again)]
  <2> DEFINE again == Images /\ ~agent[w].text
             pc == IF again THEN "begin" ELSE "retrying"
             b == OffRoute(agent[w], pc, again)
  <2>5. again \in BOOLEAN /\ pc \in Places /\ pc \in {"begin", "retrying"}
    BY <1>5, AgentAssumption
  <2>4. agent' = [agent EXCEPT ![w] = b]
    BY <1>3
  <2> HIDE DEF again, pc
  <2>3. b \in Runs /\ b.pc = pc /\ b.step = 0 /\ b.revision = agent[w].revision
    BY <1>4, <2>5, OffRouteRuns
  <2> HIDE DEF b
  <2>1. OnlyMoves(w) /\ agent'[w] = b /\ agent' \in [Workers -> Runs]
    BY <2>3, <2>4 DEF OnlyMoves
  <2>2. PermitsTell'
    <3> SUFFICES ASSUME NEW s \in Routes, NEW v \in Workers, v \in circuit'[s].active
                 PROVE  At(v, Calling)' /\ agent'[v].route = s
      BY DEF PermitsTell
    <3>1. v # w /\ v \in states[s].active
      BY <1>3
    <3> QED
      BY <2>1, <3>1 DEF At, OnlyMoves
  <2> QED
    BY <1>3, <2>1, <2>2, <2>3, <2>5 DEF CircuitsTell
<1> QED
  BY <1>2, <1>3 DEF TryFrom
-----------------------------------------------------------------------------
(* The runs and the ledger. *)

ActivityTyped ==
  /\ status \in Claimable \cup {"processing"} \cup Ended
  /\ token \in Nat /\ claims \in Nat /\ budget \in Nat /\ revision \in 0 .. MaxRevision
  /\ fact \in Nat /\ faults \in 0 .. MaxFaults

TablesTyped ==
  /\ checkpoint \in [Slots -> Steps] /\ receipt \in [Calls -> Receipts]
  /\ effects \in [Calls -> Nat]

(* A step is planned for good, and an effect that happened has happened. *)
LedgerGrows ==
  /\ \A x \in Slots : checkpoint[x] # NoStep => checkpoint'[x] = checkpoint[x]
  /\ \A c \in Calls : effects[c] = 1 => effects'[c] = 1

LedgerStep == [Ledger!Next]_<<revision, checkpoint, effects>>

Recovers ==
  \A r \in Routes :
    (circuit[r].open # "no" /\ circuit'[r].open = "no")
      => \/ circuit[r].open = "due" /\ circuit[r].probe # NoCaller
         \/ \A w \in Workers : agent'[w] = Idle

(* What every step does. *)
StepTells == AgentInv' /\ Recovers /\ LedgerStep

LEMMA TypesMeet ==
  TypeOK <=> /\ circuit \in [Routes -> CircuitState] /\ ActivityTyped /\ TablesTyped
             /\ agent \in [Workers -> Runs]
BY DEF TypeOK, ActivityTyped, TablesTyped, Runs, Receipts

LEMMA DoneStays ==
  ASSUME TypeOK, TablesTell, LedgerGrows, NEW g \in 0 .. MaxRevision, NEW s \in 0 .. MaxStep,
         NEW n, checkpoint[<<g, s>>] # NoStep, Ledger!CarriedOut(g, s, n)
  PROVE  checkpoint'[<<g, s>>] = checkpoint[<<g, s>>] /\ Ledger!CarriedOut(g, s, n)'
<1>1. <<g, s>> \in Slots /\ checkpoint[<<g, s>>] \in Steps
  BY DEF TypeOK, Slots
<1>2. checkpoint'[<<g, s>>] = checkpoint[<<g, s>>]
  BY <1>1 DEF LedgerGrows
<1>3. \A o \in DOMAIN checkpoint[<<g, s>>].plan : <<g, s, o>> \in Calls
  <2>1. Len(checkpoint[<<g, s>>].plan) <= MaxCalls
    BY <1>1 DEF TablesTell, Fits
  <2>2. checkpoint[<<g, s>>].plan \in Seq(Modes)
    BY <1>1 DEF Steps
  <2>3. \A o \in DOMAIN checkpoint[<<g, s>>].plan : o \in 1 .. MaxCalls
    BY <2>1, <2>2, AgentAssumption
  <2> QED
    BY <2>3 DEF Calls
<1> QED
  BY <1>2, <1>3 DEF LedgerGrows, Ledger!CarriedOut

LEMMA StepsDoneStays ==
  ASSUME TypeOK, TablesTell, LedgerGrows, NEW g \in 0 .. MaxRevision, NEW s, StepsDone(g, s)
  PROVE  StepsDone(g, s)'
<1> SUFFICES ASSUME NEW e \in 0 .. MaxStep, e < s
             PROVE  /\ checkpoint'[<<g, e>>] # NoStep
                    /\ Ledger!CarriedOut(g, e, Len(checkpoint[<<g, e>>].plan) + 1)'
  BY DEF StepsDone
<1> DEFINE n == Len(checkpoint[<<g, e>>].plan) + 1
<1>1. checkpoint[<<g, e>>] # NoStep /\ Ledger!CarriedOut(g, e, n)
  BY DEF StepsDone
<1>2. checkpoint'[<<g, e>>] = checkpoint[<<g, e>>]
  BY <1>1, DoneStays
<1>3. \A m : Ledger!CarriedOut(g, e, m) => Ledger!CarriedOut(g, e, m)'
  BY <1>1, DoneStays
<1>4. \A m : m = Len(checkpoint[<<g, e>>].plan) + 1 => Ledger!CarriedOut(g, e, m)
  BY <1>1
<1>5. \A m : m = Len(checkpoint'[<<g, e>>].plan) + 1 => Ledger!CarriedOut(g, e, m)'
  BY <1>2, <1>3, <1>4
<1>6. Ledger!CarriedOut(g, e, Len(checkpoint[<<g, e>>].plan) + 1)'
  BY <1>5 DEF Ledger!CarriedOut
<1> QED
  BY <1>1, <1>2, <1>6

LEMMA RunStays ==
  ASSUME AgentInv, LedgerGrows, NEW w \in Workers,
         agent'[w] \in {agent[w], [agent[w] EXCEPT !.late = TRUE]}
  PROVE  RunTells(w)'
<1>1. /\ TypeOK /\ TablesTell /\ RunTells(w) /\ agent[w] \in Runs
      /\ agent[w].revision \in 0 .. MaxRevision /\ agent[w].step \in 0 .. MaxStep
  BY TypesMeet DEF AgentInv, Runs
<1>2. /\ agent'[w].pc = agent[w].pc /\ agent'[w].step = agent[w].step
      /\ agent'[w].revision = agent[w].revision /\ agent'[w].route = agent[w].route
      /\ agent'[w].plan = agent[w].plan /\ agent'[w].ord = agent[w].ord
  BY <1>1 DEF Runs
<1>3. \A g, s : /\ At(w, Calling) /\ g = agent[w].revision /\ s = agent[w].step
               => StepsDone(g, s)'
  BY <1>1, StepsDoneStays DEF RunTells
<1>4. At(w, Calling) => StepsDone(agent[w].revision, agent[w].step)'
  BY <1>2, <1>3 DEF StepsDone
<1>5. \A g, s, o :
        /\ At(w, AtCall) /\ g = agent[w].revision /\ s = agent[w].step /\ o = agent[w].ord
        => /\ checkpoint'[<<g, s>>] = checkpoint[<<g, s>>]
           /\ Ledger!CarriedOut(g, s, o)'
  BY <1>1, DoneStays DEF RunTells, Slot
<1>6. At(w, AtCall) => /\ checkpoint'[Slot(w)] = checkpoint[Slot(w)] /\ Slot(w)' = Slot(w)
                       /\ Ledger!CarriedOut(agent[w].revision, agent[w].step, agent[w].ord)'
  BY <1>2, <1>5 DEF Slot, Ledger!CarriedOut
<1>7. \A places : At(w, places)' = At(w, places)
  BY <1>2 DEF At
<1> QED
  BY <1>1, <1>2, <1>4, <1>6, <1>7 DEF RunTells, Mode

LEMMA OneRunMoves ==
  ASSUME AgentInv, NEW w \in Workers, CircuitsTell', PermitsTell', ActivityTyped',
         TablesTyped', TablesTell', LedgerGrows, OnlyMoves(w), agent' \in [Workers -> Runs],
         RunTells(w)'
  PROVE  AgentInv'
<1>1. TypeOK'
  BY TypesMeet DEF CircuitsTell, TypeOK, ActivityTyped, TablesTyped, Runs, Receipts
<1>2. \A v \in Workers : RunTells(v)'
  BY RunStays DEF OnlyMoves
<1> QED
  BY <1>1, <1>2 DEF AgentInv

LEMMA TablesStay ==
  ASSUME AgentInv, UNCHANGED durable
  PROVE  TablesTyped' /\ TablesTell' /\ LedgerGrows
<1>1. TablesTyped'
  BY TypesMeet DEF AgentInv, durable, TablesTyped
<1>2. TablesTell'
  BY DEF AgentInv, durable, TablesTell
<1> QED
  BY <1>1, <1>2 DEF durable, LedgerGrows

LEMMA NotPlanning == UNCHANGED <<revision, checkpoint, effects>> => LedgerStep
BY DEF LedgerStep

LEMMA MovesRecover == CircuitsMove => Recovers
BY DEF CircuitsMove, ByItsProbe, Recovers

(* Where a run is that does nothing for its turn. *)
Standby == Settling \cup {"idle"}

LEMMA RestTells ==
  ASSUME NEW w \in Workers, agent'[w].pc \in Standby
  PROVE  RunTells(w)'
BY DEF RunTells, At, Standby, Settling, Calling, AtCall, Executing

LEMMA CurrentTypes ==
  ASSUME AgentInv, NEW w \in Workers
  PROVE  /\ agent[w] \in Runs /\ agent \in [Workers -> Runs] /\ ActivityTyped /\ TablesTyped
         /\ RunTells(w) /\ CircuitsTell /\ PermitsTell /\ TablesTell /\ w \in Callers
         /\ Idle \in Runs
<1>1. "idle" \in Places /\ 0 \in 0 .. MaxRevision /\ 0 \in 0 .. MaxStep /\ 0 \in 0 .. MaxCalls
  BY AgentAssumption DEF Places
<1>2. Idle \in Runs
  BY <1>1 DEF Idle, Runs
<1> QED
  BY <1>2, TypesMeet, AgentAssumption DEF AgentInv

(* A run that leaves its route, for whatever reason. *)
LEMMA LeaveStep ==
  ASSUME AgentInv, NEW w \in Workers, At(w, Calling), NEW pc \in Standby, Leave(w, pc),
         ActivityTyped', receipt' \in [Calls -> Receipts], TablesTell',
         UNCHANGED <<revision, checkpoint, effects>>
  PROVE  StepTells
<1>1. /\ agent[w] \in Runs /\ agent \in [Workers -> Runs] /\ TablesTyped
  BY CurrentTypes
<1>2. pc \in Places /\ pc \notin Calling
  BY DEF Standby, Places, Settling, Calling
<1>3. CircuitsTell' /\ PermitsTell' /\ CircuitsMove
  BY <1>2, LeaveEnds
<1> DEFINE b == IF pc = "idle" THEN Idle ELSE OffRoute(agent[w], pc, FALSE)
<1>4. b \in Runs /\ b.pc \in Standby
  <2>1. CASE pc = "idle"
    BY <2>1, CurrentTypes DEF Idle, Standby
  <2>2. CASE pc # "idle"
    BY <1>1, <1>2, <2>2, OffRouteRuns
  <2> QED
    BY <2>1, <2>2
<1>5. agent' = [agent EXCEPT ![w] = b]
  BY DEF Leave
<1> HIDE DEF b
<1>6. OnlyMoves(w) /\ agent' \in [Workers -> Runs] /\ agent'[w] = b
  BY <1>1, <1>4, <1>5 DEF OnlyMoves
<1>7. RunTells(w)'
  BY <1>4, <1>6, RestTells
<1>8. TablesTyped' /\ LedgerGrows
  BY <1>1 DEF TablesTyped, LedgerGrows
<1>9. AgentInv'
  BY <1>3, <1>6, <1>7, <1>8, OneRunMoves
<1> QED
  BY <1>3, <1>9, NotPlanning, MovesRecover DEF StepTells

(* A run that goes on, or that had no route. *)
LEMMA GoOnStep ==
  ASSUME AgentInv, NEW w \in Workers, UNCHANGED circuit, ActivityTyped',
         TablesTyped', TablesTell', LedgerGrows, LedgerStep,
         NEW b \in Runs, agent' = [agent EXCEPT ![w] = b],
         At(w, Calling) => b.pc \in Calling /\ b.route = agent[w].route,
         RunTells(w)'
  PROVE  StepTells
<1>1. OnlyMoves(w) /\ agent' \in [Workers -> Runs] /\ agent'[w] = b
  BY CurrentTypes DEF OnlyMoves
<1>2. CircuitsTell' /\ PermitsTell' /\ CircuitsMove
  BY <1>1, CurrentTypes, PermitsStay DEF At
<1>3. AgentInv'
  BY <1>1, <1>2, OneRunMoves
<1> QED
  BY <1>2, <1>3, MovesRecover DEF StepTells

LEMMA ActivityStays ==
  ASSUME AgentInv, UNCHANGED <<activity, fact>>, UNCHANGED faults \/ Fault
  PROVE  ActivityTyped'
<1>1. ActivityTyped
  BY TypesMeet DEF AgentInv
<1>2. faults' \in 0 .. MaxFaults
  BY <1>1, AgentAssumption DEF Fault, ActivityTyped
<1> QED
  BY <1>1, <1>2 DEF ActivityTyped, activity
-----------------------------------------------------------------------------
(* How a run goes through a step. *)

LEMMA ClaimActivityStep ==
  ASSUME AgentInv, NEW w \in Workers, ClaimActivity(w) PROVE StepTells
<1> DEFINE b == [Idle EXCEPT !.pc = "begin", !.claim = claims + 1, !.revision = revision]
<1>1. agent' = [agent EXCEPT ![w] = b]
  BY DEF ClaimActivity
<1>2. ActivityTyped /\ TablesTyped /\ agent \in [Workers -> Runs] /\ Idle \in Runs
  BY CurrentTypes
<1>3. b \in Runs /\ b.pc = "begin" /\ b.step = 0
  <2>1. "begin" \in Places
    BY DEF Places
  <2>2. claims + 1 \in Nat /\ revision \in 0 .. MaxRevision
    BY <1>2 DEF ActivityTyped
  <2>3. b \in Runs
    BY <1>2, <2>1, <2>2 DEF Runs
  <2>4. b.pc = "begin" /\ b.step = Idle.step
    BY <1>2 DEF Runs
  <2>5. Idle.step = 0
    BY DEF Idle
  <2> HIDE DEF b
  <2> QED
    BY <2>3, <2>4, <2>5
<1> HIDE DEF b
<1>4. ActivityTyped'
  BY <1>2 DEF ClaimActivity, ActivityTyped
<1>5. agent'[w] = b
  BY <1>1, <1>2
<1>6. RunTells(w)'
  BY <1>3, <1>5 DEF RunTells, At, Calling, AtCall, Executing
<1>7. ~At(w, Calling) /\ UNCHANGED circuit /\ UNCHANGED <<revision, checkpoint, effects>>
  BY DEF ClaimActivity, At, Calling, durable
<1>8. TablesTyped' /\ TablesTell' /\ LedgerGrows
  BY TablesStay DEF ClaimActivity
<1> QED
  BY <1>1, <1>3, <1>4, <1>6, <1>7, <1>8, GoOnStep, NotPlanning

(* The circuits once the permit of a run has ended. *)
PermitsLeft(w, states) ==
  /\ states \in [Routes -> CircuitState]
  /\ \A s \in Routes : Sound(states[s]) /\ w \notin states[s].active
  /\ \A s \in Routes, v \in Workers :
       v \in states[s].active => At(v, Calling) /\ agent[v].route = s
  /\ \A s \in Routes : ByItsProbe(circuit[s], states[s])

(* The next route of a run that is at its first step. *)
LEMMA RouteStep ==
  ASSUME AgentInv, NEW w \in Workers, NEW states, NEW r, PermitsLeft(w, states),
         TryFrom(w, states, r), agent[w].step = 0, ActivityTyped',
         UNCHANGED <<revision, durable>>
  PROVE  StepTells
<1> USE DEF PermitsLeft
<1>1. /\ CircuitsTell' /\ PermitsTell' /\ OnlyMoves(w)
      /\ \A s \in Routes : circuit'[s].open = states[s].open
      /\ agent' \in [Workers -> Runs] /\ agent'[w].pc \in {"load", "begin", "retrying"}
      /\ agent'[w].pc = "load" => agent'[w].route \in Routes
      /\ agent'[w].step = 0
  BY CurrentTypes, RouteTried
<1>2. CircuitsMove
  BY <1>1 DEF CircuitsMove, ByItsProbe
<1>3. RunTells(w)'
  <2>1. \A g : StepsDone(g, 0)'
    BY DEF StepsDone
  <2>2. StepsDone(agent[w].revision, agent[w].step)'
    BY <1>1, <2>1 DEF StepsDone
  <2> QED
    BY <1>1, <2>2 DEF RunTells, At, AtCall, Executing, Calling
<1>4. AgentInv'
  BY <1>1, <1>3, OneRunMoves, TablesStay
<1> QED
  BY <1>2, <1>4, MovesRecover, NotPlanning DEF StepTells, durable

LEMMA BeginRoutesStep ==
  ASSUME AgentInv, NEW w \in Workers, BeginRoutes(w) PROVE StepTells
<1>1. \A s \in Routes : Sound(circuit[s]) /\ w \notin circuit[s].active
  BY CurrentTypes DEF CircuitsTell, PermitsTell, BeginRoutes, At, Calling
<1>2. agent[w].step = 0
  BY CurrentTypes DEF BeginRoutes, RunTells
<1>3. ActivityTyped'
  BY ActivityStays DEF BeginRoutes
<1>4. \A s \in Routes : ByItsProbe(circuit[s], circuit[s])
  BY DEF ByItsProbe
<1>5. circuit \in [Routes -> CircuitState] /\ PermitsTell
  BY CurrentTypes DEF CircuitsTell
<1>6. TryFrom(w, circuit, 0) /\ UNCHANGED <<revision, durable>>
  BY DEF BeginRoutes, activity
<1>7. PermitsLeft(w, circuit)
  BY <1>1, <1>4, <1>5 DEF PermitsTell, PermitsLeft
<1> QED
  BY <1>2, <1>3, <1>6, <1>7, RouteStep

LEMMA FailedPermit ==
  ASSUME AgentInv, NEW w \in Workers, At(w, Calling), NEW d, Sound(d),
         d.active \subseteq circuit[agent[w].route].active \ {w},
         ByItsProbe(circuit[agent[w].route], d), NEW states,
         states = [circuit EXCEPT ![agent[w].route] = d]
  PROVE  agent[w].route \in Routes /\ PermitsLeft(w, states)
<1> DEFINE r == agent[w].route
<1>1. r \in Routes /\ CircuitsTell /\ PermitsTell
  BY CurrentTypes DEF RunTells
<1>2. d \in CircuitState
  BY DEF Sound
<1>3. /\ states \in [Routes -> CircuitState] /\ states[r] = d
      /\ \A s \in Routes \ {r} : states[s] = circuit[s]
  BY <1>1, <1>2 DEF CircuitsTell
<1>4. \A s \in Routes : states[s].active \subseteq circuit[s].active
  <2> SUFFICES ASSUME NEW s \in Routes PROVE states[s].active \subseteq circuit[s].active
    OBVIOUS
  <2>1. CASE s = r
    BY <1>3, <2>1
  <2>2. CASE s # r
    BY <1>3, <2>2
  <2> QED
    BY <2>1, <2>2
<1>5. \A s \in Routes : Sound(states[s]) /\ w \notin states[s].active
  BY <1>1, <1>3 DEF CircuitsTell, PermitsTell
<1>6. \A s \in Routes, v \in Workers :
        v \in states[s].active => At(v, Calling) /\ agent[v].route = s
  BY <1>1, <1>4 DEF PermitsTell
<1>7. \A s \in Routes : ByItsProbe(circuit[s], states[s])
  BY <1>3 DEF ByItsProbe
<1> QED
  BY <1>1, <1>3, <1>5, <1>6, <1>7 DEF PermitsLeft

LEMMA KeptIsNumber ==
  ASSUME AgentInv, NEW r \in Routes, NEW kept \in 0 .. circuit[r].failures
  PROVE  kept \in Nat
<1>1. circuit[r].failures \in Nat
  BY DEF AgentInv, CircuitsTell, Sound, CircuitState
<1> QED
  BY <1>1

LEMMA ProviderFailsStep ==
  ASSUME AgentInv, NEW w \in Workers, ProviderFails(w) PROVE StepTells
<1>1. /\ ActivityTyped' /\ At(w, Calling) /\ UNCHANGED <<revision, durable>>
      /\ w \in Callers
  BY ActivityStays, CurrentTypes DEF ProviderFails, At, Calling, activity
<1>2. CASE Leave(w, "retrying")
  <2>1. "retrying" \in Standby /\ receipt' \in [Calls -> Receipts] /\ TablesTell'
    BY <1>1, TablesStay DEF Standby, Settling, TablesTyped
  <2> QED
    BY <1>1, <1>2, <2>1, LeaveStep DEF durable
<1>3. CASE /\ LastModel(w)
           /\ \E kept \in 0 .. circuit[agent[w].route].failures :
                TryFrom(w, [circuit EXCEPT ![agent[w].route] = RecordFailure(@, w, kept)],
                        agent[w].route)
  <2> DEFINE r == agent[w].route
  <2>1. PICK kept \in 0 .. circuit[r].failures :
          TryFrom(w, [circuit EXCEPT ![r] = RecordFailure(@, w, kept)], r)
    BY <1>3
  <2>2. r \in Routes
    BY <1>1, CurrentTypes DEF RunTells
  <2>3. Sound(circuit[r]) /\ kept \in Nat
    BY <2>2, KeptIsNumber DEF AgentInv, CircuitsTell
  <2> DEFINE d == RecordFailure(circuit[r], w, kept)
             states == [circuit EXCEPT ![r] = d]
  <2>4. Sound(d) /\ d.active \subseteq circuit[r].active \ {w} /\ ByItsProbe(circuit[r], d)
    BY <1>1, <2>3, FailureIsSound
  <2>5. TryFrom(w, states, r)
    BY <2>1
  <2> HIDE DEF d
  <2>6. PermitsLeft(w, states)
    BY <1>1, <2>4, FailedPermit
  <2> HIDE DEF states
  <2> QED
    BY <1>1, <1>3, <2>5, <2>6, RouteStep DEF LastModel
<1> QED
  BY <1>2, <1>3 DEF ProviderFails

LEMMA ProviderBlocksStep ==
  ASSUME AgentInv, NEW w \in Workers, ProviderBlocks(w) PROVE StepTells
<1>1. /\ ActivityTyped' /\ At(w, Calling) /\ UNCHANGED <<revision, durable>>
      /\ w \in Callers /\ agent[w].step = 0
  BY ActivityStays, CurrentTypes DEF ProviderBlocks, LastModel, Outage, At, Calling, activity
<1>2. CASE Leave(w, "rejected")
  <2>1. "rejected" \in Standby /\ receipt' \in [Calls -> Receipts] /\ TablesTell'
    BY <1>1, TablesStay DEF Standby, Settling, TablesTyped
  <2> QED
    BY <1>1, <1>2, <2>1, LeaveStep DEF durable
<1>3. CASE TryFrom(w, [circuit EXCEPT ![agent[w].route] = Abandon(@, w)], agent[w].route)
  <2> DEFINE r == agent[w].route
             d == Abandon(circuit[r], w)
             states == [circuit EXCEPT ![r] = d]
  <2>1. r \in Routes
    BY <1>1, CurrentTypes DEF RunTells
  <2>2. Sound(circuit[r])
    BY <2>1 DEF AgentInv, CircuitsTell
  <2>3. Sound(d) /\ d.active \subseteq circuit[r].active \ {w} /\ ByItsProbe(circuit[r], d)
    BY <1>1, <2>2, AbandonIsSound
  <2>4. TryFrom(w, states, r)
    BY <1>3
  <2> HIDE DEF d
  <2>5. PermitsLeft(w, states)
    BY <1>1, <2>3, FailedPermit
  <2> HIDE DEF states
  <2> QED
    BY <1>1, <2>4, <2>5, RouteStep
<1> QED
  BY <1>2, <1>3 DEF ProviderBlocks

(* A permit that ends with its run resting, without another route. *)
LEMMA PermitStep ==
  ASSUME AgentInv, NEW w \in Workers, At(w, Calling), NEW d, NEW pc \in Standby,
         Sound(d), d.active \subseteq circuit[agent[w].route].active \ {w},
         ByItsProbe(circuit[agent[w].route], d),
         circuit' = [circuit EXCEPT ![agent[w].route] = d],
         agent' = [agent EXCEPT ![w] = OffRoute(@, pc, FALSE)],
         ActivityTyped', UNCHANGED <<revision, durable>>
  PROVE  StepTells
<1>1. agent[w] \in Runs /\ agent \in [Workers -> Runs] /\ pc \in Places
  BY CurrentTypes DEF Standby, Places
<1> DEFINE b == OffRoute(agent[w], pc, FALSE)
<1>2. b \in Runs /\ b.pc = pc
  BY <1>1, OffRouteRuns
<1>3. agent' = [agent EXCEPT ![w] = b]
  OBVIOUS
<1> HIDE DEF b
<1>4. OnlyMoves(w) /\ agent' \in [Workers -> Runs] /\ agent'[w] = b
  BY <1>1, <1>2, <1>3 DEF OnlyMoves
<1>5. RunTells(w)'
  BY <1>2, <1>4, RestTells
<1>6. PermitsLeft(w, circuit')
  BY FailedPermit
<1>7. CircuitsTell' /\ CircuitsMove
  BY <1>6 DEF CircuitsTell, CircuitsMove, PermitsLeft
<1>8. PermitsTell'
  BY <1>4, <1>6 DEF PermitsTell, OnlyMoves, At, PermitsLeft
<1>9. AgentInv'
  BY <1>4, <1>5, <1>7, <1>8, OneRunMoves, TablesStay
<1> QED
  BY <1>7, <1>9, MovesRecover, NotPlanning DEF StepTells, durable

LEMMA PermitSteps ==
  ASSUME AgentInv, NEW w \in Workers, ProviderRejects(w) \/ FinishRun(w) PROVE StepTells
<1> DEFINE r == agent[w].route
<1>1. /\ ActivityTyped' /\ At(w, Calling) /\ UNCHANGED <<revision, durable>>
      /\ w \in Callers
  BY ActivityStays, CurrentTypes DEF ProviderRejects, FinishRun, At, Calling, activity
<1>2. r \in Routes /\ Sound(circuit[r])
  BY <1>1, CurrentTypes DEF RunTells, CircuitsTell
<1>3. CASE ProviderRejects(w)
  <2>1. PICK kept \in 0 .. circuit[r].failures :
          circuit' = [circuit EXCEPT ![r] = RecordFailure(@, w, kept)]
    BY <1>3 DEF ProviderRejects
  <2> DEFINE d == RecordFailure(circuit[r], w, kept)
  <2>2. Sound(d) /\ d.active \subseteq circuit[r].active \ {w} /\ ByItsProbe(circuit[r], d)
    BY <1>1, <1>2, KeptIsNumber, FailureIsSound
  <2>3. circuit' = [circuit EXCEPT ![r] = d]
    BY <2>1
  <2> HIDE DEF d
  <2>4. /\ "rejected" \in Standby
        /\ agent' = [agent EXCEPT ![w] = OffRoute(@, "rejected", FALSE)]
    BY <1>3 DEF Standby, Settling, ProviderRejects
  <2> QED
    BY <1>1, <2>2, <2>3, <2>4, PermitStep
<1>4. CASE FinishRun(w)
  <2> DEFINE d == RecordSuccess(circuit[r], w)
  <2>1. Sound(d) /\ d.active \subseteq circuit[r].active \ {w} /\ ByItsProbe(circuit[r], d)
    BY <1>1, <1>2, SuccessIsSound
  <2>2. circuit' = [circuit EXCEPT ![r] = d]
    BY <1>4 DEF FinishRun
  <2> HIDE DEF d
  <2>3. /\ "completing" \in Standby
        /\ agent' = [agent EXCEPT ![w] = OffRoute(@, "completing", FALSE)]
    BY <1>4 DEF Standby, Settling, FinishRun
  <2> QED
    BY <1>1, <2>1, <2>2, <2>3, PermitStep
<1> QED
  BY <1>3, <1>4
-----------------------------------------------------------------------------
(* Plans, calls and effects. *)

LEMMA SlotTypes ==
  ASSUME AgentInv, NEW w \in Workers
  PROVE  /\ Slot(w) \in Slots /\ Slot(w) = <<agent[w].revision, agent[w].step>>
         /\ checkpoint[Slot(w)] \in Steps /\ Fits(checkpoint[Slot(w)].plan, agent[w].step)
<1>1. agent[w] \in Runs /\ TablesTyped /\ TablesTell
  BY CurrentTypes
<1>2. agent[w].revision \in 0 .. MaxRevision /\ agent[w].step \in 0 .. MaxStep
  BY <1>1 DEF Runs
<1>3. Slot(w) \in Slots
  BY <1>2 DEF Slot, Slots
<1>4. Slot(w)[2] = agent[w].step
  BY DEF Slot
<1> QED
  BY <1>1, <1>3, <1>4 DEF Slot, TablesTyped, TablesTell

LEMMA CallTypes ==
  ASSUME AgentInv, NEW w \in Workers, At(w, AtCall)
  PROVE  /\ Call(w) \in Calls /\ agent[w].ord \in 1 .. Len(agent[w].plan)
         /\ Len(agent[w].plan) <= MaxCalls /\ Len(agent[w].plan) \in Nat
         /\ agent[w].step < MaxStep /\ Mode(w) \in Modes
         /\ effects[Call(w)] = IF receipt[Call(w)].status = "succeeded" THEN 1 ELSE 0
         /\ receipt[Call(w)] \in Receipts
<1>1. agent[w] \in Runs /\ TablesTyped /\ TablesTell /\ RunTells(w)
  BY CurrentTypes
<1>2. /\ agent[w].revision \in 0 .. MaxRevision /\ agent[w].step \in 0 .. MaxStep
      /\ agent[w].plan \in Seq(Modes) /\ MaxStep \in Nat /\ MaxCalls \in Nat
  BY <1>1, AgentAssumption DEF Runs
<1>3. Fits(agent[w].plan, agent[w].step) /\ agent[w].ord \in DOMAIN agent[w].plan
  BY <1>1, SlotTypes DEF RunTells
<1>4. /\ agent[w].ord \in 1 .. Len(agent[w].plan) /\ Len(agent[w].plan) \in Nat
      /\ Len(agent[w].plan) <= MaxCalls
  BY <1>2, <1>3 DEF Fits
<1>5. agent[w].step < MaxStep
  BY <1>2, <1>3 DEF Fits
<1>6. Call(w) \in Calls
  BY <1>2, <1>4 DEF Call, Calls
<1>7. Mode(w) \in Modes
  BY <1>2, <1>3 DEF Mode
<1> QED
  BY <1>1, <1>4, <1>5, <1>6, <1>7 DEF TablesTell, TablesTyped

(* A plan that is on record, and that is the plan of the run's step. *)
LEMMA PlannedTells ==
  ASSUME AgentInv, NEW w \in Workers, At(w, Calling), NEW plan \in Seq(Modes), NEW b,
         b = Planned(agent[w], plan), agent'[w] = b, Fits(plan, agent[w].step),
         checkpoint'[Slot(w)] # NoStep, checkpoint'[Slot(w)].plan = plan, LedgerGrows
  PROVE  /\ b \in Runs /\ b.pc \in Calling /\ b.route = agent[w].route
         /\ RunTells(w)'
<1>1. /\ agent[w] \in Runs /\ TypeOK /\ TablesTell /\ RunTells(w)
  BY CurrentTypes DEF AgentInv
<1> DEFINE pc == IF plan = <<>> THEN "final" ELSE "call"
<1>2. pc \in Places /\ pc \in Calling /\ pc \in {"final", "call"}
  BY DEF Places, Calling
<1>3. b = [agent[w] EXCEPT !.plan = plan, !.ord = 1, !.pc = pc]
  BY DEF Planned
<1> HIDE DEF pc
<1>4. Len(plan) \in Nat /\ Len(plan) <= MaxCalls
  BY DEF Fits
<1>5. 1 \in 0 .. MaxCalls
  BY AgentAssumption
<1>6. b \in Runs
  BY <1>1, <1>2, <1>3, <1>5 DEF Runs
<1>7. /\ b.plan = plan /\ b.ord = 1 /\ b.pc = pc /\ b.step = agent[w].step
      /\ b.route = agent[w].route /\ b.revision = agent[w].revision
  BY <1>1, <1>3 DEF Runs
<1>8. \A g, s : g = agent[w].revision /\ s = agent[w].step => StepsDone(g, s)'
  <2>1. agent[w].revision \in 0 .. MaxRevision
    BY <1>1 DEF Runs
  <2> QED
    BY <1>1, <2>1, StepsDoneStays DEF RunTells
<1>9. StepsDone(agent[w].revision, agent[w].step)'
  BY <1>7, <1>8 DEF StepsDone
<1>10. Slot(w)' = Slot(w)
  BY <1>7 DEF Slot
<1>11. \A g, s : g = agent[w].revision /\ s = agent[w].step =>
         Ledger!CarriedOut(g, s, 1)'
  <2> SUFFICES ASSUME NEW g, NEW s, g = agent[w].revision, s = agent[w].step
               PROVE  \A o \in DOMAIN checkpoint'[<<g, s>>].plan : ~(o < 1)
    BY DEF Ledger!CarriedOut
  <2>1. checkpoint'[<<g, s>>].plan = plan
    BY DEF Slot
  <2>2. DOMAIN plan = 1 .. Len(plan)
    OBVIOUS
  <2> QED
    BY <1>4, <2>1, <2>2
<1>12. Ledger!CarriedOut(agent[w].revision, agent[w].step, agent[w].ord)'
  BY <1>7, <1>11 DEF Ledger!CarriedOut
<1>13. pc = "call" => 1 \in DOMAIN plan
  <2>1. pc = "call" => plan # <<>>
    BY DEF pc
  <2> QED
    BY <1>4, <2>1
<1>14. RunTells(w)'
  <2>1. /\ ~At(w, {"begin"})' /\ ~At(w, {"save"})' /\ ~At(w, Executing)'
        /\ At(w, AtCall)' => pc = "call"
    BY <1>2, <1>7 DEF At, AtCall, Executing
  <2>2. agent[w].route \in Routes
    BY <1>1 DEF RunTells
  <2> QED
    BY <1>7, <1>9, <1>10, <1>12, <1>13, <2>1, <2>2 DEF RunTells
<1> QED
  BY <1>2, <1>6, <1>7, <1>14

LEMMA LoadStepStep ==
  ASSUME AgentInv, NEW w \in Workers, LoadStep(w) PROVE StepTells
<1>1. /\ ActivityTyped' /\ At(w, Calling) /\ UNCHANGED <<revision, durable>>
      /\ UNCHANGED <<revision, checkpoint, effects>>
  BY ActivityStays DEF LoadStep, At, Calling, activity, durable
<1>2. TablesTyped' /\ TablesTell' /\ LedgerGrows /\ LedgerStep
  BY <1>1, TablesStay, NotPlanning
<1>3. agent[w] \in Runs /\ agent \in [Workers -> Runs] /\ RunTells(w) /\ CircuitsTell
  BY CurrentTypes
<1> DEFINE step == checkpoint[Slot(w)]
<1>4. CASE step = NoStep /\ Goto(w, "provider") /\ UNCHANGED circuit
  <2> DEFINE b == [agent[w] EXCEPT !.pc = "provider"]
  <2>1. "provider" \in Places /\ "provider" \in Calling
    BY DEF Places, Calling
  <2>2. /\ b \in Runs /\ b.pc = "provider" /\ b.route = agent[w].route
        /\ b.step = agent[w].step /\ b.revision = agent[w].revision
    BY <1>3, <2>1 DEF Runs
  <2>3. agent' = [agent EXCEPT ![w] = b]
    BY <1>4 DEF Goto
  <2> HIDE DEF b
  <2>4. agent'[w] = b
    BY <1>3, <2>3
  <2>5. RunTells(w)'
    <3>1. \A g, s : g = agent[w].revision /\ s = agent[w].step => StepsDone(g, s)'
      BY <1>1, <1>3 DEF RunTells, StepsDone, Ledger!CarriedOut
    <3>2. StepsDone(agent[w].revision, agent[w].step)'
      BY <2>2, <2>4, <3>1 DEF StepsDone
    <3> QED
      BY <1>1, <1>3, <2>2, <2>4, <3>2 DEF RunTells, At, AtCall, Executing
  <2> QED
    BY <1>1, <1>2, <1>4, <2>1, <2>2, <2>3, <2>5, GoOnStep
<1>5. CASE /\ step # NoStep /\ UNCHANGED circuit
           /\ agent' = [agent EXCEPT ![w] = Planned(@, step.plan)]
  <2> DEFINE b == Planned(agent[w], step.plan)
  <2>1. agent' = [agent EXCEPT ![w] = b]
    BY <1>5
  <2>2. agent'[w] = b
    BY <1>3, <2>1
  <2>3. step.plan \in Seq(Modes) /\ Fits(step.plan, agent[w].step) /\ step \in Steps
    BY SlotTypes DEF Steps
  <2>4. checkpoint'[Slot(w)] # NoStep /\ checkpoint'[Slot(w)].plan = step.plan
    BY <1>1, <1>5
  <2> HIDE DEF b, step
  <2>5. b \in Runs /\ b.pc \in Calling /\ b.route = agent[w].route /\ RunTells(w)'
    BY <1>1, <1>2, <2>2, <2>3, <2>4, PlannedTells DEF b
  <2> QED
    BY <1>1, <1>2, <1>5, <2>1, <2>5, GoOnStep
<1>6. CASE Leave(w, "failing")
  <2>1. "failing" \in Standby
    BY DEF Standby, Settling
  <2> QED
    BY <1>1, <1>2, <1>6, <2>1, LeaveStep DEF TablesTyped
<1> QED
  BY <1>4, <1>5, <1>6 DEF LoadStep

(* The next model of a route loads the same step under the same permit. *)
LEMMA NextModelStep ==
  ASSUME AgentInv, NEW w \in Workers, NextModel(w) PROVE StepTells
<1>1. /\ ActivityTyped' /\ At(w, Calling) /\ UNCHANGED <<circuit, revision, durable>>
      /\ UNCHANGED <<revision, checkpoint, effects>>
  BY ActivityStays DEF NextModel, Outage, At, Calling, activity, durable
<1>2. TablesTyped' /\ TablesTell' /\ LedgerGrows /\ LedgerStep
  BY <1>1, TablesStay, NotPlanning
<1>3. agent[w] \in Runs /\ agent \in [Workers -> Runs] /\ RunTells(w)
  BY CurrentTypes
<1> DEFINE b == [agent[w] EXCEPT !.pc = "load", !.model = @ + 1]
<1>4. "load" \in Places /\ "load" \in Calling
  BY DEF Places, Calling
<1>5. /\ b \in Runs /\ b.pc = "load" /\ b.route = agent[w].route
      /\ b.step = agent[w].step /\ b.revision = agent[w].revision
  <2>1. PICK n \in Nat : n = agent[w].model + 1
    BY <1>3 DEF Runs
  <2>2. b = [agent[w] EXCEPT !.pc = "load", !.model = n]
    BY <2>1
  <2> HIDE DEF b
  <2> QED
    BY <1>3, <1>4, <2>2 DEF Runs
<1>6. agent' = [agent EXCEPT ![w] = b]
  BY DEF NextModel
<1> HIDE DEF b
<1>7. agent'[w] = b
  BY <1>3, <1>6
<1>8. RunTells(w)'
  <2>1. \A g, s : g = agent[w].revision /\ s = agent[w].step => StepsDone(g, s)'
    BY <1>1, <1>3 DEF RunTells, StepsDone, Ledger!CarriedOut
  <2>2. StepsDone(agent[w].revision, agent[w].step)'
    BY <1>5, <1>7, <2>1 DEF StepsDone
  <2> QED
    BY <1>1, <1>3, <1>5, <1>7, <2>2 DEF RunTells, At, AtCall, Executing
<1> QED
  BY <1>1, <1>2, <1>4, <1>5, <1>6, <1>8, GoOnStep

LEMMA PlansAreShort ==
  ASSUME NEW plan \in Plans PROVE plan \in Seq(Modes) /\ Len(plan) <= MaxCalls
<1>1. PICK n \in 0 .. MaxCalls : plan \in [1 .. n -> Modes]
  BY AgentAssumption DEF Modes
<1> QED
  BY <1>1, AgentAssumption

LEMMA ProviderAnswersStep ==
  ASSUME AgentInv, NEW w \in Workers, ProviderAnswers(w) PROVE StepTells
<1>1. /\ ActivityTyped' /\ At(w, Calling) /\ UNCHANGED <<revision, durable>>
      /\ UNCHANGED <<revision, checkpoint, effects>> /\ UNCHANGED circuit
  BY ActivityStays DEF ProviderAnswers, At, Calling, activity, durable
<1>2. TablesTyped' /\ TablesTell' /\ LedgerGrows /\ LedgerStep
  BY <1>1, TablesStay, NotPlanning
<1>3. agent[w] \in Runs /\ agent \in [Workers -> Runs] /\ RunTells(w)
  BY CurrentTypes
<1>4. PICK plan \in Plans :
        /\ agent[w].step = MaxStep => plan = <<>>
        /\ agent' = [agent EXCEPT ![w].pc = "save", ![w].plan = plan]
  BY DEF ProviderAnswers
<1> DEFINE b == [agent[w] EXCEPT !.pc = "save", !.plan = plan]
<1>5. "save" \in Places /\ "save" \in Calling
  BY DEF Places, Calling
<1>6. /\ b \in Runs /\ b.pc = "save" /\ b.route = agent[w].route /\ b.plan = plan
      /\ b.step = agent[w].step /\ b.revision = agent[w].revision
  BY <1>3, <1>5, PlansAreShort DEF Runs
<1>7. agent' = [agent EXCEPT ![w] = b]
  BY <1>4
<1> HIDE DEF b
<1>8. agent'[w] = b
  BY <1>3, <1>7
<1>9. RunTells(w)'
  <2>1. \A g, s : g = agent[w].revision /\ s = agent[w].step => StepsDone(g, s)'
    BY <1>1, <1>3 DEF RunTells, StepsDone, Ledger!CarriedOut
  <2>2. StepsDone(agent[w].revision, agent[w].step)'
    BY <1>6, <1>8, <2>1 DEF StepsDone
  <2>3. Fits(agent'[w].plan, agent'[w].step)
    BY <1>4, <1>6, <1>8, PlansAreShort DEF Fits
  <2> QED
    BY <1>1, <1>3, <1>6, <1>8, <2>2, <2>3 DEF RunTells, At, AtCall, Executing
<1> QED
  BY <1>1, <1>2, <1>5, <1>6, <1>7, <1>9, GoOnStep

(* The first plan of a step is its plan. *)
LEMMA SaveStepStep ==
  ASSUME AgentInv, NEW w \in Workers, SaveStep(w) PROVE StepTells
<1>1. /\ ActivityTyped' /\ At(w, Calling) /\ UNCHANGED <<revision, receipt, effects>>
      /\ At(w, {"save"}) /\ Current(w)
  BY ActivityStays DEF SaveStep, At, Calling, activity
<1>2. /\ agent[w] \in Runs /\ agent \in [Workers -> Runs] /\ RunTells(w)
      /\ TablesTyped /\ TablesTell
  BY CurrentTypes
<1>3. CASE UNCHANGED checkpoint /\ Leave(w, "failing")
  <2>1. "failing" \in Standby /\ receipt' \in [Calls -> Receipts] /\ TablesTell'
    BY <1>1, <1>2, <1>3, TablesStay DEF Standby, Settling, TablesTyped, durable
  <2> QED
    BY <1>1, <1>3, <2>1, LeaveStep
<1>4. CASE /\ checkpoint[Slot(w)] \in {NoStep, NewStep(w)} /\ UNCHANGED circuit
           /\ checkpoint' = [checkpoint EXCEPT ![Slot(w)] = NewStep(w)]
           /\ agent' = [agent EXCEPT ![w] = Planned(@, @.plan)]
  <2> DEFINE new == NewStep(w)
             plan == agent[w].plan
             b == Planned(agent[w], plan)
  <2>1. /\ plan \in Seq(Modes) /\ Fits(plan, agent[w].step) /\ agent[w].route \in Routes
        /\ StepsDone(agent[w].revision, agent[w].step)
        /\ agent[w].revision \in 0 .. MaxRevision /\ agent[w].step \in 0 .. MaxStep
    BY <1>1, <1>2 DEF Runs, RunTells
  <2>2. new \in Steps /\ new # NoStep /\ new.plan = plan
    <3>1. new.route # 0 /\ NoStep.route = 0
      BY <2>1, CircuitAssumption DEF NewStep, Asked, NoStep
    <3>2. new \in Steps
      BY <1>2, <2>1, AgentAssumption DEF NewStep, Asked, SendsImages, Steps, Runs
    <3> QED
      BY <3>1, <3>2 DEF NewStep, Asked
  <2>3. checkpoint' = [checkpoint EXCEPT ![Slot(w)] = new] /\ Slot(w) \in Slots
    BY <1>4, SlotTypes
  <2>4. agent' = [agent EXCEPT ![w] = b] /\ checkpoint[Slot(w)] \in {NoStep, new}
    BY <1>4
  <2> HIDE DEF new, b
  <2>5. agent'[w] = b
    BY <1>2, <2>4
  <2>6. /\ checkpoint' \in [Slots -> Steps] /\ checkpoint'[Slot(w)] = new
        /\ \A x \in Slots : x # Slot(w) => checkpoint'[x] = checkpoint[x]
    BY <1>2, <2>2, <2>3 DEF TablesTyped
  <2>7. TablesTyped' /\ LedgerGrows
    BY <1>1, <1>2, <2>4, <2>6 DEF TablesTyped, LedgerGrows
  <2>8. TablesTell'
    <3>1. \A x \in Slots : Fits(checkpoint'[x].plan, x[2])
      <4> SUFFICES ASSUME NEW x \in Slots PROVE Fits(checkpoint'[x].plan, x[2])
        OBVIOUS
      <4>1. CASE x = Slot(w)
        BY <2>1, <2>2, <2>6, <4>1 DEF Slot
      <4>2. CASE x # Slot(w)
        BY <1>2, <2>6, <4>2 DEF TablesTell
      <4> QED
        BY <4>1, <4>2
    <3> QED
      BY <1>1, <1>2, <3>1 DEF TablesTell
  <2>9. b \in Runs /\ b.pc \in Calling /\ b.route = agent[w].route /\ RunTells(w)'
    BY <1>1, <2>1, <2>2, <2>5, <2>6, <2>7, PlannedTells DEF b
  <2>10. LedgerStep
    <3>1. CASE checkpoint[Slot(w)] = new
      <4>1. checkpoint' = checkpoint
        BY <1>2, <2>3, <3>1 DEF TablesTyped
      <4> QED
        BY <1>1, <4>1, NotPlanning
    <3>2. CASE checkpoint[Slot(w)] = NoStep
      <4>0. PICK s \in 0 .. MaxStep : s = agent[w].step
        BY <2>1
      <4>1. revision = agent[w].revision /\ Slot(w) = <<revision, s>>
        BY <1>1, <4>0 DEF Current, Slot
      <4>2. ~Ledger!Known(revision, s) /\ Ledger!Known(revision, s)'
        BY <1>1, <2>2, <2>6, <3>2, <4>1 DEF Ledger!Known
      <4>3. \A e \in 0 .. MaxStep : e < s =>
              /\ Ledger!Known(revision, e)
              /\ Ledger!CarriedOut(revision, e, Len(checkpoint[<<revision, e>>].plan) + 1)
        BY <2>1, <4>0, <4>1 DEF StepsDone, Ledger!Known
      <4>4. checkpoint' = [checkpoint EXCEPT ![<<revision, s>>] = checkpoint'[<<revision, s>>]]
        BY <2>3, <2>6, <4>1
      <4>5. checkpoint' # checkpoint
        BY <2>2, <2>6, <3>2
      <4>6. Ledger!PlanStep(s)
        BY <1>1, <4>2, <4>3, <4>4 DEF Ledger!PlanStep
      <4> QED
        BY <2>1, <4>5, <4>6 DEF LedgerStep, Ledger!Next
    <3> QED
      BY <2>4, <3>1, <3>2
  <2> QED
    BY <1>1, <1>4, <2>4, <2>7, <2>8, <2>9, <2>10, GoOnStep
<1> QED
  BY <1>3, <1>4 DEF SaveStep

(* The call after one that was carried out, or the step after the last. *)
LEMMA AfterCallTells ==
  ASSUME AgentInv, NEW w \in Workers, At(w, AtCall), NEW a \in Runs, NEW b,
         a.pc = agent[w].pc, a.revision = agent[w].revision, a.step = agent[w].step,
         a.ord = agent[w].ord, a.plan = agent[w].plan, a.route = agent[w].route,
         b = AfterCall(a), agent'[w] = b, LedgerGrows, UNCHANGED checkpoint,
         Mode(w) = "read" \/ effects'[Call(w)] = 1
  PROVE  /\ b \in Runs /\ b.pc \in Calling /\ b.route = agent[w].route
         /\ RunTells(w)'
<1>1. /\ agent[w] \in Runs /\ TypeOK /\ TablesTell /\ RunTells(w) /\ At(w, Calling)
  BY CurrentTypes DEF AgentInv, At, AtCall, Calling, Executing
<1>2. PICK g \in 0 .. MaxRevision, s \in 0 .. MaxStep, o \in 0 .. MaxCalls :
        g = agent[w].revision /\ s = agent[w].step /\ o = agent[w].ord
  BY <1>1 DEF Runs
<1> DEFINE plan == checkpoint[<<g, s>>].plan
<1>3. /\ plan = agent[w].plan /\ checkpoint[<<g, s>>] # NoStep
      /\ Ledger!CarriedOut(g, s, o) /\ StepsDone(g, s) /\ agent[w].route \in Routes
  BY <1>1, <1>2 DEF RunTells, Slot
<1>4. /\ plan \in Seq(Modes) /\ o \in 1 .. Len(plan) /\ Len(plan) \in Nat
      /\ Len(plan) <= MaxCalls /\ s < MaxStep
  BY <1>1, <1>2, <1>3, CallTypes DEF Runs
<1>5. \A m \in DOMAIN plan : m < o + 1 /\ plan[m] # "read" => effects'[<<g, s, m>>] = 1
  <2> SUFFICES ASSUME NEW m \in DOMAIN plan, m < o + 1, plan[m] # "read"
               PROVE  effects'[<<g, s, m>>] = 1
    OBVIOUS
  <2>1. CASE m = o
    BY <1>2, <1>3, <2>1 DEF Mode, Call
  <2>2. CASE m # o
    <3>1. m < o
      BY <1>4, <2>2
    <3>2. Ledger!CarriedOut(g, s, o)' /\ checkpoint'[<<g, s>>] = checkpoint[<<g, s>>]
      BY <1>1, <1>3, DoneStays
    <3> QED
      BY <3>1, <3>2 DEF Ledger!CarriedOut
  <2> QED
    BY <2>1, <2>2
<1>6. Ledger!CarriedOut(g, s, o + 1)'
  BY <1>5 DEF Ledger!CarriedOut
<1>7. StepsDone(g, s)'
  BY <1>1, <1>3, StepsDoneStays
<1>8. CASE o < Len(plan)
  <2>1. b = [a EXCEPT !.pc = "call", !.ord = o + 1, !.receipt = 0, !.late = FALSE]
    BY <1>2, <1>3, <1>8 DEF AfterCall
  <2>2. "call" \in Places /\ "call" \in Calling /\ o + 1 \in 0 .. MaxCalls
    BY <1>4, <1>8, AgentAssumption DEF Places, Calling
  <2>3. b \in Runs
    <3>1. b = [pc |-> "call", claim |-> a.claim, revision |-> a.revision, route |-> a.route,
               model |-> a.model, text |-> a.text, step |-> a.step, ord |-> o + 1, seen |-> a.seen, plan |-> a.plan,
               receipt |-> 0, late |-> FALSE]
      BY <2>1 DEF Runs
    <3> QED
      BY <2>2, <3>1 DEF Runs
  <2>4. /\ b.pc = "call" /\ b.ord = o + 1 /\ b.plan = plan /\ b.step = s /\ b.revision = g
        /\ b.route = agent[w].route
    BY <1>2, <1>3, <2>1 DEF Runs
  <2>5. Ledger!CarriedOut(agent[w].revision, agent[w].step, agent[w].ord)'
    BY <1>6, <2>4 DEF Ledger!CarriedOut
  <2>6. StepsDone(agent[w].revision, agent[w].step)'
    BY <1>7, <2>4 DEF StepsDone
  <2>7. Slot(w)' = <<g, s>> /\ o + 1 \in DOMAIN plan
    BY <1>4, <1>8, <2>4 DEF Slot
  <2>8. RunTells(w)'
    BY <1>3, <2>2, <2>4, <2>5, <2>6, <2>7 DEF RunTells, At, AtCall, Executing
  <2> QED
    BY <2>2, <2>3, <2>4, <2>8
<1>9. CASE ~(o < Len(plan))
  <2>1. b = [a EXCEPT !.pc = "load", !.step = s + 1, !.ord = 0, !.plan = <<>>, !.receipt = 0,
                      !.late = FALSE]
    BY <1>2, <1>3, <1>9 DEF AfterCall
  <2>2. /\ "load" \in Places /\ "load" \in Calling /\ 0 \in 0 .. MaxCalls
        /\ s + 1 \in 0 .. MaxStep /\ <<>> \in Seq(Modes)
    BY <1>4, AgentAssumption DEF Places, Calling
  <2>3. b \in Runs
    <3>1. b = [pc |-> "load", claim |-> a.claim, revision |-> a.revision, route |-> a.route,
               model |-> a.model, text |-> a.text, step |-> s + 1, ord |-> 0, seen |-> a.seen, plan |-> <<>>,
               receipt |-> 0, late |-> FALSE]
      BY <2>1 DEF Runs
    <3> QED
      BY <2>2, <3>1 DEF Runs
  <2>4. /\ b.pc = "load" /\ b.step = s + 1 /\ b.revision = g /\ b.route = agent[w].route
    BY <1>2, <2>1 DEF Runs
  <2>5. o = Len(plan)
    BY <1>4, <1>9
  <2>6. StepsDone(g, s + 1)'
    <3> SUFFICES ASSUME NEW e \in 0 .. MaxStep, e < s + 1
                 PROVE  /\ checkpoint'[<<g, e>>] # NoStep
                        /\ Ledger!CarriedOut(g, e, Len(checkpoint[<<g, e>>].plan) + 1)'
      BY DEF StepsDone
    <3>1. CASE e = s
      BY <1>3, <1>6, <2>5, <3>1 DEF Ledger!CarriedOut
    <3>2. CASE e # s
      <4>1. e < s
        BY <3>2
      <4> QED
        BY <1>7, <4>1 DEF StepsDone
    <3> QED
      BY <3>1, <3>2
  <2>7. StepsDone(agent[w].revision, agent[w].step)'
    BY <2>4, <2>6 DEF StepsDone
  <2>8. RunTells(w)'
    BY <1>3, <2>2, <2>4, <2>7 DEF RunTells, At, AtCall, Executing
  <2> QED
    BY <2>2, <2>3, <2>4, <2>8
<1> QED
  BY <1>8, <1>9

LEMMA ReadOutsideStep ==
  ASSUME AgentInv, NEW w \in Workers, ReadOutside(w) PROVE StepTells
<1>1. /\ ActivityTyped' /\ At(w, Calling) /\ At(w, AtCall) /\ UNCHANGED circuit
      /\ UNCHANGED durable /\ UNCHANGED <<revision, checkpoint, effects>>
      /\ Mode(w) = "read"
  BY ActivityStays DEF ReadOutside, At, Calling, AtCall, activity, durable
<1>2. TablesTyped' /\ TablesTell' /\ LedgerGrows /\ LedgerStep
  BY <1>1, TablesStay, NotPlanning
<1>3. agent[w] \in Runs /\ agent \in [Workers -> Runs] /\ fact \in Nat
  BY CurrentTypes DEF ActivityTyped
<1> DEFINE seen == Append(agent[w].seen, fact)
           a == [agent[w] EXCEPT !.seen = seen]
           b == AfterCall(a)
<1>4. seen \in Seq(Nat)
  <2>1. agent[w].seen \in Seq(Nat)
    BY <1>3 DEF Runs
  <2> QED
    BY <1>3, <2>1, AppendProperties
<1>5. agent' = [agent EXCEPT ![w] = b]
  BY DEF ReadOutside
<1> HIDE DEF seen
<1>6. /\ a \in Runs /\ a.pc = agent[w].pc /\ a.revision = agent[w].revision
      /\ a.step = agent[w].step /\ a.ord = agent[w].ord /\ a.plan = agent[w].plan
      /\ a.route = agent[w].route
  BY <1>3, <1>4 DEF Runs
<1> HIDE DEF a, b
<1>7. agent'[w] = b /\ b = AfterCall(a)
  BY <1>3, <1>5 DEF b
<1>8. b \in Runs /\ b.pc \in Calling /\ b.route = agent[w].route /\ RunTells(w)'
  BY <1>1, <1>2, <1>6, <1>7, AfterCallTells
<1> QED
  BY <1>1, <1>2, <1>5, <1>8, GoOnStep

(* A run that takes a receipt, or goes on with it, stays at its call. *)
LEMMA StaysAtCall ==
  ASSUME AgentInv, NEW w \in Workers, At(w, AtCall), NEW b \in Runs, agent'[w] = b,
         b.pc \in Executing, b.revision = agent[w].revision, b.step = agent[w].step,
         b.ord = agent[w].ord, b.plan = agent[w].plan, b.route = agent[w].route,
         Mode(w) # "read", UNCHANGED <<checkpoint, effects>>
  PROVE  b.pc \in Calling /\ RunTells(w)'
<1>1. RunTells(w) /\ At(w, Calling) /\ b.pc \in AtCall /\ b.pc \in Calling
  BY CurrentTypes DEF At, AtCall, Calling, Executing
<1>2. \A g, s, o : g = agent[w].revision /\ s = agent[w].step /\ o = agent[w].ord =>
        StepsDone(g, s)' /\ Ledger!CarriedOut(g, s, o)'
  BY <1>1 DEF RunTells, StepsDone, Ledger!CarriedOut
<1>3. StepsDone(agent[w].revision, agent[w].step)'
  BY <1>2 DEF StepsDone
<1>4. Ledger!CarriedOut(agent[w].revision, agent[w].step, agent[w].ord)'
  BY <1>2 DEF Ledger!CarriedOut
<1>5. Slot(w)' = Slot(w) /\ Mode(w)' = Mode(w)
  BY DEF Slot, Mode
<1>6. ~At(w, {"begin"})' /\ ~At(w, {"save"})'
  BY DEF At, Executing
<1> QED
  BY <1>1, <1>3, <1>4, <1>5, <1>6 DEF RunTells

LEMMA ClaimReceiptStep ==
  ASSUME AgentInv, NEW w \in Workers, ClaimReceipt(w) PROVE StepTells
<1> DEFINE row == receipt[Call(w)]
<1>1. /\ ActivityTyped' /\ At(w, Calling) /\ At(w, AtCall) /\ Mode(w) # "read"
      /\ UNCHANGED <<revision, checkpoint, effects>>
  BY ActivityStays DEF ClaimReceipt, At, Calling, AtCall, activity
<1>2. /\ agent[w] \in Runs /\ agent \in [Workers -> Runs] /\ TablesTyped /\ TablesTell
  BY CurrentTypes
<1>3. /\ Call(w) \in Calls /\ Mode(w) \in Modes /\ row \in Receipts
      /\ effects[Call(w)] = IF row.status = "succeeded" THEN 1 ELSE 0
  BY <1>1, CallTypes
<1>4. ASSUME UNCHANGED receipt
      PROVE  /\ UNCHANGED durable /\ TablesTyped' /\ TablesTell' /\ LedgerGrows
             /\ receipt' \in [Calls -> Receipts]
  BY <1>1, <1>2, <1>4, TablesStay DEF durable, TablesTyped
<1>5. CASE UNCHANGED receipt /\ (Leave(w, "failing") \/ Leave(w, "retrying"))
  <2>1. "failing" \in Standby /\ "retrying" \in Standby
    BY DEF Standby, Settling
  <2> QED
    BY <1>1, <1>4, <1>5, <2>1, LeaveStep
<1>6. CASE /\ row.status = "succeeded" /\ UNCHANGED <<circuit, receipt>>
           /\ agent' = [agent EXCEPT ![w] = AfterCall(@)]
  <2> DEFINE b == AfterCall(agent[w])
  <2>1. agent' = [agent EXCEPT ![w] = b]
    BY <1>6
  <2> HIDE DEF b
  <2>2. agent'[w] = b /\ b = AfterCall(agent[w])
    BY <1>2, <2>1 DEF b
  <2>3. effects'[Call(w)] = 1
    BY <1>1, <1>3, <1>6
  <2>4. b \in Runs /\ b.pc \in Calling /\ b.route = agent[w].route /\ RunTells(w)'
    BY <1>1, <1>2, <1>4, <1>6, <2>2, <2>3, AfterCallTells
  <2> QED
    BY <1>1, <1>4, <1>6, <2>1, <2>4, NotPlanning, GoOnStep
<1>7. CASE /\ row.status # "succeeded" /\ UNCHANGED circuit
           /\ receipt' = [receipt EXCEPT ![Call(w)] = NewReceipt(w, row)]
           /\ agent' = [agent EXCEPT
                ![w].pc = IF Mode(w) = "atomic" THEN "atomic" ELSE "preflight",
                ![w].receipt = row.token + 1, ![w].late = FALSE]
  <2> DEFINE new == NewReceipt(w, row)
             pc == IF Mode(w) = "atomic" THEN "atomic" ELSE "preflight"
             b == [agent[w] EXCEPT !.pc = pc, !.receipt = row.token + 1, !.late = FALSE]
  <2>1. new \in Receipts /\ new.status = "processing" /\ row.token + 1 \in Nat
    BY <1>3 DEF NewReceipt, Receipts
  <2>2. receipt' = [receipt EXCEPT ![Call(w)] = new] /\ agent' = [agent EXCEPT ![w] = b]
    BY <1>7
  <2>3. pc \in Executing /\ pc \in Places
    BY DEF Executing, Places, Calling
  <2> HIDE DEF new, pc
  <2>4. /\ b \in Runs /\ b.pc = pc /\ b.revision = agent[w].revision
        /\ b.step = agent[w].step /\ b.ord = agent[w].ord /\ b.plan = agent[w].plan
        /\ b.route = agent[w].route
    BY <1>2, <2>1, <2>3 DEF Runs
  <2> HIDE DEF b
  <2>5. agent'[w] = b
    BY <1>2, <2>2
  <2>6. /\ receipt' \in [Calls -> Receipts] /\ receipt'[Call(w)].status = "processing"
        /\ \A c \in Calls : c # Call(w) => receipt'[c] = receipt[c]
    BY <1>2, <1>3, <2>1, <2>2 DEF TablesTyped
  <2>7. TablesTyped' /\ LedgerGrows
    BY <1>1, <1>2, <2>6 DEF TablesTyped, LedgerGrows
  <2>8. TablesTell'
    <3>1. \A c \in Calls : effects'[c] = IF receipt'[c].status = "succeeded" THEN 1 ELSE 0
      BY <1>1, <1>2, <1>3, <1>7, <2>6 DEF TablesTell
    <3> QED
      BY <1>1, <1>2, <3>1 DEF TablesTell
  <2>9. b.pc \in Calling /\ RunTells(w)'
    BY <1>1, <2>3, <2>4, <2>5, StaysAtCall
  <2> QED
    BY <1>1, <1>7, <2>2, <2>4, <2>7, <2>8, <2>9, NotPlanning, GoOnStep
<1> QED
  BY <1>5, <1>6, <1>7 DEF ClaimReceipt

(* The one transaction that commits an effect. *)
LEMMA CommitEffectStep ==
  ASSUME AgentInv, NEW w \in Workers, At(w, Executing), CommitEffect(w) PROVE StepTells
<1>1. /\ ActivityTyped' /\ At(w, Calling) /\ At(w, AtCall) /\ UNCHANGED circuit
      /\ UNCHANGED <<revision, checkpoint>> /\ Current(w) /\ OwnsReceipt(w)
  BY ActivityStays DEF CommitEffect, At, Calling, AtCall, Executing, activity
<1>2. /\ agent[w] \in Runs /\ agent \in [Workers -> Runs] /\ TablesTyped /\ TablesTell
      /\ RunTells(w)
  BY CurrentTypes
<1>3. /\ Call(w) \in Calls /\ receipt[Call(w)] \in Receipts
      /\ effects[Call(w)] = 0 /\ Mode(w) # "read"
  BY <1>1, <1>2, CallTypes DEF OwnsReceipt, RunTells
<1> DEFINE new == [receipt[Call(w)] EXCEPT !.status = "succeeded", !.live = FALSE]
           b == AfterCall(agent[w])
<1>4. new \in Receipts /\ new.status = "succeeded"
  BY <1>3 DEF Receipts
<1>5. /\ receipt' = [receipt EXCEPT ![Call(w)] = new] /\ agent' = [agent EXCEPT ![w] = b]
      /\ effects' = [effects EXCEPT ![Call(w)] = 1]
  <2>1. effects' = [effects EXCEPT ![Call(w)] = effects[Call(w)] + 1]
    BY DEF CommitEffect
  <2>2. agent' = [agent EXCEPT ![w] = b]
    BY DEF CommitEffect
  <2>3. receipt' = [receipt EXCEPT ![Call(w)] = new]
    BY DEF CommitEffect
  <2> QED
    BY <1>3, <2>1, <2>2, <2>3
<1> HIDE DEF new, b
<1>6. agent'[w] = b /\ b = AfterCall(agent[w])
  BY <1>2, <1>5 DEF b
<1>7. /\ receipt' \in [Calls -> Receipts] /\ receipt'[Call(w)].status = "succeeded"
      /\ effects' \in [Calls -> Nat] /\ effects'[Call(w)] = 1
      /\ \A c \in Calls : c # Call(w) => receipt'[c] = receipt[c] /\ effects'[c] = effects[c]
  BY <1>2, <1>3, <1>4, <1>5 DEF TablesTyped
<1>8. TablesTyped' /\ LedgerGrows
  BY <1>1, <1>2, <1>3, <1>7 DEF TablesTyped, LedgerGrows
<1>9. TablesTell'
  <2>1. \A c \in Calls : effects'[c] = IF receipt'[c].status = "succeeded" THEN 1 ELSE 0
    BY <1>2, <1>7 DEF TablesTell
  <2> QED
    BY <1>1, <1>2, <2>1 DEF TablesTell
<1>10. b \in Runs /\ b.pc \in Calling /\ b.route = agent[w].route /\ RunTells(w)'
  BY <1>1, <1>2, <1>6, <1>7, <1>8, AfterCallTells
<1>11. LedgerStep
  <2>1. PICK s \in 0 .. MaxStep, o \in 1 .. MaxCalls :
          s = agent[w].step /\ o = agent[w].ord
    <3>1. agent[w].step \in 0 .. MaxStep /\ agent[w].ord \in 1 .. MaxCalls
      BY <1>1, <1>2, CallTypes DEF Runs
    <3> QED
      BY <3>1
  <2>2. /\ revision = agent[w].revision /\ Call(w) = <<revision, s, o>>
        /\ Slot(w) = <<revision, s>>
    BY <1>1, <2>1 DEF Current, Call, Slot
  <2>3. /\ o \in DOMAIN checkpoint[<<revision, s>>].plan
        /\ checkpoint[<<revision, s>>].plan[o] # "read"
        /\ Ledger!CarriedOut(revision, s, o)
    BY <1>1, <1>2, <1>3, <2>1, <2>2 DEF RunTells, Mode
  <2>4. Ledger!Perform(s, o)
    BY <1>1, <1>3, <1>5, <2>2, <2>3 DEF Ledger!Perform
  <2>5. effects' # effects
    BY <1>3, <1>7
  <2> QED
    BY <2>4, <2>5 DEF LedgerStep, Ledger!Next
<1> QED
  BY <1>1, <1>5, <1>8, <1>9, <1>10, <1>11, GoOnStep

LEMMA StartOutsideStep ==
  ASSUME AgentInv, NEW w \in Workers, StartOutside(w) PROVE StepTells
<1>1. /\ ActivityTyped' /\ At(w, Calling) /\ At(w, AtCall) /\ UNCHANGED circuit
      /\ UNCHANGED durable /\ UNCHANGED <<revision, checkpoint, effects>>
  BY ActivityStays DEF StartOutside, At, Calling, AtCall, Executing, activity, durable
<1>2. TablesTyped' /\ TablesTell' /\ LedgerGrows /\ LedgerStep
  BY <1>1, TablesStay, NotPlanning
<1>3. agent[w] \in Runs /\ agent \in [Workers -> Runs] /\ RunTells(w)
  BY CurrentTypes
<1> DEFINE b == [agent[w] EXCEPT !.pc = "outside"]
<1>4. agent' = [agent EXCEPT ![w] = b]
  BY DEF StartOutside, Goto
<1>5. "outside" \in Places /\ "outside" \in Executing
  BY DEF Places, Calling, Executing
<1>6. /\ b \in Runs /\ b.pc = "outside" /\ b.revision = agent[w].revision
      /\ b.step = agent[w].step /\ b.ord = agent[w].ord /\ b.plan = agent[w].plan
      /\ b.route = agent[w].route
  BY <1>3, <1>5 DEF Runs
<1> HIDE DEF b
<1>7. agent'[w] = b
  BY <1>3, <1>4
<1>8. Mode(w) # "read"
  BY <1>3 DEF StartOutside, RunTells, At, Executing
<1>9. b.pc \in Calling /\ RunTells(w)'
  BY <1>1, <1>5, <1>6, <1>7, <1>8, StaysAtCall
<1> QED
  BY <1>1, <1>2, <1>4, <1>6, <1>9, GoOnStep
-----------------------------------------------------------------------------
(* How a run ends. *)

(* Giving a claimed receipt back changes nothing that has succeeded. *)
LEMMA ReleasedTells ==
  ASSUME AgentInv, NEW w \in Workers, At(w, AtCall), receipt' = Released(w), UNCHANGED effects,
         UNCHANGED checkpoint
  PROVE  receipt' \in [Calls -> Receipts] /\ TablesTell'
<1>1. /\ TablesTyped /\ TablesTell /\ Call(w) \in Calls /\ receipt[Call(w)] \in Receipts
  BY CurrentTypes, CallTypes
<1>2. CASE ~OwnsReceipt(w)
  BY <1>1, <1>2 DEF Released, TablesTyped, TablesTell
<1>3. CASE OwnsReceipt(w)
  <2> DEFINE new == [receipt[Call(w)] EXCEPT !.status = "pending", !.live = FALSE]
  <2>1. new \in Receipts /\ new.status = "pending" /\ receipt[Call(w)].status = "processing"
    BY <1>1, <1>3 DEF Receipts, OwnsReceipt
  <2>2. receipt' = [receipt EXCEPT ![Call(w)] = new]
    BY <1>3 DEF Released
  <2> HIDE DEF new
  <2>3. /\ receipt' \in [Calls -> Receipts] /\ receipt'[Call(w)].status = "pending"
        /\ \A c \in Calls : c # Call(w) => receipt'[c] = receipt[c]
    BY <1>1, <2>1, <2>2 DEF TablesTyped
  <2>4. \A c \in Calls : (receipt'[c].status = "succeeded") <=> (receipt[c].status = "succeeded")
    BY <2>1, <2>3
  <2>5. \A c \in Calls : effects'[c] = IF receipt'[c].status = "succeeded" THEN 1 ELSE 0
    BY <1>1, <2>4 DEF TablesTell
  <2> QED
    BY <1>1, <2>3, <2>5 DEF TablesTell
<1> QED
  BY <1>2, <1>3

LEMMA LeaveSteps ==
  ASSUME AgentInv, NEW w \in Workers,
         LoseReceipt(w) \/ OperationFails(w) \/ StaleRun(w) \/ CancelRun(w)
  PROVE  StepTells
<1>1. /\ ActivityTyped' /\ At(w, Calling) /\ UNCHANGED <<revision, checkpoint, effects>>
  BY ActivityStays
  DEF LoseReceipt, OperationFails, StaleRun, CancelRun, At, Calling, Executing, activity,
      durable
<1>2. "retrying" \in Standby /\ "idle" \in Standby
  BY DEF Standby, Settling
<1>3. Leave(w, "retrying") \/ Leave(w, "idle")
  BY DEF LoseReceipt, OperationFails, StaleRun, CancelRun
<1>4. UNCHANGED receipt \/ (receipt' = Released(w) /\ At(w, AtCall))
  BY DEF LoseReceipt, OperationFails, StaleRun, CancelRun, durable, At, AtCall
<1>5. receipt' \in [Calls -> Receipts] /\ TablesTell'
  <2>1. CASE UNCHANGED receipt
    BY <1>1, <2>1, TablesStay DEF durable, TablesTyped
  <2>2. CASE receipt' = Released(w) /\ At(w, AtCall)
    BY <1>1, <2>2, ReleasedTells
  <2> QED
    BY <1>4, <2>1, <2>2
<1> QED
  BY <1>1, <1>2, <1>3, <1>5, LeaveStep

LEMMA SettleStep ==
  ASSUME AgentInv, NEW w \in Workers, Settle(w) PROVE StepTells
<1>1. /\ UNCHANGED circuit /\ UNCHANGED durable /\ UNCHANGED <<claims, revision, fact, faults>>
      /\ UNCHANGED <<revision, checkpoint, effects>>
      /\ agent' = [agent EXCEPT ![w] = Idle] /\ ~At(w, Calling)
  BY DEF Settle, durable, At, Settling, Calling
<1>2. ActivityTyped /\ agent \in [Workers -> Runs] /\ Idle \in Runs
  BY CurrentTypes
<1>3. ActivityTyped'
  <2>1. Outcome(w) \in Ended \cup {"retry"} \/ ~At(w, Settling)
    BY DEF Outcome, Ended, At, Settling
  <2>2. /\ status' \in Claimable \cup {"processing"} \cup Ended /\ token' \in Nat
        /\ budget' \in Nat
    BY <1>2, <2>1 DEF Settle, ActivityTyped, Claimable
  <2> QED
    BY <1>1, <1>2, <2>2 DEF ActivityTyped
<1>4. agent'[w] = Idle
  BY <1>1, <1>2
<1>5. RunTells(w)'
  <2>1. Idle.pc \in Standby
    BY DEF Idle, Standby
  <2> QED
    BY <1>4, <2>1, RestTells
<1> QED
  BY <1>1, <1>2, <1>3, <1>5, TablesStay, NotPlanning, GoOnStep

(* A step in which every run stays where it is, or all of them end. *)
LEMMA OthersStep ==
  ASSUME AgentInv, ActivityTyped', TablesTyped', TablesTell', LedgerGrows, LedgerStep,
         UNCHANGED circuit, agent' \in [Workers -> Runs],
         \A w \in Workers : agent'[w] \in {agent[w], [agent[w] EXCEPT !.late = TRUE]}
  PROVE  StepTells
<1>1. \A w \in Workers : agent[w] \in Runs
  BY TypesMeet DEF AgentInv
<1>2. \A w \in Workers : agent'[w].pc = agent[w].pc /\ agent'[w].route = agent[w].route
  BY <1>1 DEF Runs
<1>3. CircuitsTell' /\ PermitsTell' /\ CircuitsMove
  BY <1>2, NoneMoved DEF AgentInv, CircuitsTell, PermitsTell, At
<1>4. \A w \in Workers : RunTells(w)'
  BY RunStays
<1>5. TypeOK'
  BY <1>3, TypesMeet DEF CircuitsTell, TypeOK, ActivityTyped, TablesTyped, Runs, Receipts
<1> QED
  BY <1>3, <1>4, <1>5, MovesRecover DEF StepTells, AgentInv

LEMMA ActivitySteps == ASSUME AgentInv, Steer \/ LeaseRecovered \/ DataChanges PROVE StepTells
<1>1. /\ UNCHANGED circuit /\ UNCHANGED durable /\ UNCHANGED agent
  BY DEF Steer, LeaseRecovered, DataChanges
<1>2. ActivityTyped /\ agent \in [Workers -> Runs]
  BY TypesMeet DEF AgentInv
<1>3. ActivityTyped'
  BY <1>2, AgentAssumption
  DEF Steer, LeaseRecovered, DataChanges, Fault, ActivityTyped, Claimable, activity
<1>4. LedgerStep
  <2>1. CASE Steer
    <3>1. revision' = revision + 1 /\ revision' \in 0 .. MaxRevision
      BY <1>2, <2>1, AgentAssumption DEF Steer, ActivityTyped
    <3> QED
      BY <1>1, <3>1 DEF LedgerStep, Ledger!Next, Ledger!NewGeneration, durable
  <2>2. CASE LeaseRecovered \/ DataChanges
    BY <1>1, <2>2, NotPlanning DEF LeaseRecovered, DataChanges, durable, activity
  <2> QED
    BY <2>1, <2>2
<1> QED
  BY <1>1, <1>2, <1>3, <1>4, TablesStay, OthersStep

LEMMA ReceiptLeaseStep ==
  ASSUME AgentInv, NEW c \in Calls, ReceiptLeaseElapses(c) PROVE StepTells
<1> DEFINE owners == {w \in Workers : At(w, Executing) /\ Call(w) = c /\ OwnsReceipt(w)}
<1>1. /\ ActivityTyped' /\ UNCHANGED circuit /\ UNCHANGED <<revision, checkpoint, effects>>
  BY ActivityStays DEF ReceiptLeaseElapses, activity
<1>2. agent \in [Workers -> Runs] /\ TablesTyped /\ TablesTell
  BY TypesMeet DEF AgentInv
<1>3. agent' = [w \in Workers |->
                  IF w \in owners THEN [agent[w] EXCEPT !.late = TRUE] ELSE agent[w]]
  BY DEF ReceiptLeaseElapses
<1> HIDE DEF owners
<1>4. \A w \in Workers : [agent[w] EXCEPT !.late = TRUE] \in Runs
  BY <1>2 DEF Runs
<1>5. /\ agent' \in [Workers -> Runs]
      /\ \A w \in Workers : agent'[w] \in {agent[w], [agent[w] EXCEPT !.late = TRUE]}
  BY <1>2, <1>3, <1>4
<1> DEFINE new == [receipt[c] EXCEPT !.live = FALSE]
<1>6. new \in Receipts /\ new.status = receipt[c].status
  <2>1. receipt[c] \in Receipts
    BY <1>2 DEF TablesTyped
  <2> QED
    BY <2>1 DEF Receipts
<1>7. receipt' = [receipt EXCEPT ![c] = new]
  BY DEF ReceiptLeaseElapses
<1> HIDE DEF new
<1>8. /\ receipt' \in [Calls -> Receipts]
      /\ \A d \in Calls : receipt'[d].status = receipt[d].status
  BY <1>2, <1>6, <1>7 DEF TablesTyped
<1>9. TablesTyped' /\ TablesTell' /\ LedgerGrows
  BY <1>1, <1>2, <1>8 DEF TablesTyped, TablesTell, LedgerGrows
<1> QED
  BY <1>1, <1>5, <1>9, NotPlanning, OthersStep

(* All circuits are closed by a crash, and no run is left. *)
LEMMA CrashStep == ASSUME AgentInv, Crash PROVE StepTells
<1>1. /\ ActivityTyped' /\ UNCHANGED durable /\ UNCHANGED <<revision, checkpoint, effects>>
      /\ agent' = [w \in Workers |-> Idle] /\ circuit' = [r \in Routes |-> Closed]
  BY ActivityStays DEF Crash, activity, durable
<1>2. \A w \in Workers : agent'[w] = Idle /\ Idle \in Runs
  BY <1>1, CurrentTypes
<1>3. agent' \in [Workers -> Runs]
  BY <1>1, <1>2
<1>4. CircuitsTell' /\ PermitsTell'
  <2>1. Closed \in CircuitState /\ Sound(Closed) /\ Closed.active = {}
    BY EmptyIsSound DEF Sound, Closed
  <2> QED
    BY <1>1, <2>1 DEF CircuitsTell, PermitsTell
<1>5. \A w \in Workers : RunTells(w)'
  <2>1. Idle.pc \in Standby
    BY DEF Idle, Standby
  <2> QED
    BY <1>2, <2>1, RestTells
<1>6. TypeOK'
  BY <1>1, <1>3, <1>4, TablesStay, TypesMeet
  DEF CircuitsTell, TypeOK, ActivityTyped, TablesTyped, Runs, Receipts
<1> QED
  BY <1>1, <1>2, <1>4, <1>5, <1>6, TablesStay, NotPlanning DEF StepTells, AgentInv, Recovers

(* Other turns, and time. *)
LEMMA CircuitStep ==
  ASSUME AgentInv, NEW r \in Routes, NEW d, circuit' = [circuit EXCEPT ![r] = d],
         Sound(d), \A w \in Workers : w \in d.active => w \in circuit[r].active,
         ByItsProbe(circuit[r], d), ActivityTyped', UNCHANGED <<revision, durable, agent>>
  PROVE  StepTells
<1>1. CircuitsTell /\ PermitsTell /\ agent \in [Workers -> Runs] /\ TypeOK
  BY TypesMeet DEF AgentInv
<1>2. d \in CircuitState
  BY DEF Sound
<1>3. /\ circuit' \in [Routes -> CircuitState] /\ circuit'[r] = d
      /\ \A s \in Routes : s # r => circuit'[s] = circuit[s]
  BY <1>1, <1>2 DEF CircuitsTell
<1>4. CircuitsTell' /\ CircuitsMove
  BY <1>1, <1>3 DEF CircuitsTell, CircuitsMove, ByItsProbe
<1>5. PermitsTell'
  <2>1. \A s \in Routes, w \in Workers :
          w \in circuit'[s].active => w \in circuit[s].active
    BY <1>3
  <2> QED
    BY <1>1, <2>1 DEF PermitsTell, At
<1>6. \A w \in Workers : RunTells(w)'
  BY RunStays, TablesStay
<1>7. TypeOK'
  BY <1>1, <1>4, TablesStay, TypesMeet
  DEF CircuitsTell, TypeOK, ActivityTyped, TablesTyped, Runs, Receipts
<1> QED
  BY <1>4, <1>5, <1>6, <1>7, TablesStay, NotPlanning, MovesRecover
  DEF StepTells, AgentInv, durable

LEMMA GuestSteps ==
  ASSUME AgentInv, NEW g \in Guests,
         GuestBegins(g) \/ \E r \in Routes : GuestFails(g, r) \/ GuestEnds(g, r)
  PROVE  StepTells
<1>1. /\ g \in Callers /\ g \notin Workers /\ ActivityTyped'
      /\ UNCHANGED <<revision, durable, agent>>
  BY ActivityStays DEF Guests, GuestBegins, GuestFails, GuestEnds, activity
<1>2. CircuitsTell
  BY DEF AgentInv
<1>3. CASE GuestBegins(g)
  <2>1. PICK r \in Routes :
          Admits(circuit[r]) /\ circuit' = [circuit EXCEPT ![r] = Acquired(@, g)]
    BY <1>3, AgentAssumption DEF GuestBegins
  <2> DEFINE d == Acquired(circuit[r], g)
  <2>2. Sound(d) /\ d.active = circuit[r].active \cup {g} /\ d.open = circuit[r].open
    BY <1>1, <1>2, <2>1, AcquiredIsSound DEF CircuitsTell
  <2>3. circuit' = [circuit EXCEPT ![r] = d]
    BY <2>1
  <2> HIDE DEF d
  <2>4. ByItsProbe(circuit[r], d)
    BY <2>2 DEF ByItsProbe
  <2> QED
    BY <1>1, <2>2, <2>3, <2>4, CircuitStep
<1>4. ASSUME NEW r \in Routes, GuestFails(g, r) PROVE StepTells
  <2>1. PICK kept \in 0 .. circuit[r].failures :
          circuit' = [circuit EXCEPT ![r] = RecordFailure(@, g, kept)]
    BY <1>4 DEF GuestFails
  <2> DEFINE d == RecordFailure(circuit[r], g, kept)
  <2>2. Sound(d) /\ d.active \subseteq circuit[r].active \ {g} /\ ByItsProbe(circuit[r], d)
    BY <1>1, <1>2, KeptIsNumber, FailureIsSound DEF CircuitsTell
  <2>3. circuit' = [circuit EXCEPT ![r] = d]
    BY <2>1
  <2> HIDE DEF d
  <2>4. \A w \in Workers : w \in d.active => w \in circuit[r].active
    BY <2>2
  <2> QED
    BY <1>1, <2>2, <2>3, <2>4, CircuitStep
<1>5. ASSUME NEW r \in Routes, GuestEnds(g, r) PROVE StepTells
  <2>1. PICK d \in {RecordSuccess(circuit[r], g), Abandon(circuit[r], g)} :
          circuit' = [circuit EXCEPT ![r] = d]
    BY <1>5 DEF GuestEnds
  <2>2. Sound(d) /\ d.active \subseteq circuit[r].active \ {g} /\ ByItsProbe(circuit[r], d)
    BY <1>1, <1>2, SuccessIsSound, AbandonIsSound DEF CircuitsTell
  <2>3. \A w \in Workers : w \in d.active => w \in circuit[r].active
    BY <2>2
  <2> QED
    BY <1>1, <2>1, <2>2, <2>3, CircuitStep
<1> QED
  BY <1>3, <1>4, <1>5

LEMMA CoolsStep == ASSUME AgentInv, NEW r \in Routes, RouteCools(r) PROVE StepTells
<1>1. ActivityTyped' /\ UNCHANGED <<revision, durable, agent>> /\ circuit[r].open = "cooling"
  BY ActivityStays DEF RouteCools, CooldownEnds, activity
<1>2. Sound(circuit[r]) /\ circuit[r] \in CircuitState
  BY DEF AgentInv, CircuitsTell, Sound
<1> DEFINE d == [circuit[r] EXCEPT !.open = "due"]
<1>3. d \in CircuitState /\ d.active = circuit[r].active /\ d.probe = circuit[r].probe
      /\ d.open = "due"
  BY <1>2 DEF CircuitState
<1>4. circuit' = [circuit EXCEPT ![r] = d]
  BY DEF RouteCools, CooldownEnds
<1> HIDE DEF d
<1>5. Sound(d) /\ ByItsProbe(circuit[r], d)
  BY <1>1, <1>2, <1>3 DEF Sound, ByItsProbe
<1> QED
  BY <1>1, <1>3, <1>4, <1>5, CircuitStep
-----------------------------------------------------------------------------
LEMMA AgentInitially == Init => AgentInv
<1> SUFFICES ASSUME Init PROVE AgentInv
  OBVIOUS
<1>1. 0 \in 0 .. MaxRevision /\ 0 \in 0 .. MaxStep /\ 0 \in 0 .. MaxCalls
      /\ 0 \in 0 .. MaxFaults
  BY AgentAssumption
<1>2. Idle \in Runs /\ Idle.pc = "idle"
  BY <1>1 DEF Idle, Runs, Places
<1>3. NoStep \in Steps /\ NoReceipt \in Receipts /\ NoReceipt.status = "none"
  BY DEF NoStep, Steps, NoReceipt, Receipts
<1>4. ActivityTyped /\ agent \in [Workers -> Runs] /\ TablesTyped
  BY <1>1, <1>2, <1>3 DEF Init, ActivityTyped, TablesTyped, Claimable
<1>5. CircuitsTell /\ PermitsTell
  <2>1. Closed \in CircuitState /\ Sound(Closed) /\ Closed.active = {}
    BY EmptyIsSound DEF Sound, Closed
  <2> QED
    BY <2>1 DEF Init, CircuitInit, CircuitsTell, PermitsTell
<1>6. TablesTell
  <2>1. \A s : Fits(NoStep.plan, s)
    BY AgentAssumption DEF Fits, NoStep
  <2> QED
    BY <1>3, <2>1 DEF Init, TablesTell
<1>7. \A w \in Workers : RunTells(w)
  BY <1>2 DEF Init, RunTells, At, Calling, AtCall, Executing
<1> QED
  BY <1>4, <1>5, <1>6, <1>7, TypesMeet DEF AgentInv, CircuitsTell

LEMMA AgentNext == AgentInv /\ [Next]_vars => StepTells
<1> SUFFICES ASSUME AgentInv, [Next]_vars PROVE StepTells
  OBVIOUS
<1>1. CASE UNCHANGED vars
  <2>1. /\ UNCHANGED <<activity, fact, faults>> /\ UNCHANGED <<durable, circuit, agent>>
        /\ UNCHANGED <<revision, checkpoint, effects>>
    BY <1>1 DEF vars, activity, durable
  <2> QED
    BY <2>1, ActivityStays, TablesStay, NotPlanning, OthersStep, TypesMeet DEF AgentInv
<1>2. ASSUME NEW w \in Workers,
             \/ ClaimActivity(w) \/ Run(w) \/ NextModel(w) \/ ProviderFails(w)
             \/ ProviderRejects(w)
             \/ ProviderBlocks(w) \/ OperationFails(w) \/ CancelRun(w)
      PROVE  StepTells
  <2>1. At(w, {"atomic"}) => At(w, Executing)
    BY DEF At, Executing
  <2>2. At(w, {"outside"}) => At(w, Executing)
    BY DEF At, Executing
  <2> QED
    BY <1>2, <2>1, <2>2, ClaimActivityStep, BeginRoutesStep, LoadStepStep,
       ProviderAnswersStep, SaveStepStep, ReadOutsideStep, ClaimReceiptStep, CommitEffectStep,
       StartOutsideStep, LeaveSteps, PermitSteps, SettleStep, NextModelStep,
       ProviderFailsStep, ProviderBlocksStep
    DEF Run, ExecuteAtomic, FinalizeOutside
<1>3. CASE Steer \/ LeaseRecovered \/ DataChanges
  BY <1>3, ActivitySteps
<1>4. CASE \E c \in Calls : ReceiptLeaseElapses(c)
  BY <1>4, ReceiptLeaseStep
<1>5. CASE Crash
  BY <1>5, CrashStep
<1>6. CASE \E g \in Guests :
             GuestBegins(g) \/ \E r \in Routes : GuestFails(g, r) \/ GuestEnds(g, r)
  BY <1>6, GuestSteps
<1>7. CASE \E r \in Routes : RouteCools(r)
  BY <1>7, CoolsStep
<1> QED
  BY <1>1, <1>2, <1>3, <1>4, <1>5, <1>6, <1>7 DEF Next

LEMMA AgentAlways == Spec => []AgentInv
<1>1. AgentInv /\ [Next]_vars => AgentInv'
  BY AgentNext DEF StepTells
<1> QED
  BY <1>1, AgentInitially, PTL DEF Spec

LEMMA PermitsFollow == AgentInv => PermitsReturn
<1> SUFFICES ASSUME AgentInv, NEW r \in Routes, NEW w \in Workers
             PROVE  /\ w \in circuit[r].active => At(w, Calling) /\ agent[w].route = r
                    /\ circuit[r].probe = w => w \in circuit[r].active
  BY DEF PermitsReturn
<1>1. w # NoCaller
  BY AgentAssumption, CircuitAssumption
<1>2. Sound(circuit[r])
  BY DEF AgentInv, CircuitsTell
<1> QED
  BY <1>1, <1>2 DEF AgentInv, PermitsTell, Sound

(* The activity, the circuits, the receipts and the runs keep their types. *)
THEOREM AgentTypesCorrect == Spec => []TypeOK
<1>1. AgentInv => TypeOK
  BY DEF AgentInv
<1> QED
  BY <1>1, AgentAlways, PTL

(* failure_circuit.py and inference/service.py: whatever ends a run, its     *)
(* permit has ended, and an open circuit closes by its probe alone.          *)
THEOREM CircuitsAlwaysRecover == Spec => CircuitsRecover
<1>1. AgentInv /\ [Next]_vars
        => [\A r \in Routes :
              (circuit[r].open # "no" /\ circuit'[r].open = "no")
                => \/ circuit[r].open = "due" /\ circuit[r].probe # NoCaller
                   \/ \A w \in Workers : agent'[w] = Idle]_vars
  BY AgentNext DEF StepTells, Recovers
<1> QED
  BY <1>1, AgentAlways, PermitsFollow, PTL DEF Spec, CircuitsRecover

(* agent_loop.py and assistant_tool_effects.py implement the ledger: every   *)
(* planned effect happens at most once, in the order of the plan, in its     *)
(* generation, whatever is steered, taken over, cancelled or crashed.        *)
THEOREM AgentKeepsLedger == Spec => EffectsOnce
<1>1. Init => Ledger!Init
  BY DEF Init, Ledger!Init, Slots, Calls
<1>2. AgentInv /\ [Next]_vars => [Ledger!Next]_<<revision, checkpoint, effects>>
  BY AgentNext DEF StepTells, LedgerStep
<1> QED
  BY <1>1, <1>2, AgentAlways, PTL DEF Spec, EffectsOnce, Ledger!Spec
=============================================================================
