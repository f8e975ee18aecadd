--------------------------- MODULE ServicesProofs ---------------------------
(***************************************************************************)
(* The services of Services.tla, one after the other: the lifecycle,       *)
(* schedules, profiles, announcements and verification; and then all of    *)
(* them together, with those of the modules extended here.                 *)
(***************************************************************************)
EXTENDS Services, MoneyProofs, ContextProofs, AgentProofs

(***************************************************************************)
(* The order of a stop, proved for any set of services, any assignment of  *)
(* phases and any number of callers of shutdown.                           *)
(***************************************************************************)
(* Every variable has its type, whoever starts, stops, fails or aborts. *)
THEOREM SupervisorTypeCorrect == SupervisorSpec => []SupervisorTypeOK
<1> USE SupervisorAssumption
<1>1. SupervisorInit => SupervisorTypeOK
  <2>1. Resting \in [pc : {"before", "awaiting", "after"},
                     mode : {"drain", "cancel", "interrupt"}]
    BY DEF Resting
  <2> SUFFICES ASSUME SupervisorInit PROVE SupervisorTypeOK
    OBVIOUS
  <2>2. stopper \in [Stoppers -> [pc : {"before", "awaiting", "after"},
                                  mode : {"drain", "cancel", "interrupt"}]]
    BY <2>1 DEF SupervisorInit
  <2>3. phase \in Nat /\ binding \in [Bindings -> {"none", "running", "cancelled"} \cup Over]
    BY DEF SupervisorInit
  <2>4. stopEvent \in BOOLEAN /\ failure \in BOOLEAN
    BY DEF SupervisorInit
  <2> QED
    BY <2>2, <2>3, <2>4 DEF SupervisorInit, SupervisorTypeOK
<1>2. SupervisorTypeOK /\ [SupervisorNext]_supervisorVars => SupervisorTypeOK'
  <2> SUFFICES ASSUME SupervisorTypeOK, [SupervisorNext]_supervisorVars
               PROVE  SupervisorTypeOK'
    OBVIOUS
  <2> USE DEF SupervisorTypeOK, Over
  <2>1. CASE StartRuntime
    BY <2>1 DEF StartRuntime
  <2>2. CASE StopBegins
    BY <2>2 DEF StopBegins, TellPhase, Lowest, Phases
  <2>3. CASE NextPhase
    BY <2>3 DEF NextPhase, TellPhase, Lowest, Phases
  <2>4. CASE GroupEnds
    BY <2>4 DEF GroupEnds
  <2>5. CASE FailureClosesMailboxes
    BY <2>5 DEF FailureClosesMailboxes
  <2>6. ASSUME NEW b \in Bindings,
               \/ ServiceReturns(b) \/ ServiceFails(b)
               \/ \E how \in Over : ServiceAborted(b, how)
        PROVE  SupervisorTypeOK'
    BY <2>6 DEF ServiceReturns, ServiceFails, ServiceAborted
  <2>7. ASSUME NEW c \in Stoppers, ShutdownNew(c) \/ ShutdownEnds(c)
        PROVE  SupervisorTypeOK'
    BY <2>7 DEF ShutdownNew, ShutdownEnds
  <2>8. ASSUME NEW c \in Stoppers, NEW mode \in {"drain", "cancel", "interrupt"},
               Shutdown(c, mode)
        PROVE  SupervisorTypeOK'
    <3>1. stopper' \in [Stoppers -> [pc : {"before", "awaiting", "after"},
                                     mode : {"drain", "cancel", "interrupt"}]]
      BY <2>8 DEF Shutdown
    <3>2. runtime' \in {"new", "running", "stopping", "stopped", "failed"}
      BY <2>8 DEF Shutdown
    <3>3. /\ binding' \in [Bindings -> {"none", "running", "cancelled"} \cup Over]
          /\ supervisor' \in {"none", "waiting", "stopping", "aborting", "closing", "done",
                              "cancelled"}
      BY <2>8 DEF Shutdown, CancelSupervisor, Aborted
    <3> QED
      BY <2>8, <3>1, <3>2, <3>3 DEF Shutdown
  <2>9. CASE UNCHANGED supervisorVars
    BY <2>9 DEF supervisorVars
  <2> QED
    BY <2>1, <2>2, <2>3, <2>4, <2>5, <2>6, <2>7, <2>8, <2>9 DEF SupervisorNext
<1> QED
  BY <1>1, <1>2, PTL DEF SupervisorSpec

----------------------------------------------------------------------------
(* What a phase that is being waited for says of the earlier ones, and what *)
(* is over when the supervisor is.                                          *)

AllOver == \A b \in Bindings : binding[b] \in Over

Lifecycle ==
  /\ runtime = "new" => supervisor = "none"
  /\ supervisor = "none" => /\ runtime \in {"new", "stopped"}
                            /\ toldToStop = {}
                            /\ \A b \in Bindings : binding[b] = "none"
  /\ supervisor = "waiting" => toldToStop = {}
  /\ supervisor = "stopping" =>
       /\ \A b \in Bindings : PhaseOf[b] < phase => binding[b] \in Over
       /\ \A a \in toldToStop : PhaseOf[a] <= phase
  /\ supervisor \in {"closing", "done", "cancelled"} => AllOver
  /\ mailboxes = "closed" => /\ runtime # "new"
                             /\ supervisor \in {"none", "done", "cancelled"}
  /\ runtime = "stopped" => mailboxes = "closed"
  /\ \A a \in toldToStop, b \in Bindings : PhaseOf[b] < PhaseOf[a] => binding[b] \in Over

LEMMA LifecycleStops == Lifecycle => StopInOrder
BY DEF Lifecycle, StopInOrder, AllOver, Over

LEMMA LifecycleSteps ==
  ASSUME SupervisorTypeOK, Lifecycle, [SupervisorNext]_supervisorVars
  PROVE  Lifecycle'
<1> USE SupervisorAssumption DEF SupervisorTypeOK, Lifecycle, AllOver, Over
<1>0. /\ \A b \in Bindings : PhaseOf[b] \in Nat /\ PhaseOf[b] \in Phases
      /\ Phases \subseteq Nat
  BY DEF Phases
<1>1. CASE StartRuntime
  BY <1>1 DEF StartRuntime
<1>2. CASE StopBegins
  <2>1. CASE Bindings = {}
    BY <1>2, <2>1 DEF StopBegins
  <2>2. CASE Bindings # {}
    <3>1. \A b \in Bindings : phase' <= PhaseOf[b]
      BY <1>0, <1>2, <2>2 DEF StopBegins, Lowest
    <3>2. \A a \in toldToStop' : PhaseOf[a] = phase'
      BY <1>2, <2>2 DEF StopBegins, TellPhase
    <3>3. phase' \in Nat /\ toldToStop' \subseteq Bindings
      BY <1>0, <1>2, <2>2 DEF StopBegins, TellPhase, Lowest
    <3>4. \A b \in Bindings : ~(PhaseOf[b] < phase')
      BY <1>0, <3>1, <3>3
    <3>5. \A a \in toldToStop' : PhaseOf[a] <= phase'
      BY <3>2, <3>3
    <3>6. \A a \in toldToStop', b \in Bindings : ~(PhaseOf[b] < PhaseOf[a])
      BY <3>2, <3>4
    <3> QED
      BY <1>2, <2>2, <3>3, <3>4, <3>5, <3>6 DEF StopBegins
  <2> QED
    BY <2>1, <2>2
<1>3. CASE NextPhase
  <2> DEFINE later == {n \in Phases : n > phase}
  <2>1. \A b \in Bindings : PhaseOf[b] <= phase => binding[b] \in Over
    BY <1>3 DEF NextPhase, PhaseOver
  <2>2. CASE later = {}
    <3>1. AllOver
      BY <1>0, <2>1, <2>2
    <3> QED
      BY <1>3, <2>2, <3>1 DEF NextPhase
  <2>3. CASE later # {}
    <3>1. phase' \in later /\ \A k \in later : phase' <= k
      BY <1>3, <2>3 DEF NextPhase, Lowest
    <3>2. \A a \in toldToStop' : a \in toldToStop \/ PhaseOf[a] = phase'
      BY <1>3, <2>3 DEF NextPhase, TellPhase
    <3>3. /\ supervisor = "stopping" /\ supervisor' = "stopping"
          /\ UNCHANGED <<runtime, binding, mailboxes>>
      BY <1>3, <2>3 DEF NextPhase
    <3>4. phase' \in Nat /\ phase' > phase
      BY <1>0, <3>1
    <3>5. \A b \in Bindings : PhaseOf[b] < phase' => PhaseOf[b] <= phase
      BY <1>0, <3>1, <3>4
    <3>6. \A b \in Bindings : PhaseOf[b] < phase' => binding[b] \in Over
      BY <2>1, <3>5
    <3>7. \A a \in toldToStop' : a \in Bindings /\ PhaseOf[a] <= phase'
      BY <1>0, <1>3, <2>3, <3>2, <3>4 DEF NextPhase, TellPhase
    <3>8. \A a \in toldToStop', b \in Bindings :
            PhaseOf[b] < PhaseOf[a] => binding[b] \in Over
      BY <1>0, <3>4, <3>6, <3>7
    <3> QED
      BY <3>3, <3>6, <3>7, <3>8
  <2> QED
    BY <2>2, <2>3
<1>4. CASE GroupEnds
  BY <1>4 DEF GroupEnds
<1>5. CASE FailureClosesMailboxes
  BY <1>5 DEF FailureClosesMailboxes
<1>6. ASSUME NEW b \in Bindings,
             \/ ServiceReturns(b) \/ ServiceFails(b)
             \/ \E how \in Over : ServiceAborted(b, how)
      PROVE  Lifecycle'
  <2>1. \A a \in Bindings : binding[a] \in Over => binding'[a] \in Over
    BY <1>6 DEF ServiceReturns, ServiceFails, ServiceAborted
  <2> QED
    BY <1>6, <2>1 DEF ServiceReturns, ServiceFails, ServiceAborted
<1>7. ASSUME NEW c \in Stoppers, ShutdownNew(c) \/ ShutdownEnds(c)
      PROVE  Lifecycle'
  BY <1>7 DEF ShutdownNew, ShutdownEnds, SupervisorOver
<1>8. ASSUME NEW c \in Stoppers, NEW mode \in {"drain", "cancel", "interrupt"},
             Shutdown(c, mode)
      PROVE  Lifecycle'
  <2>1. \A a \in Bindings : binding[a] \in Over => binding'[a] \in Over
    BY <1>8 DEF Shutdown, CancelSupervisor, Aborted
  <2>2. /\ runtime # "new" /\ runtime' # "new"
        /\ runtime' = "stopped" => runtime = "stopped"
        /\ UNCHANGED <<toldToStop, phase, failure, mailboxes>>
    BY <1>8 DEF Shutdown
  <2>3. \/ UNCHANGED <<supervisor, binding>>
        \/ supervisor \in {"waiting", "stopping"} /\ supervisor' = "aborting"
        \/ supervisor = "closing" /\ supervisor' = "cancelled" /\ UNCHANGED binding
    BY <1>8 DEF Shutdown, CancelSupervisor
  <2>4. supervisor # "none"
    BY <1>8 DEF Shutdown
  <2> QED
    BY <2>1, <2>2, <2>3, <2>4
<1>9. CASE UNCHANGED supervisorVars
  BY <1>9 DEF supervisorVars
<1> QED
  BY <1>1, <1>2, <1>3, <1>4, <1>5, <1>6, <1>7, <1>8, <1>9 DEF SupervisorNext

(* A service is told to stop only when all of the earlier phases have ended, *)
(* the mailboxes outlive every service, and a runtime that says it stopped   *)
(* has nothing running, for any services, phases and callers.                *)
THEOREM StopsInOrder == SupervisorSpec => []StopInOrder
<1>1. SupervisorInit => Lifecycle
  BY DEF SupervisorInit, Lifecycle, AllOver
<1> QED
  BY <1>1, LifecycleSteps, LifecycleStops, SupervisorTypeCorrect, PTL DEF SupervisorSpec

-----------------------------------------------------------------------------
(***************************************************************************)
(* The order in which occurrences become turns, proved for any schedules   *)
(* and intervals, and any number of claims, edits, faults and instants.    *)
(***************************************************************************)
ScheduleRow == [status : ScheduleStatus, run : Nat, attempt : Nat, attempts : Nat, token : Nat]

ScheduleClaim == [of : ScheduleIds, run : Nat, token : Nat, attempts : Nat,
          step : {"claimed", "skip", "accept"}, observed : Nat]

(* What is missed is passed over, and the next run is a later one. *)
LEMMA NextRunIsLater ==
  ASSUME NEW s \in ScheduleIds, NEW run \in Nat, NEW after \in Nat, Every[s] # 0, run <= after
  PROVE  NextRun(s, run, after) \in Nat /\ NextRun(s, run, after) > run
<1>1. Every[s] \in Nat \ {0}
  BY SchedulesAssumption
<1> DEFINE missed == (after - run) \div Every[s]
<1>2. missed \in Nat
  BY <1>1
<1>3. NextRun(s, run, after) = run + (missed + 1) * Every[s]
  BY <1>1 DEF NextRun
<1> HIDE DEF missed
<1>4. \A k, e \in Nat : e # 0 => (k + 1) * e \in Nat /\ (k + 1) * e > 0
  OBVIOUS
<1>5. (missed + 1) * Every[s] \in Nat /\ (missed + 1) * Every[s] > 0
  BY <1>1, <1>2, <1>4
<1> QED
  BY <1>3, <1>5

LEMMA WaitingIsRow ==
  ASSUME NEW first \in Nat
  PROVE  /\ Waiting(first) \in ScheduleRow
         /\ Waiting(first).status = "pending"
         /\ Waiting(first).run = first /\ Waiting(first).attempt = first
BY DEF Waiting, NoSchedule, ScheduleRow, ScheduleStatus, Live

(* A claim moves its row on to a row, which waits for a later run or ends. *)
LEMMA MovedOnIsLater ==
  ASSUME NEW c \in ScheduleClaim, schedule \in [ScheduleIds -> ScheduleRow], c.run <= c.observed,
         NEW end \in {"completed", "expired"}
  PROVE  /\ MovedOn(c, end) \in ScheduleRow
         /\ MovedOn(c, end).status # "processing"
         /\ MovedOn(c, end).status \in Live =>
              /\ MovedOn(c, end).run > c.run
              /\ MovedOn(c, end).attempt = MovedOn(c, end).run
<1>1. c.of \in ScheduleIds /\ c.run \in Nat /\ c.observed \in Nat
  BY DEF ScheduleClaim
<1>2. CASE Every[c.of] = 0
  <2>1. MovedOn(c, end) = [schedule[c.of] EXCEPT !.status = end, !.attempts = 0, !.token = 0]
    BY <1>2 DEF MovedOn
  <2>2. schedule[c.of] \in ScheduleRow
    BY <1>1
  <2> DEFINE r == schedule[c.of]
  <2>3. MovedOn(c, end) = [status |-> end, run |-> r.run, attempt |-> r.attempt,
                           attempts |-> 0, token |-> 0]
    BY <2>1, <2>2 DEF ScheduleRow
  <2>4. r.run \in Nat /\ r.attempt \in Nat /\ end \in ScheduleStatus
    BY <2>2 DEF ScheduleRow, ScheduleStatus
  <2> HIDE DEF r
  <2> QED
    BY <2>3, <2>4 DEF ScheduleRow, Live
<1>3. CASE Every[c.of] # 0
  <2>1. MovedOn(c, end) = Waiting(NextRun(c.of, c.run, c.observed))
    BY <1>3 DEF MovedOn
  <2>2. /\ NextRun(c.of, c.run, c.observed) \in Nat
        /\ NextRun(c.of, c.run, c.observed) > c.run
    BY <1>1, <1>3, NextRunIsLater
  <2> QED
    BY <2>1, <2>2, WaitingIsRow
<1> QED
  BY <1>2, <1>3

----------------------------------------------------------------------------
(* A claim knows when its occurrence is due and, while it owns the row,     *)
(* which one the row is at.                                                 *)
ClaimsInTime ==
  /\ \A c \in executing :
       /\ c.token \in 1 .. scheduleClaims
       /\ c.run <= instant
       /\ c.step # "claimed" => c.run <= c.observed
       /\ OwnsSchedule(c) => c.run = schedule[c.of].run

RowsInTime ==
  \A s \in ScheduleIds :
    /\ schedule[s].status \in Live => schedule[s].run <= schedule[s].attempt
    /\ schedule[s].status = "processing" => schedule[s].run <= instant

InTime == SchedulesTypeOK /\ ClaimsInTime /\ RowsInTime /\ FiresInOrder

LEMMA InTimeInit == SchedulesInit => InTime
<1> SUFFICES ASSUME SchedulesInit PROVE InTime
  OBVIOUS
<1>1. NoSchedule \in ScheduleRow
  BY DEF NoSchedule, ScheduleRow, ScheduleStatus
<1>2. schedule \in [ScheduleIds -> ScheduleRow] /\ fired \in [ScheduleIds -> Seq(Nat)]
  BY <1>1 DEF SchedulesInit
<1>3. SchedulesTypeOK
  BY <1>2 DEF SchedulesInit, SchedulesTypeOK, ScheduleRow
<1>4. ClaimsInTime /\ RowsInTime
  BY DEF SchedulesInit, ClaimsInTime, RowsInTime, NoSchedule, Live
<1>5. FiresInOrder
  BY DEF SchedulesInit, FiresInOrder
<1> QED
  BY <1>3, <1>4, <1>5 DEF InTime

(* A step that fires nothing, if every row that is alive afterwards was     *)
(* alive before and no run of it goes back, or waits for a later instant.   *)
LEMMA ScheduleQuietSteps ==
  ASSUME InTime, SchedulesTypeOK', UNCHANGED fired, instant' >= instant,
         \A s \in ScheduleIds : schedule'[s].status \in Live =>
           \/ schedule[s].status \in Live /\ schedule'[s].run >= schedule[s].run
           \/ schedule'[s].run > instant
  PROVE  FiresInOrder'
<1>1. \A s \in ScheduleIds : \A i \in DOMAIN fired[s] : fired[s][i] \in Nat
  BY DEF InTime, SchedulesTypeOK
<1>2. instant \in Nat /\ instant' \in Nat
  BY DEF InTime, SchedulesTypeOK
<1>3. \A s \in ScheduleIds : schedule[s].run \in Nat /\ schedule'[s].run \in Nat
  BY DEF InTime, SchedulesTypeOK
<1>4. FiresInOrder
  BY DEF InTime
<1>5. \A s \in ScheduleIds : \A i \in DOMAIN fired[s] : fired[s][i] <= instant'
  <2> SUFFICES ASSUME NEW s \in ScheduleIds, NEW i \in DOMAIN fired[s]
               PROVE  fired[s][i] <= instant'
    OBVIOUS
  <2>1. fired[s][i] <= instant
    BY <1>4 DEF FiresInOrder
  <2>2. fired[s][i] \in Nat
    BY <1>1
  <2> QED
    BY <1>2, <2>1, <2>2
<1>6. \A s \in ScheduleIds : \A i \in DOMAIN fired[s] :
        schedule'[s].status \in Live => fired[s][i] < schedule'[s].run
  <2> SUFFICES ASSUME NEW s \in ScheduleIds, NEW i \in DOMAIN fired[s],
                      schedule'[s].status \in Live
               PROVE  fired[s][i] < schedule'[s].run
    OBVIOUS
  <2>1. /\ fired[s][i] <= instant
        /\ schedule[s].status \in Live => fired[s][i] < schedule[s].run
    BY <1>4 DEF FiresInOrder
  <2>2. fired[s][i] \in Nat /\ schedule[s].run \in Nat /\ schedule'[s].run \in Nat
    BY <1>1, <1>3
  <2>3. CASE schedule[s].status \in Live /\ schedule'[s].run >= schedule[s].run
    BY <2>1, <2>2, <2>3
  <2>4. CASE schedule'[s].run > instant
    BY <1>2, <2>1, <2>2, <2>4
  <2> QED
    BY <2>3, <2>4
<1> QED
  BY <1>4, <1>5, <1>6 DEF FiresInOrder

LEMMA ScheduleTyped ==
  SchedulesTypeOK <=>
    /\ instant \in Nat
    /\ schedule \in [ScheduleIds -> ScheduleRow]
    /\ fired \in [ScheduleIds -> Seq(Nat)]
    /\ executing \subseteq ScheduleClaim
    /\ scheduleClaims \in Nat /\ edits \in Nat /\ scheduleFaults \in Nat
BY DEF SchedulesTypeOK, ScheduleRow, ScheduleClaim

LEMMA TypedNext ==
  SchedulesTypeOK' <=>
    /\ instant' \in Nat
    /\ schedule' \in [ScheduleIds -> ScheduleRow]
    /\ fired' \in [ScheduleIds -> Seq(Nat)]
    /\ executing' \subseteq ScheduleClaim
    /\ scheduleClaims' \in Nat /\ edits' \in Nat /\ scheduleFaults' \in Nat
BY DEF SchedulesTypeOK, ScheduleRow, ScheduleClaim

(* A claim that is settled leaves its row alone or takes it out of         *)
(* processing: what is left of the claims keeps in time.                   *)
LEMMA SettlingClaims ==
  ASSUME InTime, NEW c \in executing, executing' = executing \ {c},
         UNCHANGED <<instant, scheduleClaims>>,
         NEW r, schedule' = [schedule EXCEPT ![c.of] = r] \/ UNCHANGED schedule,
         r \in ScheduleRow, r.status # "processing"
  PROVE  ClaimsInTime'
<1> USE ScheduleTyped DEF InTime
<1>1. SUFFICES ASSUME NEW d \in executing'
               PROVE  /\ d.token \in 1 .. scheduleClaims
                      /\ d.run <= instant
                      /\ d.step # "claimed" => d.run <= d.observed
                      /\ OwnsSchedule(d)' => d.run = schedule'[d.of].run
  BY DEF ClaimsInTime
<1>2. d \in executing /\ d.of \in ScheduleIds
  BY DEF ScheduleClaim
<1>3. schedule'[d.of] = schedule[d.of] \/ schedule'[d.of].status # "processing"
  BY <1>2
<1>4. OwnsSchedule(d)' => schedule'[d.of] = schedule[d.of] /\ OwnsSchedule(d)
  BY <1>3 DEF OwnsSchedule
<1> QED
  BY <1>2, <1>4 DEF ClaimsInTime

LEMMA SettlingRows ==
  ASSUME InTime, NEW s \in ScheduleIds, UNCHANGED instant,
         NEW r, schedule' = [schedule EXCEPT ![s] = r] \/ UNCHANGED schedule,
         r \in ScheduleRow, r.status # "processing", r.status \in Live => r.run <= r.attempt
  PROVE  RowsInTime'
<1> USE ScheduleTyped DEF InTime
<1>1. \A t \in ScheduleIds : schedule'[t] = schedule[t] \/ schedule'[t] = r
  OBVIOUS
<1> QED
  BY <1>1 DEF RowsInTime

LEMMA ToolSteps ==
  ASSUME InTime, NEW s \in ScheduleIds,
         \/ \E first \in Instants : CreateSchedule(s, first) \/ ReplaceSchedule(s, first)
         \/ CancelSchedule(s)
  PROVE  InTime'
<1> USE ScheduleTyped DEF InTime
<1>1. PICK r \in ScheduleRow :
        /\ schedule' = [schedule EXCEPT ![s] = r]
        /\ r.status # "processing"
        /\ r.status \in Live => r.run > instant /\ r.run = r.attempt
  <2>1. ASSUME NEW first \in Instants, CreateSchedule(s, first) \/ ReplaceSchedule(s, first)
        PROVE  /\ Waiting(first) \in ScheduleRow
               /\ schedule' = [schedule EXCEPT ![s] = Waiting(first)]
               /\ Waiting(first).status = "pending"
               /\ Waiting(first).run > instant /\ Waiting(first).run = Waiting(first).attempt
    <3>1. first \in Nat /\ first > instant
      BY <2>1, SchedulesAssumption DEF Instants, CreateSchedule, ReplaceSchedule
    <3>2. schedule' = [schedule EXCEPT ![s] = Waiting(first)]
      BY <2>1 DEF CreateSchedule, ReplaceSchedule
    <3> QED
      BY <3>1, <3>2, WaitingIsRow
  <2>2. ASSUME CancelSchedule(s)
        PROVE  LET r == [schedule[s] EXCEPT !.status = "cancelled", !.token = 0]
               IN  /\ r \in ScheduleRow /\ r.status = "cancelled"
                   /\ schedule' = [schedule EXCEPT ![s] = r]
    BY <2>2 DEF CancelSchedule, Close, ScheduleRow, ScheduleStatus
  <2> QED
    BY <2>1, <2>2 DEF Live
<1>2. UNCHANGED <<instant, fired, executing, scheduleClaims, scheduleFaults>> /\ edits' \in Nat
  BY DEF CreateSchedule, ReplaceSchedule, CancelSchedule
<1>3. SchedulesTypeOK'
  BY <1>1, <1>2, TypedNext
<1>4. RowsInTime'
  <2>1. r.status \in Live => r.run <= r.attempt
    BY <1>1 DEF ScheduleRow
  <2> QED
    BY <1>1, <1>2, <2>1, SettlingRows
<1>5. ClaimsInTime'
  <2> SUFFICES ASSUME NEW d \in executing, OwnsSchedule(d)'
               PROVE  d.run = schedule'[d.of].run
    BY <1>2 DEF ClaimsInTime
  <2>1. d.of # s /\ d.of \in ScheduleIds
    BY <1>1 DEF OwnsSchedule, ScheduleClaim
  <2> QED
    BY <1>1, <2>1 DEF ClaimsInTime, OwnsSchedule
<1>6. FiresInOrder'
  <2>1. instant' >= instant
    BY <1>2
  <2>2. \A t \in ScheduleIds : schedule'[t].status \in Live =>
          \/ schedule[t].status \in Live /\ schedule'[t].run >= schedule[t].run
          \/ schedule'[t].run > instant
    BY <1>1 DEF ScheduleRow
  <2> QED
    BY <1>2, <1>3, <2>1, <2>2, ScheduleQuietSteps
<1> QED
  BY <1>3, <1>4, <1>5, <1>6

LEMMA ClaimStep ==
  ASSUME InTime, NEW s \in ScheduleIds, ClaimSchedule(s)
  PROVE  InTime'
<1> USE ScheduleTyped DEF InTime
<1> DEFINE r == [schedule[s] EXCEPT !.status = "processing", !.attempts = @ + 1,
                                    !.token = scheduleClaims']
           d == [of |-> s, run |-> schedule[s].run, token |-> scheduleClaims',
                 attempts |-> schedule[s].attempts + 1, step |-> "claimed", observed |-> 0]
<1>1. /\ schedule' = [schedule EXCEPT ![s] = r]
      /\ executing' = executing \cup {d}
      /\ scheduleClaims' = scheduleClaims + 1
      /\ UNCHANGED <<instant, fired, edits, scheduleFaults>>
      /\ schedule[s].attempt <= instant
  BY DEF ClaimSchedule, DueSchedule
<1>2. /\ schedule[s].status \in Live /\ schedule[s].status # "processing"
      /\ schedule[s] \in ScheduleRow /\ schedule[s].run <= schedule[s].attempt
  BY DEF ClaimSchedule, DueSchedule, RowsInTime, Live
<1>3. /\ r \in ScheduleRow /\ d \in ScheduleClaim
      /\ r.run = schedule[s].run /\ r.attempt = schedule[s].attempt
      /\ r.status = "processing" /\ r.token = scheduleClaims + 1
  <2>1. schedule[s].run \in Nat /\ schedule[s].attempts + 1 \in Nat
    BY <1>2 DEF ScheduleRow
  <2>2. scheduleClaims' \in Nat
    BY <1>1
  <2>3. r \in ScheduleRow /\ r.run = schedule[s].run /\ r.attempt = schedule[s].attempt
    BY <1>2, <2>1, <2>2 DEF ScheduleRow, ScheduleStatus, Live
  <2>4. r.status = "processing" /\ r.token = scheduleClaims'
    BY <1>2 DEF ScheduleRow
  <2>5. d \in ScheduleClaim
    BY <2>1, <2>2 DEF ScheduleClaim
  <2> QED
    BY <1>1, <2>3, <2>4, <2>5
<1>4. r.run \in Nat /\ r.attempt \in Nat /\ r.run <= instant
  BY <1>1, <1>2, <1>3 DEF ScheduleRow
<1>5. d.of = s /\ d.run = r.run /\ d.token = scheduleClaims + 1 /\ d.step = "claimed"
  BY <1>1, <1>3
<1> HIDE DEF r, d
<1>6. SchedulesTypeOK'
  BY <1>1, <1>3, TypedNext
<1>7. RowsInTime'
  BY <1>1, <1>2, <1>3, <1>4 DEF RowsInTime
<1>8. ClaimsInTime'
  <2>1. ASSUME NEW c \in executing
        PROVE  /\ c.token \in 1 .. scheduleClaims' /\ c.run <= instant'
               /\ c.step # "claimed" => c.run <= c.observed
               /\ OwnsSchedule(c)' => c.run = schedule'[c.of].run
    <3>1. c.token \in 1 .. scheduleClaims /\ c.of \in ScheduleIds
      BY DEF ClaimsInTime, ScheduleClaim
    <3>2. OwnsSchedule(c)' => c.of # s
      BY <1>1, <1>3, <3>1 DEF OwnsSchedule
    <3>3. OwnsSchedule(c)' => OwnsSchedule(c) /\ schedule'[c.of] = schedule[c.of]
      BY <1>1, <3>1, <3>2 DEF OwnsSchedule
    <3> QED
      BY <1>1, <3>1, <3>3 DEF ClaimsInTime
  <2>2. /\ d.token \in 1 .. scheduleClaims' /\ d.run <= instant'
        /\ schedule'[d.of].run = d.run
    BY <1>1, <1>3, <1>4, <1>5
  <2> QED
    BY <1>1, <1>5, <2>1, <2>2 DEF ClaimsInTime
<1>9. FiresInOrder'
  <2>1. instant' >= instant
    BY <1>1
  <2>2. \A t \in ScheduleIds : schedule'[t].status \in Live =>
          \/ schedule[t].status \in Live /\ schedule'[t].run >= schedule[t].run
          \/ schedule'[t].run > instant
    BY <1>1, <1>2, <1>3 DEF ScheduleRow
  <2> QED
    BY <1>1, <1>6, <2>1, <2>2, ScheduleQuietSteps
<1> QED
  BY <1>6, <1>7, <1>8, <1>9

LEMMA ObserveStep ==
  ASSUME InTime, NEW c \in executing, ObserveOccurrence(c)
  PROVE  InTime'
<1> USE ScheduleTyped DEF InTime
<1> DEFINE d == [c EXCEPT !.observed = instant, !.step = IF Missed(c) THEN "skip" ELSE "accept"]
<1>1. /\ executing' = (executing \ {c}) \cup {d}
      /\ UNCHANGED <<instant, schedule, fired, scheduleClaims, edits, scheduleFaults>>
  BY DEF ObserveOccurrence
<1>2. /\ d \in ScheduleClaim /\ d.of = c.of /\ d.run = c.run /\ d.token = c.token
      /\ d.observed = instant
  BY DEF ScheduleClaim
<1> HIDE DEF d
<1>3. SchedulesTypeOK'
  BY <1>1, <1>2, TypedNext
<1>4. ClaimsInTime'
  BY <1>1, <1>2 DEF ClaimsInTime, OwnsSchedule
<1>5. RowsInTime' /\ FiresInOrder'
  BY <1>1 DEF RowsInTime, FiresInOrder
<1> QED
  BY <1>3, <1>4, <1>5

(* A claim that settles without firing: its row, if it still owns it, moves *)
(* on, ends or waits for a retry.                                           *)
LEMMA SettlingStep ==
  ASSUME InTime, NEW c \in executing, SkipMisfire(c) \/ FailOccurrence(c)
  PROVE  InTime'
<1> USE ScheduleTyped DEF InTime
<1>1. c \in ScheduleClaim /\ c.of \in ScheduleIds /\ schedule[c.of] \in ScheduleRow
  BY DEF ScheduleClaim
<1>2. /\ executing' = executing \ {c}
      /\ UNCHANGED <<instant, fired, scheduleClaims, edits>> /\ scheduleFaults' \in Nat
  BY DEF SkipMisfire, FailOccurrence, Drop, ScheduleFault
<1>3. \E r \in ScheduleRow :
        /\ \/ schedule' = [schedule EXCEPT ![c.of] = r] /\ OwnsSchedule(c)
           \/ UNCHANGED schedule
        /\ r.status # "processing"
        /\ r.status \in Live => r.run <= r.attempt /\ r.run > c.run
  <2>1. CASE SkipMisfire(c)
    <3>1. c.run <= c.observed
      BY <2>1 DEF SkipMisfire, ClaimsInTime
    <3> DEFINE r == MovedOn(c, "expired")
    <3>2. /\ r \in ScheduleRow /\ r.status # "processing"
          /\ r.status \in Live => r.run > c.run /\ r.attempt = r.run
      BY <1>1, <3>1, MovedOnIsLater
    <3>3. \/ schedule' = [schedule EXCEPT ![c.of] = r] /\ OwnsSchedule(c)
          \/ UNCHANGED schedule
      BY <2>1 DEF SkipMisfire
    <3> HIDE DEF r
    <3>4. r.status \in Live => r.run <= r.attempt
      BY <3>2 DEF ScheduleRow
    <3> QED
      BY <3>2, <3>3, <3>4
  <2>2. CASE FailOccurrence(c)
    <3> DEFINE r == [schedule[c.of] EXCEPT !.status = "failed_final", !.token = 0]
    <3>1. r \in ScheduleRow /\ r.status = "failed_final"
      BY <1>1 DEF ScheduleRow, ScheduleStatus
    <3>2. \/ schedule' = [schedule EXCEPT ![c.of] = r] /\ OwnsSchedule(c)
          \/ UNCHANGED schedule
      BY <1>1, <2>2 DEF FailOccurrence, Close
    <3> QED
      BY <3>1, <3>2 DEF Live
  <2> QED
    BY <2>1, <2>2
<1>4. PICK r \in ScheduleRow :
        /\ \/ schedule' = [schedule EXCEPT ![c.of] = r] /\ OwnsSchedule(c)
           \/ UNCHANGED schedule
        /\ r.status # "processing"
        /\ r.status \in Live => r.run <= r.attempt /\ r.run > c.run
  BY <1>3
<1>5. SchedulesTypeOK'
  BY <1>1, <1>2, <1>4, TypedNext
<1>6. ClaimsInTime'
  BY <1>2, <1>4, SettlingClaims
<1>7. RowsInTime'
  BY <1>1, <1>2, <1>4, SettlingRows
<1>8. FiresInOrder'
  <2>1. instant' >= instant
    BY <1>2
  <2>2. OwnsSchedule(c) => /\ schedule[c.of].status \in Live
                           /\ schedule[c.of].run = c.run
    BY DEF OwnsSchedule, ClaimsInTime, Live
  <2>3. \A t \in ScheduleIds : schedule'[t].status \in Live =>
          \/ schedule[t].status \in Live /\ schedule'[t].run >= schedule[t].run
          \/ schedule'[t].run > instant
    <3> SUFFICES ASSUME NEW t \in ScheduleIds, schedule'[t].status \in Live
                 PROVE  /\ schedule[t].status \in Live
                        /\ schedule'[t].run >= schedule[t].run
      OBVIOUS
    <3>1. schedule[t].run \in Nat /\ r.run \in Nat
      BY DEF ScheduleRow
    <3>2. CASE schedule'[t] = schedule[t]
      BY <3>1, <3>2
    <3>3. CASE schedule'[t] # schedule[t]
      <4>1. t = c.of /\ schedule'[t] = r /\ OwnsSchedule(c)
        BY <1>1, <1>4, <3>3
      <4> QED
        BY <1>4, <2>2, <3>1, <4>1
    <3> QED
      BY <3>2, <3>3
  <2> QED
    BY <1>2, <1>5, <2>1, <2>3, ScheduleQuietSteps
<1> QED
  BY <1>5, <1>6, <1>7, <1>8

(* A row that is retried keeps its run and waits for a later instant. *)
LEMMA RetryStep ==
  ASSUME InTime, NEW s \in ScheduleIds, NEW at \in Nat, at >= instant,
         schedule[s].status = "processing",
         \/ UNCHANGED schedule
         \/ schedule' = [schedule EXCEPT ![s].status = "retry_wait", ![s].token = 0,
                                         ![s].attempt = at],
         executing' \subseteq executing,
         UNCHANGED <<instant, fired, scheduleClaims, edits>>, scheduleFaults' \in Nat
  PROVE  InTime'
<1> USE ScheduleTyped DEF InTime
<1> DEFINE r == [schedule[s] EXCEPT !.status = "retry_wait", !.token = 0, !.attempt = at]
<1>1. schedule[s] \in ScheduleRow /\ schedule[s].run \in Nat /\ schedule[s].run <= instant
  BY DEF ScheduleRow, RowsInTime
<1>2. r \in ScheduleRow /\ r.status = "retry_wait" /\ r.run = schedule[s].run /\ r.attempt = at
  BY <1>1 DEF ScheduleRow, ScheduleStatus, Live
<1>3. schedule' = [schedule EXCEPT ![s] = r] \/ UNCHANGED schedule
  OBVIOUS
<1> HIDE DEF r
<1>4. SchedulesTypeOK'
  BY <1>2, <1>3, TypedNext
<1>5. RowsInTime'
  BY <1>1, <1>2, <1>3, SettlingRows
<1>6. ClaimsInTime'
  <2> SUFFICES ASSUME NEW d \in executing, OwnsSchedule(d)'
               PROVE  d.run = schedule'[d.of].run
    BY DEF ClaimsInTime
  <2>1. d.of \in ScheduleIds /\ schedule'[d.of].status = "processing"
    BY DEF OwnsSchedule, ScheduleClaim
  <2>2. schedule'[d.of] = schedule[d.of]
    BY <1>2, <1>3, <2>1
  <2> QED
    BY <2>2 DEF ClaimsInTime, OwnsSchedule
<1>7. FiresInOrder'
  <2>1. instant' >= instant
    OBVIOUS
  <2>2. \A t \in ScheduleIds : schedule'[t].status \in Live =>
          schedule[t].status \in Live /\ schedule'[t].run >= schedule[t].run
    <3> SUFFICES ASSUME NEW t \in ScheduleIds, schedule'[t].status \in Live
                 PROVE  schedule[t].status \in Live /\ schedule'[t].run >= schedule[t].run
      OBVIOUS
    <3>1. schedule[t].run \in Nat
      BY DEF ScheduleRow
    <3>2. schedule'[t] = schedule[t] \/ (t = s /\ schedule'[t] = r)
      BY <1>1, <1>3
    <3> QED
      BY <1>2, <3>1, <3>2 DEF Live
  <2> QED
    BY <1>4, <2>1, <2>2, ScheduleQuietSteps
<1> QED
  BY <1>4, <1>5, <1>6, <1>7

(* The occurrence that a claim accepts is later than all that fired before, *)
(* and the row moves on beyond it.                                          *)
LEMMA AcceptStep ==
  ASSUME InTime, NEW c \in executing, AcceptOccurrence(c)
  PROVE  InTime'
<1> USE ScheduleTyped DEF InTime
<1> DEFINE s == c.of
           r == MovedOn(c, "completed")
<1>1. /\ c \in ScheduleClaim /\ s \in ScheduleIds /\ c.run \in Nat /\ c.run <= instant
      /\ c.run <= c.observed
  BY DEF ScheduleClaim, ClaimsInTime, AcceptOccurrence
<1>2. /\ r \in ScheduleRow /\ r.status # "processing"
      /\ r.status \in Live => r.run > c.run /\ r.attempt = r.run
  BY <1>1, MovedOnIsLater
<1>3. /\ executing' = executing \ {c}
      /\ UNCHANGED <<instant, scheduleClaims, edits, scheduleFaults>>
  BY DEF AcceptOccurrence, Drop
<1>4. schedule' = [schedule EXCEPT ![s] = r] \/ UNCHANGED schedule
  BY DEF AcceptOccurrence
<1>5. ClaimsInTime'
  BY <1>2, <1>3, <1>4, SettlingClaims
<1>6. r.status \in Live => r.run <= r.attempt
  BY <1>2 DEF ScheduleRow
<1>7. RowsInTime'
  BY <1>1, <1>2, <1>3, <1>4, <1>6, SettlingRows
<1>8. CASE ~OwnsSchedule(c)
  <2>1. UNCHANGED <<fired, schedule>>
    BY <1>8 DEF AcceptOccurrence
  <2>2. SchedulesTypeOK' /\ FiresInOrder'
    BY <1>3, <2>1, TypedNext DEF FiresInOrder
  <2> QED
    BY <1>5, <1>7, <2>2
<1>9. CASE OwnsSchedule(c)
  <2>1. schedule[s].status \in Live /\ schedule[s].run = c.run
    BY <1>9 DEF OwnsSchedule, ClaimsInTime, Live
  <2>2. fired[s] \in Seq(Nat)
    BY <1>1
  <2>3. \A i \in 1 .. Len(fired[s]) : fired[s][i] \in Nat /\ fired[s][i] < c.run
    BY <1>1, <2>1, <2>2 DEF FiresInOrder
  <2>4. ~Contains(fired[s], c.run)
    BY <1>1, <2>3 DEF Contains
  <2>5. /\ fired' = [fired EXCEPT ![s] = Append(fired[s], c.run)]
        /\ schedule' = [schedule EXCEPT ![s] = r]
    BY <1>9, <2>4 DEF AcceptOccurrence
  <2> HIDE DEF r
  <2>6. SchedulesTypeOK'
    <3>1. Append(fired[s], c.run) \in Seq(Nat)
      BY <1>1, <2>2
    <3> QED
      BY <1>1, <1>2, <1>3, <2>5, <3>1, TypedNext
  <2>7. FiresInOrder'
    <3> SUFFICES ASSUME NEW t \in ScheduleIds
                 PROVE  /\ \A i, j \in DOMAIN fired'[t] : i < j => fired'[t][i] < fired'[t][j]
                        /\ \A i \in DOMAIN fired'[t] : fired'[t][i] <= instant'
                        /\ \A i \in DOMAIN fired'[t] :
                             schedule'[t].status \in Live => fired'[t][i] < schedule'[t].run
      BY DEF FiresInOrder
    <3>1. CASE t # s
      BY <1>3, <2>5, <3>1 DEF FiresInOrder
    <3>2. CASE t = s
      <4> DEFINE n == Len(fired[s])
      <4>1. /\ DOMAIN fired'[t] = 1 .. n + 1 /\ n \in Nat
            /\ \A i \in 1 .. n : fired'[t][i] = fired[s][i]
            /\ fired'[t][n + 1] = c.run
        BY <1>1, <2>2, <2>5, <3>2
      <4>2. \A i \in 1 .. n + 1 : fired'[t][i] \in Nat /\ fired'[t][i] <= c.run
        <5> SUFFICES ASSUME NEW i \in 1 .. n + 1
                     PROVE  fired'[t][i] \in Nat /\ fired'[t][i] <= c.run
          OBVIOUS
        <5>1. i \in 1 .. n \/ i = n + 1
          BY <4>1
        <5>2. i \in 1 .. n => fired[s][i] \in Nat /\ fired[s][i] < c.run
          BY <2>3
        <5> HIDE DEF n
        <5> QED
          BY <1>1, <4>1, <5>1, <5>2
      <4>3. \A i, j \in 1 .. n : i < j => fired[s][i] < fired[s][j]
        <5>1. \A i, j \in DOMAIN fired[s] : i < j => fired[s][i] < fired[s][j]
          BY <1>1, <2>2 DEF FiresInOrder
        <5>2. DOMAIN fired[s] = 1 .. n
          BY <1>1
        <5> HIDE DEF n
        <5> QED
          BY <5>1, <5>2
      <4>4. \A i, j \in 1 .. n + 1 : i < j => fired'[t][i] < fired'[t][j]
        <5> SUFFICES ASSUME NEW i \in 1 .. n + 1, NEW j \in 1 .. n + 1, i < j
                     PROVE  fired'[t][i] < fired'[t][j]
          OBVIOUS
        <5>1. i \in 1 .. n
          BY <4>1
        <5>2. CASE j \in 1 .. n
          BY <4>1, <4>3, <5>1, <5>2
        <5>3. CASE j = n + 1
          BY <2>3, <4>1, <5>1, <5>3
        <5>4. j \in 1 .. n \/ j = n + 1
          BY <4>1
        <5> QED
          BY <5>2, <5>3, <5>4
      <4>5. schedule'[t] = r /\ (r.status \in Live => r.run \in Nat /\ r.run > c.run)
        BY <1>1, <1>2, <2>5, <3>2 DEF ScheduleRow
      <4> HIDE DEF n
      <4>6. \A i \in 1 .. n + 1 : fired'[t][i] <= instant'
        BY <1>1, <1>3, <4>2
      <4>7. \A i \in 1 .. n + 1 : schedule'[t].status \in Live => fired'[t][i] < schedule'[t].run
        BY <1>1, <4>2, <4>5
      <4> QED
        BY <4>1, <4>4, <4>6, <4>7
    <3> QED
      BY <3>1, <3>2
  <2> QED
    BY <1>5, <1>7, <2>6, <2>7
<1> QED
  BY <1>8, <1>9

LEMMA InTimeSteps ==
  ASSUME InTime, [SchedulesNext]_scheduleVars
  PROVE  InTime'
<1> USE ScheduleTyped DEF InTime
<1>1. CASE ScheduleTick
  <2>1. /\ instant' = instant + 1
        /\ UNCHANGED <<schedule, fired, executing, scheduleClaims, edits, scheduleFaults>>
    BY <1>1 DEF ScheduleTick
  <2>2. SchedulesTypeOK' /\ instant' >= instant
    BY <2>1, TypedNext
  <2>3. \A s \in ScheduleIds : schedule[s].run \in Nat
    BY DEF ScheduleRow
  <2>4. RowsInTime'
    BY <2>1, <2>3 DEF RowsInTime
  <2>5. \A c \in executing : c.run \in Nat
    BY DEF ScheduleClaim
  <2>6. ClaimsInTime'
    BY <2>1, <2>5 DEF ClaimsInTime, OwnsSchedule
  <2>7. \A s \in ScheduleIds : schedule'[s].run >= schedule[s].run
    BY <2>1, <2>3
  <2>8. FiresInOrder'
    BY <2>1, <2>2, <2>7, ScheduleQuietSteps
  <2> QED
    BY <2>2, <2>4, <2>6, <2>8
<1>2. CASE ScheduleCrash
  <2>1. /\ executing' = {} /\ scheduleFaults' \in Nat
        /\ UNCHANGED <<instant, schedule, fired, scheduleClaims, edits>>
    BY <1>2 DEF ScheduleCrash, ScheduleFault
  <2> QED
    BY <2>1, TypedNext DEF ClaimsInTime, RowsInTime, FiresInOrder
<1>3. ASSUME NEW s \in ScheduleIds, RecoverSchedule(s)
      PROVE  InTime'
  <2>1. /\ schedule[s].status = "processing"
        /\ schedule' = [schedule EXCEPT ![s].status = "retry_wait", ![s].token = 0,
                                        ![s].attempt = instant]
        /\ executing' \subseteq executing /\ scheduleFaults' \in Nat
        /\ UNCHANGED <<instant, fired, scheduleClaims, edits>>
    BY <1>3 DEF RecoverSchedule, ScheduleFault
  <2>2. instant \in Nat /\ instant >= instant
    OBVIOUS
  <2> QED
    BY <2>1, <2>2, RetryStep
<1>4. ASSUME NEW c \in executing, NEW delay \in 0 .. 1, RetryOccurrence(c, delay)
      PROVE  InTime'
  <2>1. /\ executing' \subseteq executing
        /\ UNCHANGED <<instant, fired, scheduleClaims, edits>> /\ scheduleFaults' \in Nat
    BY <1>4 DEF RetryOccurrence, Drop, ScheduleFault
  <2>2. CASE OwnsSchedule(c)
    <3>1. /\ c.of \in ScheduleIds /\ schedule[c.of].status = "processing"
          /\ instant + delay \in Nat /\ instant + delay >= instant
      BY <2>2 DEF OwnsSchedule, ScheduleClaim
    <3>2. schedule' = [schedule EXCEPT ![c.of].status = "retry_wait", ![c.of].token = 0,
                                       ![c.of].attempt = instant + delay]
      BY <1>4, <2>2 DEF RetryOccurrence
    <3> QED
      BY <2>1, <3>1, <3>2, RetryStep
  <2>3. CASE ~OwnsSchedule(c)
    <3>1. UNCHANGED schedule
      BY <1>4, <2>3 DEF RetryOccurrence
    <3> QED
      BY <2>1, <3>1, TypedNext DEF ClaimsInTime, RowsInTime, FiresInOrder, OwnsSchedule
  <2> QED
    BY <2>2, <2>3
<1>5. CASE UNCHANGED scheduleVars
  BY <1>5, TypedNext DEF scheduleVars, ClaimsInTime, RowsInTime, FiresInOrder, OwnsSchedule
<1> QED
  BY <1>1, <1>2, <1>3, <1>4, <1>5, ToolSteps, ClaimStep, ObserveStep, SettlingStep, AcceptStep
  DEF SchedulesNext

(* An occurrence becomes a turn once, in its order, and no turn stands for  *)
(* a time that the schedule has yet to reach, for any number of schedules,  *)
(* intervals, claims, edits and faults.                                     *)
THEOREM OccurrencesInOrder == SchedulesSpec => []FiresInOrder
<1>1. InTime => FiresInOrder
  BY DEF InTime
<1> QED
  BY <1>1, InTimeInit, InTimeSteps, PTL DEF SchedulesSpec

(* Every variable has its type, from the same invariant. *)
THEOREM SchedulesTypeCorrect == SchedulesSpec => []SchedulesTypeOK
<1>1. InTime => SchedulesTypeOK
  BY DEF InTime
<1> QED
  BY <1>1, InTimeInit, InTimeSteps, PTL DEF SchedulesSpec

-----------------------------------------------------------------------------
(***************************************************************************)
(* What a profile may know, proved for any number of turns, commands,      *)
(* attempts and faults.                                                    *)
(***************************************************************************)
(* A turn has at most one event: what makes a batch and the watermark      *)
(* before it disjoint also as sets of turns.                               *)
OneEventPerTurn == \A e, f \in DOMAIN evidence : evidence[e] = evidence[f] => e = f

(* A dream ends at an event that exists, and not before its baseline; only *)
(* a row in processing is worked on.                                       *)
DreamsInOrder ==
  /\ profile.observed <= lastEvent
  /\ dream.status # "none" => dream.id[2] <= dream.id[3] /\ dream.id[3] <= lastEvent
  /\ \A c \in dreaming : c.activity.status = "processing"

DreamInv ==
  UserProfileTypeOK /\ ForgottenStays /\ EachEventOnce /\ OneEventPerTurn /\ DreamsInOrder

Profiles == [exists : BOOLEAN, revision : Nat, observed : Nat, eligible : BOOLEAN,
             forgotten : Nat]

LEMMA NoProfileIsProfile == NoProfile \in Profiles /\ NoDream \in DreamRow
BY DEF NoProfile, Profiles, NoDream, DreamRow

(* A row with another state is a row. *)
LEMMA DreamRowMoves ==
  ASSUME NEW d \in DreamRow, NEW v \in Nat, NEW n \in Nat, NEW k \in Nat,
         NEW s \in {"none", "pending", "processing", "retry_wait", "failed_final"}
  PROVE  /\ [d EXCEPT !.status = s, !.version = v, !.attempts = n, !.token = k] \in DreamRow
         /\ [d EXCEPT !.status = s, !.version = v, !.token = k] \in DreamRow
<1> DEFINE Ids == Nat \X Nat \X Nat
<1>1. d \in [status : {"none", "pending", "processing", "retry_wait", "failed_final"},
             id : Ids, version : Nat, attempts : Nat, token : Nat]
  BY DEF DreamRow
<1> HIDE DEF Ids
<1>2. /\ [d EXCEPT !.status = s, !.version = v, !.attempts = n, !.token = k] \in
            [status : {"none", "pending", "processing", "retry_wait", "failed_final"},
             id : Ids, version : Nat, attempts : Nat, token : Nat]
      /\ [d EXCEPT !.status = s, !.version = v, !.token = k] \in
            [status : {"none", "pending", "processing", "retry_wait", "failed_final"},
             id : Ids, version : Nat, attempts : Nat, token : Nat]
  BY <1>1
<1> QED
  BY <1>2 DEF Ids, DreamRow

LEMMA DreamInit == UserProfileInit => DreamInv
<1> SUFFICES ASSUME UserProfileInit PROVE DreamInv
  OBVIOUS
<1> USE UserProfileAssumption DEF UserProfileInit
<1>1. DOMAIN evidence = {} /\ completed \in Seq(Turns) /\ DOMAIN completed = {}
  OBVIOUS
<1>2. evidence \in [DOMAIN evidence -> Turns]
  BY <1>1
<1>3. UserProfileTypeOK
  BY <1>1, <1>2, NoProfileIsProfile DEF UserProfileTypeOK, Profiles
<1>4. ForgottenStays
  BY <1>1 DEF ForgottenStays, Projected
<1>5. EachEventOnce /\ OneEventPerTurn
  BY <1>1 DEF EachEventOnce, Behind, OneEventPerTurn
<1>6. DreamsInOrder
  BY DEF DreamsInOrder, NoProfile, NoDream
<1> QED
  BY <1>3, <1>4, <1>5, <1>6 DEF DreamInv

(* Steps that leave the evidence, the profile's memory and the dream's     *)
(* identity alone.                                                         *)
LEMMA DreamQuietSteps ==
  ASSUME DreamInv, UserProfileTypeOK',
         UNCHANGED <<evidence, lastEvent, considered>>,
         profile'.observed = profile.observed, profile'.forgotten = profile.forgotten,
         \/ dream'.status = "none"
         \/ dream'.id = dream.id /\ dream.status # "none",
         \A c \in dreaming' : c \in dreaming \/ c.activity.status = "processing"
  PROVE  DreamInv'
<1>1. ForgottenStays'
  BY DEF DreamInv, ForgottenStays, Projected
<1>2. EachEventOnce' /\ OneEventPerTurn'
  BY DEF DreamInv, EachEventOnce, Behind, OneEventPerTurn
<1>3. DreamsInOrder'
  BY DEF DreamInv, DreamsInOrder
<1> QED
  BY <1>1, <1>2, <1>3 DEF DreamInv

LEMMA SourcesType ==
  ASSUME UserProfileTypeOK, NEW id
  PROVE  Sources(id) \in SUBSET (Nat \X Turns)
BY DEF UserProfileTypeOK, Sources

LEMMA CreateTurnStep == DreamInv /\ CreateTurn => DreamInv'
<1> SUFFICES ASSUME DreamInv, CreateTurn PROVE DreamInv'
  OBVIOUS
<1>1. UserProfileTypeOK'
  BY UserProfileAssumption DEF DreamInv, UserProfileTypeOK, CreateTurn
<1> QED
  BY <1>1, DreamQuietSteps
  DEF CreateTurn, DreamInv, ForgottenStays, Projected, EachEventOnce, Behind,
     OneEventPerTurn, DreamsInOrder

LEMMA CompleteTurnStep ==
  ASSUME DreamInv, NEW t \in Turns, CompleteTurn(t)
  PROVE  DreamInv'
<1>1. completed' \in Seq(Turns) /\ DOMAIN completed \subseteq DOMAIN completed'
  BY DEF DreamInv, UserProfileTypeOK, CompleteTurn
<1>2. UserProfileTypeOK'
  BY <1>1 DEF DreamInv, UserProfileTypeOK, CompleteTurn
<1> QED
  BY <1>2 DEF CompleteTurn, DreamInv, ForgottenStays, Projected, EachEventOnce, Behind,
     OneEventPerTurn, DreamsInOrder

LEMMA ReadSourcesStep == DreamInv /\ ReadSources => DreamInv'
<1> SUFFICES ASSUME DreamInv, ReadSources PROVE DreamInv'
  OBVIOUS
<1>1. PICK last \in DOMAIN completed :
        reading' = {i \in 1 .. last : Unprojected(completed[i])}
  BY DEF ReadSources
<1>2. completed' = completed /\ DOMAIN completed = 1 .. Len(completed)
  BY DEF ReadSources, DreamInv, UserProfileTypeOK
<1>3. reading' \subseteq DOMAIN completed'
  BY <1>1, <1>2 DEF DreamInv, UserProfileTypeOK
<1>4. UserProfileTypeOK'
  BY <1>3 DEF DreamInv, UserProfileTypeOK, ReadSources
<1> QED
  BY <1>4 DEF ReadSources, DreamInv, ForgottenStays, Projected, EachEventOnce, Behind,
     OneEventPerTurn, DreamsInOrder

LEMMA ProjectEvidenceStep == DreamInv /\ ProjectEvidence => DreamInv'
<1> SUFFICES ASSUME DreamInv, ProjectEvidence PROVE DreamInv'
  OBVIOUS
<1>1. PICK i \in reading :
        LET t == completed[i] IN
        /\ reading' = reading \ {i}
        /\ IF Remembered(t)
             THEN profile' = [profile EXCEPT !.exists = TRUE,
                                             !.eligible = @ \/ profile.revision = 0]
             ELSE UNCHANGED profile
        /\ IF Remembered(t) /\ t \notin Projected
             THEN Insert(t) ELSE UNCHANGED <<lastEvent, evidence>>
        /\ UNCHANGED <<created, completed, considered, dream, dreaming, dreamClaims, commands,
                       dreamFaults>>
  BY DEF ProjectEvidence
<1> DEFINE t == completed[i]
<1>2. t \in Turns
  BY DEF DreamInv, UserProfileTypeOK
<1>3. /\ profile' \in Profiles
      /\ profile'.observed = profile.observed /\ profile'.forgotten = profile.forgotten
  BY <1>1 DEF DreamInv, UserProfileTypeOK, Profiles
<1>4. CASE Remembered(t) /\ t \notin Projected
  <2>1. /\ lastEvent' = lastEvent + 1
        /\ evidence' = [e \in DOMAIN evidence \cup {lastEvent + 1} |->
                          IF e = lastEvent + 1 THEN t ELSE evidence[e]]
    BY <1>1, <1>4 DEF Insert
  <2> HIDE DEF t
  <2>2. /\ DOMAIN evidence \subseteq 1 .. lastEvent /\ lastEvent \in Nat
        /\ lastEvent + 1 \notin DOMAIN evidence
    BY DEF DreamInv, UserProfileTypeOK
  <2>3. /\ DOMAIN evidence' = DOMAIN evidence \cup {lastEvent + 1}
        /\ \A e \in DOMAIN evidence : evidence'[e] = evidence[e]
        /\ evidence'[lastEvent + 1] = t
    BY <2>1, <2>2
  <2>4. evidence' \in [DOMAIN evidence' -> Turns] /\ DOMAIN evidence' \subseteq 1 .. lastEvent'
    BY <1>2, <2>1, <2>2, <2>3 DEF DreamInv, UserProfileTypeOK
  <2>5. UserProfileTypeOK'
    BY <1>1, <1>3, <2>1, <2>4 DEF DreamInv, UserProfileTypeOK, Profiles
  <2>6. t > profile.forgotten
    BY <1>4 DEF Remembered
  <2>7. Projected' = Projected \cup {t}
    BY <2>3 DEF Projected
  <2>8. ForgottenStays'
    BY <1>1, <1>3, <2>6, <2>7 DEF DreamInv, ForgottenStays
  <2>9. \A e \in DOMAIN evidence' :
          e <= profile'.observed => e \in DOMAIN evidence /\ evidence'[e] = evidence[e]
    BY <1>3, <2>2, <2>3 DEF DreamInv, DreamsInOrder, UserProfileTypeOK
  <2>10. \A u \in Turns : Behind(u)' <=> Behind(u)
    BY <1>3, <2>3, <2>9 DEF Behind
  <2>11. EachEventOnce'
    BY <1>1, <2>10 DEF DreamInv, EachEventOnce
  <2>12. OneEventPerTurn'
    BY <1>4, <2>3 DEF DreamInv, OneEventPerTurn, Projected
  <2>13. dream.id[3] \in Nat /\ profile.observed \in Nat
    BY DEF DreamInv, UserProfileTypeOK, DreamRow
  <2>14. DreamsInOrder'
    BY <1>1, <1>3, <2>1, <2>2, <2>13 DEF DreamInv, DreamsInOrder
  <2> QED
    BY <2>5, <2>8, <2>11, <2>12, <2>14 DEF DreamInv
<1>5. CASE ~(Remembered(t) /\ t \notin Projected)
  <2>1. UNCHANGED <<lastEvent, evidence>>
    BY <1>1, <1>5
  <2>2. UserProfileTypeOK'
    BY <1>1, <1>3, <2>1 DEF DreamInv, UserProfileTypeOK, Profiles
  <2> QED
    BY <1>1, <1>3, <2>1, <2>2 DEF DreamInv, ForgottenStays, Projected, EachEventOnce, Behind,
       OneEventPerTurn, DreamsInOrder
<1> QED
  BY <1>4, <1>5

----------------------------------------------------------------------------
LEMMA EnqueueDreamStep ==
  ASSUME DreamInv, NEW through \in 1 .. lastEvent, EnqueueDream(through)
  PROVE  DreamInv'
<1>1. /\ dream' = [NoDream EXCEPT !.status = "pending",
                                 !.id = <<profile.revision, profile.observed, through>>]
      /\ profile' = [profile EXCEPT !.eligible = FALSE]
      /\ through \in Backlog(profile.observed)
      /\ UNCHANGED <<created, completed, reading, evidence, lastEvent, considered, dreaming,
                     dreamClaims, commands, dreamFaults>>
  BY DEF EnqueueDream
<1>2. profile \in Profiles /\ lastEvent \in Nat
  BY DEF DreamInv, UserProfileTypeOK, Profiles
<1>3. /\ profile' \in Profiles
      /\ profile'.observed = profile.observed /\ profile'.forgotten = profile.forgotten
  BY <1>1, <1>2 DEF Profiles
<1> DEFINE id == <<profile.revision, profile.observed, through>>
<1>8. id \in Nat \X Nat \X Nat /\ id[2] = profile.observed /\ id[3] = through
  BY <1>2 DEF Profiles
<1>9. dream' = [status |-> "pending", id |-> id, version |-> 0, attempts |-> 0, token |-> 0]
  BY <1>1 DEF NoDream
<1> HIDE DEF id
<1>4. /\ dream' \in DreamRow
      /\ dream'.id[2] = profile.observed /\ dream'.id[3] = through
  BY <1>8, <1>9 DEF DreamRow
<1>5. UserProfileTypeOK'
  BY <1>1, <1>3, <1>4 DEF DreamInv, UserProfileTypeOK, Profiles
<1>6. profile.observed < through
  BY <1>1, <1>2 DEF Backlog, Profiles
<1>7. DreamsInOrder'
  BY <1>1, <1>2, <1>3, <1>4, <1>6 DEF DreamInv, DreamsInOrder, Profiles
<1> QED
  BY <1>1, <1>3, <1>5, <1>7 DEF DreamInv, ForgottenStays, Projected, EachEventOnce, Behind,
     OneEventPerTurn

LEMMA ClaimDreamStep == DreamInv /\ ClaimDream => DreamInv'
<1> SUFFICES ASSUME DreamInv, ClaimDream PROVE DreamInv'
  OBVIOUS
<1>1. dream \in DreamRow /\ dreamClaims' \in Nat
  BY DEF DreamInv, UserProfileTypeOK, ClaimDream
<1>2. /\ dream' \in DreamRow /\ dream'.id = dream.id /\ dream'.status = "processing"
      /\ dream.status # "none"
  <2>1. dream' = [dream EXCEPT !.status = "processing", !.version = dream.version + 1,
                               !.attempts = dream.attempts + 1, !.token = dreamClaims']
    BY DEF ClaimDream
  <2>2. dream.version + 1 \in Nat /\ dream.attempts + 1 \in Nat
    BY <1>1 DEF DreamRow
  <2>3. dream' \in DreamRow
    BY <1>1, <2>1, <2>2, DreamRowMoves
  <2>4. dream'.id = dream.id /\ dream'.status = "processing"
    BY <1>1, <2>1 DEF DreamRow
  <2> QED
    BY <2>3, <2>4 DEF ClaimDream
<1>3. Sources(dream.id) \in SUBSET (Nat \X Turns)
  BY SourcesType DEF DreamInv
<1> DEFINE claim == [activity |-> dream', sources |-> Sources(dream.id)]
<1>4. dreaming' = dreaming \cup {claim} /\ claim.activity.status = "processing"
  BY <1>2 DEF ClaimDream
<1>5. claim \in [activity : DreamRow, sources : SUBSET (Nat \X Turns)]
  BY <1>2, <1>3
<1>6. UserProfileTypeOK'
  BY <1>1, <1>2, <1>4, <1>5 DEF DreamInv, UserProfileTypeOK, ClaimDream
<1> HIDE DEF claim
<1> QED
  BY <1>2, <1>4, <1>6, DreamQuietSteps DEF ClaimDream

LEMMA RecoveredRows ==
  ASSUME dream \in DreamRow
  PROVE  /\ Postponed \in DreamRow /\ Postponed.id = dream.id
         /\ GivenUp \in DreamRow /\ GivenUp.id = dream.id
<1>1. dream.version + 1 \in Nat
  BY DEF DreamRow
<1>2. Postponed \in DreamRow /\ GivenUp \in DreamRow
  BY <1>1, DreamRowMoves DEF Postponed, GivenUp
<1>3. Postponed.id = dream.id /\ GivenUp.id = dream.id
  BY DEF Postponed, GivenUp, DreamRow
<1> QED
  BY <1>2, <1>3

LEMMA RecoverDreamStep == DreamInv /\ RecoverDream => DreamInv'
<1> SUFFICES ASSUME DreamInv, RecoverDream PROVE DreamInv'
  OBVIOUS
<1>1. dream \in DreamRow /\ dreamFaults' \in Nat
  BY DEF DreamInv, UserProfileTypeOK, RecoverDream, DreamFault
<1>2. dream' \in DreamRow /\ dream'.id = dream.id /\ dream.status # "none"
  BY <1>1, RecoveredRows DEF RecoverDream
<1>3. UserProfileTypeOK'
  BY <1>1, <1>2 DEF DreamInv, UserProfileTypeOK, RecoverDream
<1> QED
  BY <1>2, <1>3, DreamQuietSteps DEF RecoverDream

LEMMA DreamFailsStep ==
  ASSUME DreamInv, NEW c \in dreaming, NEW retryable \in BOOLEAN, DreamFails(c, retryable)
  PROVE  DreamInv'
<1>1. dream \in DreamRow
  BY DEF DreamInv, UserProfileTypeOK
<1>2. dream = c.activity => dream.status # "none"
  BY DEF DreamInv, DreamsInOrder
<1>3. \/ dream' = dream
      \/ dream = c.activity /\ (dream' = Postponed \/ dream' = GivenUp)
  BY DEF DreamFails
<1>4. dream' \in DreamRow /\ dream'.id = dream.id
  BY <1>1, <1>3, RecoveredRows
<1>5. dream'.status = "none" \/ dream.status # "none"
  BY <1>2, <1>3
<1>6. UserProfileTypeOK'
  BY <1>4 DEF DreamInv, UserProfileTypeOK, DreamFails
<1>7. \A d \in dreaming' : d \in dreaming
  BY DEF DreamFails
<1> QED
  BY <1>4, <1>5, <1>6, <1>7, DreamQuietSteps DEF DreamFails

LEMMA DreamCrashStep == DreamInv /\ DreamCrash => DreamInv'
<1> SUFFICES ASSUME DreamInv, DreamCrash PROVE DreamInv'
  OBVIOUS
<1>1. UserProfileTypeOK'
  BY DEF DreamInv, UserProfileTypeOK, DreamCrash, DreamFault
<1> QED
  BY <1>1 DEF DreamCrash, DreamInv, ForgottenStays, Projected, EachEventOnce, Behind,
     OneEventPerTurn, DreamsInOrder

(* A dream that is still the row's, and whose baseline stands, considers    *)
(* exactly the turns whose events lie between the old watermark and the     *)
(* new one.                                                                 *)
LEMMA BatchIsNew ==
  ASSUME DreamInv, NEW c \in dreaming, OwnsDream(c), BaselineStands(c)
  PROVE  /\ Watermark(c) \in Nat
         /\ profile.observed <= Watermark(c) /\ Watermark(c) <= lastEvent
         /\ \A t : (\E s \in c.sources : s[2] = t) <=>
              \E e \in DOMAIN evidence :
                profile.observed < e /\ e <= Watermark(c) /\ evidence[e] = t
<1>1. dream = c.activity /\ c.sources = Sources(dream.id)
  BY DEF OwnsDream
<1>2. dream \in DreamRow /\ dream.status # "none"
  BY <1>1 DEF DreamInv, UserProfileTypeOK, DreamsInOrder
<1>3. profile.observed = dream.id[2] /\ Watermark(c) = dream.id[3]
  BY <1>1 DEF BaselineStands, Watermark
<1>4. dream.id[2] <= dream.id[3] /\ dream.id[3] <= lastEvent /\ dream.id[3] \in Nat
  BY <1>2 DEF DreamInv, DreamsInOrder, DreamRow
<1>5. \A t : (\E s \in c.sources : s[2] = t) <=>
              \E e \in DOMAIN evidence :
                profile.observed < e /\ e <= Watermark(c) /\ evidence[e] = t
  <2>1. \A s : s \in c.sources <=>
          \E e \in DOMAIN evidence :
            profile.observed < e /\ e <= Watermark(c) /\ s = <<e, evidence[e]>>
    BY <1>1, <1>3, Zenon DEF Sources
  <2>2. \A e : <<e, evidence[e]>>[2] = evidence[e]
    OBVIOUS
  <2>3. ASSUME NEW s \in c.sources
        PROVE  \E e \in DOMAIN evidence :
                 profile.observed < e /\ e <= Watermark(c) /\ evidence[e] = s[2]
    BY <2>1, <2>2
  <2>4. ASSUME NEW e \in DOMAIN evidence, profile.observed < e, e <= Watermark(c)
        PROVE  \E s \in c.sources : s[2] = evidence[e]
    <3>1. <<e, evidence[e]>> \in c.sources
      BY <2>1, <2>4
    <3> QED
      BY <2>2, <3>1
  <2> QED
    BY <2>3, <2>4
<1> QED
  BY <1>3, <1>4, <1>5

LEMMA CompleteDreamStep ==
  ASSUME DreamInv, NEW c \in dreaming, NEW changed \in BOOLEAN, CompleteDream(c, changed)
  PROVE  DreamInv'
<1>1. CASE OwnsDream(c) /\ BaselineStands(c)
  <2>1. /\ profile' = [profile EXCEPT !.revision = IF changed THEN @ + 1 ELSE @,
                                      !.observed = Watermark(c), !.eligible = TRUE]
        /\ considered' = [t \in Turns |->
             considered[t] + IF \E s \in c.sources : s[2] = t THEN 1 ELSE 0]
        /\ dream' = NoDream
        /\ dreaming' = dreaming \ {c}
        /\ UNCHANGED <<created, completed, reading, evidence, lastEvent, dreamClaims, commands,
                       dreamFaults>>
    BY <1>1 DEF CompleteDream
  <2>2. /\ Watermark(c) \in Nat
        /\ profile.observed <= Watermark(c) /\ Watermark(c) <= lastEvent
        /\ \A t : (\E s \in c.sources : s[2] = t) <=>
              \E e \in DOMAIN evidence :
                profile.observed < e /\ e <= Watermark(c) /\ evidence[e] = t
    BY <1>1, BatchIsNew
  <2>3. /\ profile' \in Profiles
        /\ profile'.observed = Watermark(c) /\ profile'.forgotten = profile.forgotten
    <3>1. profile \in Profiles
      BY DEF DreamInv, UserProfileTypeOK, Profiles
    <3> DEFINE next == IF changed THEN profile.revision + 1 ELSE profile.revision
    <3>2. next \in Nat
      BY <3>1 DEF Profiles
    <3>3. profile' = [profile EXCEPT !.revision = next, !.observed = Watermark(c),
                                     !.eligible = TRUE]
      BY <2>1
    <3> HIDE DEF next
    <3> QED
      BY <2>2, <3>1, <3>2, <3>3 DEF Profiles
  <2>4. considered \in [Turns -> Nat] /\ considered' \in [Turns -> Nat]
    BY <2>1 DEF DreamInv, UserProfileTypeOK
  <2>5. UserProfileTypeOK'
    <3>1. dream' \in DreamRow
      BY <2>1, NoProfileIsProfile
    <3> QED
      BY <2>1, <2>3, <2>4, <3>1 DEF DreamInv, UserProfileTypeOK, Profiles
  <2>6. \A t \in Turns : considered'[t] > 0 => considered[t] > 0 \/ t \in Projected
    BY <2>1, <2>2, <2>4 DEF Projected
  <2>7. ForgottenStays'
    BY <2>1, <2>3, <2>6 DEF DreamInv, ForgottenStays, Projected
  <2>8. ASSUME NEW t \in Turns
        PROVE  considered'[t] = IF Behind(t)' THEN 1 ELSE 0
    <3> DEFINE New == \E e \in DOMAIN evidence :
                        profile.observed < e /\ e <= Watermark(c) /\ evidence[e] = t
    <3>1. considered[t] = IF Behind(t) THEN 1 ELSE 0
      BY DEF DreamInv, EachEventOnce
    <3>2. considered'[t] = considered[t] + IF New THEN 1 ELSE 0
      BY <2>1, <2>2
    <3>3. DOMAIN evidence \subseteq Nat /\ profile.observed \in Nat
      BY DEF DreamInv, UserProfileTypeOK
    <3>4. Behind(t)' <=> Behind(t) \/ New
      BY <2>1, <2>2, <2>3, <3>3 DEF Behind
    <3>5. ~(Behind(t) /\ New)
      BY <3>3 DEF Behind, DreamInv, OneEventPerTurn
    <3> HIDE DEF New
    <3> QED
      BY <3>1, <3>2, <3>4, <3>5
  <2>9. EachEventOnce'
    BY <2>8 DEF EachEventOnce
  <2>10. OneEventPerTurn'
    BY <2>1 DEF DreamInv, OneEventPerTurn
  <2>11. DreamsInOrder'
    BY <2>1, <2>2, <2>3 DEF DreamInv, DreamsInOrder, NoDream
  <2> QED
    BY <2>5, <2>7, <2>9, <2>10, <2>11 DEF DreamInv
<1>2. CASE ~(OwnsDream(c) /\ BaselineStands(c))
  <2>1. /\ UNCHANGED <<created, completed, reading, evidence, lastEvent, profile, considered,
                       dream, dreamClaims, commands, dreamFaults>>
        /\ dreaming' = dreaming \ {c}
    BY <1>2 DEF CompleteDream
  <2>2. UserProfileTypeOK'
    BY <2>1 DEF DreamInv, UserProfileTypeOK
  <2> QED
    BY <2>1, <2>2 DEF DreamInv, ForgottenStays, Projected, EachEventOnce, Behind, OneEventPerTurn,
       DreamsInOrder
<1> QED
  BY <1>1, <1>2

----------------------------------------------------------------------------
LEMMA ResetProfileStep ==
  ASSUME DreamInv, NEW at \in 0 .. created, ResetProfile(at)
  PROVE  DreamInv'
<1>0. at \in Nat
  BY UserProfileAssumption DEF DreamInv, UserProfileTypeOK
<1>1. CASE profile.forgotten > at
  <2>1. UserProfileTypeOK'
    BY <1>1 DEF DreamInv, UserProfileTypeOK, ResetProfile
  <2> QED
    BY <1>1, <2>1 DEF ResetProfile, DreamInv, ForgottenStays, Projected, EachEventOnce, Behind,
       OneEventPerTurn, DreamsInOrder
<1>2. CASE ~(profile.forgotten > at)
  <2>1. /\ profile' = [NoProfile EXCEPT !.exists = TRUE, !.forgotten = at]
        /\ considered' = [t \in Turns |-> 0]
        /\ dream' = NoDream
        /\ evidence' = [e \in {e \in DOMAIN evidence : evidence[e] > at} |-> evidence[e]]
        /\ commands' = commands + 1
        /\ UNCHANGED <<created, completed, reading, lastEvent, dreaming, dreamClaims,
                       dreamFaults>>
    BY <1>2 DEF ResetProfile
  <2>2. profile' \in Profiles /\ profile'.observed = 0 /\ profile'.forgotten = at
    BY <1>0, <2>1 DEF NoProfile, Profiles
  <2>3. /\ DOMAIN evidence' = {e \in DOMAIN evidence : evidence[e] > at}
        /\ \A e \in DOMAIN evidence' : evidence'[e] = evidence[e]
    BY <2>1
  <2>4. /\ DOMAIN evidence' \subseteq 1 .. lastEvent
        /\ evidence' \in [DOMAIN evidence' -> Turns]
    BY <2>1, <2>3 DEF DreamInv, UserProfileTypeOK
  <2>5. considered' \in [Turns -> Nat] /\ \A t \in Turns : considered'[t] = 0
    BY <2>1
  <2>6. UserProfileTypeOK'
    BY <2>1, <2>2, <2>4, <2>5, NoProfileIsProfile DEF DreamInv, UserProfileTypeOK, Profiles
  <2>7. ForgottenStays'
    BY <2>2, <2>3, <2>5 DEF ForgottenStays, Projected
  <2>8. \A t \in Turns : ~Behind(t)'
    BY <2>2, <2>4 DEF Behind, DreamInv, UserProfileTypeOK
  <2>9. EachEventOnce'
    BY <2>5, <2>8 DEF EachEventOnce
  <2>10. OneEventPerTurn'
    BY <2>3 DEF DreamInv, OneEventPerTurn
  <2>11. DreamsInOrder'
    BY <2>1, <2>2 DEF DreamInv, DreamsInOrder, UserProfileTypeOK, NoDream
  <2> QED
    BY <2>6, <2>7, <2>9, <2>10, <2>11 DEF DreamInv
<1> QED
  BY <1>1, <1>2

LEMMA RegenerateStep ==
  ASSUME DreamInv, NEW at \in 0 .. created, Regenerate(at)
  PROVE  DreamInv'
<1>1. /\ profile' \in Profiles
      /\ profile'.observed = profile.observed /\ profile'.forgotten = profile.forgotten
  BY DEF DreamInv, UserProfileTypeOK, Profiles, Regenerate
<1>2. /\ dream' = dream \/ dream' = NoDream
      /\ commands' \in Nat
      /\ UNCHANGED <<created, completed, reading, evidence, lastEvent, considered, dreaming,
                     dreamClaims, dreamFaults>>
  BY DEF Regenerate, DreamInv, UserProfileTypeOK
<1>3. dream' \in DreamRow
  BY <1>2, NoProfileIsProfile DEF DreamInv, UserProfileTypeOK
<1>4. UserProfileTypeOK'
  BY <1>1, <1>2, <1>3 DEF DreamInv, UserProfileTypeOK, Profiles
<1>5. \/ dream'.status = "none"
      \/ dream'.id = dream.id /\ dream.status # "none"
  BY <1>2 DEF NoDream
<1> QED
  BY <1>1, <1>2, <1>4, <1>5, DreamQuietSteps

LEMMA DreamInvNext == DreamInv /\ [UserProfileNext]_dreamVars => DreamInv'
<1> SUFFICES ASSUME DreamInv, [UserProfileNext]_dreamVars PROVE DreamInv'
  OBVIOUS
<1>1. CASE UNCHANGED dreamVars
  BY <1>1 DEF dreamVars, DreamInv, UserProfileTypeOK, ForgottenStays, Projected, EachEventOnce,
     Behind, OneEventPerTurn, DreamsInOrder
<1>2. CASE CreateTurn \/ ReadSources \/ ProjectEvidence
  BY <1>2, CreateTurnStep, ReadSourcesStep, ProjectEvidenceStep
<1>3. CASE \E t \in Turns : CompleteTurn(t)
  BY <1>3, CompleteTurnStep
<1>4. CASE \E through \in 1 .. lastEvent : EnqueueDream(through)
  BY <1>4, EnqueueDreamStep
<1>5. CASE ClaimDream \/ RecoverDream \/ DreamCrash
  BY <1>5, ClaimDreamStep, RecoverDreamStep, DreamCrashStep
<1>6. CASE \E c \in dreaming, b \in BOOLEAN : CompleteDream(c, b) \/ DreamFails(c, b)
  BY <1>6, CompleteDreamStep, DreamFailsStep
<1>7. CASE \E at \in 0 .. created : ResetProfile(at) \/ Regenerate(at)
  BY <1>7, ResetProfileStep, RegenerateStep
<1> QED
  BY <1>1, <1>2, <1>3, <1>4, <1>5, <1>6, <1>7 DEF UserProfileNext

LEMMA DreamInvAlways == UserProfileSpec => []DreamInv
<1> QED
  BY DreamInit, DreamInvNext, PTL DEF UserProfileSpec

(* Profiles, evidence and dreams keep their types.                         *)
THEOREM UserProfileTypesCorrect == UserProfileSpec => []UserProfileTypeOK
<1>1. DreamInv => UserProfileTypeOK
  BY DEF DreamInv
<1> QED
  BY <1>1, DreamInvAlways, PTL

(* Whatever was read, projected or being dreamt when a reset was carried   *)
(* out: nothing said up to it comes back as evidence or in the profile.    *)
THEOREM ForgottenForGood == UserProfileSpec => []ForgottenStays
<1>1. DreamInv => ForgottenStays
  BY DEF DreamInv
<1> QED
  BY <1>1, DreamInvAlways, PTL

(* The watermark is exact: retries, recoveries, crashes and dreams that    *)
(* come late consolidate no turn twice and skip none.                      *)
THEOREM ConsolidatedOnce == UserProfileSpec => []EachEventOnce
<1>1. DreamInv => EachEventOnce
  BY DEF DreamInv
<1> QED
  BY <1>1, DreamInvAlways, PTL

-----------------------------------------------------------------------------
(***************************************************************************)
(* The administrator's report, proved for any finite audience and any      *)
(* number of attempts, claims and faults.                                  *)
(***************************************************************************)
ReceiptRow == [status : {"none", "blocked", "pending", "processing", "retry_wait"} \cup Terminal,
            attempts : Nat, token : Nat]

Expansion == [of : Recipients, token : Nat, counts : DeliveryCounts,
              step : {"enqueue", "persist", "failed"}]

(* What each state of the announcement says of the audience and of the     *)
(* report's row.                                                           *)
StagesTell ==
  /\ announcement = "none" => recipient["completion"].status = "none"
  /\ announcement = "expanding" =>
       ~AudienceSettled(recipient) /\ recipient["completion"].status = "blocked"
  /\ announcement = "delivering" =>
       AudienceSettled(recipient) /\ recipient["completion"].status = "blocked"
  /\ announcement = "completed" =>
       /\ AudienceSettled(recipient) /\ DeliveryEnded
       /\ recipient["completion"].status # "blocked"

(* No receipt is expanded without its message, whoever enqueued it.        *)
Enqueued ==
  /\ \A c \in expanding : c.step = "persist" => outbound[c.of] # "none"
  /\ \A r \in Recipients : recipient[r].status = "expanded" => outbound[r] # "none"

(* The report is worked on once the announcement is completed, and every   *)
(* claim of it took the same counts along.                                 *)
Reported ==
  /\ outbound["completion"] # "none" => announcement = "completed" /\ report = Counts
  /\ \A c \in expanding :
       c.of = "completion" => announcement = "completed" /\ c.counts = Counts

ReportInv == AnnouncementTypeOK /\ StagesTell /\ Enqueued /\ Reported

----------------------------------------------------------------------------
LEMMA CountsFinite ==
  /\ IsFiniteSet(Audience)
  /\ \A S \in SUBSET Audience : IsFiniteSet(S) /\ Cardinality(S) \in Nat
<1>1. IsFiniteSet(Audience)
  BY AnnouncementAssumption, FS_Subset DEF Audience
<1>2. \A S \in SUBSET Audience : IsFiniteSet(S)
  BY <1>1, FS_Subset
<1> QED
  BY <1>1, <1>2, FS_CardinalityType

LEMMA CountsType == Counts \in DeliveryCounts
<1>1. /\ Expanded({"delivered"}) \in SUBSET Audience
      /\ {r \in Audience : recipient[r].status = "failed_final"} \cup Expanded(Undelivered)
           \in SUBSET Audience
  BY DEF Expanded
<1>2. /\ Cardinality(Expanded({"delivered"})) \in Nat
      /\ Cardinality({r \in Audience : recipient[r].status = "failed_final"}
                       \cup Expanded(Undelivered)) \in Nat
  BY <1>1, CountsFinite
<1> QED
  BY <1>2 DEF Counts, DeliveryCounts

(* At the end everybody is counted exactly once.                           *)
LEMMA EverybodyCounted ==
  ASSUME ReportInv, announcement = "completed"
  PROVE  Counts.delivered + Counts.failed = Cardinality(Audience)
<1> DEFINE D == Expanded({"delivered"})
           F == {r \in Audience : recipient[r].status = "failed_final"} \cup Expanded(Undelivered)
<1>1. ASSUME NEW r \in Audience
      PROVE  r \in D \cup F /\ ~(r \in D /\ r \in F)
  <2>1. r \in Recipients /\ recipient[r].status \in Terminal
    BY DEF ReportInv, StagesTell, AudienceSettled, Audience, Recipients
  <2>2. recipient[r].status = "expanded" =>
          outbound[r] \in {"delivered"} \cup Undelivered
    BY <2>1 DEF ReportInv, AnnouncementTypeOK, Enqueued, StagesTell, DeliveryEnded, Expanded
  <2> QED
    BY <2>1, <2>2 DEF Expanded, Terminal, Undelivered
<1>2. D \in SUBSET Audience /\ F \in SUBSET Audience
  BY DEF Expanded
<1>3. D \cup F = Audience /\ D \cap F = {}
  BY <1>1, <1>2
<1>4. Counts.delivered = Cardinality(D) /\ Counts.failed = Cardinality(F)
  BY DEF Counts
<1>5. IsFiniteSet(D) /\ IsFiniteSet(F) /\ Cardinality(D) \in Nat /\ Cardinality(F) \in Nat
  BY <1>2, CountsFinite
<1> HIDE DEF D, F
<1>6. Cardinality(D \cup F) = Cardinality(D) + Cardinality(F) - Cardinality(D \cap F)
  BY <1>5, FS_Union
<1>7. Cardinality(D \cap F) = 0
  BY <1>3, FS_EmptySet
<1>8. Cardinality(D \cup F) = Cardinality(Audience)
  BY <1>3, Zenon
<1> QED
  BY <1>4, <1>5, <1>6, <1>7, <1>8

(* What counts does not change any more once the receipts are settled and  *)
(* their messages delivered or given up.                                   *)
LEMMA OutcomesStay ==
  ASSUME Audience' = Audience,
         \A r \in Audience : recipient'[r].status = recipient[r].status,
         \A r \in Audience : recipient[r].status = "expanded" => outbound'[r] = outbound[r]
  PROVE  /\ Counts' = Counts
         /\ DeliveryEnded' <=> DeliveryEnded
         /\ AudienceSettled(recipient)' <=> AudienceSettled(recipient)
<1>1. \A how : Expanded(how)' = Expanded(how)
  BY DEF Expanded
<1>2. {r \in Audience : recipient[r].status = "failed_final"}'
        = {r \in Audience : recipient[r].status = "failed_final"}
  OBVIOUS
<1>3. Counts' = Counts
  BY <1>1, <1>2 DEF Counts
<1>4. DeliveryEnded' <=> DeliveryEnded
  BY <1>1 DEF DeliveryEnded
<1>5. AudienceSettled(recipient)' <=> AudienceSettled(recipient)
  BY DEF AudienceSettled
<1> QED
  BY <1>3, <1>4, <1>5

(* Steps that touch no receipt and let no message disappear.               *)
LEMMA ReportQuietSteps ==
  ASSUME ReportInv, AnnouncementTypeOK', UNCHANGED <<announcement, recipient, report>>,
         \A r \in Recipients :
           \/ outbound'[r] = outbound[r]
           \/ /\ outbound[r] = "pending" \/ recipient[r].status # "expanded"
              /\ outbound'[r] # "none"
              /\ outbound'[r] # "pending" \/ recipient[r].status # "expanded"
              /\ r # "completion" \/ outbound[r] # "none",
         \A c \in expanding' :
           /\ c.step = "persist" => outbound'[c.of] # "none"
           /\ \E d \in expanding : c.of = d.of /\ c.counts = d.counts
  PROVE  ReportInv'
<1>1. Audience' = Audience
  BY DEF Audience
<1>2. Audience \subseteq Recipients /\ "completion" \in Recipients
  BY DEF Audience, Recipients
<1>3. announcement = "completed" =>
        \A r \in Audience : recipient[r].status = "expanded" => outbound[r] # "pending"
  BY DEF ReportInv, StagesTell, DeliveryEnded, Expanded
<1>4. ASSUME announcement = "completed"
      PROVE  Counts' = Counts /\ DeliveryEnded'
  <2>1. \A r \in Audience : recipient[r].status = "expanded" => outbound'[r] = outbound[r]
    BY <1>2, <1>3, <1>4
  <2> QED
    BY <1>1, <1>4, <2>1, OutcomesStay DEF ReportInv, StagesTell
<1>5. AudienceSettled(recipient)' <=> AudienceSettled(recipient)
  BY <1>1 DEF AudienceSettled
<1>6. StagesTell'
  BY <1>4, <1>5 DEF ReportInv, StagesTell
<1>7. Enqueued'
  BY DEF ReportInv, Enqueued
<1>8. Reported'
  BY <1>2, <1>4 DEF ReportInv, Reported
<1> QED
  BY <1>6, <1>7, <1>8 DEF ReportInv

(* Steps that move the row of one receipt and leave the announcement alone: *)
(* neither the row before nor the row after counts, or it is the report's. *)
LEMMA RowSteps ==
  ASSUME ReportInv, AnnouncementTypeOK', UNCHANGED <<announcement, outbound, report>>,
         NEW r \in Recipients,
         \A q \in Recipients : q # r => recipient'[q] = recipient[q],
         recipient[r].status \in {"pending", "retry_wait", "processing"},
         \/ recipient'[r].status \in {"pending", "retry_wait", "processing"}
         \/ r = "completion" /\ recipient'[r].status \in Terminal,
         recipient'[r].status = "expanded" => outbound[r] # "none",
         \A c \in expanding' :
           /\ c.step = "persist" => outbound[c.of] # "none"
           /\ \/ \E d \in expanding : c.of = d.of /\ c.counts = d.counts
              \/ c.of = r /\ c.counts = Counts
  PROVE  ReportInv'
<1>1. Audience' = Audience
  BY DEF Audience, Recipients, Terminal
<1>2. Audience \subseteq Recipients /\ "completion" \in Recipients /\ "completion" \notin Audience
  BY AnnouncementAssumption DEF Audience, Recipients
<1>3. r \in Chats => r \in Audience
  BY DEF Audience
<1>4. r = "completion" => announcement = "completed"
  BY DEF ReportInv, StagesTell, AnnouncementTypeOK
<1>5. announcement \in {"delivering", "completed"} => r = "completion"
  BY <1>3 DEF ReportInv, StagesTell, AudienceSettled, Terminal, Recipients
<1>6. ASSUME announcement \in {"delivering", "completed"}
      PROVE  /\ Counts' = Counts /\ (DeliveryEnded' <=> DeliveryEnded)
             /\ AudienceSettled(recipient)'
  <2>1. \A q \in Audience : recipient'[q] = recipient[q]
    BY <1>2, <1>5, <1>6
  <2> QED
    BY <1>1, <1>6, <2>1, OutcomesStay DEF ReportInv, StagesTell
<1>7. announcement = "expanding" => ~AudienceSettled(recipient)'
  BY <1>1, <1>2, <1>3, <1>4 DEF ReportInv, StagesTell, AudienceSettled, Terminal, Recipients
<1>8. announcement # "completed" => recipient'["completion"] = recipient["completion"]
  BY <1>2, <1>4 DEF ReportInv, StagesTell
<1>9. announcement = "completed" => recipient'["completion"].status # "blocked"
  BY <1>2, <1>5 DEF Terminal
<1>10. StagesTell'
  BY <1>6, <1>7, <1>8, <1>9 DEF ReportInv, StagesTell
<1>11. Enqueued'
  BY DEF ReportInv, Enqueued
<1>12. outbound["completion"] # "none" => announcement = "completed" /\ report = Counts'
  BY <1>6 DEF ReportInv, Reported
<1>13. Reported'
  BY <1>4, <1>6, <1>12 DEF ReportInv, Reported
<1> QED
  BY <1>10, <1>11, <1>13 DEF ReportInv

----------------------------------------------------------------------------
LEMMA AnnouncementInitially == AnnouncementInit => ReportInv
<1> SUFFICES ASSUME AnnouncementInit PROVE ReportInv
  OBVIOUS
<1>1. NoRecipient \in ReceiptRow /\ "completion" \in Recipients
  BY DEF NoRecipient, ReceiptRow, Recipients
<1>2. recipient \in [Recipients -> ReceiptRow]
  BY <1>1 DEF AnnouncementInit
<1>3. AnnouncementTypeOK
  BY <1>2 DEF AnnouncementInit, AnnouncementTypeOK, ReceiptRow, Unsent, DeliveryCounts
<1>4. StagesTell /\ Enqueued /\ Reported
  BY <1>1 DEF AnnouncementInit, StagesTell, Enqueued, Reported, NoRecipient
<1> QED
  BY <1>3, <1>4 DEF ReportInv

LEMMA AcceptAnnouncementStep ==
  ASSUME ReportInv, NEW audience \in SUBSET Chats, AcceptAnnouncement(audience)
  PROVE  ReportInv'
<1> DEFINE state(r) == CASE r \in audience -> "pending" [] r = "completion" -> "blocked"
                         [] OTHER -> "none"
<1>1. /\ announcement = "none"
      /\ announcement' = IF audience = {} THEN "delivering" ELSE "expanding"
      /\ recipient' = [r \in Recipients |-> [NoRecipient EXCEPT !.status = state(r)]]
      /\ UNCHANGED <<outbound, report, expanding, receiptClaims, announcementFaults>>
  BY DEF AcceptAnnouncement
<1>2. /\ \A r \in audience : state(r) = "pending"
      /\ state("completion") = "blocked"
      /\ \A r \in Chats \ audience : state(r) = "none"
  BY AnnouncementAssumption
<1>3. \A r \in Recipients : state(r) \in {"none", "blocked", "pending"}
  OBVIOUS
<1> HIDE DEF state
<1>4. /\ recipient' \in [Recipients -> ReceiptRow]
      /\ \A r \in Recipients : recipient'[r].status = state(r)
  BY <1>1, <1>3 DEF NoRecipient, ReceiptRow
<1>5. AnnouncementTypeOK'
  BY <1>1, <1>4 DEF ReportInv, AnnouncementTypeOK, ReceiptRow
<1>6. Audience' = audience /\ "completion" \in Recipients
  BY <1>2, <1>4 DEF Audience, Recipients
<1>7. AudienceSettled(recipient)' <=> audience = {}
  BY <1>2, <1>4, <1>6 DEF AudienceSettled, Recipients, Terminal
<1>8. StagesTell'
  BY <1>1, <1>2, <1>4, <1>6, <1>7 DEF StagesTell
<1>9. Enqueued'
  BY <1>1, <1>3, <1>4 DEF ReportInv, Enqueued
<1>10. Reported'
  BY <1>1 DEF ReportInv, Reported
<1> QED
  BY <1>5, <1>8, <1>9, <1>10 DEF ReportInv

LEMMA PromoteCompletionStep == ReportInv /\ PromoteCompletion => ReportInv'
<1> SUFFICES ASSUME ReportInv, PromoteCompletion PROVE ReportInv'
  OBVIOUS
<1>1. "completion" \in Recipients /\ recipient \in [Recipients -> ReceiptRow]
  BY DEF ReportInv, AnnouncementTypeOK, Recipients, ReceiptRow
<1>2. /\ recipient' \in [Recipients -> ReceiptRow]
      /\ recipient'["completion"].status = "pending"
      /\ \A q \in Recipients : q # "completion" => recipient'[q] = recipient[q]
  BY <1>1 DEF PromoteCompletion, ReceiptRow
<1>3. AnnouncementTypeOK'
  BY <1>2 DEF ReportInv, AnnouncementTypeOK, PromoteCompletion, ReceiptRow
<1>4. Audience' = Audience /\ \A r \in Audience : recipient'[r] = recipient[r]
  BY <1>2, AnnouncementAssumption DEF Audience, Recipients
<1>5. /\ DeliveryEnded' <=> DeliveryEnded
      /\ AudienceSettled(recipient)' <=> AudienceSettled(recipient)
  BY <1>4, OutcomesStay DEF PromoteCompletion
<1>6. StagesTell'
  BY <1>2, <1>5 DEF ReportInv, StagesTell, PromoteCompletion
<1>7. Enqueued'
  BY <1>2 DEF ReportInv, Enqueued, PromoteCompletion
<1>8. Reported'
  BY DEF ReportInv, Reported, PromoteCompletion
<1> QED
  BY <1>3, <1>6, <1>7, <1>8 DEF ReportInv

LEMMA ClaimRecipientStep ==
  ASSUME ReportInv, NEW r \in Recipients, ClaimRecipient(r)
  PROVE  ReportInv'
<1> DEFINE claim == [of |-> r, token |-> receiptClaims', counts |-> Counts, step |-> "enqueue"]
<1>1. /\ recipient[r].status \in {"pending", "retry_wait"}
      /\ receiptClaims' = receiptClaims + 1
      /\ recipient' = [recipient EXCEPT ![r] = [status |-> "processing",
                                                attempts |-> recipient[r].attempts + 1,
                                                token |-> receiptClaims']]
      /\ expanding' = expanding \cup {claim}
      /\ UNCHANGED <<announcement, outbound, report, announcementFaults>>
  BY DEF ClaimRecipient
<1>2. recipient \in [Recipients -> ReceiptRow] /\ receiptClaims' \in Nat
  BY <1>1 DEF ReportInv, AnnouncementTypeOK, ReceiptRow
<1>3. /\ recipient' \in [Recipients -> ReceiptRow]
      /\ recipient'[r].status = "processing"
      /\ \A q \in Recipients : q # r => recipient'[q] = recipient[q]
  BY <1>1, <1>2 DEF ReceiptRow
<1>4. claim \in Expansion
  BY <1>2, CountsType DEF Expansion
<1>5. AnnouncementTypeOK'
  BY <1>1, <1>2, <1>3, <1>4 DEF ReportInv, AnnouncementTypeOK, ReceiptRow, Expansion
<1>6. \A c \in expanding' :
           /\ c.step = "persist" => outbound[c.of] # "none"
           /\ \/ \E d \in expanding : c.of = d.of /\ c.counts = d.counts
              \/ c.of = r /\ c.counts = Counts
  <2>1. claim.step # "persist" /\ claim.of = r /\ claim.counts = Counts
    OBVIOUS
  <2> HIDE DEF claim
  <2> QED
    BY <1>1, <2>1 DEF ReportInv, Enqueued
<1> HIDE DEF claim
<1> QED
  BY <1>1, <1>3, <1>5, <1>6, RowSteps

(* A claim goes on: the set of claims keeps its type, and what they are    *)
(* about.                                                                  *)
LEMMA OnwardClaims ==
  ASSUME AnnouncementTypeOK, NEW c \in expanding, NEW step \in {"enqueue", "persist", "failed"},
         Onward(c, step)
  PROVE  /\ expanding' \subseteq Expansion
         /\ \A d \in expanding' :
              \/ d \in expanding
              \/ d.of = c.of /\ d.counts = c.counts /\ d.step = step
<1>1. c \in Expansion
  BY DEF AnnouncementTypeOK, Expansion
<1> DEFINE d == [c EXCEPT !.step = step]
<1>2. d \in Expansion /\ d.of = c.of /\ d.counts = c.counts /\ d.step = step
  BY <1>1 DEF Expansion
<1>3. expanding' = (expanding \ {c}) \cup {d}
  BY DEF Onward
<1> HIDE DEF d
<1> QED
  BY <1>2, <1>3 DEF AnnouncementTypeOK, Expansion

LEMMA EnqueueAnnouncementStep ==
  ASSUME ReportInv, NEW c \in expanding, EnqueueAnnouncement(c)
  PROVE  ReportInv'
<1>1. c \in Expansion /\ c.of \in Recipients /\ c.counts \in DeliveryCounts
  BY DEF ReportInv, AnnouncementTypeOK, Expansion
<1>2. PICK step \in {"persist", "failed"} :
        /\ Onward(c, step)
        /\ step = "persist" => outbound'[c.of] # "none"
  <2>1. outbound'[c.of] # "none"
    BY <1>1 DEF EnqueueAnnouncement, ReportInv, AnnouncementTypeOK
  <2> QED
    BY <2>1 DEF EnqueueAnnouncement
<1>3. /\ expanding' \subseteq Expansion
      /\ \A d \in expanding' :
           \/ d \in expanding
           \/ d.of = c.of /\ d.counts = c.counts /\ d.step = step
  BY <1>2, OnwardClaims DEF ReportInv
<1>4. /\ UNCHANGED <<announcement, recipient, receiptClaims, announcementFaults>>
      /\ \/ /\ outbound[c.of] = "none"
            /\ outbound' = [outbound EXCEPT ![c.of] = "pending"]
            /\ report' = IF c.of = "completion" THEN c.counts ELSE report
         \/ UNCHANGED <<outbound, report>>
  BY DEF EnqueueAnnouncement
<1>5. AnnouncementTypeOK'
  BY <1>1, <1>3, <1>4 DEF ReportInv, AnnouncementTypeOK, Expansion
<1>6. \A d \in expanding' :
        /\ d.step = "persist" => outbound'[d.of] # "none"
        /\ \E e \in expanding : d.of = e.of /\ d.counts = e.counts
  BY <1>1, <1>2, <1>3, <1>4 DEF ReportInv, AnnouncementTypeOK, Enqueued
<1>7. CASE c.of = "completion" /\ outbound[c.of] = "none"
  <2>1. announcement = "completed" /\ c.counts = Counts
    BY <1>7 DEF ReportInv, Reported
  <2>2. /\ outbound' = [outbound EXCEPT !["completion"] = "pending"]
        /\ report' = Counts
    BY <1>7, <2>1 DEF EnqueueAnnouncement
  <2>3. Audience' = Audience /\ "completion" \notin Audience /\ Audience \subseteq Recipients
    BY <1>4, AnnouncementAssumption DEF Audience, Recipients
  <2>4. \A r \in Audience : outbound'[r] = outbound[r]
    BY <2>2, <2>3 DEF ReportInv, AnnouncementTypeOK
  <2>5. /\ Counts' = Counts
        /\ DeliveryEnded' <=> DeliveryEnded
        /\ AudienceSettled(recipient)' <=> AudienceSettled(recipient)
    BY <1>4, <2>3, <2>4, OutcomesStay
  <2>6. StagesTell'
    BY <1>4, <2>1, <2>5 DEF ReportInv, StagesTell
  <2>7. Enqueued'
    BY <1>4, <1>6 DEF ReportInv, Enqueued, AnnouncementTypeOK
  <2>8. Reported'
    BY <1>4, <1>6, <2>1, <2>2, <2>5 DEF ReportInv, Reported
  <2> QED
    BY <1>5, <2>6, <2>7, <2>8 DEF ReportInv
<1>8. CASE ~(c.of = "completion" /\ outbound[c.of] = "none")
  <2>1. report' = report
    BY <1>4, <1>8
  <2>2. outbound[c.of] = "none" => recipient[c.of].status # "expanded"
    BY <1>1 DEF ReportInv, Enqueued
  <2>3. \A r \in Recipients :
           \/ outbound'[r] = outbound[r]
           \/ /\ recipient[r].status # "expanded"
              /\ outbound'[r] # "none"
              /\ r # "completion"
    BY <1>1, <1>4, <1>8, <2>2 DEF ReportInv, AnnouncementTypeOK
  <2> QED
    BY <1>4, <1>5, <1>6, <2>1, <2>3, ReportQuietSteps
<1> QED
  BY <1>7, <1>8

LEMMA ExpansionFailsStep ==
  ASSUME ReportInv, NEW c \in expanding, ExpansionFails(c)
  PROVE  ReportInv'
<1>1. /\ Onward(c, "failed")
      /\ UNCHANGED <<announcement, recipient, outbound, report, receiptClaims>>
      /\ announcementFaults' = announcementFaults + 1
  BY DEF ExpansionFails, AnnouncementFault
<1>2. /\ expanding' \subseteq Expansion
      /\ \A d \in expanding' :
           \/ d \in expanding
           \/ d.of = c.of /\ d.counts = c.counts /\ d.step = "failed"
  BY <1>1, OnwardClaims DEF ReportInv
<1>3. AnnouncementTypeOK'
  BY <1>1, <1>2 DEF ReportInv, AnnouncementTypeOK, Expansion
<1>4. \A d \in expanding' :
        /\ d.step = "persist" => outbound'[d.of] # "none"
        /\ \E e \in expanding : d.of = e.of /\ d.counts = e.counts
  BY <1>1, <1>2 DEF ReportInv, Enqueued
<1> QED
  BY <1>1, <1>3, <1>4, ReportQuietSteps

LEMMA ExpansionDroppedStep == ReportInv /\ ExpansionDropped => ReportInv'
<1> SUFFICES ASSUME ReportInv, ExpansionDropped PROVE ReportInv'
  OBVIOUS
<1>1. AnnouncementTypeOK'
  BY DEF ReportInv, AnnouncementTypeOK, ExpansionDropped, AnnouncementFault
<1> QED
  BY <1>1, ReportQuietSteps DEF ExpansionDropped

LEMMA OutboundEndsStep ==
  ASSUME ReportInv, NEW r \in Recipients, NEW how \in {"delivered"} \cup Undelivered,
         OutboundEnds(r, how)
  PROVE  ReportInv'
<1>1. AnnouncementTypeOK'
  BY DEF ReportInv, AnnouncementTypeOK, OutboundEnds
<1>2. \A q \in Recipients :
        \/ outbound'[q] = outbound[q]
        \/ outbound[q] = "pending" /\ outbound'[q] \notin {"none", "pending"}
  BY DEF ReportInv, AnnouncementTypeOK, OutboundEnds, Undelivered
<1>3. \A c \in expanding : c.of \in Recipients
  BY DEF ReportInv, AnnouncementTypeOK
<1>4. \A c \in expanding' :
        /\ c.step = "persist" => outbound'[c.of] # "none"
        /\ \E d \in expanding : c.of = d.of /\ c.counts = d.counts
  BY <1>2, <1>3 DEF ReportInv, Enqueued, OutboundEnds
<1> QED
  BY <1>1, <1>2, <1>4, ReportQuietSteps DEF OutboundEnds

LEMMA RecoverRecipientStep ==
  ASSUME ReportInv, NEW r \in Recipients, RecoverRecipient(r)
  PROVE  ReportInv'
<1>1. /\ recipient[r].status = "processing"
      /\ recipient' = [recipient EXCEPT ![r].status = "retry_wait", ![r].token = 0]
      /\ UNCHANGED <<announcement, outbound, report, expanding, receiptClaims>>
      /\ announcementFaults' \in Nat
  BY DEF RecoverRecipient, AnnouncementFault, ReportInv, AnnouncementTypeOK
<1>2. recipient \in [Recipients -> ReceiptRow]
  BY DEF ReportInv, AnnouncementTypeOK, ReceiptRow
<1>3. /\ recipient' \in [Recipients -> ReceiptRow]
      /\ recipient'[r].status = "retry_wait"
      /\ \A q \in Recipients : q # r => recipient'[q] = recipient[q]
  BY <1>1, <1>2 DEF ReceiptRow
<1>4. AnnouncementTypeOK'
  BY <1>1, <1>3 DEF ReportInv, AnnouncementTypeOK, ReceiptRow
<1>5. \A c \in expanding' : c \in expanding /\ (c.step = "persist" => outbound[c.of] # "none")
  BY <1>1 DEF ReportInv, Enqueued
<1> QED
  BY <1>1, <1>3, <1>4, <1>5, RowSteps

(* A settlement of a chat's receipt that it still owns: the announcement is *)
(* expanding, and goes on when this was the last one.                       *)
LEMMA ReportStep ==
  ASSUME ReportInv, NEW c \in expanding, NEW outcome \in Terminal \cup {"retry_wait"},
         outcome = "expanded" => outbound[c.of] # "none",
         SettleRecipient(c, outcome)
  PROVE  ReportInv'
<1>1. c.of \in Recipients /\ recipient \in [Recipients -> ReceiptRow]
  BY DEF ReportInv, AnnouncementTypeOK, ReceiptRow
<1>2. \A d \in expanding' : d \in expanding /\ (d.step = "persist" => outbound[d.of] # "none")
  BY DEF SettleRecipient, ReportInv, Enqueued
<1>3. CASE ~OwnsRecipient(c)
  <2>1. UNCHANGED <<recipient, announcement, outbound, report, receiptClaims, announcementFaults>>
    BY <1>3 DEF SettleRecipient
  <2>2. AnnouncementTypeOK'
    BY <1>2, <2>1 DEF ReportInv, AnnouncementTypeOK
  <2> QED
    BY <1>2, <2>1, <2>2, ReportQuietSteps
<1>4. CASE OwnsRecipient(c)
  <2>1. /\ recipient[c.of].status = "processing"
        /\ recipient' = [recipient EXCEPT ![c.of].status = outcome, ![c.of].token = 0]
        /\ UNCHANGED <<outbound, report, receiptClaims, announcementFaults>>
    BY <1>4 DEF SettleRecipient, OwnsRecipient, SettledAs
  <2>2. /\ recipient' \in [Recipients -> ReceiptRow]
        /\ recipient'[c.of].status = outcome
        /\ \A q \in Recipients : q # c.of => recipient'[q] = recipient[q]
    BY <1>1, <2>1 DEF ReceiptRow, Terminal
  <2>3. /\ announcement' = IF c.of # "completion" /\ outcome \in Terminal
                           THEN Advanced(recipient') ELSE announcement
        /\ announcement' \in {announcement, "delivering"}
    BY <1>4 DEF SettleRecipient, Advanced
  <2>4. AnnouncementTypeOK'
    BY <1>2, <2>1, <2>2, <2>3 DEF ReportInv, AnnouncementTypeOK, ReceiptRow
  <2>5. CASE c.of = "completion" \/ outcome = "retry_wait"
    <3>1. announcement' = announcement
      BY <2>3, <2>5 DEF Terminal
    <3> QED
      BY <1>1, <1>2, <2>1, <2>2, <2>4, <2>5, <3>1, RowSteps
  <2>6. CASE c.of # "completion" /\ outcome \in Terminal
    <3>1. c.of \in Audience /\ Audience' = Audience /\ Audience \subseteq Recipients
      BY <1>1, <2>1, <2>2, <2>6 DEF Audience, Recipients, Terminal
    <3>2. announcement \notin {"delivering", "completed"}
      BY <2>1, <3>1 DEF ReportInv, StagesTell, AudienceSettled, Terminal
    <3>3. announcement' = IF announcement = "expanding" /\ AudienceSettled(recipient)'
                          THEN "delivering" ELSE announcement
      BY <2>3, <2>6, <3>1 DEF Advanced, AudienceSettled
    <3>4. recipient'["completion"] = recipient["completion"]
      BY <2>2, <2>6 DEF Recipients
    <3>5. StagesTell'
      BY <3>2, <3>3, <3>4 DEF ReportInv, StagesTell
    <3>6. Enqueued'
      BY <1>2, <2>1, <2>2 DEF ReportInv, Enqueued
    <3>7. Reported'
      BY <1>2, <2>1, <3>2 DEF ReportInv, Reported
    <3> QED
      BY <2>4, <3>5, <3>6, <3>7 DEF ReportInv
  <2> QED
    BY <2>5, <2>6
<1> QED
  BY <1>3, <1>4

LEMMA PersistStep ==
  ASSUME ReportInv, NEW c \in expanding, PersistExpanded(c) \/ PersistFailure(c)
  PROVE  ReportInv'
<1>1. CASE PersistExpanded(c)
  BY <1>1, ReportStep DEF PersistExpanded, ReportInv, Enqueued, Terminal
<1>2. CASE PersistFailure(c)
  <2>1. PICK outcome \in {"failed_final", "retry_wait"} : SettleRecipient(c, outcome)
    BY <1>2 DEF PersistFailure
  <2> QED
    BY <2>1, ReportStep DEF Terminal
<1> QED
  BY <1>1, <1>2

----------------------------------------------------------------------------
LEMMA ReportInvNext == ReportInv /\ [AnnouncementNext]_announcementVars => ReportInv'
<1> SUFFICES ASSUME ReportInv, [AnnouncementNext]_announcementVars PROVE ReportInv'
  OBVIOUS
<1>1. CASE UNCHANGED announcementVars
  <2>1. AnnouncementTypeOK'
    BY <1>1 DEF announcementVars, ReportInv, AnnouncementTypeOK
  <2> QED
    BY <1>1, <2>1, ReportQuietSteps DEF announcementVars, ReportInv, Enqueued
<1>2. CASE \E audience \in SUBSET Chats : AcceptAnnouncement(audience)
  BY <1>2, AcceptAnnouncementStep
<1>3. CASE PromoteCompletion \/ ExpansionDropped
  BY <1>3, PromoteCompletionStep, ExpansionDroppedStep
<1>4. CASE \E r \in Recipients : ClaimRecipient(r) \/ RecoverRecipient(r)
  BY <1>4, ClaimRecipientStep, RecoverRecipientStep
<1>5. CASE \E r \in Recipients, how \in {"delivered"} \cup Undelivered : OutboundEnds(r, how)
  BY <1>5, OutboundEndsStep
<1>6. CASE \E c \in expanding : EnqueueAnnouncement(c) \/ ExpansionFails(c)
  BY <1>6, EnqueueAnnouncementStep, ExpansionFailsStep
<1>7. CASE \E c \in expanding : PersistExpanded(c) \/ PersistFailure(c)
  BY <1>7, PersistStep
<1> QED
  BY <1>1, <1>2, <1>3, <1>4, <1>5, <1>6, <1>7 DEF AnnouncementNext

LEMMA ReportInvAlways == AnnouncementSpec => []ReportInv
<1> QED
  BY AnnouncementInitially, ReportInvNext, PTL DEF AnnouncementSpec

(* Announcements, receipts and claims keep their types.                    *)
THEOREM AnnouncementTypesCorrect == AnnouncementSpec => []AnnouncementTypeOK
<1>1. ReportInv => AnnouncementTypeOK
  BY DEF ReportInv
<1> QED
  BY <1>1, ReportInvAlways, PTL

(* The report comes after everybody's final outcome and counts everybody   *)
(* once, whatever was retried, recovered, failed or lost.                  *)
THEOREM ReportIsComplete == AnnouncementSpec => []ReportComplete
<1>1. ReportInv => ReportComplete
  <2> SUFFICES ASSUME ReportInv PROVE ReportComplete
    OBVIOUS
  <2>1. announcement = "completed" => Counts.delivered + Counts.failed = Cardinality(Audience)
    BY EverybodyCounted
  <2> QED
    BY <2>1 DEF ReportInv, StagesTell, Reported, ReportComplete
<1> QED
  BY <1>1, ReportInvAlways, PTL

-----------------------------------------------------------------------------
(***************************************************************************)
(* What becomes of a member who joins, proved for any number of creations, *)
(* joins and faults.                                                       *)
(***************************************************************************)
TaskStatus == {"none", "creating", "pending", "passed", "expired", "cancelled"} \cup Delivering

Tasks == [status : TaskStatus, version : Nat, creation : Creations \cup {0},
          message : Creations \cup {0}, next : {"never", "now", "recovery", "expiry"},
          claim : Nat]

EffectNames == {"restore", "ban", "unban"}

Hands == [token : Nat, version : Nat, status : Delivering, creation : Creations,
          todo : Seq(EffectNames)]

Begun(c) == handler[c] # "none"

(* Every version belongs to one creation, the one in the row, or to none;  *)
(* what a creation was given stays below the row's version from the moment *)
(* anything else happened to the row.                                      *)
VersionsTell ==
  /\ task.claim <= granted
  /\ task.status = "none" =>
       /\ \A c \in Creations : ~Begun(c)
       /\ inHand = {} /\ \A kind \in {"pass", "left"} : request[kind] = NoRequest
  /\ task.status # "none" => task.creation \in Creations /\ Begun(task.creation)
  /\ task.status = "creating" =>
       task.version = opened[task.creation] /\ task.message = 0 /\ task.claim = 0
  /\ task.status = "pending" =>
       /\ task.version = opened[task.creation] + 1
       /\ task.message = task.creation /\ task.claim = 0
  /\ \A c \in Creations : Begun(c) =>
       /\ opened[c] <= task.version
       /\ opened[c] = task.version => c = task.creation /\ task.status = "creating"

(* A request whose version is still the row's knows the row's status.      *)
RequestsTell ==
  /\ \A kind \in {"pass", "left"} :
       request[kind] # NoRequest => request[kind].version <= task.version
  /\ request["pass"] # NoRequest /\ request["pass"].version = task.version =>
       task.status = "pending"
  /\ request["left"] # NoRequest /\ request["left"].version = task.version =>
       task.status \in {"creating", "pending"}

(* What a claim has still to do, and what it has done of its effects.      *)
ClaimUnderway(h) ==
  \/ /\ h.status = "passing"
     /\ \/ h.todo = <<"restore">>
        \/ h.todo = <<>> /\ <<h.creation, "restore">> \in told
  \/ /\ h.status = "expiring"
     /\ \/ h.todo = <<"ban", "unban">>
        \/ h.todo = <<"unban">> /\ <<h.creation, "ban">> \in told
        \/ h.todo = <<>> /\ {<<h.creation, "ban">>, <<h.creation, "unban">>} \subseteq told
  \/ /\ h.status = "cancelling"
     /\ \/ h.todo = <<"restore">>
        \/ h.todo = <<>> /\ <<h.creation, "restore">> \in told
        \/ h.todo = <<>> /\ (h.token = task.claim => task.message # 0)

(* A claim that the row still names knows the row.                         *)
ClaimsTell ==
  \A h \in inHand :
    /\ h.token \in 1 .. granted /\ Begun(h.creation)
    /\ h.token = task.claim =>
         h.version = task.version /\ h.status = task.status /\ h.creation = task.creation
    /\ ClaimUnderway(h)

(* An answer and the deadline exclude each other, of the creation in the   *)
(* row and of every earlier one.                                           *)
Decided ==
  /\ \A c \in answered :
       /\ Begun(c) /\ <<c, "ban">> \notin told
       /\ \A h \in inHand : h.creation = c => h.status # "expiring"
       /\ c = task.creation => task.status \in {"passing", "passed"}
  /\ \A x \in told : Begun(x[1])
  /\ <<task.creation, "ban">> \in told => task.status \in {"expiring", "expired"}
  /\ \A h \in inHand :
       h.creation = task.creation /\ h.status = "expiring" =>
         task.status \in {"expiring", "expired"}

(* What the row says of its creation was done.                             *)
Shows ==
  /\ task.status \in {"passing", "passed"} => task.creation \in answered
  /\ task.status = "passed" => <<task.creation, "restore">> \in told
  /\ task.status = "expired" =>
       <<task.creation, "ban">> \in told /\ <<task.creation, "unban">> \in told
  /\ task.status = "cancelled" /\ task.message = 0 => <<task.creation, "restore">> \in told

VerificationInv ==
  VerificationTypeOK /\ VersionsTell /\ RequestsTell /\ ClaimsTell /\ Decided /\ Shows

----------------------------------------------------------------------------
(* Types *)

LEMMA HandledType ==
  ASSUME VerificationTypeOK
  PROVE  Handled \subseteq ({"join"} \X Creations) \cup ({"pass", "left"} \X {0})
<1>1. DOMAIN request = {"pass", "left"} /\ Running \subseteq Creations
  BY DEF VerificationTypeOK, Running
<1> QED
  BY <1>1 DEF Handled

LEMMA NextUpdateType ==
  ASSUME VerificationTypeOK, NextUpdate
  PROVE  /\ mishaps' \in Nat
         /\ overtaken' \subseteq ({"join"} \X Creations) \cup ({"pass", "left"} \X {0})
BY HandledType DEF NextUpdate, Mishap, VerificationTypeOK

LEMMA RunningFinite == Cardinality(Running) \in Nat
<1>1. IsFiniteSet(Creations)
  BY VerificationAssumption, FS_Interval DEF Creations
<1>2. Running \in SUBSET Creations
  BY DEF Running
<1> QED
  BY <1>1, <1>2, FS_Subset, FS_CardinalityType

LEMMA TailType ==
  ASSUME NEW S, NEW s \in Seq(S), s # <<>>
  PROVE  Head(s) \in S /\ Tail(s) \in Seq(S)
OBVIOUS

LEMMA CrashedUpdates ==
  ASSUME VerificationTypeOK, VerificationCrash
  PROVE  updates' \in Seq({"join", "left"})
<1> DEFINE again == [i \in 1 .. Cardinality(Running) |-> "join"]
           lost == IF request["left"] # NoRequest THEN <<"left">> ELSE <<>>
<1>1. again \in Seq({"join", "left"})
  BY RunningFinite
<1>2. <<>> \in Seq({"join", "left"}) /\ <<"left">> \in Seq({"join", "left"})
  OBVIOUS
<1>4. lost \in Seq({"join", "left"}) /\ updates \in Seq({"join", "left"})
  BY <1>2 DEF VerificationTypeOK
<1>3. updates' = again \o lost \o updates
  BY DEF VerificationCrash
<1> HIDE DEF again, lost
<1> QED
  BY <1>1, <1>3, <1>4

LEMMA MovedType ==
  ASSUME task \in Tasks, NEW s \in TaskStatus, NEW n \in {"never", "now", "recovery", "expiry"}
  PROVE  /\ Moved(s, n) \in Tasks
         /\ Moved(s, n).status = s /\ Moved(s, n).version = task.version + 1
         /\ Moved(s, n).creation = task.creation /\ Moved(s, n).message = task.message
         /\ Moved(s, n).claim = 0
<1>1. Moved(s, n) = [status |-> s, version |-> task.version + 1, creation |-> task.creation,
                     message |-> task.message, next |-> n, claim |-> 0]
  <2>1. Moved(s, n) = [task EXCEPT !.status = s, !.version = task.version + 1, !.next = n,
                                   !.claim = 0]
    BY DEF Moved
  <2> QED
    BY <2>1 DEF Tasks
<1>2. /\ task.version + 1 \in Nat
      /\ task.creation \in Creations \cup {0} /\ task.message \in Creations \cup {0}
  BY DEF Tasks
<1> QED
  BY <1>1, <1>2 DEF Tasks

LEMMA VerificationInitially == VerificationInit => VerificationInv
<1> SUFFICES ASSUME VerificationInit PROVE VerificationInv
  OBVIOUS
<1> USE DEF VerificationInit
<1>1. VerificationTypeOK
  BY VerificationAssumption DEF VerificationTypeOK, NoRequest, Creations
<1>2. VersionsTell
  BY DEF VersionsTell, Begun
<1>3. RequestsTell /\ ClaimsTell
  BY DEF RequestsTell, ClaimsTell
<1>4. Decided /\ Shows
  BY DEF Decided, Shows
<1> QED
  BY <1>1, <1>2, <1>3, <1>4 DEF VerificationInv

----------------------------------------------------------------------------
(* Steps that leave the row and what was told alone; claims and requests   *)
(* may be dropped, and no handler starts.                                  *)
LEMMA MemberQuietSteps ==
  ASSUME VerificationInv, VerificationTypeOK',
         UNCHANGED <<task, opened, granted, answered, told>>,
         inHand' \subseteq inHand,
         \A c \in Creations : Begun(c)' <=> Begun(c),
         \A kind \in {"pass", "left"} : request'[kind] \in {request[kind], NoRequest}
  PROVE  VerificationInv'
<1>1. task.creation \in Creations \cup {0} /\ task' = task /\ answered \subseteq Creations
  BY DEF VerificationInv, VerificationTypeOK
<1>2. VersionsTell'
  BY <1>1 DEF VerificationInv, VersionsTell
<1>3. RequestsTell'
  BY <1>1 DEF VerificationInv, RequestsTell
<1>4. \A h \in inHand' : h \in inHand /\ h.creation \in Creations
  BY DEF VerificationInv, VerificationTypeOK
<1>5. ClaimsTell'
  BY <1>1, <1>4 DEF VerificationInv, ClaimsTell, ClaimUnderway
<1>6. \A x \in told : x[1] \in Creations
  BY DEF VerificationInv, VerificationTypeOK
<1>7. Decided'
  BY <1>1, <1>4, <1>6 DEF VerificationInv, Decided
<1>8. Shows'
  BY <1>1 DEF VerificationInv, Shows
<1> QED
  BY <1>2, <1>3, <1>5, <1>7, <1>8 DEF VerificationInv

MemberEffects == [present : BOOLEAN, muted : BOOLEAN, banned : BOOLEAN]

LEMMA AppendType ==
  ASSUME VerificationTypeOK, NEW u \in {"join", "left"}
  PROVE  Append(updates, u) \in Seq({"join", "left"})
BY DEF VerificationTypeOK

LEMMA TelegramSteps == VerificationInv /\ (Join \/ Leaves \/ VerificationTick) => VerificationInv'
<1> SUFFICES ASSUME VerificationInv, Join \/ Leaves \/ VerificationTick PROVE VerificationInv'
  OBVIOUS
<1>1. VerificationTypeOK'
  <2>1. CASE Join
    <3>1. updates' \in Seq({"join", "left"})
      BY <2>1, AppendType DEF Join, VerificationInv
    <3>3. member \in MemberEffects /\ joins \in Nat
      BY DEF MemberEffects, VerificationInv, VerificationTypeOK
    <3>4. member' = [member EXCEPT !.present = TRUE] /\ joins' = joins + 1
      BY <2>1 DEF Join
    <3>5. member' \in MemberEffects
      BY <3>3, <3>4 DEF MemberEffects
    <3>2. member' \in MemberEffects /\ joins' \in Nat
      BY <3>3, <3>4, <3>5
    <3> QED
      BY <2>1, <3>1, <3>2 DEF VerificationInv, VerificationTypeOK, Join, MemberEffects
  <2>2. CASE Leaves
    <3>1. updates' \in Seq({"join", "left"})
      BY <2>2, AppendType DEF Leaves, VerificationInv
    <3>2. member' \in MemberEffects /\ joins' \in Nat
      BY <2>2 DEF Leaves, MemberEffects, VerificationInv, VerificationTypeOK
    <3> QED
      BY <2>2, <3>1, <3>2 DEF VerificationInv, VerificationTypeOK, Leaves, MemberEffects
  <2>3. CASE VerificationTick
    BY <2>3 DEF VerificationInv, VerificationTypeOK, VerificationTick
  <2> QED
    BY <2>1, <2>2, <2>3
<1> QED
  BY <1>1, MemberQuietSteps DEF Join, Leaves, VerificationTick, Begun

LEMMA HandlerSteps ==
  ASSUME VerificationInv, NEW c \in Creations,
         RestrictMember(c) \/ Welcome(c) \/ HandlerFails(c) \/ ActivateRefused(c)
  PROVE  VerificationInv'
<1>1. /\ handler[c] # "none"
      /\ \E s \in {"replying", "activating", "aborting"} : handler' = [handler EXCEPT ![c] = s]
      /\ UNCHANGED <<task, clock, joins, updates, opened, request, inHand, granted, answered,
                     told, overtaken>>
  BY DEF RestrictMember, Welcome, HandlerFails, ActivateRefused
<1>2. member' \in [present : BOOLEAN, muted : BOOLEAN, banned : BOOLEAN] /\ mishaps' \in Nat
  <2>1. CASE RestrictMember(c)
    BY <2>1 DEF VerificationInv, VerificationTypeOK, RestrictMember
  <2>2. CASE ~RestrictMember(c)
    BY <2>2 DEF VerificationInv, VerificationTypeOK, Welcome, HandlerFails, ActivateRefused,
       Mishap
  <2> QED
    BY <2>1, <2>2
<1>3. VerificationTypeOK'
  BY <1>1, <1>2 DEF VerificationInv, VerificationTypeOK
<1>4. \A d \in Creations : Begun(d)' <=> Begun(d)
  BY <1>1 DEF Begun, VerificationInv, VerificationTypeOK
<1> QED
  BY <1>1, <1>3, <1>4, MemberQuietSteps

LEMMA RequestRefusedStep ==
  ASSUME VerificationInv, NEW kind \in {"pass", "left"}, RequestRefused(kind)
  PROVE  VerificationInv'
<1>1. \A k \in {"pass", "left"} : request'[k] \in {request[k], NoRequest}
  BY DEF RequestRefused, VerificationInv, VerificationTypeOK
<1>2. VerificationTypeOK'
  BY DEF RequestRefused, VerificationInv, VerificationTypeOK, NoRequest
<1> QED
  BY <1>1, <1>2, MemberQuietSteps DEF RequestRefused, Begun

LEMMA VerificationCrashStep == VerificationInv /\ VerificationCrash => VerificationInv'
<1> SUFFICES ASSUME VerificationInv, VerificationCrash PROVE VerificationInv'
  OBVIOUS
<1>1. \A k \in {"pass", "left"} : request'[k] = NoRequest
  BY DEF VerificationCrash, VerificationInv, VerificationTypeOK
<1>2. /\ request' = [kind \in {"pass", "left"} |-> NoRequest]
      /\ NoRequest \in [version : Nat, event : {"none", "pass_requested", "abort_creation",
                                                "member_left"}]
  BY DEF VerificationCrash, VerificationInv, VerificationTypeOK, NoRequest
<1>3. /\ handler' \in [Creations -> {"none", "restricting", "replying", "activating", "aborting",
                                    "done"}]
      /\ \A c \in Creations : Begun(c)' <=> Begun(c)
  BY DEF VerificationCrash, VerificationInv, VerificationTypeOK, Begun, Running
<1>4. updates' \in Seq({"join", "left"})
  BY CrashedUpdates DEF VerificationInv
<1>5. mishaps' \in Nat /\ overtaken' = {} /\ inHand' = {}
      /\ UNCHANGED <<task, clock, member, joins, opened, granted, answered, told>>
  BY DEF VerificationCrash, Mishap, VerificationInv, VerificationTypeOK
<1>6. VerificationTypeOK'
  BY <1>2, <1>3, <1>4, <1>5 DEF VerificationInv, VerificationTypeOK
<1> QED
  BY <1>1, <1>3, <1>5, <1>6, MemberQuietSteps

LEMMA RedeliveredStep == VerificationInv /\ Redelivered => VerificationInv'
<1> SUFFICES ASSUME VerificationInv, Redelivered PROVE VerificationInv'
  OBVIOUS
<1>1. /\ UNCHANGED <<task, clock, member, joins, handler, opened, request, inHand, granted,
                     answered, told>>
      /\ mishaps' \in Nat
      /\ overtaken' = Handled
      /\ updates' = <<"join">> \o updates \/ updates' = <<"left">> \o updates
  BY DEF Redelivered, Mishap, VerificationInv, VerificationTypeOK
<1>2. updates' \in Seq({"join", "left"})
  <2>1. updates \in Seq({"join", "left"})
    BY DEF VerificationInv, VerificationTypeOK
  <2>2. <<"join">> \in Seq({"join", "left"}) /\ <<"left">> \in Seq({"join", "left"})
    OBVIOUS
  <2>3. \A s \in Seq({"join", "left"}) : s \o updates \in Seq({"join", "left"})
    BY <2>1
  <2> QED
    BY <1>1, <2>2, <2>3
<1>3. Handled \subseteq ({"join"} \X Creations) \cup ({"pass", "left"} \X {0})
  BY DEF Handled, Running, VerificationInv, VerificationTypeOK
<1>4. VerificationTypeOK'
  BY <1>1, <1>2, <1>3 DEF VerificationInv, VerificationTypeOK
<1> QED
  BY <1>1, <1>4, MemberQuietSteps DEF Begun

----------------------------------------------------------------------------
(* Requests read the row. *)

LEMMA LoadSteps ==
  ASSUME VerificationInv, VerificationTypeOK',
         UNCHANGED <<task, handler, opened, inHand, granted, answered, told>>,
         task.status # "none",
         \A kind \in {"pass", "left"} :
           \/ request'[kind] = request[kind]
           \/ /\ request'[kind].version = task.version
              /\ kind = "pass" => task.status = "pending"
              /\ kind = "left" => task.status \in {"creating", "pending"}
  PROVE  VerificationInv'
<1>0. task.version \in Nat
  BY DEF VerificationInv, VerificationTypeOK
<1>1. VersionsTell'
  BY DEF VerificationInv, VersionsTell, Begun
<1>2. RequestsTell'
  BY <1>0 DEF VerificationInv, RequestsTell
<1>3. ClaimsTell' /\ Decided' /\ Shows'
  BY DEF VerificationInv, ClaimsTell, ClaimUnderway, Decided, Shows, Begun
<1> QED
  BY <1>1, <1>2, <1>3 DEF VerificationInv

LEMMA LoadPassStep ==
  ASSUME VerificationInv, NEW c \in Creations, LoadPass(c)
  PROVE  VerificationInv'
<1> DEFINE read == [version |-> task.version, event |-> "pass_requested"]
<1>1. /\ NextUpdate /\ task.status = "pending"
      /\ request' = [request EXCEPT !["pass"] = read]
      /\ UNCHANGED <<task, clock, member, joins, updates, handler, opened, inHand, granted,
                     answered, told>>
  BY DEF LoadPass
<1>2. read \in [version : Nat, event : {"none", "pass_requested", "abort_creation", "member_left"}]
      /\ read.version = task.version
  BY DEF VerificationInv, VerificationTypeOK
<1> HIDE DEF read
<1>3. /\ mishaps' \in Nat
      /\ overtaken' \subseteq ({"join"} \X Creations) \cup ({"pass", "left"} \X {0})
  BY <1>1, NextUpdateType DEF VerificationInv
<1>4. VerificationTypeOK'
  BY <1>1, <1>2, <1>3 DEF VerificationInv, VerificationTypeOK
<1>5. request'["pass"] = read /\ request'["left"] = request["left"]
  BY <1>1 DEF VerificationInv, VerificationTypeOK
<1> QED
  BY <1>1, <1>2, <1>4, <1>5, LoadSteps

LEMMA LoadLeftStep == VerificationInv /\ LoadLeft => VerificationInv'
<1> SUFFICES ASSUME VerificationInv, LoadLeft PROVE VerificationInv'
  OBVIOUS
<1> DEFINE read == [version |-> task.version,
                    event |-> IF task.status = "creating" THEN "abort_creation"
                                                          ELSE "member_left"]
<1>1. /\ NextUpdate /\ updates # <<>> /\ updates' = Tail(updates)
      /\ request' = IF task.status \in {"creating", "pending"}
                      THEN [request EXCEPT !["left"] = read] ELSE request
      /\ UNCHANGED <<task, clock, member, joins, handler, opened, inHand, granted, answered, told>>
  BY DEF LoadLeft
<1>2. read \in [version : Nat, event : {"none", "pass_requested", "abort_creation", "member_left"}]
      /\ read.version = task.version
  BY DEF VerificationInv, VerificationTypeOK
<1> HIDE DEF read
<1>3. /\ mishaps' \in Nat
      /\ overtaken' \subseteq ({"join"} \X Creations) \cup ({"pass", "left"} \X {0})
  BY <1>1, NextUpdateType DEF VerificationInv
<1>4. updates' \in Seq({"join", "left"})
  BY <1>1, TailType DEF VerificationInv, VerificationTypeOK
<1>5. VerificationTypeOK'
  BY <1>1, <1>2, <1>3, <1>4 DEF VerificationInv, VerificationTypeOK
<1>6. CASE task.status \in {"creating", "pending"}
  <2>1. request'["left"] = read /\ request'["pass"] = request["pass"]
    BY <1>1, <1>6 DEF VerificationInv, VerificationTypeOK
  <2> QED
    BY <1>1, <1>2, <1>5, <1>6, <2>1, LoadSteps
<1>7. CASE task.status \notin {"creating", "pending"}
  BY <1>1, <1>5, <1>7, MemberQuietSteps DEF Begun
<1> QED
  BY <1>6, <1>7

----------------------------------------------------------------------------
(* A transition: the row gets the next version, and no claim any more.     *)
LEMMA TransitionSteps ==
  ASSUME VerificationInv, VerificationTypeOK', task.status # "none",
         UNCHANGED <<opened, granted, told>>,
         task'.version = task.version + 1, task'.creation = task.creation, task'.claim = 0,
         \A c \in Creations : Begun(c)' <=> Begun(c),
         inHand' \subseteq inHand,
         \A kind \in {"pass", "left"} : request'[kind] \in {request[kind], NoRequest},
         task'.status \notin {"none", "creating"},
         task'.status = "pending" => task.status = "creating" /\ task'.message = task.creation,
         \/ answered' = answered
         \/ /\ task.status = "pending" /\ task'.status = "passing"
            /\ answered' = answered \cup {task.creation},
         task'.status \in {"passing", "passed"} =>
           task.status = "passing" \/ task.creation \in answered',
         task.creation \in answered => task'.status = "passed",
         task.status = "expiring" => task'.status = "expired",
         task.status \notin {"passed", "expired"},
         Shows'
  PROVE  VerificationInv'
<1>1. task.version \in Nat /\ task.creation \in Creations /\ Begun(task.creation)
  BY DEF VerificationInv, VerificationTypeOK, VersionsTell
<1>2. \A c \in Creations : opened[c] \in Nat
  BY DEF VerificationInv, VerificationTypeOK
<1>3. granted \in Nat
  BY DEF VerificationInv, VerificationTypeOK
<1>4. VersionsTell'
  BY <1>1, <1>2, <1>3 DEF VerificationInv, VersionsTell
<1>5. \A kind \in {"pass", "left"} :
        request'[kind] # NoRequest =>
          request'[kind].version \in Nat /\ request'[kind].version <= task.version
  BY DEF VerificationInv, VerificationTypeOK, RequestsTell
<1>6. RequestsTell'
  BY <1>1, <1>5 DEF RequestsTell
<1>7. \A h \in inHand' : /\ h \in inHand /\ h.creation \in Creations
                         /\ h.token \in 1 .. granted /\ h.token # task'.claim
  BY DEF VerificationInv, VerificationTypeOK, ClaimsTell
<1>8. \A h \in inHand' : ClaimUnderway(h)'
  BY <1>7 DEF VerificationInv, ClaimsTell, ClaimUnderway
<1>9. ClaimsTell'
  BY <1>7, <1>8 DEF VerificationInv, ClaimsTell
<1>10. answered \subseteq Creations /\ \A x \in told : x[1] \in Creations
  BY DEF VerificationInv, VerificationTypeOK
<1>11. <<task.creation, "ban">> \in told => task.status = "expiring"
  BY DEF VerificationInv, Decided
<1>12. \A h \in inHand : h.creation = task.creation /\ h.status = "expiring" =>
         task.status = "expiring"
  BY DEF VerificationInv, Decided
<1>13. \A c \in answered' :
         /\ Begun(c)' /\ <<c, "ban">> \notin told'
         /\ \A h \in inHand' : h.creation = c => h.status # "expiring"
         /\ c = task'.creation => task'.status \in {"passing", "passed"}
  BY <1>1, <1>7, <1>10, <1>11, <1>12 DEF VerificationInv, Decided
<1>14. Decided'
  BY <1>7, <1>10, <1>11, <1>12, <1>13 DEF VerificationInv, Decided
<1> QED
  BY <1>4, <1>6, <1>9, <1>14 DEF VerificationInv

LEMMA ActivateStep ==
  ASSUME VerificationInv, NEW c \in Creations, Activate(c)
  PROVE  VerificationInv'
<1> DEFINE moved == Moved("pending", "expiry")
<1>1. /\ handler[c] = "activating" /\ task.version = opened[c] /\ task.status = "creating"
      /\ task' = [moved EXCEPT !.message = c]
      /\ handler' = [handler EXCEPT ![c] = "done"]
      /\ UNCHANGED <<clock, member, joins, updates, opened, request, inHand, granted, answered,
                     told, mishaps, overtaken>>
  BY DEF Activate, MayActivate
<1>2. task \in Tasks
  BY DEF VerificationInv, VerificationTypeOK, Tasks, TaskStatus
<1>3. /\ moved \in Tasks
      /\ moved.status = "pending" /\ moved.version = task.version + 1
      /\ moved.creation = task.creation /\ moved.claim = 0
  BY <1>2, MovedType DEF TaskStatus
<1> HIDE DEF moved
<1>4. /\ task' \in Tasks /\ task'.message = c
      /\ task'.status = "pending" /\ task'.version = task.version + 1
      /\ task'.creation = task.creation /\ task'.claim = 0
  BY <1>1, <1>3 DEF Tasks
<1>5. VerificationTypeOK'
  BY <1>1, <1>4 DEF VerificationInv, VerificationTypeOK, Tasks, TaskStatus
<1>6. c = task.creation
  BY <1>1 DEF VerificationInv, VersionsTell, Begun
<1>7. \A d \in Creations : Begun(d)' <=> Begun(d)
  BY <1>1 DEF Begun, VerificationInv, VerificationTypeOK
<1>8. Shows'
  BY <1>4 DEF Shows
<1>9. task.creation \notin answered
  BY <1>1 DEF VerificationInv, Decided
<1> QED
  BY <1>1, <1>4, <1>5, <1>6, <1>7, <1>8, <1>9, TransitionSteps

LEMMA AbortCreationStep ==
  ASSUME VerificationInv, NEW c \in Creations, AbortCreation(c)
  PROVE  VerificationInv'
<1>1. /\ handler[c] = "aborting"
      /\ handler' = [handler EXCEPT ![c] = "done"]
      /\ UNCHANGED <<clock, member, joins, updates, opened, request, inHand, granted, answered,
                     told, mishaps, overtaken>>
  BY DEF AbortCreation
<1>2. \A d \in Creations : Begun(d)' <=> Begun(d)
  BY <1>1 DEF Begun, VerificationInv, VerificationTypeOK
<1>3. CASE task.version = opened[c] /\ task.status = "creating"
  <2>1. task' = Moved("cancelling", "now")
    BY <1>3 DEF AbortCreation
  <2>2. task \in Tasks
    BY DEF VerificationInv, VerificationTypeOK, Tasks, TaskStatus
  <2>3. /\ task' \in Tasks
        /\ task'.status = "cancelling" /\ task'.version = task.version + 1
        /\ task'.creation = task.creation /\ task'.claim = 0
    BY <2>1, <2>2, MovedType DEF TaskStatus, Delivering
  <2>4. VerificationTypeOK'
    BY <1>1, <2>3 DEF VerificationInv, VerificationTypeOK, Tasks, TaskStatus
  <2>5. Shows'
    BY <2>3 DEF Shows
  <2>6. task.creation \notin answered
    BY <1>3 DEF VerificationInv, Decided
  <2> QED
    BY <1>1, <1>2, <1>3, <2>3, <2>4, <2>5, <2>6, TransitionSteps
<1>4. CASE ~(task.version = opened[c] /\ task.status = "creating")
  <2>1. task' = task
    BY <1>4 DEF AbortCreation
  <2>2. VerificationTypeOK'
    BY <1>1, <2>1 DEF VerificationInv, VerificationTypeOK
  <2> QED
    BY <1>1, <1>2, <2>1, <2>2, MemberQuietSteps
<1> QED
  BY <1>3, <1>4

LEMMA ApplyPassStep == VerificationInv /\ ApplyPass => VerificationInv'
<1> SUFFICES ASSUME VerificationInv, ApplyPass PROVE VerificationInv'
  OBVIOUS
<1>1. /\ request["pass"] # NoRequest /\ task.version = request["pass"].version
      /\ task' = Moved("passing", "now")
      /\ answered' = answered \cup {task.creation}
      /\ request' = [request EXCEPT !["pass"] = NoRequest]
      /\ UNCHANGED <<clock, member, joins, updates, handler, opened, inHand, granted, told,
                     mishaps, overtaken>>
  BY DEF ApplyPass, StillSeen
<1>2. task.status = "pending" /\ task.creation \in Creations
  BY <1>1 DEF VerificationInv, RequestsTell, VersionsTell
<1>3. task \in Tasks
  BY DEF VerificationInv, VerificationTypeOK, Tasks, TaskStatus
<1>4. /\ task' \in Tasks
      /\ task'.status = "passing" /\ task'.version = task.version + 1
      /\ task'.creation = task.creation /\ task'.claim = 0
  BY <1>1, <1>3, MovedType DEF TaskStatus, Delivering
<1>5. VerificationTypeOK'
  BY <1>1, <1>2, <1>4 DEF VerificationInv, VerificationTypeOK, Tasks, TaskStatus, NoRequest
<1>6. \A k \in {"pass", "left"} : request'[k] \in {request[k], NoRequest}
  BY <1>1 DEF VerificationInv, VerificationTypeOK
<1>7. Shows'
  BY <1>1, <1>4 DEF Shows
<1>8. task.creation \notin answered
  BY <1>2 DEF VerificationInv, Decided
<1> QED
  BY <1>1, <1>2, <1>4, <1>5, <1>6, <1>7, <1>8, TransitionSteps DEF Begun

LEMMA ApplyLeftStep == VerificationInv /\ ApplyLeft => VerificationInv'
<1> SUFFICES ASSUME VerificationInv, ApplyLeft PROVE VerificationInv'
  OBVIOUS
<1>1. /\ request["left"] # NoRequest /\ task.version = request["left"].version
      /\ task' = Moved("cancelling", "now")
      /\ request' = [request EXCEPT !["left"] = NoRequest]
      /\ UNCHANGED <<clock, member, joins, updates, handler, opened, inHand, granted, answered,
                     told, mishaps, overtaken>>
  BY DEF ApplyLeft, StillSeen
<1>2. task.status \in {"creating", "pending"}
  BY <1>1 DEF VerificationInv, RequestsTell
<1>3. task \in Tasks
  BY DEF VerificationInv, VerificationTypeOK, Tasks, TaskStatus
<1>4. /\ task' \in Tasks
      /\ task'.status = "cancelling" /\ task'.version = task.version + 1
      /\ task'.creation = task.creation /\ task'.claim = 0
  BY <1>1, <1>3, MovedType DEF TaskStatus, Delivering
<1>5. VerificationTypeOK'
  BY <1>1, <1>4 DEF VerificationInv, VerificationTypeOK, Tasks, TaskStatus, NoRequest
<1>6. \A k \in {"pass", "left"} : request'[k] \in {request[k], NoRequest}
  BY <1>1 DEF VerificationInv, VerificationTypeOK
<1>7. Shows'
  BY <1>4 DEF Shows
<1>8. task.creation \notin answered
  BY <1>2 DEF VerificationInv, Decided
<1> QED
  BY <1>1, <1>2, <1>4, <1>5, <1>6, <1>7, <1>8, TransitionSteps DEF Begun

----------------------------------------------------------------------------
(* A new creation takes the row over: nothing is known of it yet, and      *)
(* every request and claim knows an older version.                         *)
LEMMA BeginVerificationStep ==
  ASSUME VerificationInv, NEW c \in Creations, BeginVerification(c)
  PROVE  VerificationInv'
<1> DEFINE row == [status |-> "creating", version |-> NextVersion, creation |-> c,
                   message |-> 0, next |-> "recovery", claim |-> 0]
<1>1. /\ handler[c] = "none" /\ NextUpdate
      /\ updates # <<>> /\ updates' = Tail(updates)
      /\ task' = row /\ clock' = 0
      /\ opened' = [opened EXCEPT ![c] = NextVersion]
      /\ handler' = [handler EXCEPT ![c] = "restricting"]
      /\ UNCHANGED <<member, joins, request, inHand, granted, answered, told>>
  BY DEF BeginVerification
<1>2. task.version \in Nat /\ granted \in Nat /\ \A d \in Creations : opened[d] \in Nat
  BY DEF VerificationInv, VerificationTypeOK
<1>3. NextVersion \in Nat /\ (task.status # "none" => NextVersion = task.version + 1)
  BY <1>2 DEF NextVersion
<1>4. /\ row \in Tasks
      /\ row.status = "creating" /\ row.version = NextVersion /\ row.creation = c
      /\ row.message = 0 /\ row.claim = 0
  BY <1>3 DEF Tasks, TaskStatus
<1> HIDE DEF row
<1>5. /\ mishaps' \in Nat
      /\ overtaken' \subseteq ({"join"} \X Creations) \cup ({"pass", "left"} \X {0})
  BY <1>1, NextUpdateType DEF VerificationInv
<1>6. updates' \in Seq({"join", "left"})
  BY <1>1, TailType DEF VerificationInv, VerificationTypeOK
<1>7. /\ opened' \in [Creations -> Nat] /\ opened'[c] = NextVersion
      /\ \A d \in Creations : d # c => opened'[d] = opened[d]
  BY <1>1, <1>3 DEF VerificationInv, VerificationTypeOK
<1>8. /\ handler' \in [Creations -> {"none", "restricting", "replying", "activating", "aborting",
                                    "done"}]
      /\ Begun(c)' /\ ~Begun(c)
      /\ \A d \in Creations : d # c => (Begun(d)' <=> Begun(d))
  BY <1>1 DEF VerificationInv, VerificationTypeOK, Begun
<1>9. VerificationTypeOK'
  BY <1>1, <1>4, <1>5, <1>6, <1>7, <1>8 DEF VerificationInv, VerificationTypeOK, Tasks, TaskStatus
<1>10. \A d \in Creations : Begun(d) => opened[d] < NextVersion
  BY <1>2, <1>3 DEF VerificationInv, VersionsTell
<1>11. VersionsTell'
  BY <1>1, <1>2, <1>4, <1>7, <1>8, <1>10 DEF VersionsTell
<1>12. \A kind \in {"pass", "left"} :
         request[kind] # NoRequest =>
           request[kind].version \in Nat /\ request[kind].version < NextVersion
  BY <1>2, <1>3 DEF VerificationInv, VerificationTypeOK, VersionsTell, RequestsTell
<1>13. RequestsTell'
  BY <1>1, <1>3, <1>4, <1>12 DEF RequestsTell
<1>14. ASSUME NEW h \in inHand
       PROVE  /\ h.creation \in Creations /\ h.creation # c /\ Begun(h.creation)'
              /\ h.token \in 1 .. granted /\ h.token # 0 /\ ClaimUnderway(h)'
  <2>1. /\ h.creation \in Creations /\ Begun(h.creation)
        /\ h.token \in 1 .. granted /\ ClaimUnderway(h)
    BY DEF VerificationInv, VerificationTypeOK, ClaimsTell
  <2>2. h.creation # c /\ Begun(h.creation)' /\ h.token # 0
    BY <1>2, <1>8, <2>1
  <2>3. ClaimUnderway(h)'
    BY <1>1, <1>4, <2>1, <2>2 DEF ClaimUnderway
  <2> QED
    BY <2>1, <2>2, <2>3
<1>15. ClaimsTell'
  BY <1>1, <1>4, <1>14 DEF ClaimsTell
<1>16. /\ \A d \in answered : d \in Creations /\ d # c /\ Begun(d)'
       /\ \A x \in told : x[1] \in Creations /\ x[1] # c /\ Begun(x[1])'
  BY <1>8 DEF VerificationInv, VerificationTypeOK, Decided
<1>17. <<c, "ban">> \notin told
  BY <1>16
<1>18. Decided'
  BY <1>1, <1>4, <1>14, <1>16, <1>17 DEF VerificationInv, Decided
<1>19. Shows'
  BY <1>4, <1>1 DEF Shows
<1> QED
  BY <1>9, <1>11, <1>13, <1>15, <1>18, <1>19 DEF VerificationInv

----------------------------------------------------------------------------
(* Claims *)

LEMMA ClaimTaskStep == VerificationInv /\ ClaimTask => VerificationInv'
<1> SUFFICES ASSUME VerificationInv, ClaimTask PROVE VerificationInv'
  OBVIOUS
<1>0. PICK step, version, hand :
        /\ step = Claimed(task.status)
        /\ version = IF task.status \in {"creating", "pending"} THEN task.version + 1
                                                                ELSE task.version
        /\ hand = [token |-> granted', version |-> version, status |-> step,
                   creation |-> task.creation, todo |-> Effects(step, task.message)]
  OBVIOUS
<1>1. /\ task.status \in {"creating", "pending"} \cup Delivering
      /\ granted' = granted + 1
      /\ task' = [task EXCEPT !.status = step, !.version = version, !.claim = granted']
      /\ inHand' = inHand \cup {hand}
      /\ UNCHANGED <<clock, member, joins, updates, handler, opened, request, answered, told,
                     mishaps, overtaken>>
  BY <1>0 DEF ClaimTask
<1>2. task \in Tasks /\ granted \in Nat /\ granted' \in Nat /\ task.version \in Nat
  BY <1>1 DEF VerificationInv, VerificationTypeOK, Tasks, TaskStatus
<1>3. /\ step \in Delivering
      /\ task.status = "creating" => step = "cancelling"
      /\ task.status = "pending" => step = "expiring"
      /\ task.status \in Delivering => step = task.status
  BY <1>0, <1>1 DEF Claimed, Delivering
<1>4. /\ version \in Nat
      /\ task.status \in Delivering => version = task.version
      /\ task.status \in {"creating", "pending"} => version = task.version + 1
  BY <1>0, <1>2 DEF Delivering
<1>5. /\ step = "passing" => Effects(step, task.message) = <<"restore">>
      /\ step = "expiring" => Effects(step, task.message) = <<"ban", "unban">>
      /\ step = "cancelling" /\ task.message = 0 =>
           Effects(step, task.message) = <<"restore">>
      /\ step = "cancelling" /\ task.message # 0 => Effects(step, task.message) = <<>>
  BY <1>3 DEF Effects, Delivering
<1>6. task.creation \in Creations /\ Begun(task.creation)
  BY <1>1 DEF VerificationInv, VersionsTell, Delivering
<1>7. Effects(step, task.message) \in Seq(EffectNames)
  <2>1. /\ <<"restore">> \in Seq(EffectNames) /\ <<"ban", "unban">> \in Seq(EffectNames)
        /\ <<>> \in Seq(EffectNames)
    BY DEF EffectNames
  <2> QED
    BY <1>3, <1>5, <2>1 DEF Delivering
<1>8. /\ hand \in Hands /\ hand.token = granted + 1 /\ hand.version = version
      /\ hand.status = step /\ hand.creation = task.creation
      /\ hand.todo = Effects(step, task.message)
  BY <1>0, <1>1, <1>2, <1>3, <1>4, <1>6, <1>7 DEF Hands
<1>9. /\ task' \in Tasks
      /\ task'.status = step /\ task'.version = version /\ task'.claim = granted + 1
      /\ task'.creation = task.creation /\ task'.message = task.message
  <2>1. task' = [status |-> step, version |-> version, creation |-> task.creation,
                 message |-> task.message, next |-> task.next, claim |-> granted + 1]
    BY <1>1, <1>2 DEF Tasks
  <2>2. step \in TaskStatus /\ granted + 1 \in Nat
    BY <1>2, <1>3 DEF TaskStatus
  <2> QED
    BY <1>2, <1>4, <2>1, <2>2 DEF Tasks
<1>10. VerificationTypeOK'
  BY <1>1, <1>2, <1>8, <1>9
     DEF VerificationInv, VerificationTypeOK, Tasks, TaskStatus, Hands, EffectNames
<1>11. VersionsTell'
  <2>1. \A c \in Creations : opened[c] \in Nat
    BY DEF VerificationInv, VerificationTypeOK
  <2> QED
    BY <1>1, <1>2, <1>3, <1>4, <1>6, <1>9, <2>1
       DEF VerificationInv, VersionsTell, Begun, Delivering
<1>12. RequestsTell'
  <2>1. \A kind \in {"pass", "left"} : request[kind].version \in Nat
    BY DEF VerificationInv, VerificationTypeOK
  <2> QED
    BY <1>1, <1>2, <1>3, <1>4, <1>9, <2>1 DEF VerificationInv, RequestsTell, Delivering
<1>13. ClaimUnderway(hand)'
  <2>1. CASE step = "passing"
    BY <1>5, <1>8, <2>1 DEF ClaimUnderway
  <2>2. CASE step = "expiring"
    BY <1>5, <1>8, <2>2 DEF ClaimUnderway
  <2>3. CASE step = "cancelling"
    BY <1>5, <1>8, <1>9, <2>3 DEF ClaimUnderway
  <2> QED
    BY <1>3, <2>1, <2>2, <2>3 DEF Delivering
<1>14. \A h \in inHand : h.token \in 1 .. granted /\ h.token # granted + 1
  BY <1>2 DEF VerificationInv, ClaimsTell
<1>15. \A h \in inHand : ClaimUnderway(h)'
  BY <1>1, <1>9, <1>14 DEF VerificationInv, ClaimsTell, ClaimUnderway
<1>16. ClaimsTell'
  <2>1. ASSUME NEW h \in inHand
        PROVE  h.token \in 1 .. granted' /\ Begun(h.creation)' /\ h.token # task'.claim
    BY <1>1, <1>2, <1>9, <1>14 DEF VerificationInv, ClaimsTell, Begun
  <2>2. /\ hand.token \in 1 .. granted' /\ Begun(hand.creation)'
        /\ hand.version = task'.version /\ hand.status = task'.status
        /\ hand.creation = task'.creation
    BY <1>1, <1>2, <1>6, <1>8, <1>9 DEF Begun
  <2> QED
    BY <1>1, <1>13, <1>15, <2>1, <2>2 DEF ClaimsTell
<1>17. Decided'
  BY <1>1, <1>3, <1>8, <1>9 DEF VerificationInv, Decided, Begun, Delivering
<1>18. Shows'
  BY <1>1, <1>3, <1>9 DEF VerificationInv, Shows, Delivering
<1> QED
  BY <1>10, <1>11, <1>12, <1>16, <1>17, <1>18 DEF VerificationInv

LEMMA DeliverEffectStep ==
  ASSUME VerificationInv, NEW h \in inHand, DeliverEffect(h)
  PROVE  VerificationInv'
<1> DEFINE rest == [h EXCEPT !.todo = Tail(h.todo)]
           effect == Head(h.todo)
<1>1. /\ h.todo # <<>>
      /\ member' = Shown(effect)
      /\ updates' = IF member.present /\ ~member'.present THEN Append(updates, "left")
                                                          ELSE updates
      /\ told' = told \cup {<<h.creation, effect>>}
      /\ inHand' = (inHand \ {h}) \cup {rest}
      /\ UNCHANGED <<task, clock, joins, handler, opened, request, granted, answered, mishaps,
                     overtaken>>
  BY DEF DeliverEffect
<1>2. h \in Hands /\ h.creation \in Creations /\ h.todo \in Seq(EffectNames)
  BY DEF VerificationInv, VerificationTypeOK, Hands, EffectNames
<1>3. effect \in EffectNames /\ Tail(h.todo) \in Seq(EffectNames)
  BY <1>1, <1>2, TailType
<1>4. /\ rest \in Hands /\ rest.token = h.token /\ rest.version = h.version
      /\ rest.status = h.status /\ rest.creation = h.creation /\ rest.todo = Tail(h.todo)
  BY <1>2, <1>3 DEF Hands
<1>5. /\ Begun(h.creation) /\ h.token \in 1 .. granted
      /\ h.token = task.claim =>
           h.version = task.version /\ h.status = task.status /\ h.creation = task.creation
      /\ ClaimUnderway(h)
  BY DEF VerificationInv, ClaimsTell
<1>6. \/ h.status = "passing" /\ effect = "restore" /\ Tail(h.todo) = <<>>
      \/ h.status = "expiring" /\ effect = "ban" /\ Tail(h.todo) = <<"unban">>
      \/ /\ h.status = "expiring" /\ effect = "unban" /\ Tail(h.todo) = <<>>
         /\ <<h.creation, "ban">> \in told
      \/ h.status = "cancelling" /\ effect = "restore" /\ Tail(h.todo) = <<>>
  <2>1. /\ Head(<<"restore">>) = "restore" /\ Tail(<<"restore">>) = <<>>
        /\ Head(<<"ban", "unban">>) = "ban" /\ Tail(<<"ban", "unban">>) = <<"unban">>
        /\ Head(<<"unban">>) = "unban" /\ Tail(<<"unban">>) = <<>>
    OBVIOUS
  <2> QED
    BY <1>1, <1>5, <2>1 DEF ClaimUnderway
<1> HIDE DEF rest, effect
<1>7. member' \in MemberEffects
  <2>1. member \in MemberEffects
    BY DEF VerificationInv, VerificationTypeOK, MemberEffects
  <2>2. CASE effect = "restore"
    <3>1. member' = [member EXCEPT !.muted = FALSE]
      BY <1>1, <2>2 DEF Shown
    <3> QED
      BY <2>1, <3>1 DEF MemberEffects
  <2>3. CASE effect = "ban"
    <3>1. member' = [present |-> FALSE, muted |-> FALSE, banned |-> TRUE]
      BY <1>1, <2>3 DEF Shown
    <3> QED
      BY <3>1 DEF MemberEffects
  <2>4. CASE effect = "unban"
    <3>1. member' = [member EXCEPT !.banned = FALSE]
      BY <1>1, <2>4 DEF Shown
    <3> QED
      BY <2>1, <3>1 DEF MemberEffects
  <2> QED
    BY <1>3, <2>2, <2>3, <2>4 DEF EffectNames
<1>8. updates' \in Seq({"join", "left"})
  <2>1. updates \in Seq({"join", "left"}) /\ Append(updates, "left") \in Seq({"join", "left"})
    BY AppendType DEF VerificationInv, VerificationTypeOK
  <2> QED
    BY <1>1, <2>1
<1>9. VerificationTypeOK'
  <2>1. inHand' \subseteq Hands
    BY <1>1, <1>4 DEF VerificationInv, VerificationTypeOK, Hands, EffectNames
  <2>2. told' \subseteq Creations \X EffectNames
    BY <1>1, <1>2, <1>3 DEF VerificationInv, VerificationTypeOK, EffectNames
  <2> QED
    BY <1>1, <1>7, <1>8, <2>1, <2>2
       DEF VerificationInv, VerificationTypeOK, MemberEffects, Hands, EffectNames
<1>10. VersionsTell' /\ RequestsTell'
  BY <1>1 DEF VerificationInv, VersionsTell, RequestsTell, Begun
<1>11. ClaimUnderway(rest)'
  BY <1>1, <1>4, <1>6 DEF ClaimUnderway
<1>12. \A g \in inHand : ClaimUnderway(g)'
  BY <1>1 DEF VerificationInv, ClaimsTell, ClaimUnderway
<1>13. ClaimsTell'
  BY <1>1, <1>4, <1>5, <1>11, <1>12 DEF VerificationInv, ClaimsTell, Begun
<1>14. effect = "ban" => h.status = "expiring"
  BY <1>6
<1>15. \A c \in answered : <<c, "ban">> \notin told'
  BY <1>1, <1>14 DEF VerificationInv, Decided
<1>16. <<task.creation, "ban">> \in told' => task.status \in {"expiring", "expired"}
  BY <1>1, <1>14 DEF VerificationInv, Decided
<1>17. \A x \in told' : Begun(x[1])
  BY <1>1, <1>5 DEF VerificationInv, Decided
<1>18. Decided'
  BY <1>1, <1>4, <1>15, <1>16, <1>17 DEF VerificationInv, Decided, Begun
<1>19. Shows'
  BY <1>1 DEF VerificationInv, Shows
<1> QED
  BY <1>9, <1>10, <1>13, <1>18, <1>19 DEF VerificationInv

LEMMA CompleteTaskStep ==
  ASSUME VerificationInv, NEW h \in inHand, CompleteTask(h)
  PROVE  VerificationInv'
<1>1. /\ h.todo = <<>> /\ inHand' = inHand \ {h}
      /\ UNCHANGED <<clock, member, joins, updates, handler, opened, request, granted, answered,
                     told, mishaps, overtaken>>
  BY DEF CompleteTask
<1>2. CASE OwnsTask(h)
  <2>1. task' = Moved(TerminalOf(h.status), "never") /\ task.claim = h.token
    BY <1>2 DEF CompleteTask, OwnsTask
  <2>2. task \in Tasks /\ h.status \in Delivering
    BY DEF VerificationInv, VerificationTypeOK, Tasks, TaskStatus
  <2>3. /\ TerminalOf(h.status) \in {"passed", "expired", "cancelled"}
        /\ h.status = "passing" <=> TerminalOf(h.status) = "passed"
        /\ h.status = "expiring" <=> TerminalOf(h.status) = "expired"
        /\ h.status = "cancelling" <=> TerminalOf(h.status) = "cancelled"
    BY <2>2 DEF TerminalOf, Delivering
  <2>4. /\ task' \in Tasks /\ task'.status = TerminalOf(h.status)
        /\ task'.version = task.version + 1 /\ task'.claim = 0
        /\ task'.creation = task.creation /\ task'.message = task.message
    BY <2>1, <2>2, <2>3, MovedType DEF TaskStatus
  <2>5. VerificationTypeOK'
    BY <1>1, <2>4 DEF VerificationInv, VerificationTypeOK, Tasks, TaskStatus
  <2>6. h.status = task.status /\ h.creation = task.creation /\ ClaimUnderway(h)
    BY <2>1 DEF VerificationInv, ClaimsTell
  <2>7. /\ h.status = "passing" => <<h.creation, "restore">> \in told
        /\ h.status = "expiring" =>
             <<h.creation, "ban">> \in told /\ <<h.creation, "unban">> \in told
        /\ h.status = "cancelling" => <<h.creation, "restore">> \in told \/ task.message # 0
    <3>1. <<>> # <<"restore">> /\ <<>> # <<"ban", "unban">> /\ <<>> # <<"unban">>
      OBVIOUS
    <3> QED
      BY <1>1, <2>1, <2>6, <3>1 DEF ClaimUnderway
  <2>8. task.status \in {"passing", "passed"} => task.creation \in answered
    BY DEF VerificationInv, Shows
  <2>9. Shows'
    BY <1>1, <2>3, <2>4, <2>6, <2>7, <2>8 DEF Shows
  <2>10. task.creation \in answered => task'.status = "passed"
    BY <2>2, <2>3, <2>4, <2>6 DEF VerificationInv, Decided, Delivering
  <2> QED
    BY <1>1, <2>2, <2>3, <2>4, <2>5, <2>6, <2>9, <2>10, TransitionSteps DEF Begun, Delivering
<1>3. CASE ~OwnsTask(h)
  <2>1. task' = task
    BY <1>3 DEF CompleteTask
  <2>2. VerificationTypeOK'
    BY <1>1, <2>1 DEF VerificationInv, VerificationTypeOK
  <2> QED
    BY <1>1, <2>1, <2>2, MemberQuietSteps DEF Begun
<1> QED
  BY <1>2, <1>3

(* A claim is given back, or was lost: the row stays what it is.           *)
LEMMA ReleaseSteps ==
  ASSUME VerificationInv, inHand' \subseteq inHand, mishaps' \in Nat,
         task.status \in Delivering, task.claim # 0,
         task' = [task EXCEPT !.next = "now", !.claim = 0],
         UNCHANGED <<clock, member, joins, updates, handler, opened, request, granted, answered,
                     told, overtaken>>
  PROVE  VerificationInv'
<1>1. task \in Tasks /\ granted \in Nat
  BY DEF VerificationInv, VerificationTypeOK, Tasks, TaskStatus
<1>2. /\ task' \in Tasks /\ task'.claim = 0
      /\ task'.status = task.status /\ task'.version = task.version
      /\ task'.creation = task.creation /\ task'.message = task.message
  <2>1. task' = [status |-> task.status, version |-> task.version, creation |-> task.creation,
                 message |-> task.message, next |-> "now", claim |-> 0]
    BY <1>1 DEF Tasks
  <2> QED
    BY <1>1, <2>1 DEF Tasks
<1>3. VerificationTypeOK'
  BY <1>2 DEF VerificationInv, VerificationTypeOK, Tasks, TaskStatus
<1>4. VersionsTell'
  BY <1>1, <1>2 DEF VerificationInv, VersionsTell, Begun, Delivering
<1>5. RequestsTell'
  BY <1>2 DEF VerificationInv, RequestsTell
<1>6. \A h \in inHand' : h \in inHand /\ h.token \in 1 .. granted /\ h.token # 0
  BY <1>1 DEF VerificationInv, ClaimsTell
<1>7. \A h \in inHand' : ClaimUnderway(h)'
  BY <1>2, <1>6 DEF VerificationInv, ClaimsTell, ClaimUnderway
<1>8. ClaimsTell'
  BY <1>2, <1>6, <1>7 DEF VerificationInv, ClaimsTell, Begun
<1>9. Decided'
  BY <1>2, <1>6 DEF VerificationInv, Decided, Begun
<1>10. Shows'
  BY <1>2 DEF VerificationInv, Shows
<1> QED
  BY <1>3, <1>4, <1>5, <1>8, <1>9, <1>10 DEF VerificationInv

LEMMA RetryTaskStep ==
  ASSUME VerificationInv, NEW h \in inHand, RetryTask(h)
  PROVE  VerificationInv'
<1>1. /\ inHand' = inHand \ {h} /\ mishaps' \in Nat
      /\ UNCHANGED <<clock, member, joins, updates, handler, opened, request, granted, answered,
                     told, overtaken>>
  BY DEF RetryTask, Mishap, VerificationInv, VerificationTypeOK
<1>2. CASE OwnsTask(h)
  <2>1. task' = [task EXCEPT !.next = "now", !.claim = 0]
    BY <1>2 DEF RetryTask
  <2>2. task.status \in Delivering /\ task.claim # 0
    BY <1>2 DEF OwnsTask, VerificationInv, VerificationTypeOK, ClaimsTell
  <2> QED
    BY <1>1, <2>1, <2>2, ReleaseSteps
<1>3. CASE ~OwnsTask(h)
  <2>1. task' = task
    BY <1>3 DEF RetryTask
  <2>2. VerificationTypeOK'
    BY <1>1, <2>1 DEF VerificationInv, VerificationTypeOK
  <2> QED
    BY <1>1, <2>1, <2>2, MemberQuietSteps DEF Begun
<1> QED
  BY <1>2, <1>3

LEMMA DropClaimStep ==
  ASSUME VerificationInv, NEW h \in inHand, DropClaim(h)
  PROVE  VerificationInv'
<1>1. VerificationTypeOK'
  BY DEF DropClaim, Mishap, VerificationInv, VerificationTypeOK
<1> QED
  BY <1>1, MemberQuietSteps DEF DropClaim, Begun

LEMMA RecoverTaskStep == VerificationInv /\ RecoverTask => VerificationInv'
<1> SUFFICES ASSUME VerificationInv, RecoverTask PROVE VerificationInv'
  OBVIOUS
<1>1. mishaps' \in Nat
  BY DEF RecoverTask, VerificationInv, VerificationTypeOK
<1> QED
  BY <1>1, ReleaseSteps DEF RecoverTask

----------------------------------------------------------------------------
LEMMA VerificationInvNext ==
  VerificationInv /\ [VerificationNext]_verificationVars => VerificationInv'
<1> SUFFICES ASSUME VerificationInv, [VerificationNext]_verificationVars
             PROVE  VerificationInv'
  OBVIOUS
<1>1. CASE UNCHANGED verificationVars
  <2>1. VerificationTypeOK'
    BY <1>1 DEF verificationVars, VerificationInv, VerificationTypeOK
  <2> QED
    BY <1>1, <2>1, MemberQuietSteps DEF verificationVars, Begun
<1>2. CASE Join \/ Leaves \/ VerificationTick
  BY <1>2, TelegramSteps
<1>3. CASE \E c \in Creations :
             \/ BeginVerification(c) \/ RestrictMember(c) \/ Welcome(c) \/ HandlerFails(c)
             \/ Activate(c) \/ ActivateRefused(c) \/ AbortCreation(c) \/ LoadPass(c)
  BY <1>3, BeginVerificationStep, HandlerSteps, ActivateStep, AbortCreationStep, LoadPassStep
<1>4. CASE LoadLeft \/ ApplyPass \/ ApplyLeft
  BY <1>4, LoadLeftStep, ApplyPassStep, ApplyLeftStep
<1>5. CASE \E kind \in {"pass", "left"} : RequestRefused(kind)
  BY <1>5, RequestRefusedStep
<1>6. CASE ClaimTask \/ RecoverTask \/ Redelivered \/ VerificationCrash
  BY <1>6, ClaimTaskStep, RecoverTaskStep, RedeliveredStep, VerificationCrashStep
<1>7. CASE \E h \in inHand : DeliverEffect(h) \/ CompleteTask(h) \/ RetryTask(h) \/ DropClaim(h)
  BY <1>7, DeliverEffectStep, CompleteTaskStep, RetryTaskStep, DropClaimStep
<1> QED
  BY <1>1, <1>2, <1>3, <1>4, <1>5, <1>6, <1>7 DEF VerificationNext

LEMMA VerificationInvAlways == VerificationSpec => []VerificationInv
<1> QED
  BY VerificationInitially, VerificationInvNext, PTL DEF VerificationSpec

(* The row, the claims and the requests keep their types.                  *)
THEOREM VerificationTypesCorrect == VerificationSpec => []VerificationTypeOK
<1>1. VerificationInv => VerificationTypeOK
  BY DEF VerificationInv
<1> QED
  BY <1>1, VerificationInvAlways, PTL

(* Answer or deadline, never both; and what the row says was done.         *)
THEOREM AnswerExcludesDeadline == VerificationSpec => []AnswerOrDeadline
<1>1. VerificationInv => AnswerOrDeadline
  BY DEF VerificationInv, VersionsTell, Decided, Shows, AnswerOrDeadline
<1> QED
  BY <1>1, VerificationInvAlways, PTL

-----------------------------------------------------------------------------
(* A step of one service leaves the others where they are.                 *)
LEMMA OneServiceSteps ==
  ASSUME [ServicesNext]_servicesVars
  PROVE  /\ [Next]_vars /\ [BillingNext]_billingVars /\ [VerificationNext]_verificationVars
         /\ [UserProfileNext]_dreamVars /\ [AnnouncementNext]_announcementVars
         /\ [SchedulesNext]_scheduleVars /\ [SupervisorNext]_supervisorVars
         /\ [EconomyNext]_economyVars /\ [ContextNext]_contextVars
<1>1. CASE UNCHANGED servicesVars
  BY <1>1 DEF servicesVars
<1>2. CASE AgentStep
  BY <1>2 DEF AgentStep
<1>3. CASE BillingStep
  BY <1>3 DEF BillingStep
<1>4. CASE VerificationStep
  BY <1>4 DEF VerificationStep
<1>5. CASE ProfileStep
  BY <1>5 DEF ProfileStep
<1>6. CASE AnnouncementStep
  BY <1>6 DEF AnnouncementStep
<1>7. CASE SchedulesStep
  BY <1>7 DEF SchedulesStep
<1>8. CASE LifecycleStep
  BY <1>8 DEF LifecycleStep
<1>9. CASE EconomyStep
  BY <1>9 DEF EconomyStep
<1>10. CASE ContextStep
  BY <1>10 DEF ContextStep
<1> QED
  BY <1>1, <1>2, <1>3, <1>4, <1>5, <1>6, <1>7, <1>8, <1>9, <1>10 DEF ServicesNext

(* The process, in which the services share nothing, implements each one of *)
(* them: what the others do is a stutter.                                  *)
LEMMA EveryServiceKept ==
  ServicesSpec =>
    /\ Spec /\ BillingSpec /\ VerificationSpec /\ UserProfileSpec /\ AnnouncementSpec
    /\ SchedulesSpec /\ SupervisorSpec /\ EconomySpec /\ ContextSpec
<1>1. ServicesInit =>
        /\ Init /\ BillingInit /\ VerificationInit /\ UserProfileInit /\ AnnouncementInit
        /\ SchedulesInit /\ SupervisorInit /\ EconomyInit /\ ContextInit
  BY DEF ServicesInit
<1>2. [ServicesNext]_servicesVars =>
        /\ [Next]_vars /\ [BillingNext]_billingVars /\ [VerificationNext]_verificationVars
        /\ [UserProfileNext]_dreamVars /\ [AnnouncementNext]_announcementVars
        /\ [SchedulesNext]_scheduleVars /\ [SupervisorNext]_supervisorVars
        /\ [EconomyNext]_economyVars /\ [ContextNext]_contextVars
  BY OneServiceSteps
<1> QED
  BY <1>1, <1>2, PTL
     DEF ServicesSpec, Spec, BillingSpec, VerificationSpec, UserProfileSpec, AnnouncementSpec,
         SchedulesSpec, SupervisorSpec, EconomySpec, ContextSpec

(* Whichever service a behaviour is about, the tables of all of them keep  *)
(* their types.                                                            *)
THEOREM ServicesTypesCorrect == ServicesSpec => []ServicesTypeOK
BY EveryServiceKept, AgentTypesCorrect, BillingTypeCorrect, VerificationTypesCorrect,
   UserProfileTypesCorrect, AnnouncementTypesCorrect, SchedulesTypeCorrect,
   SupervisorTypeCorrect, EconomyTypesCorrect, ContextTypesCorrect, PTL DEF ServicesTypeOK

(* What the services promise apart, the process keeps with all of them:    *)
(* the properties of the run on Services.                                  *)
THEOREM ServicesKeepTheirWord ==
  ServicesSpec =>
    /\ [](NothingForReturnedMoney /\ PeriodsDisjoint /\ RefundsInStep)
    /\ [](AnswerOrDeadline /\ ForgottenStays /\ EachEventOnce /\ ReportComplete)
    /\ [](FiresInOrder /\ StopInOrder /\ PaidOnce /\ BooksAgree)
    /\ [](ContextIsWhole /\ FilesAreAccounted)
    /\ CircuitsRecover /\ EffectsOnce
<1>1. ServicesSpec =>
        /\ []NothingForReturnedMoney /\ []PeriodsDisjoint /\ []RefundsInStep
        /\ []AnswerOrDeadline /\ []ForgottenStays /\ []EachEventOnce /\ []ReportComplete
        /\ []FiresInOrder /\ []StopInOrder /\ []PaidOnce /\ []BooksAgree
        /\ []ContextIsWhole /\ []FilesAreAccounted
  BY EveryServiceKept, NothingForMoneyBack, PeriodsNeverOverlap, RefundsStayInStep,
     AnswerExcludesDeadline, ForgottenForGood, ConsolidatedOnce, ReportIsComplete,
     OccurrencesInOrder, StopsInOrder, FactsPaidOnce, TreasuryAgrees, EveryRowOnce,
     FilesSettled, PTL
<1>2. ServicesSpec => CircuitsRecover /\ EffectsOnce
  BY EveryServiceKept, CircuitsAlwaysRecover, AgentKeepsLedger, PTL
<1> QED
  BY <1>1, <1>2, PTL
=============================================================================
