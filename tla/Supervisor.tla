----------------------------- MODULE Supervisor -----------------------------
(***************************************************************************)
(* The process lifecycle: BotRuntime starts the background services in one *)
(* task group, tells them to stop phase by phase, aborts them all when one *)
(* fails or the stop is a cancelling one, and closes the keyed mailboxes   *)
(* after them (application/runtime/bot_runtime.py).  The mailboxes' own    *)
(* shutdown is modelled by itself; here it is one step.                    *)
(***************************************************************************)
EXTENDS Naturals

CONSTANTS
  Bindings,  \* the services
  PhaseOf,   \* their shutdown_phase
  Stoppers   \* callers of shutdown

ASSUME SupervisorAssumption == PhaseOf \in [Bindings -> Nat]

VARIABLES
  runtime,    \* BotRuntime._state
  binding,    \* the task of each service
  toldToStop, \* services whose stop event is set
  stopEvent,
  supervisor, \* where _supervise is
  phase,      \* the shutdown phase it waits for
  failure,    \* _failure is set
  mailboxes,  \* the execution runtime
  stopper     \* where each caller of shutdown is, and its mode

supervisorVars ==
  <<runtime, binding, toldToStop, stopEvent, supervisor, phase, failure, mailboxes, stopper>>

Phases == {PhaseOf[b] : b \in Bindings}
Resting == [pc |-> "before", mode |-> "drain"]

SupervisorInit ==
  /\ runtime = "new"
  /\ binding = [b \in Bindings |-> "none"]
  /\ toldToStop = {} /\ stopEvent = FALSE
  /\ supervisor = "none" /\ phase = 0 /\ failure = FALSE
  /\ mailboxes = "new"
  /\ stopper = [c \in Stoppers |-> Resting]

StartRuntime ==
  /\ runtime = "new"
  /\ runtime' = "running"
  /\ mailboxes' = "open"
  /\ binding' = [b \in Bindings |-> "running"]
  /\ supervisor' = "waiting"
  /\ UNCHANGED <<toldToStop, stopEvent, phase, failure, stopper>>

----------------------------------------------------------------------------
(* The services *)

ServiceReturns(b) ==
  /\ binding[b] = "running" /\ b \in toldToStop
  /\ binding' = [binding EXCEPT ![b] = "ended"]
  /\ UNCHANGED <<runtime, toldToStop, stopEvent, supervisor, phase, failure, mailboxes, stopper>>

(* A service raises, or returns before it was told to: the task group      *)
(* cancels the others and the supervisor.                                  *)
ServiceFails(b) ==
  /\ binding[b] = "running"
  /\ supervisor \in {"waiting", "stopping", "aborting"}
  /\ binding' = [c \in Bindings |->
       CASE c = b -> "failed"
         [] c # b /\ binding[c] = "running" -> "cancelled"
         [] OTHER -> binding[c]]
  /\ supervisor' = "aborting"
  /\ UNCHANGED <<runtime, toldToStop, stopEvent, phase, failure, mailboxes, stopper>>

(* A cancelled service ends, well or with an error of its own. *)
ServiceAborted(b, how) ==
  /\ binding[b] = "cancelled"
  /\ binding' = [binding EXCEPT ![b] = how]
  /\ UNCHANGED <<runtime, toldToStop, stopEvent, supervisor, phase, failure, mailboxes, stopper>>

Over == {"ended", "failed"}

----------------------------------------------------------------------------
(* _supervise *)

TellPhase(n) == toldToStop' = toldToStop \cup {b \in Bindings : PhaseOf[b] = n}

Lowest(s) == {n \in s : \A k \in s : n <= k}

StopBegins ==
  /\ supervisor = "waiting" /\ stopEvent
  /\ IF Bindings = {}
       THEN supervisor' = "done" /\ UNCHANGED <<phase, toldToStop>>
       ELSE supervisor' = "stopping" /\ phase' \in Lowest(Phases) /\ TellPhase(phase')
  /\ UNCHANGED <<runtime, binding, stopEvent, failure, mailboxes, stopper>>

(* Mutant of PhaseOver: a phase is over when its services were told. *)
PhaseOverWhenTold(n) == {b \in Bindings : PhaseOf[b] = n} \subseteq toldToStop

PhaseOver(n) == \A b \in Bindings : PhaseOf[b] = n => binding[b] \in Over

NextPhase ==
  /\ supervisor = "stopping"
  /\ PhaseOver(phase)
  /\ LET later == {n \in Phases : n > phase} IN
     IF later = {}
       THEN supervisor' = "done" /\ UNCHANGED <<phase, toldToStop>>
       ELSE phase' \in Lowest(later) /\ TellPhase(phase') /\ UNCHANGED supervisor
  /\ UNCHANGED <<runtime, binding, stopEvent, failure, mailboxes, stopper>>

(* The task group ends when all its tasks have; an error among them wins   *)
(* over a cancellation.                                                    *)
GroupEnds ==
  /\ supervisor = "aborting"
  /\ \A b \in Bindings : binding[b] \in Over
  /\ stopEvent' = TRUE
  /\ IF \E b \in Bindings : binding[b] = "failed"
       THEN failure' = TRUE /\ runtime' = "failed" /\ supervisor' = "closing"
       ELSE supervisor' = "cancelled" /\ UNCHANGED <<failure, runtime>>
  /\ UNCHANGED <<binding, toldToStop, phase, mailboxes, stopper>>

FailureClosesMailboxes ==
  /\ supervisor = "closing"
  /\ mailboxes' = "closed"
  /\ supervisor' = "done"
  /\ UNCHANGED <<runtime, binding, toldToStop, stopEvent, phase, failure, stopper>>

----------------------------------------------------------------------------
(* shutdown, by a drain or a cancel, and a cancelled start, which does     *)
(* what a cancel does but announces nothing; when it may come is not       *)
(* limited to the short while in which start waits.                        *)

ShutdownNew(c) ==
  /\ stopper[c].pc = "before" /\ runtime = "new"
  /\ mailboxes' = "closed" /\ runtime' = "stopped"
  /\ stopper' = [stopper EXCEPT ![c].pc = "after"]
  /\ UNCHANGED <<binding, toldToStop, stopEvent, supervisor, phase, failure>>

Aborted == [b \in Bindings |-> IF binding[b] = "running" THEN "cancelled" ELSE binding[b]]

(* supervisor.cancel(): it reaches the services through the task group, or *)
(* interrupts the closing of the mailboxes.                                *)
CancelSupervisor ==
  CASE supervisor \in {"waiting", "stopping"} -> supervisor' = "aborting" /\ binding' = Aborted
    [] supervisor = "closing" -> supervisor' = "cancelled" /\ UNCHANGED binding
    [] OTHER -> UNCHANGED <<supervisor, binding>>

Shutdown(c, mode) ==
  /\ stopper[c].pc = "before"
  /\ runtime \in (IF mode = "interrupt" THEN {"running"} ELSE {"running", "stopping", "failed"})
  /\ stopEvent' = TRUE
  /\ runtime' = IF runtime = "failed" \/ mode = "interrupt" THEN runtime ELSE "stopping"
  /\ IF mode = "drain" THEN UNCHANGED <<supervisor, binding>> ELSE CancelSupervisor
  /\ stopper' = [stopper EXCEPT ![c] = [pc |-> "awaiting", mode |-> mode]]
  /\ UNCHANGED <<toldToStop, phase, failure, mailboxes>>

SupervisorOver == supervisor \in {"done", "cancelled"}

(* The caller closes the mailboxes, whatever mode it asked for; a draining *)
(* caller whose supervisor another one cancelled is cancelled with it.     *)
ShutdownEnds(c) ==
  /\ stopper[c].pc = "awaiting"
  /\ SupervisorOver
  /\ IF stopper[c].mode = "drain" /\ supervisor = "cancelled"
       THEN UNCHANGED <<mailboxes, runtime>>
       ELSE mailboxes' = "closed" /\ runtime' = IF failure THEN "failed" ELSE "stopped"
  /\ stopper' = [stopper EXCEPT ![c].pc = "after"]
  /\ UNCHANGED <<binding, toldToStop, stopEvent, supervisor, phase, failure>>

----------------------------------------------------------------------------
SupervisorNext ==
  \/ StartRuntime \/ StopBegins \/ NextPhase \/ GroupEnds \/ FailureClosesMailboxes
  \/ \E b \in Bindings :
       \/ ServiceReturns(b) \/ ServiceFails(b)
       \/ \E how \in Over : ServiceAborted(b, how)
  \/ \E c \in Stoppers :
       \/ ShutdownNew(c) \/ ShutdownEnds(c)
       \/ \E mode \in {"drain", "cancel", "interrupt"} : Shutdown(c, mode)

SupervisorSpec == SupervisorInit /\ [][SupervisorNext]_supervisorVars

----------------------------------------------------------------------------
SupervisorTypeOK ==
  /\ runtime \in {"new", "running", "stopping", "stopped", "failed"}
  /\ binding \in [Bindings -> {"none", "running", "cancelled"} \cup Over]
  /\ toldToStop \subseteq Bindings
  /\ stopEvent \in BOOLEAN /\ failure \in BOOLEAN
  /\ supervisor \in {"none", "waiting", "stopping", "aborting", "closing", "done", "cancelled"}
  /\ phase \in Nat
  /\ mailboxes \in {"new", "open", "closed"}
  /\ stopper \in [Stoppers -> [pc : {"before", "awaiting", "after"},
                               mode : {"drain", "cancel", "interrupt"}]]

(* The order of a stop, however drains, cancellations, an interrupted       *)
(* start and failures at any moment of it meet: a service is told to stop   *)
(* only when all of the earlier phases have ended, the mailboxes outlive    *)
(* every service, and a runtime that says it stopped has nothing running    *)
(* (bot_runtime.py:275 and 204).                                            *)
StopInOrder ==
  /\ \A a \in toldToStop, b \in Bindings : PhaseOf[b] < PhaseOf[a] => binding[b] \in Over
  /\ mailboxes = "closed" \/ runtime = "stopped" =>
       \A b \in Bindings : binding[b] \notin {"running", "cancelled"}
  /\ runtime = "stopped" => mailboxes = "closed"
=============================================================================
