--------------------------- MODULE AssistantAgent ---------------------------
(***************************************************************************)
(* The Assistant's agent loop and its tool effects: one turn whose         *)
(* inference activity is claimed, steered, lost and retried while its      *)
(* workers walk the provider routes (inference/service.py), plan a step,   *)
(* checkpoint the plan and run its tool calls (agent_loop.py), each under  *)
(* a leased receipt (infrastructure/database/assistant_tool_effects.py).   *)
(*                                                                         *)
(* Simplifications.  A plan is the sequence of its calls, a call only its  *)
(* kind.  What a request hash tells apart within a generation is the route *)
(* and the model, whether images are sent, and the results that were read  *)
(* without a receipt; the models of a route are numbered in the order in   *)
(* which they are tried.  A claim token is the ordinal of the claim.  An assertion of the generation outside of a      *)
(* transaction can only cut short a run whose generation has ended:        *)
(* StaleRun is enabled wherever the code makes one, and only transactions  *)
(* have it as a guard.  Progress messages, streaming and the text of the   *)
(* answer are left out.                                                    *)
(***************************************************************************)
EXTENDS FailureCircuit, Sequences, FiniteSets

CONSTANTS
  Workers,      \* inference workers of the process, among the Callers
  GuestRoutes,  \* bound on the routes that other turns of the process call
  Models,       \* how many models each route has
  Sighted,      \* <<route, model>>: those that accept images
  Images,       \* whether the context of the turn has images
  Plans,        \* tool plans a provider may answer with; <<>> is an answer
  MaxCalls,     \* bound on the calls of a plan
  MaxStep,      \* max_iterations: the last step exposes no tools
  MaxRevision,  \* bound on the steers of the turn
  MaxBudget,    \* attempts that may fail before the turn does
  MaxFaults     \* bound on crashes, failures, late answers and drifting reads

ASSUME AgentAssumption ==
  /\ Workers \subseteq Callers /\ GuestRoutes \subseteq Routes
  /\ Models \in [Routes -> Nat \ {0}] /\ Sighted \subseteq Routes \X Nat
  /\ Images \in BOOLEAN
  /\ Plans \subseteq UNION {[1 .. n -> {"read", "atomic", "outside"}] : n \in 0 .. MaxCalls}
  /\ MaxStep \in Nat /\ MaxRevision \in Nat /\ MaxFaults \in Nat
  /\ MaxCalls \in Nat \ {0} /\ MaxBudget \in Nat \ {0}

VARIABLES
  status,      \* of the inference activity
  token,       \* claim_token of the activity, 0 for NULL
  claims,      \* attempt_count
  budget,      \* retry_budget_used
  revision,    \* input_revision
  checkpoint,  \* assistant.tool_agent_steps, by generation and step
  receipt,     \* assistant.tool_effect_receipts, by generation, step and ordinal
  effects,     \* how often the durable effect of a call was committed
  agent,       \* the run of each worker
  fact,        \* what a read without receipt returns
  faults

activity == <<status, token, claims, budget, revision>>
durable  == <<checkpoint, receipt, effects>>
vars     == <<circuit, activity, durable, agent, fact, faults>>

Claimable == {"pending", "steer_pending", "retry"}
Ended     == {"completed", "failed"}
Modes     == {"read", "atomic", "outside"}
Guests    == Callers \ Workers

Slots == (0 .. MaxRevision) \X (0 .. MaxStep)
Calls == (0 .. MaxRevision) \X (0 .. MaxStep) \X (1 .. MaxCalls)

NoStep    == [route |-> 0, model |-> 0, images |-> FALSE, seen |-> <<>>, plan |-> <<>>]
NoReceipt == [status |-> "none", token |-> 0, live |-> FALSE, request |-> "none"]

Idle == [pc |-> "idle", claim |-> 0, revision |-> 0, route |-> 0, model |-> 0, text |-> FALSE,
         step |-> 0, ord |-> 0, seen |-> <<>>, plan |-> <<>>, receipt |-> 0, late |-> FALSE]

Init ==
  /\ CircuitInit
  /\ status = "pending"
  /\ token = 0
  /\ claims = 0
  /\ budget = 0
  /\ revision = 0
  /\ checkpoint = [x \in Slots |-> NoStep]
  /\ receipt = [c \in Calls |-> NoReceipt]
  /\ effects = [c \in Calls |-> 0]
  /\ agent = [w \in Workers |-> Idle]
  /\ fact = 0
  /\ faults = 0

Fault == faults < MaxFaults /\ faults' = faults + 1

At(w, places) == agent[w].pc \in places

(* Where a run holds the permit of its route. *)
Calling == {"load", "provider", "save", "call", "atomic", "preflight", "outside", "final"}

(* _assert_current_generation, and the fence of every settlement. *)
Current(w) ==
  /\ status = "processing"
  /\ token = agent[w].claim
  /\ revision = agent[w].revision

Goto(w, pc) == agent' = [agent EXCEPT ![w].pc = pc]

----------------------------------------------------------------------------
(* The activity, as far as the agent sees it *)

ClaimActivity(w) ==
  /\ At(w, {"idle"})
  /\ status \in Claimable
  /\ status' = "processing"
  /\ claims' = claims + 1
  /\ token' = claims + 1
  /\ agent' = [agent EXCEPT ![w] =
                 [Idle EXCEPT !.pc = "begin", !.claim = claims + 1, !.revision = revision]]
  /\ UNCHANGED <<circuit, budget, revision, durable, fact, faults>>

(* A new message of the user steers the turn: a new generation. *)
Steer ==
  /\ status \in {"processing", "steer_pending"}
  /\ revision < MaxRevision
  /\ status' = "steer_pending"
  /\ token' = 0
  /\ budget' = 0
  /\ revision' = revision + 1
  /\ UNCHANGED <<circuit, claims, durable, agent, fact, faults>>

(* The lease of the activity elapses and the sweep finds it: a fault only  *)
(* if its worker is still there.                                           *)
LeaseRecovered ==
  /\ status = "processing"
  /\ IF \E w \in Workers : agent[w].claim = token THEN Fault ELSE UNCHANGED faults
  /\ status' = "retry"
  /\ token' = 0
  /\ UNCHANGED <<circuit, claims, budget, revision, durable, agent, fact>>

----------------------------------------------------------------------------
(* AssistantInferenceService._try_routes *)

(* The first route after r whose circuit gives a permit.                   *)
NextRoute(states, r, n) ==
  /\ n \in Routes
  /\ n > r
  /\ Admits(states[n])
  /\ \A m \in Routes : (r < m /\ m < n) => ~Admits(states[m])

(* A run that has left its route, and with it the state of its loop: in    *)
(* the pass without images or not.                                         *)
OffRoute(a, pc, text) ==
  [Idle EXCEPT !.pc = pc, !.claim = a.claim, !.revision = a.revision, !.text = text]

(* What the loop does when it is done with route r: the next one gets a    *)
(* fresh copy of the context; once they are exhausted, a context with      *)
(* images is offered to all of them once more as text (infer).             *)
TryFrom(w, states, r) ==
  \/ \E n \in Routes :
       /\ NextRoute(states, r, n)
       /\ circuit' = [states EXCEPT ![n] = Acquired(@, w)]
       /\ agent' = [agent EXCEPT ![w].pc = "load", ![w].route = n, ![w].model = 1]
  \/ /\ \A n \in Routes : ~NextRoute(states, r, n)
     /\ circuit' = states
     /\ LET again == Images /\ ~agent[w].text IN
          agent' = [agent EXCEPT
                      ![w] = OffRoute(@, IF again THEN "begin" ELSE "retrying", again)]

BeginRoutes(w) ==
  /\ At(w, {"begin"})
  /\ TryFrom(w, circuit, 0)
  /\ UNCHANGED <<activity, durable, fact, faults>>

(* An exception that says nothing of the route: finally abandons the permit. *)
Leave(w, pc) ==
  /\ agent' = [agent EXCEPT ![w] = IF pc = "idle" THEN Idle
                                   ELSE OffRoute(@, pc, FALSE)]
  /\ circuit' = [circuit EXCEPT ![agent[w].route] = Abandon(@, w)]

----------------------------------------------------------------------------
(* AgentLoop._complete_step *)

Slot(w) == <<agent[w].revision, agent[w].step>>

(* What follows a plan: its first call, or the final answer. *)
Planned(a, plan) ==
  [a EXCEPT !.plan = plan, !.ord = 1, !.pc = IF plan = <<>> THEN "final" ELSE "call"]

(* _messages_for_model: a model without eyes gets the text of the images. *)
SendsImages(w) ==
  Images /\ ~agent[w].text /\ <<agent[w].route, agent[w].model>> \in Sighted

(* What _completion_request_hash tells apart, with the plan answered. *)
Asked(w, plan) ==
  [route |-> agent[w].route, model |-> agent[w].model, images |-> SendsImages(w),
   seen |-> agent[w].seen, plan |-> plan]

(* _validate_checkpoint *)
SameRequest(w, step) == step = Asked(w, step.plan)

(* A checkpoint is replayed instead of calling the provider; one of        *)
(* another request is a conflict, which fails the turn.                    *)
LoadStep(w) ==
  /\ At(w, {"load"})
  /\ LET step == checkpoint[Slot(w)] IN
       IF step = NoStep THEN Goto(w, "provider") /\ UNCHANGED circuit
       ELSE IF SameRequest(w, step)
         THEN agent' = [agent EXCEPT ![w] = Planned(@, step.plan)] /\ UNCHANGED circuit
         ELSE Leave(w, "failing")
  /\ UNCHANGED <<activity, durable, fact, faults>>

(* Mutant of ProviderAnswers: the last step still exposes the tools. *)
ProviderAnswersForever(w) ==
  /\ At(w, {"provider"})
  /\ \E plan \in Plans : agent' = [agent EXCEPT ![w].pc = "save", ![w].plan = plan]
  /\ UNCHANGED <<circuit, activity, durable, fact, faults>>

ProviderAnswers(w) ==
  /\ At(w, {"provider"})
  /\ \E plan \in Plans :
       /\ agent[w].step = MaxStep => plan = <<>>
       /\ agent' = [agent EXCEPT ![w].pc = "save", ![w].plan = plan]
  /\ UNCHANGED <<circuit, activity, durable, fact, faults>>

(* The failure of a candidate counts as a fault unless one before it has   *)
(* failed: an outage may be that of every model and every route.           *)
LaterCandidate(w) ==
  /\ agent[w].step = 0
  /\ \/ agent[w].model > 1
     \/ agent[w].text
     \/ \E r \in Routes : r < agent[w].route /\ Admits(circuit[r])

Outage(w) == IF LaterCandidate(w) THEN UNCHANGED faults ELSE Fault

(* _run_route: a failure worth a retry or a blocked answer, before         *)
(* anything was done or shown, leaves the route to its next model.         *)
NextModel(w) ==
  /\ At(w, {"provider"})
  /\ agent[w].step = 0
  /\ agent[w].model < Models[agent[w].route]
  /\ Outage(w)
  /\ agent' = [agent EXCEPT ![w].pc = "load", ![w].model = @ + 1]
  /\ UNCHANGED <<circuit, activity, durable, fact>>

LastModel(w) == agent[w].step = 0 /\ agent[w].model = Models[agent[w].route]

(* A failure worth a retry of the last model: before anything was done or  *)
(* shown, the next route is tried; later the attempt is interrupted, to be *)
(* resumed.                                                                *)
ProviderFails(w) ==
  /\ At(w, {"provider"})
  /\ Fault
  /\ LET r == agent[w].route IN
       \/ /\ LastModel(w)
          /\ \E kept \in 0 .. circuit[r].failures :
               TryFrom(w, [circuit EXCEPT ![r] = RecordFailure(@, w, kept)], r)
       \/ Leave(w, "retrying")
  /\ UNCHANGED <<activity, durable, fact>>

(* A rejection is recorded too, but no other route is asked. *)
ProviderRejects(w) ==
  /\ At(w, {"provider"})
  /\ Fault
  /\ LET r == agent[w].route IN
       \E kept \in 0 .. circuit[r].failures :
         circuit' = [circuit EXCEPT ![r] = RecordFailure(@, w, kept)]
  /\ agent' = [agent EXCEPT ![w] = OffRoute(@, "rejected", FALSE)]
  /\ UNCHANGED <<activity, durable, fact>>

(* A safety filter blocks the answer of the last model, which says nothing *)
(* of the route's health: terminal for some routes, else the next is       *)
(* tried.                                                                  *)
ProviderBlocks(w) ==
  /\ At(w, {"provider"})
  /\ LastModel(w)
  /\ Outage(w)
  /\ LET r == agent[w].route IN
       \/ TryFrom(w, [circuit EXCEPT ![r] = Abandon(@, w)], r)
       \/ Leave(w, "rejected")
  /\ UNCHANGED <<activity, durable, fact>>

NewStep(w) == Asked(w, agent[w].plan)

(* save_step: one transaction, which the first plan of a step wins. *)
SaveStep(w) ==
  /\ At(w, {"save"})
  /\ Current(w)
  /\ IF checkpoint[Slot(w)] \in {NoStep, NewStep(w)}
       THEN /\ checkpoint' = [checkpoint EXCEPT ![Slot(w)] = NewStep(w)]
            /\ agent' = [agent EXCEPT ![w] = Planned(@, @.plan)]
            /\ UNCHANGED circuit
       ELSE Leave(w, "failing") /\ UNCHANGED checkpoint
  /\ UNCHANGED <<activity, receipt, effects, fact, faults>>

----------------------------------------------------------------------------
(* AgentLoop._execute_calls and PostgresToolEffectPersistence.execute *)

Call(w) == <<agent[w].revision, agent[w].step, agent[w].ord>>
Mode(w) == agent[w].plan[agent[w].ord]

(* record_tool_result and advance_after_tools *)
AfterCall(a) ==
  IF a.ord < Len(a.plan)
    THEN [a EXCEPT !.pc = "call", !.ord = @ + 1, !.receipt = 0, !.late = FALSE]
    ELSE [a EXCEPT !.pc = "load", !.step = @ + 1, !.ord = 0, !.plan = <<>>, !.receipt = 0,
                   !.late = FALSE]

(* A result that is not cacheable is read again by every attempt. *)
ReadOutside(w) ==
  /\ At(w, {"call"})
  /\ Mode(w) = "read"
  /\ agent' = [agent EXCEPT ![w] = AfterCall([agent[w] EXCEPT !.seen = Append(@, fact)])]
  /\ UNCHANGED <<circuit, activity, durable, fact, faults>>

NewReceipt(w, old) ==
  [status |-> "processing", token |-> old.token + 1, live |-> TRUE, request |-> Mode(w)]

Busy(row) == row.status = "processing" /\ row.live

(* _claim, one transaction: a receipt that has succeeded is replayed, one  *)
(* that is being worked on interrupts the attempt, any other is taken over *)
(* under a new token.                                                      *)
ClaimReceipt(w) ==
  /\ At(w, {"call"})
  /\ Mode(w) # "read"
  /\ Current(w)
  /\ LET row == receipt[Call(w)] IN
       IF row.request \notin {"none", Mode(w)}
         THEN Leave(w, "failing") /\ UNCHANGED receipt
       ELSE IF row.status = "succeeded"
         THEN agent' = [agent EXCEPT ![w] = AfterCall(@)] /\ UNCHANGED <<circuit, receipt>>
       ELSE IF Busy(row)
         THEN Leave(w, "retrying") /\ UNCHANGED receipt
         ELSE /\ receipt' = [receipt EXCEPT ![Call(w)] = NewReceipt(w, row)]
              /\ agent' = [agent EXCEPT
                   ![w].pc = IF Mode(w) = "atomic" THEN "atomic" ELSE "preflight",
                   ![w].receipt = row.token + 1, ![w].late = FALSE]
              /\ UNCHANGED circuit
  /\ UNCHANGED <<activity, checkpoint, effects, fact, faults>>

(* _lock_claim *)
OwnsReceipt(w) ==
  /\ receipt[Call(w)].status = "processing"
  /\ receipt[Call(w)].token = agent[w].receipt

(* Mutant of CommitEffect: the transaction does not assert the generation. *)
CommitEffectUnfenced(w) ==
  /\ OwnsReceipt(w)
  /\ effects' = [effects EXCEPT ![Call(w)] = @ + 1]
  /\ receipt' = [receipt EXCEPT ![Call(w)].status = "succeeded", ![Call(w)].live = FALSE]
  /\ agent' = [agent EXCEPT ![w] = AfterCall(@)]
  /\ UNCHANGED <<circuit, activity, checkpoint, fact, faults>>

(* The effect, the downstream messages and the receipt are committed by    *)
(* one transaction, which locks the claim and asserts the generation.      *)
CommitEffect(w) ==
  /\ OwnsReceipt(w)
  /\ Current(w)
  /\ effects' = [effects EXCEPT ![Call(w)] = @ + 1]
  /\ receipt' = [receipt EXCEPT ![Call(w)].status = "succeeded", ![Call(w)].live = FALSE]
  /\ agent' = [agent EXCEPT ![w] = AfterCall(@)]
  /\ UNCHANGED <<circuit, activity, checkpoint, fact, faults>>

(* _execute_atomic *)
ExecuteAtomic(w) == At(w, {"atomic"}) /\ CommitEffect(w)

(* The preflight assertion has passed and the remote operation begins. *)
StartOutside(w) ==
  /\ At(w, {"preflight"})
  /\ Goto(w, "outside")
  /\ UNCHANGED <<circuit, activity, durable, fact, faults>>

(* The remote operation has returned: _finalize. *)
FinalizeOutside(w) == At(w, {"outside"}) /\ CommitEffect(w)

(* _release_failed_claim *)
Released(w) ==
  IF OwnsReceipt(w)
    THEN [receipt EXCEPT ![Call(w)].status = "pending", ![Call(w)].live = FALSE]
    ELSE receipt

Executing == {"atomic", "preflight", "outside"}

(* ToolEffectBusyError: the receipt was taken over in the meantime. *)
LoseReceipt(w) ==
  /\ At(w, {"atomic", "outside"})
  /\ ~OwnsReceipt(w)
  /\ Leave(w, "retrying")
  /\ UNCHANGED <<activity, durable, fact, faults>>

(* The operation or its transaction fails, and the receipt is given back   *)
(* unless that fails as well.                                              *)
OperationFails(w) ==
  /\ At(w, Executing)
  /\ Fault
  /\ receipt' \in {receipt, Released(w)}
  /\ Leave(w, "retrying")
  /\ UNCHANGED <<activity, checkpoint, effects, fact>>

(* A fault only if the claim is still being worked on. *)
ReceiptLeaseElapses(c) ==
  /\ Busy(receipt[c])
  /\ LET owners == {w \in Workers : At(w, Executing) /\ Call(w) = c /\ OwnsReceipt(w)} IN
       /\ IF owners = {} THEN UNCHANGED faults ELSE Fault
       /\ agent' = [w \in Workers |->
                      IF w \in owners THEN [agent[w] EXCEPT !.late = TRUE] ELSE agent[w]]
  /\ receipt' = [receipt EXCEPT ![c].live = FALSE]
  /\ UNCHANGED <<circuit, activity, checkpoint, effects, fact>>

----------------------------------------------------------------------------
(* How a run ends *)

(* StaleClaimError: an assertion finds that the generation has ended. *)
StaleRun(w) ==
  /\ At(w, Calling)
  /\ ~Current(w)
  /\ receipt' = IF At(w, Executing) THEN Released(w) ELSE receipt
  /\ Leave(w, "idle")
  /\ UNCHANGED <<activity, checkpoint, effects, fact, faults>>

(* The final assertion has passed: the route gets its success. *)
FinishRun(w) ==
  /\ At(w, {"final"})
  /\ Current(w)
  /\ circuit' = [circuit EXCEPT ![agent[w].route] = RecordSuccess(@, w)]
  /\ agent' = [agent EXCEPT ![w] = OffRoute(@, "completing", FALSE)]
  /\ UNCHANGED <<activity, durable, fact, faults>>

(* The worker gives the attempt up; cancellation keeps the receipt's claim. *)
CancelRun(w) ==
  /\ At(w, Calling)
  /\ Fault
  /\ Leave(w, "retrying")
  /\ UNCHANGED <<activity, durable, fact>>

Settling == {"completing", "retrying", "failing", "rejected"}

(* The settlement of the activity, fenced like everything else. *)
Outcome(w) ==
  CASE At(w, {"completing"}) -> "completed"
    [] At(w, {"failing", "rejected"}) -> "failed"
    [] At(w, {"retrying"}) -> IF budget + 1 >= MaxBudget THEN "failed" ELSE "retry"

Settle(w) ==
  /\ At(w, Settling)
  /\ IF Current(w)
       THEN /\ status' = Outcome(w)
            /\ token' = 0
            /\ budget' = IF At(w, {"completing"}) THEN budget ELSE budget + 1
       ELSE UNCHANGED <<status, token, budget>>
  /\ agent' = [agent EXCEPT ![w] = Idle]
  /\ UNCHANGED <<circuit, claims, revision, durable, fact, faults>>

(* The process dies: its runs and its circuits are gone. *)
Crash ==
  /\ Fault
  /\ agent' = [w \in Workers |-> Idle]
  /\ circuit' = [r \in Routes |-> Closed]
  /\ UNCHANGED <<activity, durable, fact>>

(* What a read returns may be different later. *)
DataChanges ==
  /\ Fault
  /\ fact' = fact + 1
  /\ UNCHANGED <<circuit, activity, durable, agent>>

(* Other turns share the circuits. *)
Holds(g, r) == g \in circuit[r].active

GuestBegins(g) ==
  /\ \A r \in Routes : ~Holds(g, r)
  /\ \E r \in GuestRoutes :
       Admits(circuit[r]) /\ circuit' = [circuit EXCEPT ![r] = Acquired(@, g)]
  /\ UNCHANGED <<activity, durable, agent, fact, faults>>

GuestFails(g, r) ==
  /\ Holds(g, r)
  /\ Fault
  /\ \E kept \in 0 .. circuit[r].failures :
       circuit' = [circuit EXCEPT ![r] = RecordFailure(@, g, kept)]
  /\ UNCHANGED <<activity, durable, agent, fact>>

GuestEnds(g, r) ==
  /\ Holds(g, r)
  /\ \/ circuit' = [circuit EXCEPT ![r] = RecordSuccess(@, g)]
     \/ circuit' = [circuit EXCEPT ![r] = Abandon(@, g)]
  /\ UNCHANGED <<activity, durable, agent, fact, faults>>

RouteCools(r) ==
  /\ CooldownEnds(r)
  /\ UNCHANGED <<activity, durable, agent, fact, faults>>

----------------------------------------------------------------------------
Run(w) ==
  \/ BeginRoutes(w)
  \/ LoadStep(w)
  \/ ProviderAnswers(w)
  \/ SaveStep(w)
  \/ ReadOutside(w)
  \/ ClaimReceipt(w)
  \/ ExecuteAtomic(w)
  \/ StartOutside(w)
  \/ FinalizeOutside(w)
  \/ LoseReceipt(w)
  \/ StaleRun(w)
  \/ FinishRun(w)
  \/ Settle(w)

Next ==
  \/ \E w \in Workers :
       \/ ClaimActivity(w)
       \/ Run(w)
       \/ NextModel(w)
       \/ ProviderFails(w)
       \/ ProviderRejects(w)
       \/ ProviderBlocks(w)
       \/ OperationFails(w)
       \/ CancelRun(w)
  \/ Steer
  \/ LeaseRecovered
  \/ \E c \in Calls : ReceiptLeaseElapses(c)
  \/ Crash
  \/ DataChanges
  \/ \E g \in Guests : GuestBegins(g) \/ \E r \in Routes : GuestFails(g, r) \/ GuestEnds(g, r)
  \/ \E r \in Routes : RouteCools(r)

Spec == Init /\ [][Next]_vars

----------------------------------------------------------------------------
Places == {"idle", "begin"} \cup Calling \cup Settling

Steps == [route : Routes \cup {0}, model : Nat, images : BOOLEAN, seen : Seq(Nat),
          plan : Seq(Modes)]

TypeOK ==
  /\ circuit \in [Routes -> CircuitState]
  /\ status \in Claimable \cup {"processing"} \cup Ended
  /\ token \in Nat /\ claims \in Nat /\ budget \in Nat
  /\ revision \in 0 .. MaxRevision
  /\ checkpoint \in [Slots -> Steps]
  /\ receipt \in [Calls -> [status : {"none", "pending", "processing", "succeeded"},
                            token : Nat, live : BOOLEAN, request : Modes \cup {"none"}]]
  /\ effects \in [Calls -> Nat]
  /\ agent \in [Workers -> [pc : Places, claim : Nat, revision : 0 .. MaxRevision,
                            route : Routes \cup {0}, model : Nat, text : BOOLEAN,
                            step : 0 .. MaxStep, ord : 0 .. MaxCalls, seen : Seq(Nat),
                            plan : Seq(Modes), receipt : Nat, late : BOOLEAN]]
  /\ fact \in Nat
  /\ faults \in 0 .. MaxFaults

PermitsReturn ==
  \A r \in Routes, w \in Workers :
    /\ w \in circuit[r].active => (At(w, Calling) /\ agent[w].route = r)
    /\ circuit[r].probe = w => w \in circuit[r].active

(* An open circuit can always recover, and only by its probe.  An           *)
(* unfinished permit belongs to a run that is calling its route: however a *)
(* run ends, no circuit is left waiting for a probe that nobody makes,     *)
(* which would close the route for good (service.py:234).  And the late    *)
(* results of calls from before it opened never close it.                  *)
CircuitsRecover ==
  /\ []PermitsReturn
  /\ [][\A r \in Routes :
          (circuit[r].open # "no" /\ circuit'[r].open = "no")
            => \/ circuit[r].open = "due" /\ circuit[r].probe # NoCaller
               \/ \A w \in Workers : agent'[w] = Idle]_vars

(* A turn is not failed by the conflict of a checkpoint or a receipt: what *)
(* was interrupted resumes from the same checkpoint (errors.py:173).       *)
InterruptedRunsResume == \A w \in Workers : At(w, {"failing"}) => ~Current(w)

(* The agent loop keeps its promise: plans are final, an effect happens at *)
(* most once, in the order of the plan and never for a generation that a   *)
(* steer has ended, whatever is replayed, taken over, cancelled or crashed.*)
Ledger == INSTANCE EffectLedger WITH
  Generations <- 0 .. MaxRevision, StepNumbers <- 0 .. MaxStep, Ordinals <- 1 .. MaxCalls,
  NotPlanned <- NoStep, generation <- revision, planned <- checkpoint, done <- effects

EffectsOnce == Ledger!Spec
=============================================================================
