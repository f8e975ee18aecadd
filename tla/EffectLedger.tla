---------------------------- MODULE EffectLedger ----------------------------
(***************************************************************************)
(* What the agent loop promises of the effects of a turn's tool calls (the *)
(* header of agent_loop.py): a step is planned once, after the steps       *)
(* before it were carried out, and the effect of every planned call        *)
(* happens at most once, in the order of the plan, in the generation of    *)
(* the turn that is current.                                               *)
(***************************************************************************)
EXTENDS Naturals, Sequences

CONSTANTS
  Generations,  \* 0 .. the last revision of the turn
  StepNumbers,
  Ordinals,
  NotPlanned    \* a step as it is before it is planned

VARIABLES
  generation,
  planned,      \* by generation and step: its plan, a sequence of "read", "atomic" and
                \* "outside", and whatever the implementation keeps beside it
  done          \* by generation, step and ordinal: effects so far

Known(g, s) == planned[<<g, s>>] # NotPlanned

Init ==
  /\ generation = 0
  /\ planned = [x \in Generations \X StepNumbers |-> NotPlanned]
  /\ done = [c \in Generations \X StepNumbers \X Ordinals |-> 0]

(* Every call before ordinal n of a step that has an effect has had it. *)
CarriedOut(g, s, n) ==
  \A o \in DOMAIN planned[<<g, s>>].plan :
    (o < n /\ planned[<<g, s>>].plan[o] # "read") => done[<<g, s, o>>] = 1

PlanStep(s) ==
  /\ ~Known(generation, s)
  /\ \A e \in StepNumbers : e < s =>
       /\ Known(generation, e)
       /\ CarriedOut(generation, e, Len(planned[<<generation, e>>].plan) + 1)
  /\ Known(generation, s)'
  /\ planned' = [planned EXCEPT ![<<generation, s>>] = planned'[<<generation, s>>]]
  /\ UNCHANGED <<generation, done>>

Perform(s, o) ==
  /\ o \in DOMAIN planned[<<generation, s>>].plan
  /\ planned[<<generation, s>>].plan[o] # "read"
  /\ done[<<generation, s, o>>] = 0
  /\ CarriedOut(generation, s, o)
  /\ done' = [done EXCEPT ![<<generation, s, o>>] = 1]
  /\ UNCHANGED <<generation, planned>>

NewGeneration ==
  /\ generation' = generation + 1
  /\ generation' \in Generations
  /\ UNCHANGED <<planned, done>>

Next ==
  \/ planned' # planned /\ \E s \in StepNumbers : PlanStep(s)
  \/ done' # done /\ \E s \in StepNumbers, o \in Ordinals : Perform(s, o)
  \/ NewGeneration

Spec == Init /\ [][Next]_<<generation, planned, done>>
=============================================================================
