-------------------------- MODULE MCAssistantAgent --------------------------
(* Instances of AssistantAgent: two workers, what a model may ask for.     *)
EXTENDS AssistantAgent, TLC

CONSTANTS w1, w2

MCPlans == {<<>>, <<"read", "atomic", "outside">>}
MCOneCall == {<<>>, <<"atomic">>}
MCModels == <<2, 1>>
MCSighted == {<<1, 1>>}
MCOneModel == <<1, 1>>
MCSymmetry == Permutations({w1, w2})
=============================================================================
