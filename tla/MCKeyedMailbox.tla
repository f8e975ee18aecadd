--------------------------- MODULE MCKeyedMailbox --------------------------
(***************************************************************************)
(* Two keys, the first with three items of normal, then high, then normal  *)
(* priority, the second with two; room for two unfinished items per key    *)
(* and three in all, so that both capacities refuse work.                  *)
(***************************************************************************)
EXTENDS KeyedMailbox

CONSTANTS k1, k2

MCItems    == 1 .. 5
MCKeyOf    == <<k1, k1, k1, k2, k2>>
MCPriority == <<20, 10, 20, 20, 10>>
=============================================================================
