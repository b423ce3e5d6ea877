------------------------- MODULE MCChaoticIteration ------------------------
(***************************************************************************)
(* ChaoticIteration on every graph over three blocks, with a gen/kill      *)
(* domain of two facts: block 1 is the entry and starts with no fact, each *)
(* block generates and kills facts, paths are joined by union.             *)
(***************************************************************************)
EXTENDS ChaoticIteration, Naturals

CONSTANTS Size, Facts

Blocks == 1..Size

\* Blocks may generate, and block 2 may kill.
MCGraphs ==
  [succ : [Blocks -> SUBSET (Blocks \ {1})], gen : {[b \in Blocks |-> IF b = 1 THEN Facts ELSE {}]},
   kill : {[b \in Blocks |-> IF b = 2 THEN k ELSE {}] : k \in SUBSET Facts}]

MCNodes(g) == Blocks
MCSuccs(g, b) == g.succ[b]
MCInputs(g, b, results) == UNION {results[p] : p \in DOMAIN results}
MCTransfer(g, b, s) == (s \ g.kill[b]) \cup g.gen[b]
MCSame(s, t) == s = t

(* Whatever the order of visits, the results are the meet over all paths:   *)
(* a fact holds at the end of a block exactly when it is generated on some  *)
(* path to it and not killed after (a reference solution, computed from     *)
(* reachability through blocks that do not kill the fact).                  *)
RECURSIVE Spread(_, _, _)
Spread(g, f, from) ==
  LET more == from \cup {b \in UNION {g.succ[p] : p \in from} : f \notin g.kill[b]}
  IN  IF more = from THEN from ELSE Spread(g, f, more)

PathSolution ==
  queued = {} =>
    \A b \in Blocks : out[b] = {f \in Facts : b \in Spread(graph, f, {c \in Blocks : f \in graph.gen[c]})}
=============================================================================
