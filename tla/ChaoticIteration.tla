-------------------------- MODULE ChaoticIteration -------------------------
(***************************************************************************)
(* What the worklist of solveFunction promises, whatever order it visits   *)
(* blocks in and whatever the abstract domain is: recompute a block from   *)
(* its predecessors, and visit its successors again when its result        *)
(* changed.  The order of visits, the instructions of a block and the      *)
(* domain are left open; SummaryFlow fills them in.                        *)
(***************************************************************************)
EXTENDS TLAPS

CONSTANTS
  Graphs,           \* the control-flow graphs that may be solved
  Nodes(_),         \* the blocks of a graph
  Succs(_, _),      \* the successors of a block
  Inputs(_, _, _),  \* the state at the start of a block, from the predecessors' results
  Transfer(_, _, _),\* the state at its end
  Same(_, _),       \* the test that decides whether a result changed
  Bottom            \* the result of a block nobody visited

\* The successors of a block are blocks of its graph.
ASSUME SuccsAssumption ==
  \A g \in Graphs : \A b \in Nodes(g) : Succs(g, b) \subseteq Nodes(g)

VARIABLES
  graph,    \* the graph being solved
  queued,   \* the blocks waiting to be visited
  out       \* the last result of every block

vars == <<graph, queued, out>>

Preds(g, b) == {p \in Nodes(g) : b \in Succs(g, p)}

\* A block reads the results of its predecessors and nothing else.
InputOf(b, results) ==
  Inputs(graph, b, [p \in Preds(graph, b) |-> results[p]])

Result(b, results) == Transfer(graph, b, InputOf(b, results))

Init ==
  /\ graph \in Graphs
  /\ queued = Nodes(graph)
  /\ out = [b \in Nodes(graph) |-> Bottom]

\* Bug: the successors are not queued again.
VisitOnly(b) ==
  /\ b \in queued
  /\ out' = [out EXCEPT ![b] = Result(b, out)]
  /\ queued' = queued \ {b}
  /\ UNCHANGED graph

Visit(b) ==
  /\ b \in queued
  /\ out' = [out EXCEPT ![b] = Result(b, out)]
  /\ queued' = (queued \ {b})
                 \cup (IF Same(out[b], Result(b, out)) THEN {} ELSE Succs(graph, b))
  /\ UNCHANGED graph

Next == \E b \in queued : Visit(b)

Spec == Init /\ [][Next]_vars /\ WF_vars(Next)

-----------------------------------------------------------------------------
(* A result that is not going to be recomputed agrees with the current      *)
(* results of its predecessors.                                             *)
Settled(b) == out[b] = Result(b, out)

SettledUnlessQueued == \A b \in Nodes(graph) \ queued : Settled(b)

(* When the worklist runs empty the results solve the dataflow equations of *)
(* the function (the comment at solveFunction: the worklist "converges to   *)
(* the same fixpoint" as rounds over all blocks would).                     *)
Fixpoint == queued = {} => \A b \in Nodes(graph) : Settled(b)

-----------------------------------------------------------------------------
(* The worklist reaches a fixpoint for every graph, every domain and every  *)
(* order of visits, provided that the change test is equality.              *)

\* The change test tells any two results apart.
ExactTest == \A s, t : Same(s, t) => s = t

Shape ==
  /\ graph \in Graphs
  /\ queued \subseteq Nodes(graph)
  /\ out = [b \in Nodes(graph) |-> out[b]]

(* The result of a block depends on the results of its predecessors only:   *)
(* replacing the result of another block changes nothing for it.            *)
LEMMA ResultLocal ==
  ASSUME NEW b, NEW c, NEW value, c \notin Preds(graph, b),
         out = [x \in Nodes(graph) |-> out[x]]
  PROVE  Result(b, [out EXCEPT ![c] = value]) = Result(b, out)
<1> DEFINE new == [out EXCEPT ![c] = value]
<1>1. \A p \in Preds(graph, b) : new[p] = out[p]
  BY DEF Preds
<1>2. [p \in Preds(graph, b) |-> new[p]] = [p \in Preds(graph, b) |-> out[p]]
  BY <1>1
<1> QED BY <1>2 DEF Result, InputOf

(* Shape is an invariant: the worklist holds blocks of the graph only.      *)
LEMMA ShapeInit == Init => Shape
BY DEF Init, Shape

LEMMA ShapeStep == Shape /\ [Next]_vars => Shape'
<1> SUFFICES ASSUME Shape, [Next]_vars PROVE Shape'
  OBVIOUS
<1>1. ASSUME NEW b \in queued, Visit(b) PROVE Shape'
  <2>1. b \in Nodes(graph) /\ Succs(graph, b) \subseteq Nodes(graph)
    BY SuccsAssumption DEF Shape
  <2>2. queued' \subseteq Nodes(graph')
    BY <1>1, <2>1 DEF Visit, Shape
  <2>3. out' = [x \in Nodes(graph') |-> out'[x]]
    BY <1>1 DEF Visit, Shape
  <2> QED BY <1>1, <2>2, <2>3 DEF Visit, Shape
<1>2. CASE UNCHANGED vars
  BY <1>2 DEF Shape, vars
<1> QED BY <1>1, <1>2 DEF Next

(* A visit keeps every block that is not queued settled: the visited block  *)
(* because it was just computed, the others because a changed result queues *)
(* all the blocks that read it.                                             *)
LEMMA SettledStep ==
  ASSUME ExactTest, Shape, SettledUnlessQueued, [Next]_vars
  PROVE  SettledUnlessQueued'
<1>1. ASSUME NEW b \in queued, Visit(b) PROVE SettledUnlessQueued'
  <2> DEFINE value == Result(b, out)
  <2>1. b \in Nodes(graph) /\ graph' = graph /\ out' = [out EXCEPT ![b] = value]
    BY <1>1 DEF Visit, Shape
  <2>2. SUFFICES ASSUME NEW c \in Nodes(graph), c \notin queued' PROVE Settled(c)'
    BY <2>1 DEF SettledUnlessQueued
  <2>3. Settled(c)' <=> out'[c] = Result(c, out')
    BY <2>1 DEF Settled, Result, InputOf
  <2>4. CASE Same(out[b], value)
    <3>1. out[b] = value
      BY <2>4 DEF ExactTest
    <3>2. out' = out
      BY <2>1, <3>1 DEF Shape
    <3>3. c = b \/ c \notin queued
      BY <1>1, <2>2 DEF Visit
    <3> QED BY <2>1, <2>3, <3>1, <3>2, <3>3 DEF SettledUnlessQueued, Settled
  <2>5. CASE ~Same(out[b], value)
    <3>1. c \notin Succs(graph, b) /\ (c = b \/ c \notin queued)
      BY <1>1, <2>2, <2>5 DEF Visit
    <3>2. b \notin Preds(graph, c)
      BY <3>1 DEF Preds
    <3>3. Result(c, out') = Result(c, out)
      BY <2>1, <3>2, ResultLocal DEF Shape
    <3>4. out'[c] = Result(c, out)
      BY <2>1, <3>1 DEF SettledUnlessQueued, Settled, Shape
    <3> QED BY <2>3, <3>3, <3>4
  <2> QED BY <2>4, <2>5
<1>2. CASE UNCHANGED vars
  BY <1>2 DEF vars, SettledUnlessQueued, Settled, Result, InputOf
<1> QED BY <1>1, <1>2 DEF Next

(* At the start every block is queued.                                      *)
LEMMA SettledInit == Init => SettledUnlessQueued
BY DEF Init, SettledUnlessQueued

(* With an exact change test, the results solve the dataflow equations when *)
(* the worklist is empty, for every graph, domain and order of visits.      *)
THEOREM WorklistFixpoint == ExactTest /\ Spec => []Fixpoint
<1>1. SettledUnlessQueued => Fixpoint
  BY DEF SettledUnlessQueued, Fixpoint
<1>2. ASSUME ExactTest PROVE Spec => []Fixpoint
  <2>1. Init => Shape /\ SettledUnlessQueued
    BY ShapeInit, SettledInit
  <2>2. Shape /\ SettledUnlessQueued /\ [Next]_vars => (Shape /\ SettledUnlessQueued)'
    BY <1>2, ShapeStep, SettledStep
  <2> QED BY <1>1, <2>1, <2>2, PTL DEF Spec
<1> QED BY <1>2
=============================================================================
