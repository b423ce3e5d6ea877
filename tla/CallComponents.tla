--------------------------- MODULE CallComponents --------------------------
(***************************************************************************)
(* The strongly connected components of the direct call graph, as          *)
(* Analyzer::sccs finds them: Tarjan's depth-first search, one frame per   *)
(* active "visit".  The callees of a function are an unordered set (the    *)
(* code iterates a set of pointers), so they are visited in any order.     *)
(***************************************************************************)
EXTENDS Sequences, Naturals, FiniteSets, SequencesExt

VARIABLES
  graph,            \* [order : the functions, calls : function -> its callees]
  roots,            \* functions the outer loop has still to look at
  frames,           \* the active visits, innermost last
  index, lowlink,   \* of the functions visited so far
  path,             \* the "stack" of the code; "onStack" is its content
  components        \* the result: the components, each in the order of its members

searchVars == <<graph, roots, frames, index, lowlink, path, components>>

Visited == DOMAIN index
Smaller(m, n) == IF m < n THEN m ELSE n
Bind(map, key, value) == [k \in DOMAIN map \cup {key} |-> IF k = key THEN value ELSE map[k]]

SearchInit(g) ==
  /\ graph = g
  /\ roots = g.order
  /\ frames = <<>> /\ path = <<>> /\ components = <<>>
  /\ index = [f \in {} |-> 0] /\ lowlink = [f \in {} |-> 0]

\* visit(fn) begins, called from the visits in "callers".
Enter(f, callers) ==
  /\ index' = Bind(index, f, Cardinality(Visited))
  /\ lowlink' = Bind(lowlink, f, Cardinality(Visited))
  /\ path' = Append(path, f)
  /\ frames' = Append(callers, [fn |-> f, todo |-> graph.calls[f]])
  /\ UNCHANGED <<graph, components>>

\* The outer loop visits a function unless an earlier visit reached it.
VisitRoot ==
  /\ frames = <<>> /\ roots # <<>>
  /\ roots' = Tail(roots)
  /\ IF Head(roots) \in Visited
     THEN UNCHANGED <<graph, frames, index, lowlink, path, components>>
     ELSE Enter(Head(roots), <<>>)

\* Bug: a callee of a finished component still lowers the lowlink.
TakeAnyCallee ==
  /\ frames # <<>>
  /\ \E callee \in Last(frames).todo :
       LET fn == Last(frames).fn
           rest == Append(Front(frames), [Last(frames) EXCEPT !.todo = @ \ {callee}])
       IN  IF callee \notin Visited THEN Enter(callee, rest)
           ELSE /\ frames' = rest
                /\ lowlink' = [lowlink EXCEPT ![fn] = Smaller(@, index[callee])]
                /\ UNCHANGED <<graph, index, path, components>>
  /\ UNCHANGED roots

\* The innermost visit takes its next callee.
TakeCallee ==
  /\ frames # <<>>
  /\ \E callee \in Last(frames).todo :
       LET fn == Last(frames).fn
           rest == Append(Front(frames), [Last(frames) EXCEPT !.todo = @ \ {callee}])
       IN  IF callee \notin Visited THEN Enter(callee, rest)
           ELSE /\ frames' = rest
                /\ lowlink' = IF callee \in ToSet(path)
                              THEN [lowlink EXCEPT ![fn] = Smaller(@, index[callee])]
                              ELSE lowlink
                /\ UNCHANGED <<graph, index, path, components>>
  /\ UNCHANGED roots

\* Bug: components are collected in the opposite order.
LeaveVisitCallersFirst ==
  /\ frames # <<>> /\ Last(frames).todo = {}
  /\ LET fn == Last(frames).fn
         first == CHOOSE n \in DOMAIN path : path[n] = fn
     IN  /\ IF lowlink[fn] # index[fn]
            THEN UNCHANGED <<path, components>>
            ELSE /\ path' = SubSeq(path, 1, first - 1)
                 /\ components' = <<Reverse(SubSeq(path, first, Len(path)))>> \o components
         /\ frames' = Front(frames)
         /\ lowlink' = IF Len(frames) = 1 THEN lowlink
                       ELSE [lowlink EXCEPT ![Last(Front(frames)).fn] =
                               Smaller(@, lowlink[fn])]
  /\ UNCHANGED <<graph, roots, index>>

\* visit(fn) ends: a component is complete when fn is its first member, and
\* the caller's lowlink takes over fn's.
LeaveVisit ==
  /\ frames # <<>> /\ Last(frames).todo = {}
  /\ LET fn == Last(frames).fn
         first == CHOOSE n \in DOMAIN path : path[n] = fn
     IN  /\ IF lowlink[fn] # index[fn]
            THEN UNCHANGED <<path, components>>
            ELSE /\ path' = SubSeq(path, 1, first - 1)
                 /\ components' = Append(components, Reverse(SubSeq(path, first, Len(path))))
         /\ frames' = Front(frames)
         /\ lowlink' = IF Len(frames) = 1 THEN lowlink
                       ELSE [lowlink EXCEPT ![Last(Front(frames)).fn] =
                               Smaller(@, lowlink[fn])]
  /\ UNCHANGED <<graph, roots, index>>

SearchDone == frames = <<>> /\ roots = <<>>

SearchNext == VisitRoot \/ TakeCallee \/ LeaveVisit

-----------------------------------------------------------------------------
Nodes == ToSet(graph.order)

\* f reaches g by zero or more calls: whoever has f and all callees has g.
Reaches(f, g) ==
  \A S \in SUBSET Nodes : f \in S /\ (\A c \in S : graph.calls[c] \subseteq S) => g \in S

(* A component is emitted exactly when it is whole: its members are all the *)
(* functions mutually recursive with any of them.  Otherwise a recursive    *)
(* group would be iterated in parts, the first with the others unknown.     *)
(* And components come callees first: runBottomUp solves them in this       *)
(* order, so a call that leaves a recursion group meets a final summary.    *)
ComponentsAreRecursionGroups ==
  \A n \in DOMAIN components : \A f \in ToSet(components[n]) :
    /\ ToSet(components[n]) = {g \in Nodes : Reaches(f, g) /\ Reaches(g, f)}
    /\ \A callee \in graph.calls[f] : \E m \in 1..n : callee \in ToSet(components[m])

=============================================================================
