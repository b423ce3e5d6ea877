----------------------- MODULE SummaryCallGraphProofs ----------------------
(***************************************************************************)
(* The search for components is right for every call graph, and the        *)
(* bottom-up pass over its components ends, when it ends, with effects     *)
(* that agree with each other.                                             *)
(***************************************************************************)
EXTENDS SummaryCallGraph, FiniteSetTheorems, TLAPS

-----------------------------------------------------------------------------
(* Reachability and lists.                                                  *)

LEMMA ReachesFacts ==
  /\ \A f : Reaches(f, f)
  /\ \A f, g : f \in Nodes /\ g \in graph.calls[f] => Reaches(f, g)
  /\ \A f, g, h : Reaches(f, g) /\ Reaches(g, h) => Reaches(f, h)
  /\ \A S \in SUBSET Nodes : (\A c \in S : graph.calls[c] \subseteq S) =>
       \A f \in S : \A g : Reaches(f, g) => g \in S
  BY DEF Reaches

LEMMA ReachesKept ==
  ASSUME graph' = graph
  PROVE  Nodes' = Nodes /\ \A f, g : Reaches(f, g)' <=> Reaches(f, g)
  BY DEF Reaches, Nodes

LEMMA Appended ==
  ASSUME NEW S, NEW q \in Seq(S), NEW r \in S
  PROVE  /\ Append(q, r) \in Seq(S) /\ Len(q) \in Nat /\ DOMAIN q = 1 .. Len(q)
         /\ DOMAIN Append(q, r) = 1 .. Len(q) + 1
         /\ \A i \in 1 .. Len(q) : Append(q, r)[i] = q[i]
         /\ Append(q, r)[Len(q) + 1] = r
         /\ ToSet(Append(q, r)) = ToSet(q) \cup {r}
<1>1. /\ Append(q, r) \in Seq(S) /\ Len(q) \in Nat /\ DOMAIN q = 1 .. Len(q)
      /\ DOMAIN Append(q, r) = 1 .. Len(q) + 1
      /\ \A i \in 1 .. Len(q) : Append(q, r)[i] = q[i]
      /\ Append(q, r)[Len(q) + 1] = r
  OBVIOUS
<1>2. ASSUME NEW x \in ToSet(Append(q, r)) PROVE x \in ToSet(q) \cup {r}
  BY <1>1 DEF ToSet
<1>3. ASSUME NEW x \in ToSet(q) PROVE x \in ToSet(Append(q, r))
  <2>1. PICK i \in 1 .. Len(q) : x = q[i]
    BY <1>1 DEF ToSet
  <2>2. i \in 1 .. Len(q) + 1
    BY <1>1
  <2> QED BY <1>1, <2>1, <2>2 DEF ToSet
<1>4. r \in ToSet(Append(q, r))
  <2>1. Len(q) + 1 \in 1 .. Len(q) + 1
    BY <1>1
  <2> QED BY <1>1, <2>1 DEF ToSet
<1> QED BY <1>1, <1>2, <1>3, <1>4

LEMMA FrontOf ==
  ASSUME NEW S, NEW q \in Seq(S), q # <<>>
  PROVE  /\ Len(q) \in Nat \ {0} /\ DOMAIN q = 1 .. Len(q) /\ Last(q) = q[Len(q)] /\ Last(q) \in S
         /\ Front(q) \in Seq(S) /\ DOMAIN Front(q) = 1 .. Len(q) - 1 /\ Len(Front(q)) = Len(q) - 1
         /\ \A i \in 1 .. Len(q) - 1 : Front(q)[i] = q[i]
<1>1. Len(q) \in Nat \ {0} /\ DOMAIN q = 1 .. Len(q) /\ q[Len(q)] \in S
  OBVIOUS
<1>2. /\ SubSeq(q, 1, Len(q) - 1) \in Seq(S) /\ Len(SubSeq(q, 1, Len(q) - 1)) = Len(q) - 1
      /\ \A i \in 1 .. Len(q) - 1 : SubSeq(q, 1, Len(q) - 1)[i] = q[i]
  BY <1>1
<1> QED BY <1>1, <1>2 DEF Front, Last

\* The last element replaced.
LEMMA LastReplaced ==
  ASSUME NEW S, NEW q \in Seq(S), q # <<>>, NEW r \in S
  PROVE  LET new == Append(Front(q), r) IN
         /\ new \in Seq(S) /\ DOMAIN new = DOMAIN q /\ Len(new) = Len(q)
         /\ new[Len(q)] = r /\ \A i \in DOMAIN q : i # Len(q) => new[i] = q[i]
<1>1. /\ Len(q) \in Nat \ {0} /\ DOMAIN q = 1 .. Len(q)
      /\ Front(q) \in Seq(S) /\ Len(Front(q)) = Len(q) - 1
      /\ \A i \in 1 .. Len(q) - 1 : Front(q)[i] = q[i]
  BY FrontOf
<1> DEFINE f == Front(q)
           new == Append(f, r)
<1> HIDE DEF f
<1>a. f \in Seq(S)
  BY <1>1 DEF f
<1>2. /\ new \in Seq(S) /\ DOMAIN new = 1 .. Len(f) + 1 /\ new[Len(f) + 1] = r
      /\ \A i \in 1 .. Len(f) : new[i] = f[i]
      /\ Len(new) = Len(f) + 1
  BY <1>a
<1> HIDE DEF new
<1>3. /\ DOMAIN new = DOMAIN q /\ Len(new) = Len(q) /\ new[Len(q)] = r
      /\ \A i \in DOMAIN q : i # Len(q) => new[i] = q[i]
  BY <1>1, <1>2 DEF f
<1> QED BY <1>2, <1>3 DEF new, f

LEMMA HeadAndTail ==
  ASSUME NEW S, NEW q \in Seq(S), q # <<>>
  PROVE  Head(q) \in S /\ Tail(q) \in Seq(S) /\ ToSet(q) = {Head(q)} \cup ToSet(Tail(q))
<1>1. /\ Len(q) \in Nat \ {0} /\ DOMAIN q = 1 .. Len(q) /\ Head(q) = q[1] /\ Tail(q) \in Seq(S)
      /\ DOMAIN Tail(q) = 1 .. Len(q) - 1 /\ \A i \in 1 .. Len(q) - 1 : Tail(q)[i] = q[i + 1]
      /\ Head(q) \in S
  OBVIOUS
<1>2. ASSUME NEW x \in ToSet(q) PROVE x \in {Head(q)} \cup ToSet(Tail(q))
  <2>1. PICK i \in 1 .. Len(q) : x = q[i]
    BY <1>1 DEF ToSet
  <2>2. i = 1 \/ (i - 1 \in 1 .. Len(q) - 1 /\ Tail(q)[i - 1] = q[i])
    BY <1>1
  <2> QED BY <1>1, <2>1, <2>2 DEF ToSet
<1>3. ASSUME NEW x \in ToSet(Tail(q)) PROVE x \in ToSet(q)
  <2>1. PICK i \in 1 .. Len(q) - 1 : x = q[i + 1]
    BY <1>1 DEF ToSet
  <2>2. i + 1 \in 1 .. Len(q)
    BY <1>1
  <2> QED BY <1>1, <2>1, <2>2 DEF ToSet
<1>4. Head(q) \in ToSet(q)
  BY <1>1 DEF ToSet
<1> QED BY <1>1, <1>2, <1>3, <1>4

LEMMA ListFromTo ==
  ASSUME NEW S, NEW n \in Nat, NEW q \in [1 .. n -> S]
  PROVE  q \in Seq(S) /\ Len(q) = n /\ DOMAIN q = 1 .. n
  OBVIOUS

LEMMA TurnedRound ==
  ASSUME NEW len \in Nat, NEW k \in 1 .. len, NEW i \in k .. len
  PROVE  len - i + 1 \in 1 .. len - k + 1 /\ k + ((len - k + 1) - (len - i + 1) + 1) - 1 = i
  OBVIOUS

\* A list cut in two; the second part is turned round.
LEMMA CutOf ==
  ASSUME NEW S, NEW q \in Seq(S), NEW k \in DOMAIN q
  PROVE  LET low == SubSeq(q, 1, k - 1)
             high == Reverse(SubSeq(q, k, Len(q))) IN
         /\ low \in Seq(S) /\ DOMAIN low = 1 .. k - 1 /\ \A i \in 1 .. k - 1 : low[i] = q[i]
         /\ high \in Seq(S) /\ ToSet(high) = {q[i] : i \in k .. Len(q)}
<1>1. Len(q) \in Nat /\ DOMAIN q = 1 .. Len(q) /\ k \in 1 .. Len(q) /\ \A i \in 1 .. Len(q) : q[i] \in S
  OBVIOUS
<1> DEFINE low == SubSeq(q, 1, k - 1)
           part == SubSeq(q, k, Len(q))
           high == Reverse(part)
           n == Len(q) - k + 1
<1>2. low \in Seq(S) /\ DOMAIN low = 1 .. k - 1 /\ \A i \in 1 .. k - 1 : low[i] = q[i]
  BY <1>1
<1>3. n \in Nat /\ Len(part) = n /\ \A i \in 1 .. n : part[i] = q[k + i - 1]
  BY <1>1
<1> HIDE DEF part
<1>4. high = [i \in 1 .. n |-> part[n - i + 1]]
  BY <1>3 DEF Reverse
<1>5. \A i \in 1 .. n : n - i + 1 \in 1 .. n /\ k + (n - i + 1) - 1 \in 1 .. Len(q)
  BY <1>1, <1>3
<1>6. \A i \in 1 .. n : high[i] = q[k + (n - i + 1) - 1] /\ high[i] \in S
  BY <1>1, <1>3, <1>4, <1>5
<1>7. DOMAIN high = 1 .. n
  BY <1>4
<1>8. high \in Seq(S)
  <2> HIDE DEF high, n
  <2>1. high \in [1 .. n -> S]
    BY <1>4, <1>6
  <2> QED BY <1>3, <2>1, ListFromTo
<1> HIDE DEF high
<1>9. ASSUME NEW x \in ToSet(high) PROVE x \in {q[i] : i \in k .. Len(q)}
  <2>1. PICK i \in 1 .. n : x = high[i]
    BY <1>7 DEF ToSet
  <2>2. k + (n - i + 1) - 1 \in k .. Len(q)
    BY <1>1, <1>3
  <2> QED BY <1>6, <2>1, <2>2
<1>10. ASSUME NEW i \in k .. Len(q) PROVE q[i] \in ToSet(high)
  <2>1. Len(q) - i + 1 \in 1 .. n /\ k + (n - (Len(q) - i + 1) + 1) - 1 = i
    BY <1>1, TurnedRound
  <2>2. high[Len(q) - i + 1] = q[i]
    BY <1>6, <2>1
  <2> QED BY <1>7, <2>1, <2>2 DEF ToSet
<1> QED BY <1>2, <1>8, <1>9, <1>10 DEF high, part

-----------------------------------------------------------------------------
(* The search.  Of the functions visited, those of a finished component are *)
(* done with; the others are on the path, in the order of their numbers.    *)

Frame == [fn : Nodes, todo : SUBSET Nodes]
OnPath == ToSet(path)
Emitted == UNION {ToSet(components[n]) : n \in DOMAIN components}
IsActive(f) == \E k \in DOMAIN frames : frames[k].fn = f

CallsWithin == \A f \in Nodes : graph.calls[f] \subseteq Nodes

SearchTypeOK ==
  /\ roots \in Seq(Nodes) /\ path \in Seq(Nodes)
  /\ frames \in Seq(Frame) /\ components \in Seq(Seq(Nodes))
  /\ Visited \subseteq Nodes /\ IsFiniteSet(Visited)
  /\ index \in [Visited -> Nat] /\ lowlink \in [Visited -> Nat]
  /\ Nodes \subseteq Visited \cup ToSet(roots)

\* Path and visits are in the order of the numbers, which are all below the next.
Numbered ==
  /\ \A f \in Visited : index[f] < Cardinality(Visited)
  /\ \A i, j \in DOMAIN path : i < j => index[path[i]] < index[path[j]]
  /\ \A i, j \in DOMAIN frames : i < j => index[frames[i].fn] < index[frames[j].fn]

Parted ==
  /\ Visited = OnPath \cup Emitted
  /\ OnPath \cap Emitted = {}
  /\ \A f : IsActive(f) => f \in OnPath
  /\ \A m, n \in DOMAIN components :
       m # n => ToSet(components[m]) \cap ToSet(components[n]) = {}

\* An active function reaches what is above it on the path, and whatever is
\* on the path reaches an active function below it.
Connected ==
  \A v \in OnPath :
    /\ \A g : IsActive(g) /\ index[g] <= index[v] => Reaches(g, v)
    /\ \E g : IsActive(g) /\ index[g] <= index[v] /\ Reaches(v, g)

\* Which calls have been followed.
Followed ==
  /\ \A k \in DOMAIN frames :
       /\ frames[k].todo \subseteq graph.calls[frames[k].fn]
       /\ graph.calls[frames[k].fn] \subseteq Visited \cup frames[k].todo
  /\ \A f \in Visited : ~ IsActive(f) => graph.calls[f] \subseteq Visited

\* v is on the part of the path that the visit frames[k] has added.
Above(k, v) ==
  /\ index[frames[k].fn] <= index[v]
  /\ \A m \in DOMAIN frames : k < m => index[v] < index[frames[m].fn]

\* The call from v to x has been followed.
Taken(v, x) ==
  /\ x \in graph.calls[v]
  /\ \A k \in DOMAIN frames : frames[k].fn = v => x \notin frames[k].todo

\* The lowlink of an active function is the number of a function on the path
\* that it reaches, and is no larger than that of any callee on the path of
\* what its visit has added.
LowBounds ==
  \A k \in DOMAIN frames : \A g : g = frames[k].fn =>
    /\ lowlink[g] <= index[g]
    /\ \E w \in OnPath : index[w] = lowlink[g] /\ Reaches(g, w)
    /\ \A v, x \in OnPath : Above(k, v) /\ Taken(v, x) => lowlink[g] <= index[x]

SearchInv ==
  /\ CallsWithin /\ SearchTypeOK /\ Numbered /\ Parted /\ Connected
  /\ Followed /\ LowBounds /\ ComponentsAreRecursionGroups

\* A function on the path or active has a number; active ones are on the path.
LEMMA SearchFacts ==
  ASSUME SearchInv
  PROVE  /\ Len(frames) \in Nat /\ DOMAIN frames = 1 .. Len(frames)
         /\ Len(path) \in Nat /\ DOMAIN path = 1 .. Len(path)
         /\ \A k \in DOMAIN frames : /\ frames[k] \in Frame /\ frames[k].fn \in OnPath
                                     /\ IsActive(frames[k].fn)
         /\ OnPath \subseteq Visited /\ Emitted \subseteq Visited /\ Visited \subseteq Nodes
         /\ Cardinality(Visited) \in Nat
         /\ \A f \in Visited : index[f] \in Nat /\ lowlink[f] \in Nat
         /\ \A k \in DOMAIN path : path[k] \in OnPath
         /\ \A v \in OnPath : \E k \in DOMAIN path : path[k] = v
<1>1. SearchTypeOK /\ Parted
  BY DEF SearchInv
<1>2. /\ Len(frames) \in Nat /\ DOMAIN frames = 1 .. Len(frames)
      /\ Len(path) \in Nat /\ DOMAIN path = 1 .. Len(path)
  BY <1>1 DEF SearchTypeOK
<1>3. \A k \in DOMAIN frames : IsActive(frames[k].fn)
  BY DEF IsActive
<1>4. \A k \in DOMAIN frames : frames[k].fn \in OnPath
  BY <1>1, <1>3 DEF Parted
<1>5. Cardinality(Visited) \in Nat
  BY <1>1, FS_CardinalityType DEF SearchTypeOK
<1>6. \A k \in DOMAIN frames : frames[k] \in Frame
  BY <1>1, <1>2 DEF SearchTypeOK
<1>7. OnPath \subseteq Visited /\ Emitted \subseteq Visited /\ Visited \subseteq Nodes
  BY <1>1 DEF Parted, SearchTypeOK
<1>8. \A f \in Visited : index[f] \in Nat /\ lowlink[f] \in Nat
  BY <1>1 DEF SearchTypeOK
<1>9. \A k \in DOMAIN path : path[k] \in OnPath
  BY DEF OnPath, ToSet
<1>10. \A v \in OnPath : \E k \in DOMAIN path : path[k] = v
  BY DEF OnPath, ToSet
<1> QED BY <1>2, <1>3, <1>4, <1>5, <1>6, <1>7, <1>8, <1>9, <1>10

\* What only the search changes.
LEMMA ComponentsKept ==
  ASSUME ComponentsAreRecursionGroups, graph' = graph, components' = components
  PROVE  ComponentsAreRecursionGroups' /\ Emitted' = Emitted
<1>1. Nodes' = Nodes /\ \A f, g : Reaches(f, g)' <=> Reaches(f, g)
  BY ReachesKept
<1>2. Emitted' = Emitted
  BY DEF Emitted
<1>3. ASSUME NEW n \in DOMAIN components, NEW f \in ToSet(components[n])
      PROVE  /\ ToSet(components[n]) = {g \in Nodes : Reaches(f, g) /\ Reaches(g, f)}'
             /\ \A callee \in graph.calls[f] : \E m \in 1 .. n : callee \in ToSet(components[m])
  BY <1>1, <1>3 DEF ComponentsAreRecursionGroups
<1> QED BY <1>1, <1>2, <1>3 DEF ComponentsAreRecursionGroups

\* A visit begins: of a root, or of a callee that the innermost visit, if
\* there is one, has just taken.
LEMMA EnterStep ==
  ASSUME SearchInv, NEW f \in Nodes, f \notin Visited, NEW callers \in Seq(Frame), Enter(f, callers),
         roots' \in Seq(Nodes), Nodes \subseteq Visited \cup {f} \cup ToSet(roots'),
         DOMAIN callers = DOMAIN frames,
         \A k \in DOMAIN frames :
           /\ callers[k].fn = frames[k].fn
           /\ callers[k].todo = IF k = Len(frames) THEN frames[k].todo \ {f} ELSE frames[k].todo,
         frames # <<>> => f \in graph.calls[frames[Len(frames)].fn]
  PROVE  SearchInv'
<1> DEFINE n == Len(frames)
           high == Cardinality(Visited)
<1>1. /\ n \in Nat /\ DOMAIN frames = 1 .. n
      /\ Len(path) \in Nat /\ DOMAIN path = 1 .. Len(path)
      /\ \A k \in DOMAIN frames : /\ frames[k] \in Frame /\ frames[k].fn \in OnPath
                                  /\ IsActive(frames[k].fn)
      /\ OnPath \subseteq Visited /\ Emitted \subseteq Visited /\ Visited \subseteq Nodes
      /\ high \in Nat
      /\ \A g \in Visited : index[g] \in Nat /\ lowlink[g] \in Nat
      /\ \A k \in DOMAIN path : path[k] \in OnPath
      /\ \A v \in OnPath : \E k \in DOMAIN path : path[k] = v
  BY SearchFacts
<1>2. /\ CallsWithin /\ SearchTypeOK /\ Numbered /\ Parted /\ Connected
      /\ Followed /\ LowBounds /\ ComponentsAreRecursionGroups
  BY DEF SearchInv
<1>3. /\ graph' = graph /\ components' = components /\ path' = Append(path, f)
      /\ frames' = Append(callers, [fn |-> f, todo |-> graph.calls[f]])
      /\ index' = Bind(index, f, high) /\ lowlink' = Bind(lowlink, f, high)
  BY DEF Enter
<1>4. /\ Nodes' = Nodes /\ \A g, h : Reaches(g, h)' <=> Reaches(g, h)
  BY <1>3, ReachesKept
<1>5. ComponentsAreRecursionGroups' /\ Emitted' = Emitted
  BY <1>2, <1>3, ComponentsKept
<1>6. /\ Visited' = Visited \cup {f}
      /\ index'[f] = high /\ lowlink'[f] = high
      /\ \A g \in Visited : index'[g] = index[g] /\ lowlink'[g] = lowlink[g]
      /\ index' \in [Visited' -> Nat] /\ lowlink' \in [Visited' -> Nat]
  <2>1. index \in [Visited -> Nat] /\ lowlink \in [Visited -> Nat]
    BY <1>2 DEF SearchTypeOK
  <2>2. DOMAIN lowlink = Visited /\ DOMAIN index = Visited
    BY <2>1
  <2> QED BY <1>1, <1>3, <2>1, <2>2 DEF Bind, Visited
<1>7. IsFiniteSet(Visited') /\ Cardinality(Visited') = high + 1
  BY <1>2, <1>6, FS_AddElement DEF SearchTypeOK
<1>8. /\ path' \in Seq(Nodes) /\ DOMAIN path' = 1 .. Len(path) + 1 /\ path'[Len(path) + 1] = f
      /\ \A k \in DOMAIN path : path'[k] = path[k]
      /\ OnPath' = OnPath \cup {f}
  <2>1. path \in Seq(Nodes)
    BY <1>2 DEF SearchTypeOK
  <2> QED BY <1>3, <2>1, Appended DEF OnPath
<1>9. /\ frames' \in Seq(Frame) /\ DOMAIN frames' = 1 .. n + 1
      /\ frames'[n + 1] = [fn |-> f, todo |-> graph.calls[f]]
      /\ \A k \in DOMAIN frames : frames'[k] = callers[k]
  <2>1. [fn |-> f, todo |-> graph.calls[f]] \in Frame
    BY <1>2 DEF CallsWithin, Frame
  <2>2. Len(callers) = n
    BY <1>1
  <2> QED BY <1>1, <1>3, <2>1, <2>2, Appended
<1>10. \A g : IsActive(g)' <=> (IsActive(g) \/ g = f)
  <2>1. ASSUME NEW g, IsActive(g) PROVE IsActive(g)'
    <3>1. PICK k \in DOMAIN frames : frames[k].fn = g
      BY <2>1 DEF IsActive
    <3>2. k \in 1 .. n + 1
      BY <1>1
    <3> QED BY <1>9, <3>1, <3>2 DEF IsActive
  <2>2. IsActive(f)'
    <3>1. n + 1 \in 1 .. n + 1
      BY <1>1
    <3> QED BY <1>9, <3>1 DEF IsActive
  <2>3. ASSUME NEW g, IsActive(g)', g # f PROVE IsActive(g)
    <3>1. PICK k \in 1 .. n + 1 : frames'[k].fn = g
      BY <1>9, <2>3 DEF IsActive
    <3>2. k \in DOMAIN frames
      BY <1>1, <1>9, <2>3, <3>1
    <3> QED BY <1>9, <3>1, <3>2 DEF IsActive
  <2> QED BY <2>1, <2>2, <2>3
<1>11. \A g \in Visited : index[g] < high
  BY <1>2 DEF Numbered
<1>12. \A g \in OnPath : g # f
  BY <1>1
<1>13. \A k \in DOMAIN frames' : k \in DOMAIN frames \/ (k = n + 1 /\ k \notin DOMAIN frames)
  BY <1>1, <1>9
<1>14. \A k \in DOMAIN frames : k \in DOMAIN frames' /\ k < n + 1 /\ frames'[k].fn = frames[k].fn
  <2>1. ASSUME NEW k \in DOMAIN frames PROVE k \in 1 .. n + 1 /\ k < n + 1
    BY <1>1
  <2>2. ASSUME NEW k \in DOMAIN frames PROVE frames'[k].fn = frames[k].fn
    BY <1>9
  <2> QED BY <1>9, <2>1, <2>2
<1>20. CallsWithin'
  BY <1>2, <1>3, <1>4 DEF CallsWithin
<1>21. SearchTypeOK'
  <2>1. Frame' = Frame
    BY <1>4 DEF Frame
  <2>2. components' \in Seq(Seq(Nodes))
    BY <1>2, <1>3 DEF SearchTypeOK
  <2> QED BY <1>1, <1>4, <1>6, <1>7, <1>8, <1>9, <2>1, <2>2 DEF SearchTypeOK
<1>22. Numbered'
  <2>1. \A g \in Visited' : index'[g] < Cardinality(Visited')
    BY <1>1, <1>6, <1>7, <1>11
  <2>2. ASSUME NEW i \in DOMAIN path', NEW j \in DOMAIN path', i < j
        PROVE  \A g, h : g = path'[i] /\ h = path'[j] => index'[g] < index'[h]
    <3>1. i \in DOMAIN path /\ path'[i] = path[i] /\ path[i] \in Visited
      BY <1>1, <1>8, <2>2
    <3>2. CASE j \in DOMAIN path
      <4>1. index[path[i]] < index[path[j]]
        BY <1>2, <2>2, <3>1, <3>2 DEF Numbered
      <4>2. path'[j] = path[j] /\ path[j] \in Visited
        BY <1>1, <1>8, <3>2
      <4>3. index'[path[i]] = index[path[i]] /\ index'[path[j]] = index[path[j]]
        BY <1>6, <3>1, <4>2
      <4> QED BY <3>1, <4>1, <4>2, <4>3
    <3>3. CASE j = Len(path) + 1
      BY <1>6, <1>8, <1>11, <3>1, <3>3
    <3> QED BY <1>1, <1>8, <3>2, <3>3
  <2>3. ASSUME NEW i \in DOMAIN frames', NEW j \in DOMAIN frames', i < j
        PROVE  \A g, h : g = frames'[i].fn /\ h = frames'[j].fn => index'[g] < index'[h]
    <3>1. i \in DOMAIN frames /\ frames'[i].fn = frames[i].fn /\ frames[i].fn \in Visited
      BY <1>1, <1>9, <1>14, <2>3
    <3>2. CASE j \in DOMAIN frames
      <4>1. frames'[j].fn = frames[j].fn /\ frames[j].fn \in Visited
        BY <1>1, <1>14, <3>2
      <4>2. index[frames[i].fn] < index[frames[j].fn]
        BY <1>2, <2>3, <3>1, <3>2 DEF Numbered
      <4> QED BY <1>6, <3>1, <4>1, <4>2
    <3>3. CASE j = n + 1
      BY <1>6, <1>9, <1>11, <3>1, <3>3
    <3> QED BY <1>13, <3>2, <3>3
  <2> QED BY <2>1, <2>2, <2>3 DEF Numbered
<1>23. Parted'
  <2>1. /\ Visited = OnPath \cup Emitted /\ OnPath \cap Emitted = {} /\ \A g : IsActive(g) => g \in OnPath
        /\ \A i, j \in DOMAIN components :
             i # j => ToSet(components[i]) \cap ToSet(components[j]) = {}
    BY <1>2 DEF Parted
  <2>2. Visited' = OnPath' \cup Emitted' /\ OnPath' \cap Emitted' = {}
    BY <1>1, <1>5, <1>6, <1>8, <2>1
  <2>3. \A g : IsActive(g)' => g \in OnPath'
    BY <1>8, <1>10, <2>1
  <2> QED BY <1>3, <2>1, <2>2, <2>3 DEF Parted
<1>24. Connected'
  <2>1. ASSUME NEW v \in OnPath'
        PROVE  /\ \A g : IsActive(g)' /\ index'[g] <= index'[v] => Reaches(g, v)'
               /\ \E g : IsActive(g)' /\ index'[g] <= index'[v] /\ Reaches(v, g)'
    <3>1. CASE v \in OnPath
      <4>1. ASSUME NEW g, IsActive(g)', index'[g] <= index'[v] PROVE Reaches(g, v)
        <5>1. g # f
          <6>1. v \in Visited
            BY <1>1, <3>1
          <6>2. index'[v] = index[v] /\ index[v] \in Nat /\ index[v] < high
            BY <1>1, <1>6, <1>11, <6>1
          <6>3. index'[f] = high /\ high \in Nat
            BY <1>1, <1>6
          <6> HIDE DEF high
          <6> QED BY <4>1, <6>2, <6>3
        <5>2. IsActive(g) /\ g \in Visited
          BY <1>1, <1>2, <1>10, <4>1, <5>1 DEF Parted
        <5>3. index[g] <= index[v]
          BY <1>1, <1>6, <3>1, <4>1, <5>2
        <5> QED BY <1>2, <3>1, <5>2, <5>3 DEF Connected
      <4>2. PICK g : IsActive(g) /\ index[g] <= index[v] /\ Reaches(v, g)
        BY <1>2, <3>1 DEF Connected
      <4>3. g \in Visited
        BY <1>1, <1>2, <4>2 DEF Parted
      <4>4. IsActive(g)' /\ index'[g] <= index'[v] /\ Reaches(v, g)
        BY <1>1, <1>6, <1>10, <3>1, <4>2, <4>3
      <4> QED BY <1>4, <4>1, <4>4
    <3>2. CASE v = f
      <4>1. ASSUME NEW g, IsActive(g)' PROVE Reaches(g, f)
        <5>1. CASE g = f
          BY <5>1, ReachesFacts
        <5>2. CASE g # f
          <6>1. IsActive(g)
            BY <1>10, <4>1, <5>2
          <6>2. PICK k \in DOMAIN frames : frames[k].fn = g
            BY <6>1 DEF IsActive
          <6>3. n \in DOMAIN frames /\ k <= n
            BY <1>1
          <6>4. PICK t : t = frames[n].fn
            OBVIOUS
          <6>5. t \in OnPath /\ t \in Visited /\ g \in Visited /\ index[g] \in Nat
            BY <1>1, <6>2, <6>3, <6>4
          <6>6. index[g] <= index[t]
            BY <1>1, <1>2, <6>2, <6>3, <6>4, <6>5 DEF Numbered
          <6>7. Reaches(g, t)
            BY <1>2, <6>1, <6>5, <6>6 DEF Connected
          <6>8. f \in graph.calls[t] /\ t \in Nodes
            BY <1>1, <6>3, <6>4, <6>5
          <6> QED BY <6>7, <6>8, ReachesFacts
        <5> QED BY <5>1, <5>2
      <4>2. IsActive(f)' /\ index'[f] <= index'[f] /\ Reaches(f, f)
        BY <1>1, <1>6, <1>10, ReachesFacts
      <4> QED BY <1>4, <3>2, <4>1, <4>2
    <3> QED BY <1>8, <3>1, <3>2
  <2> QED BY <2>1 DEF Connected
<1>25. Followed'
  <2>1. ASSUME NEW k \in DOMAIN frames', NEW g, g = frames'[k].fn
        PROVE  /\ frames'[k].todo \subseteq graph'.calls[g]
               /\ graph'.calls[g] \subseteq Visited' \cup frames'[k].todo
    <3>1. CASE k \in DOMAIN frames
      <4>1. /\ g = frames[k].fn
            /\ frames'[k].todo = IF k = n THEN frames[k].todo \ {f} ELSE frames[k].todo
        BY <1>9, <2>1, <3>1
      <4>2. frames[k].todo \subseteq graph.calls[g] /\ graph.calls[g] \subseteq Visited \cup frames[k].todo
        BY <1>2, <3>1, <4>1 DEF Followed
      <4> QED BY <1>3, <1>6, <4>1, <4>2
    <3>2. CASE k = n + 1
      BY <1>3, <1>9, <2>1, <3>2
    <3> QED BY <1>13, <3>1, <3>2
  <2>2. ASSUME NEW g \in Visited', ~ IsActive(g)' PROVE graph'.calls[g] \subseteq Visited'
    <3>1. g # f /\ ~ IsActive(g)
      BY <1>10, <2>2
    <3> QED BY <1>2, <1>3, <1>6, <2>2, <3>1 DEF Followed
  <2> QED BY <2>1, <2>2 DEF Followed
<1>26. LowBounds'
  <2>1. ASSUME NEW k \in DOMAIN frames', NEW g, g = frames'[k].fn
        PROVE  /\ lowlink'[g] <= index'[g]
               /\ \E w \in OnPath' : index'[w] = lowlink'[g] /\ Reaches(g, w)'
               /\ \A v, x \in OnPath' : Above(k, v)' /\ Taken(v, x)' => lowlink'[g] <= index'[x]
    <3>1. CASE k \in DOMAIN frames
      <4>1. g = frames[k].fn /\ g \in Visited /\ index'[g] = index[g] /\ lowlink'[g] = lowlink[g]
            /\ index[g] \in Nat /\ lowlink[g] \in Nat
        BY <1>1, <1>6, <1>14, <2>1, <3>1
      <4>2. /\ lowlink[g] <= index[g]
            /\ \E w \in OnPath : index[w] = lowlink[g] /\ Reaches(g, w)
            /\ \A v, x \in OnPath : Above(k, v) /\ Taken(v, x) => lowlink[g] <= index[x]
        BY <1>2, <3>1, <4>1 DEF LowBounds
      <4>3. \E w \in OnPath' : index'[w] = lowlink'[g] /\ Reaches(g, w)'
        BY <1>1, <1>4, <1>6, <1>8, <4>1, <4>2
      <4>4. ASSUME NEW v \in OnPath', NEW x \in OnPath', Above(k, v)', Taken(v, x)'
            PROVE  lowlink'[g] <= index'[x]
        <5>1. CASE x = f
          BY <1>1, <1>6, <1>11, <4>1, <4>2, <5>1
        <5>2. CASE x # f
          <6>1. x \in OnPath
            BY <1>8, <5>2
          <6>2. v # f
            <7>1. k < n + 1 /\ n + 1 \in DOMAIN frames' /\ frames'[n + 1].fn = f
              BY <1>1, <1>9, <3>1
            <7>2. \A h : h = frames'[n + 1].fn => index'[v] < index'[h]
              BY <4>4, <7>1 DEF Above
            <7> QED BY <1>1, <1>6, <7>1, <7>2
          <6>3. v \in OnPath /\ index'[v] = index[v]
            BY <1>1, <1>6, <1>8, <6>2
          <6>4. Above(k, v)
            <7>1. index[frames[k].fn] <= index[v]
              BY <4>1, <4>4, <6>3, <2>1 DEF Above
            <7>2. ASSUME NEW m \in DOMAIN frames, k < m PROVE index[v] < index[frames[m].fn]
              <8>1. m \in DOMAIN frames' /\ frames'[m].fn = frames[m].fn /\ frames[m].fn \in Visited
                BY <1>1, <1>14
              <8>2. \A h : h = frames'[m].fn => index'[v] < index'[h]
                BY <4>4, <7>2, <8>1 DEF Above
              <8> QED BY <1>6, <6>3, <8>1, <8>2
            <7> QED BY <7>1, <7>2 DEF Above
          <6>5. Taken(v, x)
            <7>1. x \in graph.calls[v]
              BY <1>3, <4>4 DEF Taken
            <7>2. ASSUME NEW m \in DOMAIN frames, frames[m].fn = v PROVE x \notin frames[m].todo
              <8>1. m \in DOMAIN frames' /\ frames'[m].fn = v
                BY <1>14, <7>2
              <8>2. x \notin frames'[m].todo
                BY <4>4, <8>1 DEF Taken
              <8> QED BY <1>9, <5>2, <8>2
            <7> QED BY <7>1, <7>2 DEF Taken
          <6>6. lowlink[g] <= index[x]
            BY <4>2, <6>1, <6>3, <6>4, <6>5
          <6> QED BY <1>1, <1>6, <4>1, <6>1, <6>6
        <5> QED BY <5>1, <5>2
      <4> QED BY <4>1, <4>2, <4>3, <4>4
    <3>2. CASE k = n + 1
      <4>1. g = f /\ frames'[k].todo = graph.calls[f]
        BY <1>9, <2>1, <3>2
      <4>2. ASSUME NEW v \in OnPath', NEW x \in OnPath', Above(k, v)', Taken(v, x)' PROVE FALSE
        <5>1. index'[f] <= index'[v]
          BY <2>1, <4>1, <4>2 DEF Above
        <5>2. v = f
          <6>1. v \in OnPath \/ v = f
            BY <1>8, <4>2
          <6>2. ASSUME v \in OnPath PROVE FALSE
            <7>1. v \in Visited /\ index'[v] = index[v] /\ index[v] < high /\ index[v] \in Nat
              BY <1>1, <1>6, <1>11, <6>2
            <7> QED BY <1>1, <1>6, <5>1, <7>1
          <6> QED BY <6>1, <6>2
        <5> QED BY <1>3, <2>1, <4>1, <4>2, <5>2 DEF Taken
      <4>3. f \in OnPath' /\ index'[f] = lowlink'[g] /\ Reaches(g, f)' /\ lowlink'[g] <= index'[g]
        BY <1>1, <1>4, <1>6, <1>8, <4>1, ReachesFacts
      <4> QED BY <4>2, <4>3
    <3> QED BY <1>13, <3>1, <3>2
  <2> QED BY <2>1 DEF LowBounds
<1> QED BY <1>5, <1>20, <1>21, <1>22, <1>23, <1>24, <1>25, <1>26 DEF SearchInv

\* The outer loop moves on.
LEMMA RootStep ==
  ASSUME SearchInv, VisitRoot
  PROVE  SearchInv'
<1>1. SearchTypeOK
  BY DEF SearchInv
<1>2. frames = <<>> /\ roots # <<>> /\ roots' = Tail(roots)
  BY DEF VisitRoot
<1>3. /\ roots \in Seq(Nodes) /\ Nodes \subseteq Visited \cup ToSet(roots)
  BY <1>1 DEF SearchTypeOK
<1>4. Head(roots) \in Nodes /\ roots' \in Seq(Nodes) /\ ToSet(roots) = {Head(roots)} \cup ToSet(roots')
  BY <1>2, <1>3, HeadAndTail
<1>5. CASE Head(roots) \in Visited
  <2>1. UNCHANGED <<graph, frames, index, lowlink, path, components>>
    BY <1>5 DEF VisitRoot
  <2>2. Nodes \subseteq Visited \cup ToSet(roots')
    BY <1>3, <1>4, <1>5
  <2>3. Nodes' = Nodes /\ Visited' = Visited /\ \A f, g : Reaches(f, g)' <=> Reaches(f, g)
    BY <2>1, ReachesKept DEF Visited
  <2>4. CallsWithin' /\ SearchTypeOK'
    <3>1. CallsWithin /\ SearchTypeOK
      BY DEF SearchInv
    <3>2. Frame' = Frame
      BY <2>3 DEF Frame
    <3>3. CallsWithin'
      BY <2>1, <2>3, <3>1 DEF CallsWithin
    <3> QED BY <1>4, <2>1, <2>2, <2>3, <3>1, <3>2, <3>3 DEF SearchTypeOK
  <2>5. Numbered' /\ Parted' /\ Followed'
    <3>1. Numbered /\ Parted /\ Followed
      BY DEF SearchInv
    <3>2. Numbered'
      BY <2>1, <2>3, <3>1 DEF Numbered
    <3>3. Parted'
      BY <2>1, <2>3, <3>1 DEF Parted, OnPath, Emitted, IsActive
    <3>4. Followed'
      BY <2>1, <2>3, <3>1 DEF Followed, IsActive
    <3> QED BY <3>2, <3>3, <3>4
  <2>6. Connected' /\ LowBounds'
    <3>1. Connected /\ LowBounds
      BY DEF SearchInv
    <3>2. OnPath' = OnPath /\ (\A f : IsActive(f)' <=> IsActive(f))
      BY <2>1 DEF OnPath, IsActive
    <3>3. Connected'
      BY <2>1, <2>3, <3>1, <3>2 DEF Connected
    <3>4. \A k, v, x : (Above(k, v)' <=> Above(k, v)) /\ (Taken(v, x)' <=> Taken(v, x))
      BY <2>1 DEF Above, Taken
    <3>5. LowBounds'
      BY <2>1, <2>3, <3>1, <3>2, <3>4 DEF LowBounds
    <3> QED BY <3>3, <3>5
  <2>7. ComponentsAreRecursionGroups'
    BY <2>1, ComponentsKept DEF SearchInv
  <2> QED BY <2>4, <2>5, <2>6, <2>7 DEF SearchInv
<1>6. CASE Head(roots) \notin Visited
  <2> DEFINE f == Head(roots)
  <2>1. Enter(f, <<>>)
    BY <1>6 DEF VisitRoot
  <2>2. f \in Nodes /\ f \notin Visited /\ Nodes \subseteq Visited \cup {f} \cup ToSet(roots')
    BY <1>3, <1>4, <1>6
  <2> HIDE DEF f
  <2>3. <<>> \in Seq(Frame) /\ DOMAIN (<<>>) = DOMAIN frames
    BY <1>2
  <2>4. \A k \in DOMAIN frames : FALSE
    BY <1>2
  <2> QED BY <1>2, <1>4, <2>1, <2>2, <2>3, <2>4, EnterStep
<1> QED BY <1>5, <1>6

\* The innermost visit takes a callee: visits it, or lets one on the path
\* lower its lowlink.
LEMMA TakeStep ==
  ASSUME SearchInv, TakeCallee
  PROVE  SearchInv'
<1> DEFINE n == Len(frames)
           top == frames[n]
           fn == top.fn
<1>1. frames # <<>> /\ roots' = roots
  BY DEF TakeCallee
<1>2. /\ CallsWithin /\ SearchTypeOK /\ Numbered /\ Parted /\ Connected
      /\ Followed /\ LowBounds /\ ComponentsAreRecursionGroups
  BY DEF SearchInv
<1>3. /\ n \in Nat \ {0} /\ DOMAIN frames = 1 .. n /\ n \in DOMAIN frames /\ Last(frames) = top
      /\ top \in Frame
  <2>1. frames \in Seq(Frame)
    BY <1>2 DEF SearchTypeOK
  <2>2. n \in Nat \ {0} /\ DOMAIN frames = 1 .. n /\ Last(frames) = frames[n] /\ Last(frames) \in Frame
    BY <1>1, <2>1, FrontOf
  <2> QED BY <2>2
<1>4. /\ \A k \in DOMAIN frames : /\ frames[k] \in Frame /\ frames[k].fn \in OnPath
                                  /\ IsActive(frames[k].fn)
      /\ OnPath \subseteq Visited /\ Visited \subseteq Nodes
      /\ \A g \in Visited : index[g] \in Nat /\ lowlink[g] \in Nat
  BY SearchFacts
<1>5. PICK c \in Last(frames).todo :
        LET rest == Append(Front(frames), [Last(frames) EXCEPT !.todo = @ \ {c}])
        IN  IF c \notin Visited THEN Enter(c, rest)
            ELSE /\ frames' = rest
                 /\ lowlink' = IF c \in ToSet(path)
                               THEN [lowlink EXCEPT ![Last(frames).fn] = Smaller(@, index[c])]
                               ELSE lowlink
                 /\ UNCHANGED <<graph, index, path, components>>
  BY DEF TakeCallee
<1> DEFINE r == [top EXCEPT !.todo = @ \ {c}]
           rest == Append(Front(frames), r)
<1>6. /\ c \in top.todo /\ c \in graph.calls[fn] /\ c \in Nodes
  <2>1. top.todo \subseteq graph.calls[fn]
    BY <1>2, <1>3 DEF Followed
  <2>2. fn \in Nodes
    BY <1>3, <1>4
  <2> QED BY <1>2, <1>3, <1>5, <2>1, <2>2 DEF CallsWithin
<1>7. r \in Frame /\ r.fn = fn /\ r.todo = top.todo \ {c}
  BY <1>3 DEF Frame
<1>8. /\ rest \in Seq(Frame) /\ DOMAIN rest = DOMAIN frames /\ Len(rest) = n
      /\ rest[n] = r /\ \A k \in DOMAIN frames : k # n => rest[k] = frames[k]
  <2>1. frames \in Seq(Frame)
    BY <1>2 DEF SearchTypeOK
  <2> QED BY <1>1, <1>7, <2>1, LastReplaced
<1>9. /\ (c \notin Visited => Enter(c, rest))
      /\ (c \in Visited => /\ frames' = rest
                           /\ lowlink' = IF c \in OnPath
                                         THEN [lowlink EXCEPT ![fn] = Smaller(@, index[c])]
                                         ELSE lowlink
                           /\ UNCHANGED <<graph, index, path, components>>)
  BY <1>3, <1>5 DEF OnPath
<1> HIDE DEF r, rest
<1>10. \A k \in DOMAIN frames :
         /\ rest[k].fn = frames[k].fn
         /\ rest[k].todo = IF k = n THEN frames[k].todo \ {c} ELSE frames[k].todo
  BY <1>7, <1>8
<1>11. CASE c \notin Visited
  <2>1. roots' \in Seq(Nodes) /\ Nodes \subseteq Visited \cup {c} \cup ToSet(roots')
    BY <1>1, <1>2 DEF SearchTypeOK
  <2>2. Enter(c, rest)
    BY <1>9, <1>11
  <2> QED BY <1>6, <1>8, <1>10, <1>11, <2>1, <2>2, EnterStep
<1>12. CASE c \in Visited
  <2>1. UNCHANGED <<graph, roots, index, path, components>> /\ frames' = rest
    BY <1>1, <1>9, <1>12
  <2>2. /\ Nodes' = Nodes /\ Visited' = Visited /\ OnPath' = OnPath
        /\ \A f, g : Reaches(f, g)' <=> Reaches(f, g)
    BY <2>1, ReachesKept DEF Visited, OnPath
  <2>3. /\ DOMAIN frames' = DOMAIN frames
        /\ \A k \in DOMAIN frames : frames'[k].fn = frames[k].fn
    BY <1>8, <1>10, <2>1
  <2>4. \A f : IsActive(f)' <=> IsActive(f)
    BY <2>3 DEF IsActive
  <2>5. \A k \in DOMAIN frames : \A v : Above(k, v)' <=> Above(k, v)
    <3> SUFFICES ASSUME NEW k \in DOMAIN frames, NEW v PROVE Above(k, v)' <=> Above(k, v)
      OBVIOUS
    <3>1. (index[frames[k].fn] <= index[v])' <=> index[frames[k].fn] <= index[v]
      BY <2>1, <2>3
    <3>2. \A m \in DOMAIN frames : (index'[v] < index'[frames'[m].fn]) <=> (index[v] < index[frames[m].fn])
      BY <2>1, <2>3
    <3> QED BY <2>3, <3>1, <3>2 DEF Above
  <2>6. /\ lowlink' \in [Visited -> Nat]
        /\ \A g \in Visited : g # fn => lowlink'[g] = lowlink[g]
        /\ lowlink'[fn] <= lowlink[fn] /\ (c \in OnPath => lowlink'[fn] <= index[c])
        /\ lowlink'[fn] = lowlink[fn] \/ (c \in OnPath /\ lowlink'[fn] = index[c])
    <3>1. lowlink \in [Visited -> Nat] /\ fn \in Visited /\ index[c] \in Nat /\ lowlink[fn] \in Nat
      BY <1>2, <1>3, <1>4, <1>12 DEF SearchTypeOK
    <3>2. CASE c \in OnPath
      <4>1. lowlink' = [lowlink EXCEPT ![fn] = Smaller(lowlink[fn], index[c])]
        BY <1>9, <1>12, <3>2
      <4> QED BY <3>1, <3>2, <4>1 DEF Smaller
    <3>3. CASE c \notin OnPath
      BY <1>9, <1>12, <3>1, <3>3
    <3> QED BY <3>2, <3>3
  <2>7. CallsWithin' /\ SearchTypeOK' /\ Numbered' /\ Parted'
    <3>1. Frame' = Frame
      BY <2>2 DEF Frame
    <3>2. CallsWithin'
      BY <1>2, <2>1, <2>2 DEF CallsWithin
    <3>3. SearchTypeOK'
      BY <1>2, <1>8, <2>1, <2>2, <2>6, <3>1 DEF SearchTypeOK
    <3>4. Numbered'
      <4>1. Numbered
        BY <1>2
      <4>2. \A i, j \in DOMAIN frames' : i < j => index'[frames'[i].fn] < index'[frames'[j].fn]
        BY <2>1, <2>3, <4>1 DEF Numbered
      <4> QED BY <2>1, <2>2, <4>1, <4>2 DEF Numbered
    <3>5. Parted'
      BY <1>2, <2>1, <2>2, <2>4 DEF Parted, Emitted
    <3> QED BY <3>2, <3>3, <3>4, <3>5
  <2>8. Connected'
    BY <1>2, <2>1, <2>2, <2>4 DEF Connected
  <2>9. Followed'
    <3>1. ASSUME NEW k \in DOMAIN frames', NEW g, g = frames'[k].fn
          PROVE  /\ frames'[k].todo \subseteq graph'.calls[g]
                 /\ graph'.calls[g] \subseteq Visited' \cup frames'[k].todo
      <4>1. /\ k \in DOMAIN frames /\ g = frames[k].fn
            /\ frames'[k].todo = IF k = n THEN frames[k].todo \ {c} ELSE frames[k].todo
        BY <1>10, <2>1, <2>3, <3>1
      <4>2. frames[k].todo \subseteq graph.calls[g] /\ graph.calls[g] \subseteq Visited \cup frames[k].todo
        BY <1>2, <4>1 DEF Followed
      <4> QED BY <1>12, <2>1, <2>2, <4>1, <4>2
    <3>2. \A g \in Visited' : ~ IsActive(g)' => graph'.calls[g] \subseteq Visited'
      BY <1>2, <2>1, <2>2, <2>4 DEF Followed
    <3> QED BY <3>1, <3>2 DEF Followed
  <2>10. LowBounds'
    <3>1. ASSUME NEW k \in DOMAIN frames', NEW g, g = frames'[k].fn
          PROVE  /\ lowlink'[g] <= index'[g]
                 /\ \E w \in OnPath' : index'[w] = lowlink'[g] /\ Reaches(g, w)'
                 /\ \A v, x \in OnPath' : Above(k, v)' /\ Taken(v, x)' => lowlink'[g] <= index'[x]
      <4>1. k \in DOMAIN frames /\ g = frames[k].fn /\ g \in Visited /\ index[g] \in Nat /\ lowlink[g] \in Nat
        BY <1>4, <2>3, <3>1
      <4>2. /\ lowlink[g] <= index[g]
            /\ \E w \in OnPath : index[w] = lowlink[g] /\ Reaches(g, w)
            /\ \A v, x \in OnPath : Above(k, v) /\ Taken(v, x) => lowlink[g] <= index[x]
        BY <1>2, <4>1 DEF LowBounds
      <4>3. \A v, x : Taken(v, x)' => Taken(v, x) \/ (v = fn /\ x = c)
        <5> SUFFICES ASSUME NEW v, NEW x, Taken(v, x)', ~ (v = fn /\ x = c) PROVE Taken(v, x)
          OBVIOUS
        <5>1. x \in graph.calls[v]
          BY <2>1 DEF Taken
        <5>2. ASSUME NEW m \in DOMAIN frames, frames[m].fn = v PROVE x \notin frames[m].todo
          <6>1. m \in DOMAIN frames' /\ frames'[m].fn = v
            BY <2>3, <5>2
          <6>2. x \notin frames'[m].todo
            BY <6>1 DEF Taken
          <6> QED BY <1>10, <2>1, <5>2, <6>2
        <5> QED BY <5>1, <5>2 DEF Taken
      <4>4. CASE k = n
        <5>1. g = fn /\ lowlink'[g] \in Nat /\ \A x \in OnPath : index[x] \in Nat
          BY <1>4, <2>6, <4>1, <4>4
        <5>2. lowlink'[g] <= index[g]
          BY <2>6, <4>1, <4>2, <5>1
        <5>3. \E w \in OnPath : index[w] = lowlink'[g] /\ Reaches(g, w)
          <6>1. CASE lowlink'[fn] = lowlink[fn]
            BY <4>2, <5>1, <6>1
          <6>2. CASE c \in OnPath /\ lowlink'[fn] = index[c]
            <7>1. Reaches(fn, c)
              BY <1>3, <1>4, <1>6, ReachesFacts
            <7> QED BY <5>1, <6>2, <7>1
          <6> QED BY <2>6, <6>1, <6>2
        <5>4. ASSUME NEW v \in OnPath, NEW x \in OnPath, Above(k, v), Taken(v, x)'
              PROVE  lowlink'[g] <= index[x]
          <6>1. CASE Taken(v, x)
            <7>1. lowlink[g] <= index[x]
              BY <4>2, <5>4, <6>1
            <7> QED BY <2>6, <4>1, <5>1, <7>1
          <6>2. CASE v = fn /\ x = c
            BY <2>6, <5>1, <5>4, <6>2
          <6> QED BY <4>3, <5>4, <6>1, <6>2
        <5> QED BY <2>1, <2>2, <2>5, <4>1, <5>2, <5>3, <5>4
      <4>5. CASE k # n
        <5>1. k < n /\ index[g] < index[fn]
          BY <1>2, <1>3, <4>1, <4>5 DEF Numbered
        <5>2. g # fn
          BY <4>1, <5>1
        <5>3. lowlink'[g] = lowlink[g]
          BY <2>6, <4>1, <5>2
        <5>4. ASSUME NEW v \in OnPath, NEW x \in OnPath, Above(k, v), Taken(v, x)'
              PROVE  lowlink[g] <= index[x]
          <6>1. index[v] < index[fn]
            BY <1>3, <5>1, <5>4 DEF Above
          <6>2. v # fn
            BY <1>3, <1>4, <6>1
          <6> QED BY <4>2, <4>3, <5>4, <6>2
        <5> QED BY <2>1, <2>2, <2>5, <4>1, <4>2, <5>3, <5>4
      <4> QED BY <4>4, <4>5
    <3> QED BY <3>1 DEF LowBounds
  <2>11. ComponentsAreRecursionGroups'
    BY <1>2, <2>1, ComponentsKept
  <2> QED BY <2>7, <2>8, <2>9, <2>10, <2>11 DEF SearchInv
<1> QED BY <1>11, <1>12

\* What the end of the innermost visit changes, whether or not its function
\* is the first of a component.
VisitLeft(n, fn) ==
  /\ n \in Nat \ {0} /\ DOMAIN frames = 1 .. n /\ n \in DOMAIN frames /\ frames[n].todo = {}
  /\ fn \in OnPath /\ IsActive(fn) /\ lowlink[fn] <= index[fn]
  /\ UNCHANGED <<graph, roots, index>> /\ Nodes' = Nodes /\ Visited' = Visited /\ Frame' = Frame
  /\ \A f, g : Reaches(f, g)' <=> Reaches(f, g)
  /\ frames' \in Seq(Frame) /\ DOMAIN frames' = 1 .. n - 1 /\ Len(frames') = n - 1
  /\ \A k \in 1 .. n - 1 : /\ k \in DOMAIN frames /\ frames'[k] = frames[k]
                           /\ index[frames[k].fn] < index[fn]
  /\ \A g : IsActive(g)' <=> (IsActive(g) /\ g # fn)
  /\ \A g : IsActive(g) => g \in OnPath /\ index[g] <= index[fn] /\ Reaches(g, fn)
  /\ \A v, x : Taken(v, x)' => Taken(v, x)
  /\ lowlink' = IF n = 1 THEN lowlink
                ELSE [lowlink EXCEPT ![frames[n-1].fn] = Smaller(lowlink[frames[n-1].fn], lowlink[fn])]
  /\ Followed'

LEMMA LeaveFacts ==
  ASSUME SearchInv, LeaveVisit, NEW n, n = Len(frames), NEW fn, fn = frames[n].fn
  PROVE  VisitLeft(n, fn)
<1>1. /\ CallsWithin /\ SearchTypeOK /\ Numbered /\ Parted /\ Connected
      /\ Followed /\ LowBounds
  BY DEF SearchInv
<1>2. frames # <<>> /\ frames \in Seq(Frame)
  BY <1>1 DEF LeaveVisit, SearchTypeOK
<1>3. /\ n \in Nat \ {0} /\ DOMAIN frames = 1 .. n /\ Last(frames) = frames[n]
      /\ Front(frames) \in Seq(Frame) /\ DOMAIN Front(frames) = 1 .. n - 1 /\ Len(Front(frames)) = n - 1
      /\ \A k \in 1 .. n - 1 : Front(frames)[k] = frames[k]
  BY <1>2, FrontOf
<1>4. /\ Last(frames).todo = {} /\ UNCHANGED <<graph, roots, index>> /\ frames' = Front(frames)
      /\ lowlink' = IF Len(frames) = 1 THEN lowlink
                    ELSE [lowlink EXCEPT ![Last(Front(frames)).fn] =
                            Smaller(lowlink[Last(Front(frames)).fn], lowlink[Last(frames).fn])]
  BY DEF LeaveVisit
<1>5. /\ \A k \in DOMAIN frames : frames[k].fn \in OnPath /\ IsActive(frames[k].fn)
      /\ OnPath \subseteq Visited /\ \A g \in Visited : index[g] \in Nat /\ lowlink[g] \in Nat
  BY SearchFacts
<1>6. n \in DOMAIN frames /\ frames[n].todo = {}
  BY <1>3, <1>4
<1>7. fn \in OnPath /\ IsActive(fn) /\ lowlink[fn] <= index[fn]
  BY <1>1, <1>5, <1>6 DEF LowBounds
<1>8. /\ Nodes' = Nodes /\ Visited' = Visited /\ \A f, g : Reaches(f, g)' <=> Reaches(f, g)
  BY <1>4, ReachesKept DEF Visited
<1>9. frames' \in Seq(Frame) /\ DOMAIN frames' = 1 .. n - 1 /\ Len(frames') = n - 1
  BY <1>3, <1>4
<1>10. \A k \in 1 .. n - 1 : /\ k \in DOMAIN frames /\ frames'[k] = frames[k]
                             /\ index[frames[k].fn] < index[fn]
  <2> SUFFICES ASSUME NEW k \in 1 .. n - 1
               PROVE  k \in DOMAIN frames /\ frames'[k] = frames[k] /\ index[frames[k].fn] < index[fn]
    OBVIOUS
  <2>1. k \in DOMAIN frames /\ k < n /\ frames'[k] = frames[k]
    BY <1>3, <1>4
  <2> QED BY <1>1, <1>6, <2>1 DEF Numbered
<1>11. \A g : IsActive(g)' <=> (IsActive(g) /\ g # fn)
  <2>1. ASSUME NEW g, IsActive(g)' PROVE IsActive(g) /\ g # fn
    <3>1. PICK k \in 1 .. n - 1 : frames'[k].fn = g
      BY <1>9, <2>1 DEF IsActive
    <3>2. k \in DOMAIN frames /\ frames[k].fn = g /\ index[g] < index[fn]
      BY <1>10, <3>1
    <3> QED BY <1>5, <1>7, <3>2
  <2>2. ASSUME NEW g, IsActive(g), g # fn PROVE IsActive(g)'
    <3>1. PICK k \in DOMAIN frames : frames[k].fn = g
      BY <2>2 DEF IsActive
    <3>2. k \in 1 .. n - 1
      BY <1>3, <2>2, <3>1
    <3> QED BY <1>9, <1>10, <3>1, <3>2 DEF IsActive
  <2> QED BY <2>1, <2>2
<1>12. \A g : IsActive(g) => g \in OnPath /\ index[g] <= index[fn] /\ Reaches(g, fn)
  <2> SUFFICES ASSUME NEW g, IsActive(g) PROVE g \in OnPath /\ index[g] <= index[fn] /\ Reaches(g, fn)
    OBVIOUS
  <2>1. PICK k \in DOMAIN frames : frames[k].fn = g
    BY DEF IsActive
  <2>2. index[g] <= index[fn]
    <3>1. CASE k = n
      BY <1>5, <1>7, <2>1, <3>1
    <3>2. CASE k # n
      <4>1. k \in 1 .. n - 1
        BY <1>3, <3>2
      <4> QED BY <1>5, <1>7, <1>10, <2>1, <4>1
    <3> QED BY <3>1, <3>2
  <2>3. Reaches(g, fn)
    BY <1>1, <1>7, <2>2 DEF Connected
  <2> QED BY <1>5, <2>1, <2>2, <2>3
<1>13. \A v, x : Taken(v, x)' => Taken(v, x)
  <2> SUFFICES ASSUME NEW v, NEW x, Taken(v, x)' PROVE Taken(v, x)
    OBVIOUS
  <2>1. x \in graph.calls[v]
    BY <1>4 DEF Taken
  <2>2. ASSUME NEW m \in DOMAIN frames, frames[m].fn = v PROVE x \notin frames[m].todo
    <3>1. CASE m = n
      BY <1>6, <3>1
    <3>2. CASE m # n
      <4>1. m \in 1 .. n - 1
        BY <1>3, <3>2
      <4>2. m \in DOMAIN frames' /\ frames'[m].fn = v /\ frames'[m].todo = frames[m].todo
        BY <1>9, <1>10, <2>2, <4>1
      <4> QED BY <4>2 DEF Taken
    <3> QED BY <3>1, <3>2
  <2> QED BY <2>1, <2>2 DEF Taken
<1>14. lowlink' = IF n = 1 THEN lowlink
                  ELSE [lowlink EXCEPT ![frames[n-1].fn] = Smaller(lowlink[frames[n-1].fn], lowlink[fn])]
  <2>1. CASE n = 1
    BY <1>4, <2>1
  <2>2. CASE n # 1
    <3>1. Last(Front(frames)) = frames[n-1]
      BY <1>3, <2>2 DEF Last
    <3> QED BY <1>3, <1>4, <2>2, <3>1
  <2> QED BY <2>1, <2>2
<1>15. Followed'
  <2>1. ASSUME NEW k \in DOMAIN frames'
        PROVE  /\ frames'[k].todo \subseteq graph'.calls[frames'[k].fn]
               /\ graph'.calls[frames'[k].fn] \subseteq Visited' \cup frames'[k].todo
    BY <1>1, <1>4, <1>8, <1>9, <1>10, <2>1 DEF Followed
  <2>2. ASSUME NEW g \in Visited', ~ IsActive(g)' PROVE graph'.calls[g] \subseteq Visited'
    <3>1. CASE g = fn
      BY <1>1, <1>4, <1>6, <1>8, <3>1 DEF Followed
    <3>2. CASE g # fn
      BY <1>1, <1>4, <1>8, <1>11, <2>2, <3>2 DEF Followed
    <3> QED BY <3>1, <3>2
  <2> QED BY <2>1, <2>2 DEF Followed
<1>16. Frame' = Frame
  BY <1>8 DEF Frame
<1> QED BY <1>3, <1>4, <1>6, <1>7, <1>8, <1>9, <1>10, <1>11, <1>12, <1>13, <1>14, <1>15, <1>16 DEF VisitLeft

\* A visit ends whose function reaches something older on the path: the
\* caller's visit takes over its bound.
LEMMA LeaveOpenStep ==
  ASSUME SearchInv, LeaveVisit,
         lowlink[frames[Len(frames)].fn] # index[frames[Len(frames)].fn]
  PROVE  SearchInv'
<1>1. PICK n, fn : n = Len(frames) /\ fn = frames[n].fn
  OBVIOUS
<1>2. /\ n \in Nat \ {0} /\ DOMAIN frames = 1 .. n /\ n \in DOMAIN frames /\ frames[n].todo = {}
      /\ fn \in OnPath /\ IsActive(fn) /\ lowlink[fn] <= index[fn]
      /\ UNCHANGED <<graph, roots, index>> /\ Nodes' = Nodes /\ Visited' = Visited /\ Frame' = Frame
      /\ \A f, g : Reaches(f, g)' <=> Reaches(f, g)
      /\ frames' \in Seq(Frame) /\ DOMAIN frames' = 1 .. n - 1 /\ Len(frames') = n - 1
      /\ \A k \in 1 .. n - 1 : /\ k \in DOMAIN frames /\ frames'[k] = frames[k]
                               /\ index[frames[k].fn] < index[fn]
      /\ \A g : IsActive(g)' <=> (IsActive(g) /\ g # fn)
      /\ \A g : IsActive(g) => g \in OnPath /\ index[g] <= index[fn] /\ Reaches(g, fn)
      /\ \A v, x : Taken(v, x)' => Taken(v, x)
      /\ lowlink' = IF n = 1 THEN lowlink
                    ELSE [lowlink EXCEPT ![frames[n-1].fn] = Smaller(lowlink[frames[n-1].fn], lowlink[fn])]
      /\ Followed'
  <2>1. VisitLeft(n, fn)
    BY <1>1, LeaveFacts
  <2> QED BY <2>1 DEF VisitLeft
<1>3. /\ CallsWithin /\ SearchTypeOK /\ Numbered /\ Parted /\ Connected
      /\ LowBounds /\ ComponentsAreRecursionGroups
  BY DEF SearchInv
<1>4. /\ OnPath \subseteq Visited /\ \A g \in Visited : index[g] \in Nat /\ lowlink[g] \in Nat
      /\ \A k \in DOMAIN frames : frames[k].fn \in OnPath /\ IsActive(frames[k].fn)
  BY SearchFacts
<1>5. UNCHANGED <<path, components>> /\ OnPath' = OnPath
  <2>1. frames # <<>> /\ frames \in Seq(Frame)
    BY <1>3 DEF LeaveVisit, SearchTypeOK
  <2>2. Last(frames) = frames[Len(frames)]
    BY <2>1, FrontOf
  <2> QED BY <2>2 DEF LeaveVisit, OnPath
<1>6. lowlink[fn] < index[fn]
  BY <1>1, <1>2, <1>4
<1>7. PICK w \in OnPath : index[w] = lowlink[fn] /\ Reaches(fn, w)
  BY <1>1, <1>2, <1>3 DEF LowBounds
<1>8. PICK old : IsActive(old) /\ index[old] <= index[w] /\ Reaches(w, old)
  BY <1>3, <1>7 DEF Connected
<1>9. old # fn /\ IsActive(old)' /\ old \in OnPath /\ index[old] < index[fn] /\ Reaches(fn, old)
  <2>1. index[old] < index[fn] /\ old \in OnPath
    BY <1>2, <1>4, <1>6, <1>7, <1>8
  <2>2. old # fn
    BY <1>2, <1>4, <2>1
  <2>3. Reaches(fn, old)
    BY <1>7, <1>8, ReachesFacts
  <2> QED BY <1>2, <1>8, <2>1, <2>2, <2>3
<1>10. n > 1 /\ n - 1 \in DOMAIN frames
  <2>1. PICK k \in DOMAIN frames : frames[k].fn = old
    BY <1>8 DEF IsActive
  <2>2. k # n
    BY <1>1, <1>9, <2>1
  <2> QED BY <1>2, <2>1, <2>2
<1>11. PICK p : p = frames[n - 1].fn
  OBVIOUS
<1>12. p \in OnPath /\ p \in Visited /\ IsActive(p) /\ index[p] < index[fn] /\ Reaches(p, fn)
  <2>1. n - 1 \in 1 .. n - 1
    BY <1>2, <1>10
  <2> QED BY <1>2, <1>4, <1>10, <1>11, <2>1
<1>13. /\ lowlink' \in [Visited -> Nat] /\ \A g \in Visited : g # p => lowlink'[g] = lowlink[g]
       /\ lowlink'[p] <= lowlink[p] /\ lowlink'[p] <= lowlink[fn]
       /\ lowlink'[p] = lowlink[p] \/ lowlink'[p] = lowlink[fn]
  <2>1. lowlink \in [Visited -> Nat] /\ lowlink[p] \in Nat /\ lowlink[fn] \in Nat
    BY <1>2, <1>3, <1>4, <1>12 DEF SearchTypeOK
  <2>2. lowlink' = [lowlink EXCEPT ![p] = Smaller(lowlink[p], lowlink[fn])]
    BY <1>2, <1>10, <1>11
  <2> QED BY <1>12, <2>1, <2>2 DEF Smaller
<1>20. CallsWithin' /\ SearchTypeOK' /\ Numbered' /\ Parted'
  <2>1. CallsWithin'
    BY <1>2, <1>3 DEF CallsWithin
  <2>2. SearchTypeOK'
    BY <1>2, <1>3, <1>5, <1>13 DEF SearchTypeOK
  <2>3. Numbered'
    <3>1. Numbered
      BY <1>3
    <3>2. ASSUME NEW i \in DOMAIN frames', NEW j \in DOMAIN frames', i < j
          PROVE  index'[frames'[i].fn] < index'[frames'[j].fn]
      <4>1. i \in DOMAIN frames /\ j \in DOMAIN frames /\ frames'[i] = frames[i] /\ frames'[j] = frames[j]
        BY <1>2
      <4> QED BY <1>2, <3>1, <3>2, <4>1 DEF Numbered
    <3> QED BY <1>2, <1>5, <3>1, <3>2 DEF Numbered
  <2>4. Parted'
    BY <1>2, <1>3, <1>5 DEF Parted, Emitted
  <2> QED BY <2>1, <2>2, <2>3, <2>4
<1>21. Connected'
  <2> SUFFICES ASSUME NEW v \in OnPath
               PROVE  /\ \A g : IsActive(g)' /\ index'[g] <= index'[v] => Reaches(g, v)'
                      /\ \E g : IsActive(g)' /\ index'[g] <= index'[v] /\ Reaches(v, g)'
    BY <1>5 DEF Connected
  <2>1. \A g : IsActive(g)' /\ index'[g] <= index'[v] => Reaches(g, v)'
    BY <1>2, <1>3 DEF Connected
  <2>2. PICK g : IsActive(g) /\ index[g] <= index[v] /\ Reaches(v, g)
    BY <1>3 DEF Connected
  <2>3. CASE g # fn
    BY <1>2, <2>1, <2>2, <2>3
  <2>4. CASE g = fn
    <3>1. index[old] <= index[v] /\ Reaches(v, old)
      BY <1>2, <1>4, <1>9, <2>2, <2>4, ReachesFacts
    <3> QED BY <1>2, <1>9, <2>1, <3>1
  <2> QED BY <2>3, <2>4
<1>22. LowBounds'
  <2>1. ASSUME NEW k \in DOMAIN frames', NEW g, g = frames'[k].fn
        PROVE  /\ lowlink'[g] <= index'[g]
               /\ \E u \in OnPath' : index'[u] = lowlink'[g] /\ Reaches(g, u)'
               /\ \A v, x \in OnPath' : Above(k, v)' /\ Taken(v, x)' => lowlink'[g] <= index'[x]
    <3>1. k \in 1 .. n - 1 /\ k \in DOMAIN frames /\ g = frames[k].fn /\ g \in Visited
          /\ index[g] \in Nat /\ lowlink[g] \in Nat
      BY <1>2, <1>4, <2>1
    <3>2. /\ lowlink[g] <= index[g]
          /\ \E u \in OnPath : index[u] = lowlink[g] /\ Reaches(g, u)
          /\ \A v, x \in OnPath : Above(k, v) /\ Taken(v, x) => lowlink[g] <= index[x]
      BY <1>3, <3>1 DEF LowBounds
    <3>3. \A v, x \in OnPath : Above(n, v) /\ Taken(v, x) => lowlink[fn] <= index[x]
      BY <1>1, <1>2, <1>3 DEF LowBounds
    <3>4. ASSUME NEW v \in OnPath, Above(k, v)'
          PROVE  Above(k, v) \/ (k = n - 1 /\ Above(n, v))
      <4>1. index[frames[k].fn] <= index[v]
        BY <1>2, <2>1, <3>1, <3>4 DEF Above
      <4>2. ASSUME NEW m \in 1 .. n - 1, k < m PROVE index[v] < index[frames[m].fn]
        BY <1>2, <3>4, <4>2 DEF Above
      <4>3. CASE index[v] < index[fn]
        <5>1. ASSUME NEW m \in DOMAIN frames, k < m PROVE index[v] < index[frames[m].fn]
          <6>1. m = n \/ m \in 1 .. n - 1
            BY <1>2
          <6> QED BY <1>1, <4>2, <4>3, <5>1, <6>1
        <5> QED BY <4>1, <5>1 DEF Above
      <4>4. CASE ~ (index[v] < index[fn])
        <5>1. k = n - 1
          <6>1. ASSUME k # n - 1 PROVE FALSE
            <7>1. k < n - 1 /\ n - 1 \in 1 .. n - 1
              BY <1>2, <1>10, <3>1, <6>1
            <7>2. index[v] < index[p]
              BY <1>11, <4>2, <7>1
            <7> QED BY <1>2, <1>4, <1>12, <4>4, <7>2
          <6> QED BY <6>1
        <5>2. index[frames[n].fn] <= index[v]
          BY <1>1, <1>2, <1>4, <4>4
        <5>3. \A m \in DOMAIN frames : ~ (n < m)
          BY <1>2
        <5> QED BY <5>1, <5>2, <5>3 DEF Above
      <4> QED BY <4>3, <4>4
    <3>5. CASE k = n - 1
      <4>1. g = p /\ lowlink'[p] \in Nat /\ index[p] \in Nat /\ \A x \in OnPath : index[x] \in Nat
        BY <1>4, <1>11, <1>12, <1>13, <3>1, <3>5
      <4>2. lowlink'[p] <= index[p]
        BY <1>13, <3>1, <3>2, <4>1
      <4>3. \E u \in OnPath : index[u] = lowlink'[p] /\ Reaches(p, u)
        <5>1. CASE lowlink'[p] = lowlink[p]
          BY <3>2, <4>1, <5>1
        <5>2. CASE lowlink'[p] = lowlink[fn]
          <6>1. Reaches(p, w)
            BY <1>7, <1>12, ReachesFacts
          <6> QED BY <1>7, <5>2, <6>1
        <5> QED BY <1>13, <5>1, <5>2
      <4>4. ASSUME NEW v \in OnPath, NEW x \in OnPath, Above(k, v)', Taken(v, x)'
            PROVE  lowlink'[p] <= index[x]
        <5>1. Taken(v, x)
          BY <1>2, <4>4
        <5>2. lowlink[p] <= index[x] \/ lowlink[fn] <= index[x]
          BY <3>2, <3>3, <3>4, <4>1, <4>4, <5>1
        <5>3. lowlink[p] \in Nat /\ lowlink[fn] \in Nat /\ index[x] \in Nat
          BY <1>2, <1>4, <1>12
        <5> QED BY <1>13, <4>1, <5>2, <5>3
      <4> QED BY <1>2, <1>5, <4>1, <4>2, <4>3, <4>4
    <3>6. CASE k # n - 1
      <4>1. k < n - 1 /\ n - 1 \in DOMAIN frames
        BY <1>10, <3>1, <3>6, <1>2
      <4>2. index[g] < index[p]
        BY <1>3, <1>11, <3>1, <4>1 DEF Numbered
      <4>3. g # p
        BY <3>1, <4>2
      <4>4. lowlink'[g] = lowlink[g]
        BY <1>13, <3>1, <4>3
      <4> QED BY <1>2, <1>5, <3>1, <3>2, <3>4, <3>6, <4>4
    <3> QED BY <3>5, <3>6
  <2> QED BY <2>1 DEF LowBounds
<1>23. ComponentsAreRecursionGroups'
  BY <1>2, <1>3, <1>5, ComponentsKept
<1> QED BY <1>2, <1>20, <1>21, <1>22, <1>23 DEF SearchInv

\* A visit ends whose function reaches nothing older: what it has left on
\* the path is a component.
LEMMA PopStep ==
  ASSUME SearchInv, LeaveVisit,
         lowlink[frames[Len(frames)].fn] = index[frames[Len(frames)].fn]
  PROVE  SearchInv'
<1>1. PICK n, fn : n = Len(frames) /\ fn = frames[n].fn
  OBVIOUS
<1>2. /\ n \in Nat \ {0} /\ DOMAIN frames = 1 .. n /\ n \in DOMAIN frames /\ frames[n].todo = {}
      /\ fn \in OnPath /\ IsActive(fn) /\ lowlink[fn] <= index[fn]
      /\ UNCHANGED <<graph, roots, index>> /\ Nodes' = Nodes /\ Visited' = Visited /\ Frame' = Frame
      /\ \A f, g : Reaches(f, g)' <=> Reaches(f, g)
      /\ frames' \in Seq(Frame) /\ DOMAIN frames' = 1 .. n - 1 /\ Len(frames') = n - 1
      /\ \A k \in 1 .. n - 1 : /\ k \in DOMAIN frames /\ frames'[k] = frames[k]
                               /\ index[frames[k].fn] < index[fn]
      /\ \A g : IsActive(g)' <=> (IsActive(g) /\ g # fn)
      /\ \A g : IsActive(g) => g \in OnPath /\ index[g] <= index[fn] /\ Reaches(g, fn)
      /\ \A v, x : Taken(v, x)' => Taken(v, x)
      /\ lowlink' = IF n = 1 THEN lowlink
                    ELSE [lowlink EXCEPT ![frames[n-1].fn] = Smaller(lowlink[frames[n-1].fn], lowlink[fn])]
      /\ Followed'
  <2>1. VisitLeft(n, fn)
    BY <1>1, LeaveFacts
  <2> QED BY <2>1 DEF VisitLeft
<1>3. /\ CallsWithin /\ SearchTypeOK /\ Numbered /\ Parted /\ Connected
      /\ Followed /\ LowBounds /\ ComponentsAreRecursionGroups
  BY DEF SearchInv
<1>4. /\ OnPath \subseteq Visited /\ \A g \in Visited : index[g] \in Nat /\ lowlink[g] \in Nat
      /\ \A k \in DOMAIN frames : frames[k].fn \in OnPath /\ IsActive(frames[k].fn)
      /\ Len(path) \in Nat /\ DOMAIN path = 1 .. Len(path)
      /\ \A k \in DOMAIN path : path[k] \in OnPath
      /\ \A v \in OnPath : \E k \in DOMAIN path : path[k] = v
      /\ Visited \subseteq Nodes
  BY SearchFacts
<1>5. PICK first : first = CHOOSE k \in DOMAIN path : path[k] = fn
  OBVIOUS
<1>6. first \in DOMAIN path /\ path[first] = fn
  <2>1. \E k \in DOMAIN path : path[k] = fn
    BY <1>2, <1>4
  <2> QED BY <1>5, <2>1
<1> DEFINE group == Reverse(SubSeq(path, first, Len(path)))
           low == SubSeq(path, 1, first - 1)
<1>7. path' = low /\ components' = Append(components, group)
  <2>1. frames # <<>> /\ frames \in Seq(Frame)
    BY <1>3 DEF LeaveVisit, SearchTypeOK
  <2>2. Last(frames) = frames[Len(frames)]
    BY <2>1, FrontOf
  <2> QED BY <1>1, <1>5, <2>2 DEF LeaveVisit
<1>8. /\ low \in Seq(Nodes) /\ DOMAIN low = 1 .. first - 1 /\ \A i \in 1 .. first - 1 : low[i] = path[i]
      /\ group \in Seq(Nodes) /\ ToSet(group) = {path[i] : i \in first .. Len(path)}
  <2>1. path \in Seq(Nodes)
    BY <1>3 DEF SearchTypeOK
  <2> QED BY <1>6, <2>1, CutOf
<1> HIDE DEF group, low
<1>9. \A i, j \in DOMAIN path : i < j => index[path[i]] < index[path[j]]
  BY <1>3 DEF Numbered
<1>10. ToSet(group) = {v \in OnPath : index[fn] <= index[v]}
  <2>1. ASSUME NEW i \in first .. Len(path) PROVE path[i] \in OnPath /\ index[fn] <= index[path[i]]
    <3>1. i \in DOMAIN path /\ (i = first \/ first < i)
      BY <1>4, <1>6
    <3>2. path[i] \in OnPath /\ index[path[i]] \in Nat /\ index[fn] \in Nat
      BY <1>2, <1>4, <3>1
    <3> QED BY <1>6, <1>9, <3>1, <3>2
  <2>2. ASSUME NEW v \in OnPath, index[fn] <= index[v] PROVE \E i \in first .. Len(path) : path[i] = v
    <3>1. PICK i \in DOMAIN path : path[i] = v
      BY <1>4
    <3>2. ~ (i < first)
      <4>1. ASSUME i < first PROVE FALSE
        <5>1. index[v] < index[fn]
          BY <1>6, <1>9, <3>1, <4>1
        <5> QED BY <1>2, <1>4, <2>2, <5>1
      <4> QED BY <4>1
    <3> QED BY <1>4, <1>6, <3>1, <3>2
  <2> QED BY <1>8, <2>1, <2>2
<1>11. OnPath' = {v \in OnPath : index[v] < index[fn]}
  <2>1. OnPath' = {path[i] : i \in 1 .. first - 1}
    <3>1. OnPath' = {low[i] : i \in DOMAIN low}
      BY <1>7 DEF OnPath, ToSet
    <3> QED BY <1>8, <3>1
  <2>2. ASSUME NEW i \in 1 .. first - 1 PROVE path[i] \in OnPath /\ index[path[i]] < index[fn]
    <3>1. i \in DOMAIN path /\ i < first
      BY <1>4, <1>6
    <3> QED BY <1>4, <1>6, <1>9, <3>1
  <2>3. ASSUME NEW v \in OnPath, index[v] < index[fn] PROVE \E i \in 1 .. first - 1 : path[i] = v
    <3>1. PICK i \in DOMAIN path : path[i] = v
      BY <1>4
    <3>2. ~ (i = first) /\ ~ (first < i)
      <4>1. ASSUME first < i PROVE FALSE
        <5>1. index[fn] < index[v]
          BY <1>6, <1>9, <3>1, <4>1
        <5> QED BY <1>2, <1>4, <2>3, <5>1
      <4>2. i # first
        BY <1>2, <1>4, <1>6, <2>3, <3>1
      <4> QED BY <4>1, <4>2
    <3> QED BY <1>4, <1>6, <3>1, <3>2
  <2> QED BY <2>1, <2>2, <2>3
<1>12. OnPath = OnPath' \cup ToSet(group) /\ OnPath' \cap ToSet(group) = {} /\ fn \in ToSet(group)
  BY <1>2, <1>4, <1>10, <1>11
<1>13. lowlink' \in [Visited -> Nat] /\ \A g \in Visited : lowlink'[g] = lowlink[g]
  <2>1. lowlink \in [Visited -> Nat]
    BY <1>2, <1>3 DEF SearchTypeOK
  <2>2. CASE n = 1
    BY <1>2, <2>1, <2>2
  <2>3. CASE n # 1
    <3>1. PICK p : p = frames[n - 1].fn
      OBVIOUS
    <3>2. n - 1 \in 1 .. n - 1 /\ n - 1 \in DOMAIN frames
      BY <1>2, <2>3
    <3>3. p \in Visited /\ index[p] < index[fn] /\ lowlink[p] <= index[p] /\ lowlink[p] \in Nat
          /\ index[p] \in Nat /\ index[fn] \in Nat
      BY <1>2, <1>3, <1>4, <3>1, <3>2 DEF LowBounds
    <3>4. Smaller(lowlink[p], lowlink[fn]) = lowlink[p]
      BY <1>1, <3>3 DEF Smaller
    <3>5. lowlink' = [lowlink EXCEPT ![p] = lowlink[p]]
      BY <1>2, <2>3, <3>1, <3>4
    <3> QED BY <2>1, <3>3, <3>5
  <2> QED BY <2>2, <2>3
<1>14. /\ components \in Seq(Seq(Nodes)) /\ components' \in Seq(Seq(Nodes)) /\ Len(components) \in Nat
       /\ DOMAIN components = 1 .. Len(components) /\ DOMAIN components' = 1 .. Len(components) + 1
       /\ components'[Len(components) + 1] = group
       /\ \A m \in DOMAIN components : components'[m] = components[m]
  <2>1. components \in Seq(Seq(Nodes)) /\ group \in Seq(Nodes)
    BY <1>3, <1>8 DEF SearchTypeOK
  <2> QED BY <1>7, <2>1, Appended
<1>15. PICK last : last = Len(components) + 1
  OBVIOUS
<1>16. /\ last \in Nat /\ components'[last] = group /\ last \in DOMAIN components'
       /\ \A m \in DOMAIN components' : m = last \/ m \in DOMAIN components
       /\ \A m \in DOMAIN components : m # last /\ m \in DOMAIN components' /\ m \in 1 .. last
  BY <1>14, <1>15
<1>17. Emitted' = Emitted \cup ToSet(group)
  <2>1. ASSUME NEW x \in Emitted' PROVE x \in Emitted \cup ToSet(group)
    <3>1. PICK m \in DOMAIN components' : x \in ToSet(components'[m])
      BY <2>1 DEF Emitted
    <3> QED BY <1>14, <1>16, <3>1 DEF Emitted
  <2>2. ASSUME NEW x \in Emitted PROVE x \in Emitted'
    <3>1. PICK m \in DOMAIN components : x \in ToSet(components[m])
      BY <2>2 DEF Emitted
    <3> QED BY <1>14, <1>16, <3>1 DEF Emitted
  <2>3. ASSUME NEW x \in ToSet(group) PROVE x \in Emitted'
    BY <1>16, <2>3 DEF Emitted
  <2> QED BY <2>1, <2>2, <2>3
<1>20. CallsWithin' /\ SearchTypeOK' /\ Numbered'
  <2>1. CallsWithin'
    BY <1>2, <1>3 DEF CallsWithin
  <2>2. SearchTypeOK'
    BY <1>2, <1>3, <1>7, <1>8, <1>13, <1>14 DEF SearchTypeOK
  <2>3. Numbered'
    <3>1. Numbered
      BY <1>3
    <3>2. ASSUME NEW i \in DOMAIN frames', NEW j \in DOMAIN frames', i < j
          PROVE  index'[frames'[i].fn] < index'[frames'[j].fn]
      <4>1. i \in DOMAIN frames /\ j \in DOMAIN frames /\ frames'[i] = frames[i] /\ frames'[j] = frames[j]
        BY <1>2
      <4> QED BY <1>2, <3>1, <3>2, <4>1 DEF Numbered
    <3>3. ASSUME NEW i \in DOMAIN path', NEW j \in DOMAIN path', i < j
          PROVE  index'[path'[i]] < index'[path'[j]]
      <4>1. i \in DOMAIN path /\ j \in DOMAIN path /\ path'[i] = path[i] /\ path'[j] = path[j]
        BY <1>4, <1>6, <1>7, <1>8, <3>3
      <4> QED BY <1>2, <1>9, <3>3, <4>1
    <3> QED BY <1>2, <3>1, <3>2, <3>3 DEF Numbered
  <2> QED BY <2>1, <2>2, <2>3
<1>21. Parted'
  <2>1. /\ Visited = OnPath \cup Emitted /\ OnPath \cap Emitted = {}
        /\ \A i, j \in DOMAIN components :
             i # j => ToSet(components[i]) \cap ToSet(components[j]) = {}
    BY <1>3 DEF Parted
  <2>2. Visited' = OnPath' \cup Emitted' /\ OnPath' \cap Emitted' = {}
    BY <1>2, <1>12, <1>17, <2>1
  <2>3. \A g : IsActive(g)' => g \in OnPath'
    <3> SUFFICES ASSUME NEW g, IsActive(g)' PROVE g \in OnPath'
      OBVIOUS
    <3>1. PICK k \in 1 .. n - 1 : frames'[k].fn = g
      BY <1>2 DEF IsActive
    <3>2. g \in OnPath /\ index[g] < index[fn]
      BY <1>2, <1>4, <3>1
    <3> QED BY <1>11, <3>2
  <2>4. \A m \in DOMAIN components : ToSet(components[m]) \cap ToSet(group) = {}
    <3>1. \A m \in DOMAIN components : ToSet(components[m]) \subseteq Emitted
      BY DEF Emitted
    <3> QED BY <1>12, <2>1, <3>1
  <2>5. ASSUME NEW i \in DOMAIN components', NEW j \in DOMAIN components', i # j
        PROVE  ToSet(components'[i]) \cap ToSet(components'[j]) = {}
    <3>1. CASE i = last
      BY <1>14, <1>16, <2>4, <2>5, <3>1
    <3>2. CASE j = last
      BY <1>14, <1>16, <2>4, <2>5, <3>2
    <3>3. CASE i # last /\ j # last
      BY <1>14, <1>16, <2>1, <2>5, <3>3
    <3> QED BY <3>1, <3>2, <3>3
  <2> QED BY <2>2, <2>3, <2>5 DEF Parted
<1>22. Connected'
  <2> SUFFICES ASSUME NEW v \in OnPath'
               PROVE  /\ \A g : IsActive(g)' /\ index'[g] <= index'[v] => Reaches(g, v)'
                      /\ \E g : IsActive(g)' /\ index'[g] <= index'[v] /\ Reaches(v, g)'
    BY DEF Connected
  <2>0. v \in OnPath /\ index[v] < index[fn]
    BY <1>11
  <2>1. \A g : IsActive(g)' /\ index'[g] <= index'[v] => Reaches(g, v)'
    BY <1>2, <1>3, <2>0 DEF Connected
  <2>2. PICK g : IsActive(g) /\ index[g] <= index[v] /\ Reaches(v, g)
    BY <1>3, <2>0 DEF Connected
  <2>3. g # fn
    BY <1>2, <1>4, <2>0, <2>2
  <2> QED BY <1>2, <2>1, <2>2, <2>3
<1>23. LowBounds'
  <2>1. ASSUME NEW k \in DOMAIN frames', NEW g, g = frames'[k].fn
        PROVE  /\ lowlink'[g] <= index'[g]
               /\ \E u \in OnPath' : index'[u] = lowlink'[g] /\ Reaches(g, u)'
               /\ \A v, x \in OnPath' : Above(k, v)' /\ Taken(v, x)' => lowlink'[g] <= index'[x]
    <3>1. k \in 1 .. n - 1 /\ k \in DOMAIN frames /\ g = frames[k].fn /\ g \in Visited
          /\ index[g] \in Nat /\ lowlink[g] \in Nat /\ index[g] < index[fn]
      BY <1>2, <1>4, <2>1
    <3>2. /\ lowlink[g] <= index[g]
          /\ \E u \in OnPath : index[u] = lowlink[g] /\ Reaches(g, u)
          /\ \A v, x \in OnPath : Above(k, v) /\ Taken(v, x) => lowlink[g] <= index[x]
      BY <1>3, <3>1 DEF LowBounds
    <3>3. \E u \in OnPath' : index[u] = lowlink[g] /\ Reaches(g, u)
      <4>1. PICK u \in OnPath : index[u] = lowlink[g] /\ Reaches(g, u)
        BY <3>2
      <4>2. index[u] < index[fn]
        BY <1>2, <1>4, <3>1, <3>2, <4>1
      <4> QED BY <1>11, <4>1, <4>2
    <3>4. ASSUME NEW v \in OnPath', Above(k, v)' PROVE Above(k, v) /\ v \in OnPath
      <4>1. index[frames[k].fn] <= index[v]
        BY <1>2, <2>1, <3>1, <3>4 DEF Above
      <4>2. ASSUME NEW m \in DOMAIN frames, k < m PROVE index[v] < index[frames[m].fn]
        <5>1. CASE m = n
          BY <1>1, <1>11, <3>4, <5>1
        <5>2. CASE m # n
          <6>1. m \in 1 .. n - 1
            BY <1>2, <5>2
          <6> QED BY <1>2, <3>4, <4>2, <6>1 DEF Above
        <5> QED BY <5>1, <5>2
      <4> QED BY <1>11, <3>4, <4>1, <4>2 DEF Above
    <3>5. \A v, x \in OnPath' : Above(k, v)' /\ Taken(v, x)' => lowlink[g] <= index[x]
      BY <1>2, <1>11, <3>2, <3>4
    <3> QED BY <1>2, <1>13, <3>1, <3>2, <3>3, <3>5
  <2> QED BY <2>1 DEF LowBounds
<1>24. ComponentsAreRecursionGroups'
  <2> DEFINE C == ToSet(group)
             D == Emitted
  <2>1. \A f \in D : graph.calls[f] \subseteq D
    BY <1>3 DEF Emitted, ComponentsAreRecursionGroups
  <2>2. \A v \in C : Reaches(fn, v) /\ Reaches(v, fn) /\ v \in OnPath /\ v \in Nodes
    <3> SUFFICES ASSUME NEW v \in C PROVE Reaches(fn, v) /\ Reaches(v, fn) /\ v \in OnPath /\ v \in Nodes
      OBVIOUS
    <3>1. v \in OnPath /\ v \in Nodes /\ Reaches(fn, v)
      BY <1>2, <1>3, <1>4, <1>10 DEF Connected
    <3>2. PICK g : IsActive(g) /\ Reaches(v, g)
      BY <1>3, <3>1 DEF Connected
    <3> QED BY <1>2, <3>1, <3>2, ReachesFacts
  <2>3. ASSUME NEW v \in C PROVE graph.calls[v] \subseteq D \cup C
    <3> SUFFICES ASSUME NEW x \in graph.calls[v] PROVE x \in D \cup C
      OBVIOUS
    <3>1. v \in OnPath /\ index[fn] <= index[v] /\ v \in Visited
      BY <1>4, <1>10
    <3>2. Taken(v, x)
      <4>1. ASSUME NEW k \in DOMAIN frames, frames[k].fn = v PROVE x \notin frames[k].todo
        <5>1. k = n
          <6>1. ASSUME k # n PROVE FALSE
            <7>1. k \in 1 .. n - 1
              BY <1>2, <6>1
            <7>2. index[v] < index[fn]
              BY <1>2, <4>1, <7>1
            <7> QED BY <1>2, <1>4, <3>1, <7>2
          <6> QED BY <6>1
        <5> QED BY <1>2, <5>1
      <4> QED BY <4>1 DEF Taken
    <3>3. x \in Visited
      <4>1. CASE IsActive(v)
        <5>1. PICK k \in DOMAIN frames : frames[k].fn = v
          BY <4>1 DEF IsActive
        <5>2. x \in Visited \cup frames[k].todo /\ x \notin frames[k].todo
          BY <1>3, <3>2, <5>1 DEF Followed, Taken
        <5> QED BY <5>2
      <4>2. CASE ~ IsActive(v)
        BY <1>3, <3>1, <4>2 DEF Followed
      <4> QED BY <4>1, <4>2
    <3>4. CASE x \in OnPath
      <4>1. Above(n, v)
        <5>1. \A m \in DOMAIN frames : ~ (n < m)
          BY <1>2
        <5> QED BY <1>1, <3>1, <5>1 DEF Above
      <4>2. lowlink[fn] <= index[x]
        BY <1>1, <1>2, <1>3, <3>1, <3>2, <3>4, <4>1 DEF LowBounds
      <4> QED BY <1>1, <1>10, <3>4, <4>2
    <3> QED BY <1>3, <3>3, <3>4 DEF Parted
  <2>4. D \cup C \in SUBSET Nodes /\ D \cap C = {} /\ D \in SUBSET Nodes
    <3>1. Visited = OnPath \cup Emitted /\ OnPath \cap Emitted = {}
      BY <1>3 DEF Parted
    <3> QED BY <1>4, <2>2, <3>1
  <2>5. \A f \in C : C = {g \in Nodes : Reaches(f, g) /\ Reaches(g, f)}
    <3> SUFFICES ASSUME NEW f \in C, NEW g \in Nodes
                 PROVE  g \in C <=> Reaches(f, g) /\ Reaches(g, f)
      BY <2>4
    <3>1. ASSUME g \in C PROVE Reaches(f, g) /\ Reaches(g, f)
      BY <2>2, <3>1, ReachesFacts
    <3>2. ASSUME Reaches(f, g), Reaches(g, f) PROVE g \in C
      <4>1. g \in D \cup C
        <5>1. \A c \in D \cup C : graph.calls[c] \subseteq D \cup C
          BY <2>1, <2>3
        <5> HIDE DEF C, D
        <5> QED BY <2>4, <3>2, <5>1, ReachesFacts
      <4>2. ASSUME g \in D PROVE FALSE
        <5>1. f \in D
          BY <2>1, <2>4, <3>2, <4>2, ReachesFacts
        <5> QED BY <2>4, <5>1
      <4> QED BY <4>1, <4>2
    <3> QED BY <3>1, <3>2
  <2>6. ASSUME NEW m \in DOMAIN components', NEW f \in ToSet(components'[m])
        PROVE  /\ ToSet(components'[m]) = {g \in Nodes : Reaches(f, g) /\ Reaches(g, f)}'
               /\ \A callee \in graph'.calls[f] : \E k \in 1 .. m : callee \in ToSet(components'[k])
    <3>1. CASE m \in DOMAIN components
      <4>1. f \in ToSet(components[m]) /\ ToSet(components'[m]) = ToSet(components[m])
        BY <1>14, <2>6, <3>1
      <4>2. /\ ToSet(components[m]) = {g \in Nodes : Reaches(f, g) /\ Reaches(g, f)}
            /\ \A callee \in graph.calls[f] : \E k \in 1 .. m : callee \in ToSet(components[k])
        BY <1>3, <3>1, <4>1 DEF ComponentsAreRecursionGroups
      <4>3. \A k \in 1 .. m : k \in DOMAIN components
        BY <1>14, <3>1
      <4> QED BY <1>2, <1>14, <4>1, <4>2, <4>3
    <3>2. CASE m = last
      <4>1. f \in C /\ components'[m] = group
        BY <1>16, <2>6, <3>2
      <4>2. ToSet(components'[m]) = {g \in Nodes : Reaches(f, g) /\ Reaches(g, f)}
        BY <2>5, <4>1
      <4>3. ASSUME NEW callee \in graph.calls[f] PROVE \E k \in 1 .. m : callee \in ToSet(components'[k])
        <5>1. callee \in D \cup C
          BY <2>3, <4>1
        <5>2. CASE callee \in C
          <6>1. m \in 1 .. m
            BY <1>14, <1>15, <3>2
          <6> QED BY <4>1, <5>2, <6>1
        <5>3. CASE callee \in D
          <6>1. PICK k \in DOMAIN components : callee \in ToSet(components[k])
            BY <5>3 DEF Emitted
          <6> QED BY <1>14, <1>16, <3>2, <6>1
        <5> QED BY <5>1, <5>2, <5>3
      <4> QED BY <1>2, <4>2, <4>3
    <3> QED BY <1>16, <3>1, <3>2
  <2> QED BY <2>6 DEF ComponentsAreRecursionGroups
<1> QED BY <1>2, <1>20, <1>21, <1>22, <1>23, <1>24 DEF SearchInv

LEMMA SearchStarts ==
  ASSUME BottomUpInit
  PROVE  SearchInv
<1>1. /\ mod \in Modules /\ graph = CallGraphOf(mod) /\ roots = graph.order
      /\ frames = <<>> /\ path = <<>> /\ components = <<>>
      /\ index = [f \in {} |-> 0] /\ lowlink = [f \in {} |-> 0]
  BY DEF BottomUpInit, SearchInit
<1>2. /\ mod.order \in Seq(DOMAIN mod.paths) /\ DOMAIN mod.paths = ToSet(mod.order)
      /\ \A f \in DOMAIN mod.paths : CallsOf(mod, f) \subseteq DOMAIN mod.paths
  BY <1>1, ModulesAssumption
<1>3. /\ graph.order = mod.order /\ Nodes = DOMAIN mod.paths
      /\ graph.calls = [f \in DOMAIN mod.paths |-> CallsOf(mod, f)]
  BY <1>1, <1>2 DEF CallGraphOf, Nodes
<1>4. Visited = {} /\ OnPath = {} /\ Emitted = {} /\ \A g : ~ IsActive(g)
  BY <1>1 DEF Visited, OnPath, Emitted, IsActive, ToSet
<1>5. DOMAIN frames = {} /\ DOMAIN path = {} /\ DOMAIN components = {}
  BY <1>1
<1>6. CallsWithin
  BY <1>2, <1>3 DEF CallsWithin
<1>7. SearchTypeOK
  <2>1. roots \in Seq(Nodes) /\ Nodes \subseteq ToSet(roots)
    BY <1>1, <1>2, <1>3
  <2>2. path \in Seq(Nodes) /\ frames \in Seq(Frame) /\ components \in Seq(Seq(Nodes))
    BY <1>1
  <2>3. IsFiniteSet(Visited)
    BY <1>4, FS_EmptySet
  <2>4. index \in [Visited -> Nat] /\ lowlink \in [Visited -> Nat]
    BY <1>1, <1>4
  <2> QED BY <1>4, <2>1, <2>2, <2>3, <2>4 DEF SearchTypeOK
<1>8. Numbered /\ Parted /\ Connected /\ Followed /\ LowBounds
  BY <1>4, <1>5 DEF Numbered, Parted, Connected, Followed, LowBounds
<1>9. ComponentsAreRecursionGroups
  BY <1>5 DEF ComponentsAreRecursionGroups
<1> QED BY <1>6, <1>7, <1>8, <1>9 DEF SearchInv

LEMMA SearchStays ==
  ASSUME SearchInv, UNCHANGED searchVars
  PROVE  SearchInv'
<1>1. UNCHANGED <<graph, roots, frames, index, lowlink, path, components>>
  BY DEF searchVars
<1>2. Nodes' = Nodes /\ Visited' = Visited /\ \A f, g : Reaches(f, g)' <=> Reaches(f, g)
  BY <1>1, ReachesKept DEF Visited
<1>3. /\ OnPath' = OnPath /\ Emitted' = Emitted /\ Frame' = Frame
      /\ \A f : IsActive(f)' <=> IsActive(f)
      /\ \A k, v, x : (Above(k, v)' <=> Above(k, v)) /\ (Taken(v, x)' <=> Taken(v, x))
  BY <1>1, <1>2 DEF OnPath, Emitted, Frame, IsActive, Above, Taken
<1>4. /\ CallsWithin /\ SearchTypeOK /\ Numbered /\ Parted /\ Connected
      /\ Followed /\ LowBounds /\ ComponentsAreRecursionGroups
  BY DEF SearchInv
<1>5. CallsWithin' /\ SearchTypeOK'
  BY <1>1, <1>2, <1>3, <1>4 DEF CallsWithin, SearchTypeOK
<1>6. Numbered' /\ Parted'
  BY <1>1, <1>2, <1>3, <1>4 DEF Numbered, Parted
<1>7. Connected' /\ Followed'
  BY <1>1, <1>2, <1>3, <1>4 DEF Connected, Followed
<1>8. LowBounds'
  BY <1>1, <1>2, <1>3, <1>4 DEF LowBounds
<1>9. ComponentsAreRecursionGroups'
  BY <1>1, <1>4, ComponentsKept
<1> QED BY <1>5, <1>6, <1>7, <1>8, <1>9 DEF SearchInv

LEMMA SearchMoves ==
  ASSUME SearchInv, [BottomUpNext]_<<searchVars, solveVars>>
  PROVE  SearchInv'
<1>1. CASE FindComponents
  <2>1. CASE VisitRoot
    BY <2>1, RootStep
  <2>2. CASE TakeCallee
    BY <2>2, TakeStep
  <2>3. CASE LeaveVisit
    BY <2>3, LeaveOpenStep, PopStep
  <2> QED BY <1>1, <2>1, <2>2, <2>3 DEF FindComponents, SearchNext
<1>2. CASE UNCHANGED searchVars
  BY <1>2, SearchStays
<1>3. CASE SolveMember
  BY <1>2, <1>3 DEF SolveMember
<1>4. CASE NextRound
  BY <1>2, <1>4 DEF NextRound
<1> QED BY <1>1, <1>2, <1>3, <1>4 DEF BottomUpNext

LEMMA SearchHolds == BottomUpSpec => []SearchInv
<1>1. BottomUpInit => SearchInv
  BY SearchStarts
<1>2. SearchInv /\ [BottomUpNext]_<<searchVars, solveVars>> => SearchInv'
  BY SearchMoves
<1> QED BY <1>1, <1>2, PTL DEF BottomUpSpec

(* Whatever the call graph and in whatever order callees are visited, the   *)
(* search of Analyzer::sccs emits exactly the groups of mutually recursive  *)
(* functions, each after every group it calls.                              *)
THEOREM ComponentsProved == BottomUpSpec => []ComponentsAreRecursionGroups
<1>1. SearchInv => ComponentsAreRecursionGroups
  BY DEF SearchInv
<1> QED BY <1>1, SearchHolds, PTL

-----------------------------------------------------------------------------
(* The rounds.  Members(n) is component n; a solved function has an effect  *)
(* and a record of what its flow knew of its callees.                       *)

Members(n) == ToSet(components[n])

SolvedSoFar == DOMAIN effects

\* Solving looks only at the effects of callees.
LEMMA SolveLooksAtCallees ==
  ASSUME NEW m, NEW f, NEW known, NEW other, \A p \in m.paths[f] : p.code \in Seq(ToSet(p.code)),
         \A g \in CallsOf(m, f) : /\ g \in DOMAIN known <=> g \in DOMAIN other
                                  /\ g \in DOMAIN known => known[g] = other[g]
  PROVE  SolveFunction(m, f, known) = SolveFunction(m, f, other)
<1>1. ASSUME NEW p \in m.paths[f] PROVE Resolved(p.code, known) = Resolved(p.code, other)
  <2>1. ASSUME NEW n \in DOMAIN p.code PROVE Resolve(p.code[n], known) = Resolve(p.code[n], other)
    <3>1. CASE p.code[n].op = "call" /\ p.code[n].callee.kind = "body"
      <4>1. p.code[n].callee.name \in BodyCalls(p.code)
        BY <3>1 DEF BodyCalls
      <4>2. p.code[n].callee.name \in CallsOf(m, f)
        BY <1>1, <4>1 DEF CallsOf
      <4> QED BY <4>2 DEF Resolve
    <3>2. CASE ~ (p.code[n].op = "call" /\ p.code[n].callee.kind = "body")
      BY <3>2 DEF Resolve
    <3> QED BY <3>1, <3>2
  <2> QED BY <2>1 DEF Resolved
<1> DEFINE ends(k) == {<<p.ends, PathEnd(Resolved(p.code, k))>> : p \in m.paths[f]}
<1>2. ends(known) = ends(other)
  BY <1>1
<1>3. /\ SolveFunction(m, f, known) =
           EffectOf({e[2] : e \in {x \in ends(known) : x[1] = "return"}},
                    {e[2] : e \in {x \in ends(known) : x[2].EndsInNoReturn}})
      /\ SolveFunction(m, f, other) =
           EffectOf({e[2] : e \in {x \in ends(other) : x[1] = "return"}},
                    {e[2] : e \in {x \in ends(other) : x[2].EndsInNoReturn}})
  BY Zenon DEF SolveFunction
<1> HIDE DEF ends
<1> QED BY <1>2, <1>3, Zenon

\* The flow kept for f is of the effects f has, and knew the effects the
\* callees have, except of a callee of its own component.
KnewCallees(f, n) ==
  \A g \in CallsOf(mod, f) :
    IF g \in DOMAIN solvedWith[f] THEN solvedWith[f][g] = effects[g]
    ELSE g \in Members(n) /\ (g \in SolvedSoFar => effects[f] = NoEffect /\ effects[g] = NoEffect)

SolvedFromRecord ==
  \A f \in SolvedSoFar :
    /\ DOMAIN solvedWith[f] \subseteq CallsOf(mod, f) \cap SolvedSoFar
    /\ effects[f] = SolveFunction(mod, f, solvedWith[f])

\* What has been solved: the components before the one at work, and of that
\* one the members before the one at work at least.
Progressed ==
  /\ component \in 1 .. Len(components) + 1 /\ member \in Nat \ {0} /\ changed \in BOOLEAN
  /\ DOMAIN solvedWith = SolvedSoFar
  /\ \A n \in DOMAIN components : n < component => Members(n) \subseteq SolvedSoFar
  /\ \A f \in SolvedSoFar : \E n \in DOMAIN components : n <= component /\ f \in Members(n)
  /\ component \in DOMAIN components =>
       \A j \in DOMAIN components[component] : j < member => components[component][j] \in SolvedSoFar

Settling ==
  /\ \A n \in DOMAIN components : n < component => \A f \in Members(n) : KnewCallees(f, n)
  /\ component \in DOMAIN components /\ ~ changed =>
       /\ \A j \in DOMAIN components[component] : \A f, n :
            j < member /\ f = components[component][j] /\ n = component => KnewCallees(f, n)
       /\ (~ (Members(component) \subseteq SolvedSoFar)) =>
            \A f \in Members(component) \cap SolvedSoFar : effects[f] = NoEffect

SolveInv ==
  /\ graph = CallGraphOf(mod) /\ mod \in Modules
  /\ ~ SearchDone => component = 1 /\ member = 1 /\ ~ changed /\ effects = EmptyMap /\ solvedWith = EmptyMap
  /\ SolvedFromRecord /\ Progressed /\ Settling

\* The components during the rounds.
GroupsFit ==
  /\ Len(components) \in Nat /\ DOMAIN components = 1 .. Len(components)
  /\ \A n \in DOMAIN components :
       /\ Len(components[n]) \in Nat /\ DOMAIN components[n] = 1 .. Len(components[n])
       /\ Members(n) \subseteq Nodes
       /\ \A j \in DOMAIN components[n] : components[n][j] \in Members(n)
       /\ \A f \in Members(n) : \E j \in DOMAIN components[n] : components[n][j] = f
       /\ \A f \in Members(n) : \A g \in CallsOf(mod, f) : \E m \in 1 .. n : g \in Members(m)
       /\ \A f, g \in Members(n) : Reaches(f, g)
  /\ \A m, n \in DOMAIN components : \A f : f \in Members(m) /\ f \in Members(n) => m = n
  /\ \A f \in Nodes : \A p \in mod.paths[f] : p.code \in Seq(ToSet(p.code))
  /\ SearchDone => \A f \in Nodes : \E n \in DOMAIN components : f \in Members(n)

LEMMA GroupFacts ==
  ASSUME SearchInv, graph = CallGraphOf(mod), mod \in Modules
  PROVE  GroupsFit
<1>1. /\ SearchTypeOK /\ Parted /\ Connected /\ ComponentsAreRecursionGroups
  BY DEF SearchInv
<1>2. /\ mod.order \in Seq(DOMAIN mod.paths) /\ DOMAIN mod.paths = ToSet(mod.order)
      /\ \A f \in DOMAIN mod.paths : \A p \in mod.paths[f] : p.code \in Seq(ToSet(p.code))
  BY ModulesAssumption
<1>3. Nodes = DOMAIN mod.paths /\ \A f \in Nodes : graph.calls[f] = CallsOf(mod, f)
  <2>1. graph.order = mod.order /\ graph.calls = [f \in DOMAIN mod.paths |-> CallsOf(mod, f)]
    BY DEF CallGraphOf
  <2> QED BY <1>2, <2>1 DEF Nodes
<1>4. components \in Seq(Seq(Nodes))
  BY <1>1 DEF SearchTypeOK
<1>5. Len(components) \in Nat /\ DOMAIN components = 1 .. Len(components)
      /\ \A n \in DOMAIN components : components[n] \in Seq(Nodes)
  BY <1>4
<1>6. ASSUME NEW n \in DOMAIN components
      PROVE  /\ Len(components[n]) \in Nat /\ DOMAIN components[n] = 1 .. Len(components[n])
             /\ Members(n) \subseteq Nodes
             /\ \A j \in DOMAIN components[n] : components[n][j] \in Members(n)
             /\ \A f \in Members(n) : \E j \in DOMAIN components[n] : components[n][j] = f
             /\ \A f \in Members(n) : \A g \in CallsOf(mod, f) : \E m \in 1 .. n : g \in Members(m)
             /\ \A f, g \in Members(n) : Reaches(f, g)
  <2>1. components[n] \in Seq(Nodes)
    BY <1>5, <1>6
  <2>2. /\ Len(components[n]) \in Nat /\ DOMAIN components[n] = 1 .. Len(components[n])
        /\ \A j \in DOMAIN components[n] : components[n][j] \in Nodes
    BY <2>1
  <2>3. /\ \A j \in DOMAIN components[n] : components[n][j] \in Members(n)
        /\ \A f \in Members(n) : \E j \in DOMAIN components[n] : components[n][j] = f
    BY DEF Members, ToSet
  <2>4. Members(n) \subseteq Nodes
    BY <2>2, <2>3
  <2>5. ASSUME NEW f \in Members(n), NEW g \in CallsOf(mod, f) PROVE \E m \in 1 .. n : g \in Members(m)
    <3>1. g \in graph.calls[f]
      BY <1>3, <2>4, <2>5
    <3> QED BY <1>1, <1>6, <2>5, <3>1 DEF ComponentsAreRecursionGroups, Members
  <2>6. ASSUME NEW f \in Members(n), NEW g \in Members(n) PROVE Reaches(f, g)
    BY <1>1, <1>6, <2>6 DEF ComponentsAreRecursionGroups, Members
  <2> QED BY <2>2, <2>3, <2>4, <2>5, <2>6
<1>7. \A m, n \in DOMAIN components : \A f : f \in Members(m) /\ f \in Members(n) => m = n
  BY <1>1 DEF Parted, Members
<1>8. ASSUME SearchDone, NEW f \in Nodes PROVE \E n \in DOMAIN components : f \in Members(n)
  <2>1. frames = <<>> /\ roots = <<>>
    BY <1>8 DEF SearchDone
  <2>2. \A g : ~ IsActive(g)
    BY <2>1 DEF IsActive
  <2>3. OnPath = {}
    BY <1>1, <2>2 DEF Connected
  <2>4. ToSet(roots) = {}
    BY <2>1 DEF ToSet
  <2>5. f \in Emitted
    BY <1>1, <1>8, <2>3, <2>4 DEF SearchTypeOK, Parted
  <2> QED BY <2>5 DEF Emitted, Members
<1> QED BY <1>2, <1>3, <1>5, <1>6, <1>7, <1>8 DEF GroupsFit

\* Before the rounds.
Fresh ==
  /\ graph = CallGraphOf(mod) /\ mod \in Modules /\ components \in Seq(Seq(Nodes))
  /\ component = 1 /\ member = 1 /\ ~ changed /\ changed \in BOOLEAN
  /\ effects = EmptyMap /\ solvedWith = EmptyMap

LEMMA FreshFits == Fresh => SolveInv
<1> SUFFICES ASSUME Fresh PROVE SolveInv
  OBVIOUS
<1>1. SolvedSoFar = {} /\ DOMAIN solvedWith = {}
  BY DEF Fresh, SolvedSoFar, EmptyMap
<1>2. Len(components) \in Nat /\ DOMAIN components = 1 .. Len(components)
      /\ \A n \in DOMAIN components : components[n] \in Seq(Nodes)
  BY DEF Fresh
<1>3. \A n \in DOMAIN components : ~ (n < component) /\ n \in Nat
  BY <1>2 DEF Fresh
<1>4. \A n \in DOMAIN components : \A j \in DOMAIN components[n] : ~ (j < member)
  <2> SUFFICES ASSUME NEW n \in DOMAIN components, NEW j \in DOMAIN components[n] PROVE ~ (j < member)
    OBVIOUS
  <2>1. j \in 1 .. Len(components[n]) /\ Len(components[n]) \in Nat
    BY <1>2
  <2> QED BY <2>1 DEF Fresh
<1>5. SolvedFromRecord
  BY <1>1 DEF SolvedFromRecord
<1>6. Progressed
  BY <1>1, <1>2, <1>3, <1>4 DEF Progressed, Fresh
<1>7. Settling
  BY <1>1, <1>3, <1>4 DEF Settling
<1> QED BY <1>5, <1>6, <1>7 DEF SolveInv, Fresh

LEMMA FreshFitsNext == Fresh' => SolveInv'
  BY FreshFits, PTL

\* Another member is solved.
LEMMA SolveStep ==
  ASSUME SearchInv, SolveInv, SolveMember
  PROVE  SolveInv'
<1> DEFINE c == component
           D == SolvedSoFar
<1>1. PICK f : f = components[c][member]
  OBVIOUS
<1>2. PICK old, new :
        /\ old = (IF f \in DOMAIN effects THEN effects[f] ELSE NoEffect)
        /\ new = SolveFunction(mod, f, effects)
        /\ effects' = Put(effects, f, new) /\ changed' = (changed \/ old # new)
        /\ solvedWith' = Put(solvedWith, f, KnownCallees(mod, f, effects))
  BY <1>1 DEF SolveMember
<1>3. /\ Solving /\ member <= Len(components[c]) /\ member' = member + 1
      /\ UNCHANGED <<graph, roots, frames, index, lowlink, path, components, mod, component>>
  BY DEF SolveMember, searchVars
<1>4. SolvedFromRecord /\ Progressed /\ Settling /\ graph = CallGraphOf(mod) /\ mod \in Modules
  BY DEF SolveInv
<1>5. GroupsFit
  BY <1>4, GroupFacts
<1>6. c \in DOMAIN components /\ member \in DOMAIN components[c] /\ f \in Members(c) /\ f \in Nodes
  <2>1. c \in DOMAIN components
    BY <1>3, <1>4, <1>5 DEF Solving, Progressed, GroupsFit
  <2>2. member \in DOMAIN components[c]
    BY <1>3, <1>4, <1>5, <2>1 DEF Progressed, GroupsFit
  <2> QED BY <1>1, <1>5, <2>1, <2>2 DEF GroupsFit
<1>7. /\ SolvedSoFar' = D \cup {f} /\ DOMAIN solvedWith' = DOMAIN solvedWith \cup {f}
      /\ effects'[f] = new /\ \A g \in D : g # f => effects'[g] = effects[g]
      /\ solvedWith'[f] = KnownCallees(mod, f, effects)
      /\ \A g \in DOMAIN solvedWith : g # f => solvedWith'[g] = solvedWith[g]
  BY <1>2 DEF Put, SolvedSoFar
<1>8. /\ DOMAIN KnownCallees(mod, f, effects) = CallsOf(mod, f) \cap D
      /\ \A g \in CallsOf(mod, f) \cap D : KnownCallees(mod, f, effects)[g] = effects[g]
  BY DEF KnownCallees, SolvedSoFar
<1>9. /\ ~ changed' => ~ changed /\ \A g \in D : effects'[g] = effects[g]
      /\ ~ changed' /\ f \notin D => new = NoEffect
  BY <1>2, <1>7 DEF SolvedSoFar
<1>10. DOMAIN solvedWith = D
  BY <1>4 DEF Progressed
<1>11. \A n : Members(n)' = Members(n)
  BY <1>3 DEF Members
<1>12. SolvedFromRecord'
  <2>1. ASSUME NEW h \in SolvedSoFar'
        PROVE  /\ DOMAIN solvedWith'[h] \subseteq CallsOf(mod, h) \cap SolvedSoFar'
               /\ effects'[h] = SolveFunction(mod, h, solvedWith'[h])
    <3>1. CASE h = f
      <4>1. SolveFunction(mod, f, effects) = SolveFunction(mod, f, KnownCallees(mod, f, effects))
        <5>1. \A p \in mod.paths[f] : p.code \in Seq(ToSet(p.code))
          BY <1>5, <1>6 DEF GroupsFit
        <5>2. PICK k : k = KnownCallees(mod, f, effects)
          OBVIOUS
        <5>3. \A g \in CallsOf(mod, f) : /\ g \in DOMAIN effects <=> g \in DOMAIN k
                                         /\ g \in DOMAIN effects => effects[g] = k[g]
          BY <1>8, <5>2 DEF SolvedSoFar
        <5>4. SolveFunction(mod, f, effects) = SolveFunction(mod, f, k)
          BY <5>1, <5>3, SolveLooksAtCallees
        <5> QED BY <5>2, <5>4
      <4> QED BY <1>2, <1>7, <1>8, <3>1, <4>1
    <3>2. CASE h # f
      <4>1. h \in D /\ solvedWith'[h] = solvedWith[h] /\ effects'[h] = effects[h]
        BY <1>7, <1>10, <2>1, <3>2
      <4> QED BY <1>4, <1>7, <4>1 DEF SolvedFromRecord
    <3> QED BY <3>1, <3>2
  <2> QED BY <1>3, <2>1 DEF SolvedFromRecord
<1>13. Progressed'
  <2>1. member' \in Nat \ {0} /\ changed' \in BOOLEAN
    BY <1>2, <1>3, <1>4 DEF Progressed
  <2>2. \A n \in DOMAIN components : n < c => Members(n) \subseteq SolvedSoFar'
    BY <1>4, <1>7 DEF Progressed
  <2>3. ASSUME NEW h \in SolvedSoFar' PROVE \E n \in DOMAIN components : n <= c /\ h \in Members(n)
    <3>1. CASE h = f
      <4>1. c \in Nat
        BY <1>5, <1>6 DEF GroupsFit
      <4> QED BY <1>6, <3>1, <4>1
    <3>2. CASE h # f
      BY <1>4, <1>7, <2>3, <3>2 DEF Progressed
    <3> QED BY <3>1, <3>2
  <2>4. ASSUME NEW j \in DOMAIN components[c], j < member' PROVE components[c][j] \in SolvedSoFar'
    <3>1. j < member \/ j = member
      BY <1>3, <1>4, <1>5, <1>6, <2>4 DEF Progressed, GroupsFit
    <3>2. CASE j < member
      BY <1>4, <1>6, <1>7, <3>2 DEF Progressed
    <3>3. CASE j = member
      BY <1>1, <1>7, <3>3
    <3> QED BY <3>1, <3>2, <3>3
  <2> QED BY <1>3, <1>4, <1>7, <1>10, <1>11, <2>1, <2>2, <2>3, <2>4 DEF Progressed
<1>14. Settling'
  <2>1. ASSUME NEW n \in DOMAIN components, n < c, NEW h \in Members(n) PROVE KnewCallees(h, n)'
    <3>1. KnewCallees(h, n) /\ h \in D /\ h # f
      <4>1. h # f
        BY <1>5, <1>6, <2>1 DEF GroupsFit
      <4> QED BY <1>4, <2>1, <4>1 DEF Settling, Progressed
    <3>2. ASSUME NEW g \in CallsOf(mod, h)
          PROVE  IF g \in DOMAIN solvedWith'[h] THEN solvedWith'[h][g] = effects'[g]
                 ELSE g \in Members(n) /\ (g \in SolvedSoFar' => effects'[h] = NoEffect /\ effects'[g] = NoEffect)
      <4>1. PICK m \in 1 .. n : g \in Members(m)
        BY <1>5, <2>1, <3>2 DEF GroupsFit
      <4>2. m \in DOMAIN components /\ m # c /\ m < c
        BY <1>5, <1>6, <2>1, <4>1 DEF GroupsFit
      <4>3. g # f /\ g \in D
        BY <1>4, <1>5, <1>6, <4>1, <4>2 DEF GroupsFit, Progressed
      <4>4. solvedWith'[h] = solvedWith[h] /\ effects'[h] = effects[h] /\ effects'[g] = effects[g]
        BY <1>7, <1>10, <3>1, <4>3
      <4> QED BY <3>1, <3>2, <4>3, <4>4 DEF KnewCallees
    <3> QED BY <1>3, <1>11, <3>2 DEF KnewCallees
  <2>2. ASSUME ~ changed', NEW j \in DOMAIN components[c], j < member', NEW h, h = components[c][j]
        PROVE  \A n : n = c => KnewCallees(h, n)'
    <3>1. h = components[c][j]
      BY <2>2
    <3>2. ASSUME NEW g \in CallsOf(mod, h)
          PROVE  IF g \in DOMAIN solvedWith'[h] THEN solvedWith'[h][g] = effects'[g]
                 ELSE g \in Members(c) /\ (g \in SolvedSoFar' => effects'[h] = NoEffect /\ effects'[g] = NoEffect)
      <4>1. CASE h = f
        <5>1. CASE g \in D
          BY <1>7, <1>8, <1>9, <2>2, <3>2, <4>1, <5>1
        <5>2. CASE g \notin D
          <6>1. PICK m \in 1 .. c : g \in Members(m)
            BY <1>5, <1>6, <3>2, <4>1 DEF GroupsFit
          <6>2. m \in DOMAIN components /\ (m = c \/ m < c)
            BY <1>5, <1>6, <6>1 DEF GroupsFit
          <6>3. m = c
            BY <1>4, <5>2, <6>1, <6>2 DEF Progressed
          <6> QED BY <1>7, <1>8, <1>9, <2>2, <3>2, <4>1, <5>2, <6>1, <6>3
        <5> QED BY <5>1, <5>2
      <4>2. CASE h # f
        <5>1. j < member
          <6>1. j # member
            BY <1>1, <3>1, <4>2
          <6> QED BY <1>3, <1>4, <1>5, <1>6, <2>2, <6>1 DEF Progressed, GroupsFit
        <5>2. ~ changed /\ KnewCallees(h, c) /\ h \in D /\ h \in Members(c)
          BY <1>4, <1>5, <1>6, <1>9, <2>2, <3>1, <5>1 DEF Settling, Progressed, GroupsFit
        <5>3. solvedWith'[h] = solvedWith[h] /\ effects'[h] = effects[h]
          BY <1>7, <1>10, <4>2, <5>2
        <5>4. CASE g \in DOMAIN solvedWith[h]
          <6>1. g \in D
            BY <1>4, <5>2, <5>4 DEF SolvedFromRecord
          <6>2. effects'[g] = effects[g]
            BY <1>9, <2>2, <6>1
          <6> QED BY <3>2, <5>2, <5>3, <5>4, <6>2 DEF KnewCallees
        <5>5. CASE g \notin DOMAIN solvedWith[h]
          <6>1. g \in Members(c) /\ (g \in D => effects[h] = NoEffect /\ effects[g] = NoEffect)
            BY <3>2, <5>2, <5>5 DEF KnewCallees
          <6>2. CASE g \in D
            BY <1>9, <2>2, <5>3, <5>5, <6>1, <6>2
          <6>3. CASE g \notin D
            <7>1. ASSUME g = f PROVE effects'[h] = NoEffect /\ effects'[g] = NoEffect
              <8>1. ~ (Members(c) \subseteq SolvedSoFar)
                BY <1>6, <6>3, <7>1
              <8>2. effects[h] = NoEffect
                BY <1>4, <1>6, <5>2, <8>1 DEF Settling
              <8> QED BY <1>7, <1>9, <2>2, <5>3, <6>3, <7>1, <8>2
            <7> QED BY <1>7, <5>3, <5>5, <6>1, <6>3, <7>1
          <6> QED BY <6>2, <6>3
        <5> QED BY <5>4, <5>5
      <4> QED BY <4>1, <4>2
    <3>3. \A n : n = c => KnewCallees(h, n)'
      BY <1>3, <1>11, <3>2 DEF KnewCallees
    <3> QED BY <3>3
  <2>3. ASSUME ~ changed', ~ (Members(c) \subseteq SolvedSoFar'), NEW h \in Members(c) \cap SolvedSoFar'
        PROVE  effects'[h] = NoEffect
    <3>1. ~ (Members(c) \subseteq SolvedSoFar) /\ ~ changed
      BY <1>7, <1>9, <2>3
    <3>2. \A g \in Members(c) \cap SolvedSoFar : effects[g] = NoEffect
      BY <1>4, <1>6, <3>1 DEF Settling
    <3> QED BY <1>7, <1>9, <2>3, <3>2
  <2>4. \A n \in DOMAIN components' : n < component' => \A h \in Members(n)' : KnewCallees(h, n)'
    BY <1>3, <1>11, <2>1
  <2>5. ASSUME ~ changed'
        PROVE  /\ \A j \in DOMAIN components'[component'] : \A h, n :
                    j < member' /\ h = components'[component'][j] /\ n = component' => KnewCallees(h, n)'
               /\ ~ (Members(component)' \subseteq SolvedSoFar') =>
                    \A h \in Members(component)' \cap SolvedSoFar' : effects'[h] = NoEffect
    BY <1>3, <1>11, <2>2, <2>3, <2>5
  <2> QED BY <2>4, <2>5 DEF Settling
<1> QED BY <1>3, <1>4, <1>12, <1>13, <1>14 DEF SolveInv, Solving, SearchDone

\* A round ends: the component is done with, or gets another round.
LEMMA RoundStep ==
  ASSUME SearchInv, SolveInv, NextRound
  PROVE  SolveInv'
<1> DEFINE c == component
<1>1. /\ Solving /\ member > Len(components[c]) /\ member' = 1 /\ changed' = FALSE
      /\ component' = (IF changed THEN c ELSE c + 1)
      /\ UNCHANGED <<graph, roots, frames, index, lowlink, path, components, mod, effects, solvedWith>>
  BY DEF NextRound, searchVars
<1>2. SolvedFromRecord /\ Progressed /\ Settling /\ graph = CallGraphOf(mod) /\ mod \in Modules
  BY DEF SolveInv
<1>3. GroupsFit
  BY <1>2, GroupFacts
<1>4. c \in DOMAIN components /\ c \in Nat
  BY <1>1, <1>2, <1>3 DEF Solving, Progressed, GroupsFit
<1>5. (\A n : Members(n)' = Members(n)) /\ SolvedSoFar' = SolvedSoFar
  BY <1>1 DEF Members, SolvedSoFar
<1>6. \A j \in DOMAIN components[c] : j < member
  BY <1>1, <1>2, <1>3, <1>4 DEF Progressed, GroupsFit
<1>7. Members(c) \subseteq SolvedSoFar
  BY <1>2, <1>3, <1>4, <1>6 DEF Progressed, GroupsFit
<1>8. \A f, n : KnewCallees(f, n)' <=> KnewCallees(f, n)
  BY <1>1, <1>5 DEF KnewCallees
<1>9. \A n \in DOMAIN components : \A j \in DOMAIN components[n] : ~ (j < 1)
  BY <1>3 DEF GroupsFit
<1>10. SolvedFromRecord'
  BY <1>1, <1>2, <1>5 DEF SolvedFromRecord
<1>11. changed' \in BOOLEAN
  BY <1>1
<1>12. DOMAIN solvedWith' = SolvedSoFar' /\ member' \in Nat \ {0}
  BY <1>1, <1>2, <1>5 DEF Progressed
<1>13. CASE changed
  <2>1. component' = c
    BY <1>1, <1>13
  <2>2. Progressed'
    <3>1. /\ component \in 1 .. Len(components) + 1
          /\ \A n \in DOMAIN components : n < component => Members(n) \subseteq SolvedSoFar
          /\ \A f \in SolvedSoFar : \E n \in DOMAIN components : n <= component /\ f \in Members(n)
      BY <1>2 DEF Progressed
    <3> QED BY <1>1, <1>4, <1>5, <1>9, <1>11, <1>12, <2>1, <3>1 DEF Progressed
  <2>3. Settling'
    <3>1. \A n \in DOMAIN components : n < c => \A f \in Members(n) : KnewCallees(f, n)
      BY <1>2 DEF Settling
    <3> QED BY <1>1, <1>4, <1>5, <1>7, <1>8, <1>9, <2>1, <3>1 DEF Settling
  <2> QED BY <1>1, <1>2, <1>10, <2>2, <2>3 DEF SolveInv, Solving, SearchDone
<1>14. CASE ~ changed
  <2>1. component' = c + 1
    BY <1>1, <1>14
  <2>2. \A n \in DOMAIN components : n < c + 1 => n < c \/ n = c
    BY <1>3, <1>4 DEF GroupsFit
  <2>3. Progressed'
    <3>1. \A n \in DOMAIN components : n < c + 1 => Members(n) \subseteq SolvedSoFar
      BY <1>2, <1>7, <2>2 DEF Progressed
    <3>2. \A f \in SolvedSoFar : \E n \in DOMAIN components : n <= c + 1 /\ f \in Members(n)
      <4> SUFFICES ASSUME NEW f \in SolvedSoFar
                   PROVE  \E n \in DOMAIN components : n <= c + 1 /\ f \in Members(n)
        OBVIOUS
      <4>1. PICK n \in DOMAIN components : n <= c /\ f \in Members(n)
        BY <1>2 DEF Progressed
      <4> QED BY <1>3, <1>4, <4>1 DEF GroupsFit
    <3>3. c + 1 \in 1 .. Len(components) + 1
      BY <1>3, <1>4 DEF GroupsFit
    <3> QED BY <1>1, <1>5, <1>9, <1>11, <1>12, <2>1, <3>1, <3>2, <3>3 DEF Progressed
  <2>4. Settling'
    <3>1. ASSUME NEW n \in DOMAIN components, n < c + 1, NEW f \in Members(n) PROVE KnewCallees(f, n)
      <4>1. CASE n < c
        BY <1>2, <3>1, <4>1 DEF Settling
      <4>2. CASE n = c
        <5>1. PICK j \in DOMAIN components[c] : components[c][j] = f
          BY <1>3, <3>1, <4>2 DEF GroupsFit
        <5> QED BY <1>2, <1>4, <1>6, <1>14, <4>2, <5>1 DEF Settling
      <4> QED BY <2>2, <3>1, <4>1, <4>2
    <3>2. ASSUME c + 1 \in DOMAIN components, NEW f \in Members(c + 1) \cap SolvedSoFar PROVE FALSE
      <4>1. PICK n \in DOMAIN components : n <= c /\ f \in Members(n)
        BY <1>2, <3>2 DEF Progressed
      <4>2. n = c + 1
        BY <1>3, <3>2, <4>1 DEF GroupsFit
      <4> QED BY <1>4, <4>1, <4>2
    <3>3. Members(component)' = Members(c + 1)
      BY <1>1, <2>1 DEF Members
    <3>4. \A n \in DOMAIN components' : n < component' => \A f \in Members(n)' : KnewCallees(f, n)'
      BY <1>1, <1>5, <1>8, <2>1, <3>1
    <3>5. ASSUME component' \in DOMAIN components'
          PROVE  /\ \A j \in DOMAIN components'[component'] : ~ (j < member')
                 /\ \A f \in Members(component)' \cap SolvedSoFar' : FALSE
      BY <1>1, <1>5, <1>9, <2>1, <3>2, <3>3, <3>5
    <3> QED BY <3>4, <3>5 DEF Settling
  <2> QED BY <1>1, <1>2, <1>10, <2>3, <2>4 DEF SolveInv, Solving, SearchDone
<1> QED BY <1>13, <1>14

LEMMA SolveMoves ==
  ASSUME SearchInv, SearchInv', SolveInv, [BottomUpNext]_<<searchVars, solveVars>>
  PROVE  SolveInv'
<1>1. CASE FindComponents
  <2>1. ~ SearchDone
    <3>1. CASE VisitRoot
      BY <3>1 DEF VisitRoot, SearchDone
    <3>2. CASE TakeCallee
      BY <3>2 DEF TakeCallee, SearchDone
    <3>3. CASE LeaveVisit
      BY <3>3 DEF LeaveVisit, SearchDone
    <3> QED BY <1>1, <3>1, <3>2, <3>3 DEF FindComponents, SearchNext
  <2>2. /\ component = 1 /\ member = 1 /\ ~ changed /\ effects = EmptyMap /\ solvedWith = EmptyMap
        /\ graph = CallGraphOf(mod) /\ mod \in Modules /\ changed \in BOOLEAN
    BY <2>1 DEF SolveInv, Progressed
  <2>3. UNCHANGED <<mod, component, member, changed, effects, solvedWith>> /\ EmptyMap' = EmptyMap
    BY <1>1 DEF FindComponents, solveVars, EmptyMap
  <2>4. graph' = graph
    <3>1. CASE VisitRoot
      BY <3>1 DEF VisitRoot, Enter
    <3>2. CASE TakeCallee
      BY <3>2 DEF TakeCallee, Enter
    <3>3. CASE LeaveVisit
      BY <3>3 DEF LeaveVisit
    <3> QED BY <1>1, <3>1, <3>2, <3>3 DEF FindComponents, SearchNext
  <2>5. components' \in Seq(Seq(Nodes')) /\ CallGraphOf(mod') = CallGraphOf(mod)
    BY <2>3 DEF SearchInv, SearchTypeOK
  <2>6. Fresh'
    BY <2>2, <2>3, <2>4, <2>5 DEF Fresh
  <2> QED BY <2>6, FreshFitsNext
<1>2. CASE SolveMember
  BY <1>2, SolveStep
<1>3. CASE NextRound
  BY <1>3, RoundStep
<1>4. CASE UNCHANGED <<searchVars, solveVars>>
  <2>1. /\ UNCHANGED <<graph, roots, frames, index, lowlink, path, components>>
        /\ UNCHANGED <<mod, component, member, changed, effects, solvedWith>>
    BY <1>4 DEF searchVars, solveVars
  <2>2. (\A n : Members(n)' = Members(n)) /\ SolvedSoFar' = SolvedSoFar
    BY <2>1 DEF Members, SolvedSoFar
  <2>3. \A f, n : KnewCallees(f, n)' <=> KnewCallees(f, n)
    BY <2>1, <2>2 DEF KnewCallees
  <2>4. SolvedFromRecord' /\ Progressed'
    BY <2>1, <2>2 DEF SolveInv, SolvedFromRecord, Progressed
  <2>5. Settling'
    BY <2>1, <2>2, <2>3 DEF SolveInv, Settling
  <2> QED BY <2>1, <2>4, <2>5 DEF SolveInv, SearchDone
<1> QED BY <1>1, <1>2, <1>3, <1>4 DEF BottomUpNext

LEMMA SolveHolds == BottomUpSpec => [](SearchInv /\ SolveInv)
<1>1. BottomUpInit => SearchInv
  BY SearchStarts
<1>2. BottomUpInit => SolveInv
  <2> SUFFICES ASSUME BottomUpInit PROVE SolveInv
    OBVIOUS
  <2>1. SearchInv
    BY <1>1
  <2>2. Fresh
    BY <2>1 DEF BottomUpInit, SearchInit, Fresh, SearchInv, SearchTypeOK
  <2> QED BY <2>2, FreshFits
<1>3. SearchInv /\ [BottomUpNext]_<<searchVars, solveVars>> => SearchInv'
  BY SearchMoves
<1>4. SearchInv /\ SearchInv' /\ SolveInv /\ [BottomUpNext]_<<searchVars, solveVars>> => SolveInv'
  BY SolveMoves
<1> QED BY <1>1, <1>2, <1>3, <1>4, PTL DEF BottomUpSpec

LEMMA RoundsEnd ==
  ASSUME SearchInv, SolveInv, BottomUpDone, NEW f \in Nodes, NEW g \in CallsOf(mod, f)
  PROVE  IF g \in DOMAIN solvedWith[f] THEN solvedWith[f][g] = effects[g] ELSE EndedUnknown(f, g)
<1>1. SolvedFromRecord /\ Progressed /\ Settling /\ GroupsFit
  BY GroupFacts DEF SolveInv
<1>2. SearchDone /\ component > Len(components)
  BY DEF BottomUpDone
<1>3. PICK n \in DOMAIN components : f \in Members(n)
  BY <1>1, <1>2 DEF GroupsFit
<1>4. n < component
  BY <1>1, <1>2 DEF GroupsFit, Progressed
<1>5. KnewCallees(f, n)
  BY <1>1, <1>3, <1>4 DEF Settling
<1>6. ASSUME g \notin DOMAIN solvedWith[f] PROVE EndedUnknown(f, g)
  <2>1. g \in Members(n) /\ (g \in SolvedSoFar => effects[f] = NoEffect /\ effects[g] = NoEffect)
    BY <1>5, <1>6 DEF KnewCallees
  <2>2. g \in SolvedSoFar
    BY <1>1, <1>4, <2>1 DEF Progressed
  <2>3. Reaches(f, g) /\ Reaches(g, f)
    BY <1>1, <1>3, <2>1 DEF GroupsFit
  <2> QED BY <2>1, <2>2, <2>3 DEF EndedUnknown
<1> QED BY <1>5, <1>6 DEF KnewCallees

(* The flow the pass keeps of a function was solved against the final       *)
(* effects of all its callees, except of one in the same recursion group    *)
(* that ended, like the function itself, without an effect.                 *)
THEOREM StableFlowsProved == BottomUpSpec => []StableFlowsUseFinalEffects
<1>1. SearchInv /\ SolveInv => StableFlowsUseFinalEffects
  BY RoundsEnd DEF StableFlowsUseFinalEffects
<1> QED BY <1>1, SolveHolds, PTL

(* When runBottomUp ends, the effects are a fixpoint of solveFunction,      *)
(* except where such a group stopped after a first round that changed       *)
(* nothing.                                                                 *)
THEOREM FixpointProved == BottomUpSpec => []EffectsAreFixpoint
<1>1. SearchInv /\ SolveInv => EffectsAreFixpoint
  <2> SUFFICES ASSUME SearchInv, SolveInv, BottomUpDone, NEW f \in Nodes,
                      \A g \in CallsOf(mod, f) : ~ EndedUnknown(f, g)
               PROVE  effects[f] = SolveFunction(mod, f, effects)
    BY DEF EffectsAreFixpoint
  <2>1. SolvedFromRecord /\ Progressed /\ GroupsFit
    BY GroupFacts DEF SolveInv
  <2>2. \A g \in CallsOf(mod, f) : g \in DOMAIN solvedWith[f] /\ solvedWith[f][g] = effects[g]
    BY RoundsEnd
  <2>3. f \in SolvedSoFar
    <3>1. PICK n \in DOMAIN components : f \in Members(n)
      BY <2>1 DEF GroupsFit, BottomUpDone
    <3>2. n < component
      BY <2>1 DEF GroupsFit, Progressed, BottomUpDone
    <3> QED BY <2>1, <3>1, <3>2 DEF Progressed
  <2>4. /\ effects[f] = SolveFunction(mod, f, solvedWith[f])
        /\ DOMAIN solvedWith[f] \subseteq DOMAIN effects
    BY <2>1, <2>3 DEF SolvedFromRecord, SolvedSoFar
  <2>5. PICK known : known = solvedWith[f]
    OBVIOUS
  <2>6. \A p \in mod.paths[f] : p.code \in Seq(ToSet(p.code))
    BY <2>1 DEF GroupsFit
  <2>7. SolveFunction(mod, f, known) = SolveFunction(mod, f, effects)
    BY <2>2, <2>4, <2>5, <2>6, SolveLooksAtCallees
  <2> QED BY <2>4, <2>5, <2>7
<1> QED BY <1>1, SolveHolds, PTL
=============================================================================
