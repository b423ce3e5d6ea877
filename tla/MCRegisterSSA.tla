--------------------------- MODULE MCRegisterSSA ---------------------------
(* Functions of one to four blocks over two registers of two bits: writes,   *)
(* moves, partial accesses and calls in branches, loops and switches.        *)
EXTENDS RegisterSSARuns

R(r, off, w) == [op |-> "read", reg |-> r, off |-> off, w |-> w]
W(r, off, w, from) == [op |-> "write", reg |-> r, off |-> off, w |-> w, from |-> from]
Xor(x, y) == [op |-> "xor", x |-> x, y |-> y]

\* A call that may change the bits of a and of b, and may not change those of mayEntry.
Call(callee, a, b, mayEntry, carried, reads, args) ==
  [op |-> "call", callee |-> callee, nonEntry |-> [r \in Regs |-> IF r = "a" THEN a ELSE b],
   mayEntry |-> mayEntry, carried |-> carried, reads |-> reads, args |-> args]

Shapes ==
  {<<<<>>>>,
   <<<<2>>, <<2, 3>>, <<>>>>,                \* a loop of one block
   <<<<2, 3>>, <<3>>, <<>>>>,                \* a branch
   <<<<2, 2>>, <<>>>>,                       \* a switch with two cases on one block
   <<<<2, 3>>, <<4>>, <<4>>, <<>>>>,         \* a diamond
   <<<<2>>, <<3>>, <<2, 4>>, <<>>>>,         \* a loop of two blocks
   <<<<2, 3>>, <<3>>, <<2, 4>>, <<>>>>}      \* a loop with two entries

\* A block at b: what it does, before what it does at its end.
Chunks(b) ==
  {<<>>,
   <<R("a", 0, 2)>>,
   <<R("a", 0, 1)>>,
   <<W("a", 0, 2, None)>>,
   <<W("a", 1, 1, None)>>,
   <<R("a", 0, 2), W("b", 0, 2, <<b, 1>>)>>,
   <<R("a", 0, 2), R("b", 0, 2), W("a", 0, 2, <<b, 2>>), W("b", 0, 2, <<b, 1>>)>>,
   <<R("a", 1, 1), R("a", 1, 1), Xor(<<b, 1>>, <<b, 2>>)>>,
   <<R("a", 1, 1), W("a", 0, 1, None), R("a", 1, 1), Xor(<<b, 1>>, <<b, 3>>)>>,
   <<W("a", 0, 2, None), R("a", 0, 1), R("a", 0, 2)>>,
   <<Call("external", {}, {}, {}, {}, {"a"}, {Range("a", 0, 2)})>>,
   <<Call("missing", {}, {}, {}, {}, {"b"}, {Range("b", 1, 1)}), R("a", 0, 2)>>,
   <<Call("known", {0, 1}, {0, 1}, {"a"}, {"a"}, {"b"}, {Range("a", 0, 1)})>>,
   <<Call("known", {0}, {}, {"a", "b"}, {}, {}, {}), R("a", 1, 1)>>}

Last(b) == {<<R("a", 0, 2)>>, <<R("b", 0, 2), R("a", 0, 1)>>}

Slots == {{}, {Range("a", 0, 1)}}
Exits == {{}, {Range("a", 0, 2)}, {Range("a", 1, 1)}}

Function(shape, code, slots, exits) == [succ |-> shape, code |-> code, slots |-> slots, exits |-> exits]

MCFunctions ==
  UNION {{Function(s, c, l, x) :
            c \in {<<f, g, t>> : f \in Chunks(1), g \in Chunks(2), t \in Last(3)},
            l \in {{}}, x \in {{}, {Range("a", 1, 1)}}} :
         s \in {t \in Shapes : Len(t) = 3}}
  \cup UNION {{Function(s, c, l, x) :
            c \in {<<f, g, t, u>> : f \in {<<>>, <<W("a", 0, 2, None)>>}, g \in Chunks(2), t \in Chunks(3), u \in Last(4)},
            l \in {{}}, x \in {{}}} :
         s \in {t \in Shapes : Len(t) = 4}}
  \cup {Function(<<<<2, 2>>, <<>>>>, <<f, g>>, l, x) : f \in Chunks(1), g \in Chunks(2), l \in Slots, x \in Exits}
=============================================================================
