---------------------------- MODULE MCSummaryPasses ------------------------
(* Modules whose functions call each other in every way, for both passes,    *)
(* and modules with loops for the demands, with the effects of their runs.   *)
EXTENDS SummaryPasses, TLC

Callers == INSTANCE FlowPrograms
MCModules == Callers!CallingModules
MCRingModules == Callers!RingModules

EffectOfRuns(runs) ==
  LET returning == {o \in runs : o.ends = "return"}
      kept(r) == {b \in Bits : \E o \in returning : <<r, b>> \notin o.over}
      lost(r) == {b \in Bits : \E o \in returning : <<r, b>> \in o.over}
      readBits(r) == {b \in Bits : \E o \in runs : <<r, b>> \in o.read}
  IN  [NoReturn |-> returning = {},
       Registers |-> [r \in Registers |->
         [MayEntry |-> IF returning = {} THEN Bits ELSE kept(r),
          MayNonEntry |-> lost(r), ReadEntry |-> readBits(r)]]]

WithEffects(m) ==
  LET blockRuns == BlockRuns(m) IN
  [effects |-> [f \in FunctionsOf(m) |->
                  LET runs == blockRuns[f][FunctionEntry(m, f)] IN
                  IF runs = {} THEN NoEffect ELSE EffectOfRuns(runs)],
   varargs |-> {}] @@ m

RAX == "RAX"
RDX == "RDX"

Write(r, bits) == [op |-> "pwrite", reg |-> r, mask |-> bits, low32 |-> FALSE]
Write32(r) == [op |-> "pwrite", reg |-> r, mask |-> {0}, low32 |-> TRUE]
Set(r) == [op |-> "store", reg |-> r]
Low(r) == [op |-> "pread", reg |-> r, offset |-> 0, used |-> {0}, dead |-> FALSE]
High(r) == [op |-> "pread", reg |-> r, offset |-> 1, used |-> {0}, dead |-> FALSE]
Dead(r) == [op |-> "pread", reg |-> r, offset |-> 0, used |-> {0, 1}, dead |-> TRUE]
Get(r) == [op |-> "load", reg |-> r, used |-> {0, 1}]
Call(g) == [op |-> "call", callee |-> [kind |-> "body", name |-> g]]
External == [op |-> "call", callee |-> [kind |-> "external", noReturn |-> FALSE]]
Exit == [op |-> "call", callee |-> [kind |-> "external", noReturn |-> TRUE]]
Shown(r) == [op |-> "call",
             callee |-> [kind |-> "shape", inputs |-> (r :> {1}), noReturn |-> FALSE]]

Straight(code) ==
  [order |-> <<"E">>, succ |-> ("E" :> <<>>), code |-> ("E" :> code), returns |-> {"E"}]
\* entry -> header; header -> body or exit; body -> header
Loop(e, h, b, x) ==
  [order |-> <<"E", "H", "B", "X">>,
   succ |-> ("E" :> <<"H">> @@ "H" :> <<"B", "X">> @@ "B" :> <<"H">> @@ "X" :> <<>>),
   code |-> ("E" :> e @@ "H" :> h @@ "B" :> b @@ "X" :> x), returns |-> {"X"}]
\* entry -> left or right, both return
Fork(e, l, r) ==
  [order |-> <<"E", "L", "R">>,
   succ |-> ("E" :> <<"L", "R">> @@ "L" :> <<>> @@ "R" :> <<>>),
   code |-> ("E" :> e @@ "L" :> l @@ "R" :> r), returns |-> {"L", "R"}]

\* "main" calls "mid" and looks at what it left; "mid" calls "leaf", which
\* changes something; "mid" and "main" may recurse.
Leaves ==
  {Straight(<<Set(RDX)>>), Fork(<<>>, <<Write(RDX, {1})>>, <<>>),
   Straight(<<Write32(RAX), Low(RDX)>>), Fork(<<>>, <<Set(RAX), Call("mid")>>, <<>>),
   Loop(<<>>, <<>>, <<High(RDX), Write(RDX, {0})>>, <<>>)}

Mids ==
  {Straight(<<Call("leaf")>>), Straight(<<Call("leaf"), Write(RDX, {0})>>),
   Straight(<<Call("leaf"), Low(RAX), Call("leaf")>>), Straight(<<Call("leaf"), External>>),
   Fork(<<>>, <<Call("leaf"), Exit>>, <<Set(RDX)>>),
   Loop(<<Call("leaf")>>, <<>>, <<Call("leaf"), Dead(RDX)>>, <<>>)}

Mains ==
  {Straight(<<Call("mid"), High(RDX)>>), Straight(<<Call("mid"), Shown(RDX), Low(RAX)>>),
   Fork(<<Call("mid")>>, <<Get(RDX)>>, <<Call("leaf"), External>>),
   Loop(<<Call("mid")>>, <<High(RDX)>>, <<Call("mid"), Set(RDX)>>, <<Exit>>)}

Module(main, mid, leaf, order) ==
  [order |-> order, flow |-> ("main" :> main @@ "mid" :> mid @@ "leaf" :> leaf)]

MCDemandModules ==
  {WithEffects(Module(x, y, z, o)) : x \in Mains, y \in Mids, z \in Leaves,
     o \in {<<"main", "mid", "leaf">>, <<"leaf", "main", "mid">>}}

=============================================================================
