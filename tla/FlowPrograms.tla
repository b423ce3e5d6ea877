---------------------------- MODULE FlowPrograms ---------------------------
(***************************************************************************)
(* Small functions for the model checker: control-flow graphs of one to    *)
(* four blocks whose instructions are drawn from the shapes the register   *)
(* summary recognises.  RDI is an argument register, RBX is callee-saved,  *)
(* RSP is the stack pointer; a register has two bits, so that a partial    *)
(* access differs from a whole one.  Every SSA value is defined once and   *)
(* dominates its uses.                                                     *)
(***************************************************************************)
EXTENDS Sequences, Naturals, FiniteSets

LOCAL INSTANCE TLC
LOCAL INSTANCE SequencesExt

RDI == "RDI"
RBX == "RBX"
RSP == "RSP"

Low == {0}
Whole == {0, 1}

Const == "const"

Load(r, v)    == [op |-> "load", reg |-> r, val |-> v, keep |-> FALSE]
Store(r, v)   == [op |-> "store", reg |-> r, src |-> v, off |-> FALSE,
                  keep |-> FALSE, float |-> FALSE]
Spill(s, v)   == [op |-> "spill", slot |-> s, src |-> v, off |-> FALSE]
Reload(s, v)  == [op |-> "reload", slot |-> s, val |-> v]
PRead(r, v)   == [op |-> "pread", reg |-> r, mask |-> Low, val |-> v, dead |-> FALSE]
PWrite(r, v)  == [op |-> "pwrite", reg |-> r, mask |-> Low, src |-> v, off |-> FALSE,
                  low32 |-> FALSE, float |-> FALSE]
Use(v)        == [op |-> "use", src |-> v, off |-> FALSE]
Float(i)      == [i EXCEPT !.float = TRUE]
Low32(i)      == [i EXCEPT !.low32 = TRUE]
Plus(i)       == [i EXCEPT !.off = TRUE]
Call(c)       == [op |-> "call", callee |-> c]

External      == Call([kind |-> "external", noReturn |-> FALSE])
Exit          == Call([kind |-> "external", noReturn |-> TRUE])
Shape(inputs) == Call([kind |-> "shape", inputs |-> inputs, noReturn |-> FALSE])
Summary(registers, noReturn) ==
  Call([kind |-> "summary", effect |-> [Registers |-> registers, NoReturn |-> noReturn]])

\* A callee that reads RDI, overwrites its low bit, and may overwrite the other.
Helper ==
  Summary([r \in {RDI} |-> [MayEntry |-> {1}, MayNonEntry |-> Whole, ReadEntry |-> Low]],
          FALSE)
\* A callee that overwrites RDI; and one that reads it and never returns.
Setter ==
  Summary([r \in {RDI} |-> [MayEntry |-> {}, MayNonEntry |-> Whole, ReadEntry |-> {}]],
          FALSE)
Abort ==
  Summary([r \in {RDI} |-> [MayEntry |-> Whole, MayNonEntry |-> {}, ReadEntry |-> Whole]],
          TRUE)

-----------------------------------------------------------------------------
Function(order, succ, code, returns, adjust) ==
  [order |-> order, succ |-> succ, code |-> code, returns |-> returns, adjust |-> adjust]

Straight(codes) ==
  {Function(<<"E">>, [b \in {"E"} |-> <<>>], [b \in {"E"} |-> c], {"E"}, {}) : c \in codes}

\* entry -> header; header -> body or exit; body -> header
LoopSucc == [E |-> <<"H">>, H |-> <<"B", "X">>, B |-> <<"H">>, X |-> <<>>]
Loop(entries, headers, bodies, exits) ==
  {Function(<<"E", "H", "B", "X">>, LoopSucc, [E |-> e, H |-> h, B |-> b, X |-> x], {"X"}, {}) :
     e \in entries, h \in headers, b \in bodies, x \in exits}

\* entry -> left or right -> exit; the function order need not be topological
DiamondSucc == [E |-> <<"L", "R">>, L |-> <<"X">>, R |-> <<"X">>, X |-> <<>>]
Diamond(entries, lefts, rights, exits) ==
  {Function(o, DiamondSucc, [E |-> e, L |-> l, R |-> r, X |-> x], {"X"}, {}) :
     o \in {<<"E", "L", "R", "X">>, <<"E", "X", "L", "R">>},
     e \in entries, l \in lefts, r \in rights, x \in exits}

-----------------------------------------------------------------------------
\* Modules of two to five functions that call each other in every way; a
\* function is a set of paths.

RDX == "RDX"
BitRead(r) == PRead(r, "e1") @@ [offset |-> 0, used |-> Low]

Body(g) == Call([kind |-> "body", name |-> g])
Return(code) == [code |-> code, ends |-> "return"]
Never(code) == [code |-> code, ends |-> "never"]

UpTo2(S) == {s \in SUBSET S : Cardinality(s) \in {1, 2}}

\* RDX is read, written, written in part, or left alone, before or after a call.
PathsCalling(g) ==
  {Return(<<>>), Return(<<Body(g), BitRead(RDX)>>), Return(<<PWrite(RDX, Const), Body(g)>>),
   Return(<<Body(g), Body("f")>>), Never(<<Body(g), BitRead(RDX), Exit>>)}

\* f and g call each other, and f itself.
TwoFunctions ==
  [order : {<<"f", "g">>},
   paths : {[n \in {"f", "g"} |-> IF n = "f" THEN p ELSE q] :
              p \in UpTo2(PathsCalling("g")), q \in UpTo2(PathsCalling("f"))}]

\* f, g and h call each other around, and all call the leaf "out".
ThreeFunctions ==
  [order : {<<"f", "g", "h", "out">>},
   paths : {[n \in {"f", "g", "h", "out"} |->
               CASE n = "f" -> p [] n = "g" -> {Return(<<Body("h")>>)} [] n = "h" -> q
                 [] n = "out" -> {o}] :
              p \in UpTo2({Return(<<Body("g")>>), Return(<<BitRead(RDX), Body("out")>>),
                           Return(<<Body("out"), Body("h")>>), Never(<<Body("g"), Exit>>)}),
              q \in UpTo2({Return(<<Body("f"), BitRead(RDX)>>), Return(<<Store(RDX, Const)>>),
                           Return(<<Body("g"), Body("out")>>), Return(<<External, Body("f")>>)}),
              o \in {Return(<<PWrite(RDX, Const)>>), Never(<<BitRead(RDX), Exit>>)}}]

\* Every way three functions may call each other.
Callings ==
  {[order |-> <<"f", "g", "h">>,
    paths |-> [n \in {"f", "g", "h"} |->
                 {Return(FlattenSeq([k \in 1 .. 3 |-> IF <<"f", "g", "h">>[k] \in calls[n]
                                                    THEN <<Body(<<"f", "g", "h">>[k])>> ELSE <<>>]))}]] :
     calls \in {c \in [{"f", "g", "h"} -> SUBSET {"f", "g", "h"}] : \A n \in DOMAIN c : n \notin c[n]}}

\* f is solved before g, and the unknown callee hides its read; both end the
\* first round without an effect, which is no change.
EarlyStop ==
  {[order |-> <<"g", "f">>,
    paths |-> [n \in {"f", "g"} |->
      IF n = "f"
      THEN {Return(<<>>), Never(<<Store(RDX, Const), Body("g"), BitRead("RAX"), Exit>>)}
      ELSE {Never(<<Body("f")>>)}]]}

CallingModules == Callings \cup TwoFunctions \cup ThreeFunctions \cup EarlyStop

-----------------------------------------------------------------------------
\* Five functions of one component.  z goes through k only while k counts as
\* returning, and reads FS after it (a canary check); k does not return because
\* m does not, but k may be solved before m.
RingModules ==
  {[order |-> <<"z", "x", "y", "k", "m">>,
    paths |-> [x |-> {Return(<<Body("y")>>)},
               y |-> {Return(<<Body("z")>>)},
               z |-> {Return(<<Body("x")>>), Return(<<Body("k"), BitRead("FS")>>),
                      Never(<<Body("y")>>), Never(<<Body("m")>>)},
               k |-> {Return(<<Body("m")>>)},
               m |-> {Never(<<Exit>>), Never(<<Body("x")>>)}]]}
=============================================================================
