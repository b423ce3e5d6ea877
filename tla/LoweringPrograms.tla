-------------------------- MODULE LoweringPrograms --------------------------
(* Functions for the block structure and functions for the x87 window.       *)
EXTENDS Integers, Sequences

LOCAL INSTANCE SequencesExt

-----------------------------------------------------------------------------
(* Functions of three instructions at 1, 2, 3, or at 1, 2, 4 with a hole,    *)
(* cut into native blocks at jump targets and behind jumps, with the         *)
(* successor facts native discovery has: those inside the function.          *)

Op(kind, ram, rel, def, use, const) ==
  [addr |-> 0, kind |-> kind, ram |-> ram, rel |-> rel, def |-> def, use |-> use, const |-> const]

Plain == Op("plain", 0, 0, "", "", FALSE)
Define == Op("plain", 0, 0, "u", "", FALSE)
Constant == Op("plain", 0, 0, "u", "", TRUE)
Use == Op("plain", 0, 0, "", "u", FALSE)
Jump(t) == Op("branch", t, 0, "", "", FALSE)
If(t) == Op("cbranch", t, 0, "", "", FALSE)
Skip(n) == Op("cbranch", 0, n, "", "", FALSE)
Back(n) == Op("branch", 0, -n, "", "", FALSE)

\* An instruction: jumps are its machine-level targets, falls that it may run on.
Ins(ops, jumps, falls) == [ops |-> ops, jumps |-> jumps, falls |-> falls]

Inside(ops) == Ins(ops, {}, TRUE)

Inner(n) ==
  {Inside(<<>>), Inside(<<Plain>>),
   Inside(<<If(n), Plain>>),                                    \* CMOV
   Inside(<<Define, Skip(2), Plain, Use>>),                     \* used behind a join
   Inside(<<Skip(3), Define, Use, Plain>>),                     \* defined on one path
   Inside(<<Define, Skip(2), Define, Use>>),                    \* defined on both
   Inside(<<Define, Skip(4), Use, Skip(-1), Plain, Use>>)}      \* read in a loop

\* REP MOVS jumps to itself and so is a block of its own.
Rep(a, n) == Ins(<<If(n), Plain, Jump(a)>>, {a, n}, TRUE)

Return == Ins(<<Op("return", 0, 0, "", "", FALSE)>>, {}, FALSE)

Leaving ==
  {Return}
  \cup {Ins(<<Jump(t)>>, {t}, FALSE) : t \in {1, 2, 4, 9}}
  \cup {Ins(<<If(t)>>, {t}, TRUE) : t \in {1, 2, 9}}
  \cup {Ins(<<Op("ind", 0, 0, "", "", FALSE)>>, {1, 2}, FALSE)}

Instructions(a, n) == Inner(n) \cup Leaving \cup {Rep(a, n)}

At(a, ins) == [k \in DOMAIN ins.ops |-> [ins.ops[k] EXCEPT !.addr = a]]

\* listing maps addresses to instructions.
Assemble(listing) ==
  LET places == DOMAIN listing
      leaders == {x \in places : \/ x = 1
                                 \/ \E b \in places : x \in listing[b].jumps
                                 \/ x - 1 \notin places
                                 \/ ~listing[x - 1].falls \/ listing[x - 1].jumps # {}}
      end(s) == CHOOSE e \in {x + 1 : x \in places} :
                  /\ e > s /\ (e \in leaders \/ e \notin places)
                  /\ \A x \in s + 1 .. e - 1 : x \in places \ leaders
      last(s) == listing[end(s) - 1]
  IN [ops    |-> FlattenSeq([n \in 1..4 |-> IF n \in places THEN At(n, listing[n]) ELSE <<>>]),
      ranges |-> [s \in leaders |-> end(s)],
      succ   |-> [s \in leaders |-> (last(s).jumps \cup (IF last(s).falls THEN {end(s)} ELSE {})) \cap leaders],
      entry  |-> 1]

CutFunctions ==
  {Assemble(<<a, b, c>>) : a \in Instructions(1, 2), b \in Instructions(2, 3), c \in {Return, Ins(<<If(2)>>, {2}, TRUE)}}
  \cup {Assemble([n \in {1, 2, 4} |-> IF n = 1 THEN a ELSE IF n = 2 THEN b ELSE c]) :
          a \in {Inside(<<If(2), Plain>>), Inside(<<Define, Skip(2), Plain, Use>>), Ins(<<If(4)>>, {4}, TRUE), Rep(1, 2)},
          b \in Leaving, c \in {Return} \cup Inner(5)}

\* if (!fp) fp = free; fp(x): the block that loads the GOT slot lies before the
\* call but need not be on the path to it.
StalePointers ==
  {Assemble(<<Inside(<<Op("set", 0, 0, "", "", FALSE)>>), Ins(<<If(4)>>, {4}, TRUE),
              Inside(<<Op("slot", 0, 0, "", "", FALSE)>>),
              Ins(<<Op("callind", 0, 0, "", "", FALSE), Op("return", 0, 0, "", "", FALSE)>>, {}, FALSE)>>)}

-----------------------------------------------------------------------------
(* x87 functions: straight-line code of up to three instructions after two  *)
(* loads, and diamonds and loops of short blocks, in 32 and 64 bits.         *)

Memory == 8
Junk == -1

Combined(a, b) == IF Junk \in {a, b} THEN Junk ELSE (a + 2 * b + 1) % 3
Negated(a) == IF a = Junk THEN Junk ELSE (a + 1) % 3

I(name, slot) == [name |-> name, slot |-> slot, mnemonic |-> TRUE]
Shape(name, slot) == [name |-> name, slot |-> slot, mnemonic |-> FALSE]

WindowInstructions ==
  {I("FLD", Memory), I("FLD", 0), I("FLD", 2), I("FSTP", Memory), I("FSTP", 0), I("FSTP", 1),
   I("FSTP", 2), I("FST", 1), I("FST", 2), I("FXCH", 1), I("FXCH", 2), I("FCHS", 0),
   I("FCOMI", 2), I("FCOMIP", 1), I("FPREM", 1), I("FSUB", Memory), I("FSUBR", Memory),
   I("FSUB", 2), I("FSUBR", 1), I("FSUBP", 1), I("FSUBRP", 1), I("FSUBP", 2), I("FSUBRP", 2),
   I("FSUB_to", 1), I("FILD", Memory), I("FLDCW", 0), Shape("FLD", Memory), Shape("FXCH", 1), Shape("FSUBP", 1),
   I("CALL", 0)}

Few == {I("FLD", Memory), I("FSTP", Memory), I("FSUBP", 1), I("FXCH", 1), I("FPREM", 1), I("FSTP", 2)}

Load == I("FLD", Memory)

Function(code, next, pointer, incoming) ==
  [code |-> code, next |-> next, entry |-> 1, pointer |-> pointer, incoming |-> incoming,
   unknown |-> {}]

UpTo(S, n) == UNION {[1..k -> S] : k \in 0..n}

Lines ==
  {Function(<<<<a, b, c>>>>, <<{}>>, 8, <<>>) : a \in {Load, I("CALL", 0)}, b, c \in WindowInstructions}
  \cup {Function(<<<<Load, Load, a, b>>>>, <<{}>>, p, <<>>) : a, b \in WindowInstructions, p \in {4, 8}}
  \cup {Function(<<<<Load, Load, Load, a, b>>>>, <<{}>>, 8, <<>>) : a, b \in WindowInstructions}
  \cup {Function(<<<<a, b>>>>, <<{}>>, 4, s) : a, b \in WindowInstructions, s \in {<<>>, <<1>>, <<1, 0, 2>>}}
  \cup {Function(<<<<a, I("CALLF", 0), b, c>>>>, <<{}>>, 4, <<1>>) :
          a \in {I("FSTP", Memory), I("FSTP", 0)}, b, c \in Few}

Fallback ==
  {Function(<<<<I("CALLF", 0), I("FSTP", Memory), a>>>>, <<{}>>, 8, <<>>) : a \in Few \ {Load}}

\* Where the block ends in an indirect jump.
Unknown(f) == [f EXCEPT !.unknown = {1}]

Diamond == <<{2, 3}, {4}, {4}, {}>>
Loop == <<{2}, {2, 3}, {}>>

Graphs ==
  {Function(<<<<Load>> \o a, b, c, d>>, Diamond, p, <<>>) :
     a \in UpTo({Load, I("FSTP", Memory), I("FPREM", 1)}, 1), b, c \in UpTo(Few, 1), d \in {<<>>, <<I("FSTP", Memory)>>, <<I("FSUBP", 1)>>}, p \in {4, 8}}
  \cup {Function(<<<<Load, Load>>, b, c>>, Loop, p, <<>>) :
          b \in UpTo(Few, 2), c \in UpTo(Few, 1), p \in {4, 8}}

WindowFunctions == Lines \cup Fallback \cup Graphs \cup {Unknown(f) : f \in {g \in Graphs : g.pointer = 8 /\ Len(g.code[1]) = 1}}
=============================================================================
