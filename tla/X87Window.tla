----------------------------- MODULE X87Window -----------------------------
(* The x87 window of PcodeLowerer: ST0 and ST1 are register globals, ST2 to  *)
(* ST7 belong to a runtime library whose top is ST2.  Each x87 instruction   *)
(* is classified and re-emitted over the window; where the depth of the x87  *)
(* stack is known at every block, empty slots are neither moved nor spilled. *)
(* Next to the window runs the x87 stack itself, as the processor keeps it.  *)
EXTENDS Integers, Sequences, FiniteSets

CONSTANTS X87Functions,  \* the functions a run starts with
          Values,        \* the floating-point values, natural numbers
          Arith(_, _),   \* FSUB or FDIV: not commutative
          Unary(_),      \* FCHS
          MaxStack       \* bound: values on the x87 stack

(* A function: code[b] the instructions of block b, next[b] its successors,  *)
(* entry the first block, pointer the pointer size in bytes, incoming the    *)
(* values on the x87 stack at the entry, unknown the blocks whose successors *)
(* the lowering does not know (an indirect jump).                            *)
VARIABLES fun, block, pc,
          stack,       \* the x87 stack, ST0 first
          window,      \* [st0, st1, library, precise, depth]
          stored,      \* what the last instruction gave away: on the stack and in the window
          tracked      \* whether the stack still has a meaning: no fault, no raw p-code

vars == <<fun, block, pc, stack, window, stored, tracked>>

Junk == -1   \* what an empty slot holds; no value of the program

---------------------------------------------------------------------------
(* Classification.  An instruction is [name, slot, mnemonic]: slot 0..7, or  *)
(* Memory for an operand in memory; mnemonic FALSE if the program carries no *)
(* names and the p-code shape has to do.                                     *)
Memory == 8

Spec(kind, i, st0First, pops) ==
  [kind |-> kind, slot |-> i, st0First |-> st0First, pops |-> pops]

Unclassified == Spec("Raw", 0, FALSE, FALSE)

\* The p-code of the subtractions: where the result goes, and whether ST0 is input 0.
FloatOp(ins) ==
  CASE ins.name = "FSUB"      -> [out |-> 0, st0First |-> TRUE]
    [] ins.name = "FSUBR"     -> [out |-> 0, st0First |-> FALSE]
    [] ins.name = "FSUB_to"   -> [out |-> ins.slot, st0First |-> FALSE]
    [] ins.name = "FSUBP"     -> [out |-> ins.slot, st0First |-> FALSE]
    [] ins.name = "FSUBRP"    -> [out |-> ins.slot, st0First |-> TRUE]

EnvironmentForm(ins) ==
  IF ins.name \in {"FNSTCW", "FLDCW", "FNSTENV", "FLDENV"}
    THEN Spec("Library", 0, FALSE, FALSE) ELSE Unclassified

PushForm(ins) ==
  IF ins.name = "FLD" THEN Spec("Push", ins.slot, FALSE, FALSE) ELSE Unclassified

ConvertedPushForm(ins) ==
  IF ins.name \in {"FILD", "FLDZ"} THEN Spec("Push", Memory, FALSE, FALSE) ELSE Unclassified

\* Without a store in its p-code FSTP is the register form, to slot 0 if it copies nothing.
PopStoreForm(ins) ==
  IF ins.name # "FSTP" THEN Unclassified
  ELSE IF ins.slot = Memory THEN Spec("PopStore", 0, FALSE, TRUE)
  ELSE Spec("PopSlot", ins.slot, FALSE, TRUE)

SlotForm(ins) ==
  CASE ins.name = "FST" /\ ins.slot # Memory -> Spec("StoreSlot", ins.slot, FALSE, FALSE)
    [] ins.name = "FXCH"                     -> Spec("Fxch", ins.slot, FALSE, FALSE)
    [] OTHER                                 -> Unclassified

UnaryForm(ins) == IF ins.name = "FCHS" THEN Spec("Unary", 0, FALSE, FALSE) ELSE Unclassified

CompareForm(ins) ==
  IF ins.name \in {"FCOMI", "FCOMIP"} THEN Spec("Compare", ins.slot, FALSE, ins.name = "FCOMIP")
  ELSE Unclassified

RemainderForm(ins) ==
  IF ins.name = "FPREM" THEN Spec("Remainder", 1, TRUE, FALSE) ELSE Unclassified

PopArithForm(ins) ==
  IF ins.name \notin {"FSUBP", "FSUBRP"} THEN Unclassified
  ELSE LET op == FloatOp(ins)
       IN CASE op.out = 0 -> Unclassified
            [] op.out = 1 -> Spec("PopArith", 1, op.st0First, TRUE)
            [] OTHER      -> Spec("PopArithSlot", op.out, op.st0First, TRUE)

\* FSUB ST(i), ST0 writes another slot than ST0 and is no window operation.
ArithForm(ins) ==
  IF ins.name \notin {"FSUB", "FSUBR", "FSUB_to"} \/ FloatOp(ins).out # 0 THEN Unclassified
  ELSE Spec(IF ins.slot = Memory THEN "MemArith" ELSE "RegArith", ins.slot, FloatOp(ins).st0First, FALSE)

Forms(ins) == {EnvironmentForm(ins), PushForm(ins), ConvertedPushForm(ins), PopStoreForm(ins),
               SlotForm(ins), UnaryForm(ins), CompareForm(ins), RemainderForm(ins), PopArithForm(ins), ArithForm(ins)}

ByMnemonic(ins) ==
  IF Forms(ins) = {Unclassified} THEN Unclassified
  ELSE CHOOSE s \in Forms(ins) : s # Unclassified

\* Without a name only loads, stores and arithmetic have a shape of their own.
ByShape(ins) ==
  IF \/ ins.name \in {"FLD", "FILD", "FSTP"} /\ ins.slot = Memory
     \/ ins.name \in {"FSUBP", "FSUBRP"}
     \/ ins.name \in {"FSUB", "FSUBR"} /\ ins.slot = Memory
    THEN ByMnemonic(ins) ELSE Unclassified

Classify(ins) == IF ins.mnemonic THEN ByMnemonic(ins) ELSE ByShape(ins)

---------------------------------------------------------------------------
(* The window.  depth is an unsigned counter: one below 0 is UintMax.        *)
UintMax == 2147483647   \* the width does not matter

Decrement(d) == IF d = 0 THEN UintMax ELSE d - 1

Push(w, v) ==
  IF ~w.precise
    THEN [w EXCEPT !.st0 = v, !.st1 = w.st0, !.library = <<w.st1>> \o @]
    ELSE [w EXCEPT !.st0 = v,
                   !.st1 = IF w.depth >= 1 THEN w.st0 ELSE @,
                   !.library = IF w.depth >= 2 THEN <<w.st1>> \o @ ELSE @,
                   !.depth = @ + 1]

\* Bug: the new ST1 is fetched one value too late.
PopIntoST1Late(w) ==
  IF w.precise /\ w.depth < 4 THEN w
  ELSE IF w.library = <<>> THEN [w EXCEPT !.st1 = Junk]
  ELSE [w EXCEPT !.st1 = Head(w.library), !.library = Tail(@)]

\* Only the ST1 half of a pop.
PopIntoST1(w) ==
  IF w.precise /\ w.depth < 3 THEN w
  ELSE IF w.library = <<>> THEN [w EXCEPT !.st1 = Junk]
  ELSE [w EXCEPT !.st1 = Head(w.library), !.library = Tail(@)]

Shrink(w) == IF w.precise THEN [w EXCEPT !.depth = Decrement(@)] ELSE w

Pop(w) ==
  IF w.precise /\ w.depth < 2 THEN Shrink(PopIntoST1(w))
  ELSE Shrink(PopIntoST1([w EXCEPT !.st0 = w.st1]))

Peek(w, i) == IF i - 1 \in DOMAIN w.library THEN w.library[i - 1] ELSE Junk

Poke(w, i, v) ==
  IF i - 1 \in DOMAIN w.library THEN [w EXCEPT !.library[i - 1] = v] ELSE w

ReadSlot(w, i) == CASE i = 0 -> w.st0 [] i = 1 -> w.st1 [] OTHER -> Peek(w, i)

Ordered(st0First, st0, other) == IF st0First THEN Arith(st0, other) ELSE Arith(other, st0)

---------------------------------------------------------------------------
(* Lowering, one operator per kind: the window after it and what it gives    *)
(* to memory or to the flags.  m is the memory operand.                      *)
Lowered(w, out) == [window |-> w, out |-> out]

LowerPush(spec, w, m) ==
  Lowered(Push(w, IF spec.slot = Memory THEN m ELSE ReadSlot(w, spec.slot)), <<>>)

LowerPopStore(w) == Lowered(Pop(w), <<w.st0>>)

LowerPopSlot(spec, w) ==
  CASE spec.slot = 0 -> Lowered(Pop(w), <<>>)
    [] spec.slot = 1 -> Lowered(Shrink(PopIntoST1(w)), <<>>)
    [] OTHER         -> Lowered(Pop(Poke(w, spec.slot, w.st0)), <<>>)

LowerStoreSlot(spec, w) ==
  CASE spec.slot = 0 -> Lowered(w, <<>>)
    [] spec.slot = 1 -> Lowered([w EXCEPT !.st1 = w.st0], <<>>)
    [] OTHER         -> Lowered(Poke(w, spec.slot, w.st0), <<>>)

LowerPopArith(spec, w) ==
  IF spec.kind = "PopArith"
    THEN Lowered(Shrink(PopIntoST1([w EXCEPT !.st0 = Ordered(spec.st0First, w.st0, w.st1)])), <<>>)
    ELSE Lowered(Pop(Poke(w, spec.slot, Ordered(spec.st0First, w.st0, Peek(w, spec.slot)))), <<>>)

LowerRegArith(spec, w) ==
  Lowered([w EXCEPT !.st0 = Ordered(spec.st0First, w.st0, ReadSlot(w, spec.slot))], <<>>)

LowerMemArith(spec, w, m) == Lowered([w EXCEPT !.st0 = Ordered(spec.st0First, w.st0, m)], <<>>)

LowerUnary(w) == Lowered([w EXCEPT !.st0 = Unary(w.st0)], <<>>)

LowerCompare(spec, w) ==
  Lowered(IF spec.pops THEN Pop(w) ELSE w, <<w.st0, ReadSlot(w, spec.slot)>>)

LowerFxch(spec, w) ==
  CASE spec.slot = 0 -> Lowered(w, <<>>)
    [] spec.slot = 1 -> Lowered([w EXCEPT !.st0 = w.st1, !.st1 = w.st0], <<>>)
    [] OTHER         -> Lowered([Poke(w, spec.slot, w.st0) EXCEPT !.st0 = Peek(w, spec.slot)], <<>>)

\* The environment instructions leave the values alone; FPREM replaces ST0.
LowerLibrary(spec, w) ==
  IF spec.kind = "Remainder" THEN LowerRegArith(spec, w) ELSE Lowered(w, <<>>)

LowerWindow(spec, w, m) ==
  CASE spec.kind = "Push"      -> LowerPush(spec, w, m)
    [] spec.kind = "PopStore"  -> LowerPopStore(w)
    [] spec.kind = "PopSlot"   -> LowerPopSlot(spec, w)
    [] spec.kind = "StoreSlot" -> LowerStoreSlot(spec, w)
    [] spec.kind \in {"PopArith", "PopArithSlot"} -> LowerPopArith(spec, w)
    [] spec.kind = "RegArith"  -> LowerRegArith(spec, w)
    [] spec.kind = "MemArith"  -> LowerMemArith(spec, w, m)
    [] spec.kind = "Unary"     -> LowerUnary(w)
    [] spec.kind = "Compare"   -> LowerCompare(spec, w)
    [] spec.kind = "Fxch"      -> LowerFxch(spec, w)
    [] spec.kind \in {"Library", "Remainder"} -> LowerLibrary(spec, w)

---------------------------------------------------------------------------
(* The depth analysis.  A call is no x87 instruction and counts as nothing.  *)
Touches(ins) == ins.name \notin {"CALL", "CALLF"}

Uncounted(ins) == Touches(ins) /\ Classify(ins).kind \in {"Raw", "Library", "Remainder"}

Change(ins) ==
  CASE ~Touches(ins)                -> 0
    [] Classify(ins).kind = "Push"  -> 1
    [] Classify(ins).pops           -> -1
    [] OTHER                        -> 0

RECURSIVE BlockDelta(_)
BlockDelta(code) == IF code = <<>> THEN 0 ELSE Change(Head(code)) + BlockDelta(Tail(code))

RECURSIVE ReachableFrom(_, _)
ReachableFrom(f, seen) ==
  LET more == seen \cup UNION {f.next[b] : b \in seen}
  IN IF more = seen THEN seen ELSE ReachableFrom(f, more)

\* Bug: a join takes the depth of one of its predecessors.
DepthsFromAny(f, reach) ==
  {d \in [reach -> 0..MaxStack] :
     /\ d[f.entry] = 0
     /\ \A n \in reach \ {f.entry} :
          \E b \in reach : n \in f.next[b] /\ d[n] = d[b] + BlockDelta(f.code[b])}

\* One depth for each block: 0 at the entry, equal along every edge, never negative.
DepthsFrom(f, reach) ==
  {d \in [reach -> 0..MaxStack] :
     /\ d[f.entry] = 0
     /\ \A b \in reach : LET exit == d[b] + BlockDelta(f.code[b])
                         IN /\ exit >= 0
                            /\ \A n \in f.next[b] : d[n] = exit}

\* computeX87BlockDepths: the depths, or {} where the function falls back.
BlockDepths(f) ==
  LET reach == ReachableFrom(f, {f.entry})
  IN IF \/ f.pointer # 8
        \/ \E b \in reach : b \in f.unknown \/ \E i \in DOMAIN f.code[b] : Uncounted(f.code[b][i])
       THEN {} ELSE DepthsFrom(f, reach)

EnterBlock(f, b, w) ==
  LET found == BlockDepths(f)
  IN IF found = {} THEN [w EXCEPT !.precise = FALSE, !.depth = 0]
     ELSE [w EXCEPT !.precise = TRUE, !.depth = (CHOOSE d \in found : TRUE)[b]]

---------------------------------------------------------------------------
(* The x87 stack as the processor keeps it.                                  *)
Reads(ins) ==
  CASE ins.name \in {"FILD", "FLDZ"} -> {}
    [] ins.name \in {"FNSTCW", "FLDCW", "FNSTENV", "FLDENV", "CALL", "CALLF"} -> {}
    [] ins.name = "FLD"   -> {ins.slot} \ {Memory}
    [] ins.name = "FSTP"  -> {0}
    [] ins.name = "FPREM" -> {0, 1}
    [] OTHER              -> {0, ins.slot} \ {Memory}

\* The slots an instruction writes without reading them must exist as well.
Valid(ins, s) ==
  /\ \A i \in Reads(ins) : i < Len(s)
  /\ ins.name \in {"FST", "FSTP"} /\ ins.slot # Memory => ins.slot < Len(s)
  /\ ins.name \in {"FLD", "FILD", "FLDZ"} => Len(s) < MaxStack

OnStack(ins, s, m) ==
  LET at(i) == IF i = Memory THEN m ELSE s[i + 1]
      set(i, v) == [s EXCEPT ![i + 1] = v]
  IN CASE ins.name \in {"FLD", "FILD", "FLDZ"} -> [stack |-> <<at(ins.slot)>> \o s, out |-> <<>>]
       [] ins.name = "FSTP" /\ ins.slot = Memory -> [stack |-> Tail(s), out |-> <<s[1]>>]
       [] ins.name = "FSTP"    -> [stack |-> Tail(set(ins.slot, s[1])), out |-> <<>>]
       [] ins.name = "FST"     -> [stack |-> set(ins.slot, s[1]), out |-> <<>>]
       [] ins.name = "FXCH"    -> [stack |-> [set(0, at(ins.slot)) EXCEPT ![ins.slot + 1] = s[1]], out |-> <<>>]
       [] ins.name = "FCHS"    -> [stack |-> set(0, Unary(s[1])), out |-> <<>>]
       [] ins.name = "FCOMI"   -> [stack |-> s, out |-> <<s[1], at(ins.slot)>>]
       [] ins.name = "FCOMIP"  -> [stack |-> Tail(s), out |-> <<s[1], at(ins.slot)>>]
       [] ins.name = "FPREM"   -> [stack |-> set(0, Arith(s[1], s[2])), out |-> <<>>]
       [] ins.name = "FSUB"    -> [stack |-> set(0, Arith(s[1], at(ins.slot))), out |-> <<>>]
       [] ins.name = "FSUBR"   -> [stack |-> set(0, Arith(at(ins.slot), s[1])), out |-> <<>>]
       [] ins.name = "FSUBP"   -> [stack |-> Tail(set(ins.slot, Arith(at(ins.slot), s[1]))), out |-> <<>>]
       [] ins.name = "FSUBRP"  -> [stack |-> Tail(set(ins.slot, Arith(s[1], at(ins.slot)))), out |-> <<>>]
       [] OTHER                -> [stack |-> s, out |-> <<>>]

---------------------------------------------------------------------------
Finished == 0

Slot(s, i) == IF i < Len(s) THEN s[i + 1] ELSE Junk

Init ==
  /\ fun \in X87Functions
  /\ block = fun.entry
  /\ pc = 1
  /\ stack = fun.incoming
  /\ window = EnterBlock(fun, fun.entry,
                [st0 |-> Slot(stack, 0), st1 |-> Slot(stack, 1),
                 library |-> SubSeq(stack, 3, Len(stack)), precise |-> FALSE, depth |-> 0])
  /\ stored = <<<<>>, <<>>>>
  /\ tracked = TRUE

Running == block # Finished /\ pc <= Len(fun.code[block])

Current == fun.code[block][pc]

Execute(m) ==
  LET spec == Classify(Current)
      low  == LowerWindow(spec, window, m)
      real == OnStack(Current, stack, m)
  IN /\ Running /\ Touches(Current) /\ spec # Unclassified
     /\ Valid(Current, stack)
     /\ stack' = real.stack /\ window' = low.window
     /\ stored' = <<real.out, low.out>>
     /\ pc' = pc + 1
     /\ UNCHANGED <<fun, block, tracked>>

\* A stack fault, or p-code left on registers the window does not know.
Lose ==
  /\ Running /\ Touches(Current)
  /\ Classify(Current) = Unclassified \/ ~Valid(Current, stack)
  /\ tracked' = FALSE /\ block' = Finished
  /\ UNCHANGED <<fun, pc, stack, window, stored>>

\* A call finds the stack empty.  A callee with a known depth leaves its temporaries
\* in the window; one that fell back moves the old window into the library.
CalleeWindows(w, v) ==
  {[w EXCEPT !.st0 = v, !.st1 = t] : t \in {w.st0, w.st1, Junk}}
  \cup {[w EXCEPT !.st0 = v, !.st1 = w.st0, !.library = <<w.st1>> \o @]}

Call ==
  /\ Running /\ ~Touches(Current)
  /\ stack = <<>>
  /\ IF Current.name = "CALLF"
       THEN \E v \in Values : stack' = <<v>> /\ window' \in CalleeWindows(window, v)
       ELSE stack' = <<>> /\ \E t \in {window.st0, Junk} : window' = [window EXCEPT !.st0 = t]
  /\ stored' = <<<<>>, <<>>>>
  /\ pc' = pc + 1
  /\ UNCHANGED <<fun, block, tracked>>

LeaveBlock ==
  /\ block # Finished /\ pc > Len(fun.code[block])
  /\ \E n \in fun.next[block] :
       /\ block' = n /\ pc' = 1
       /\ window' = EnterBlock(fun, n, window)
  /\ UNCHANGED <<fun, stack, stored, tracked>>

Return ==
  /\ block # Finished /\ pc > Len(fun.code[block]) /\ fun.next[block] = {}
  /\ block' = Finished
  /\ UNCHANGED <<fun, pc, stack, window, stored, tracked>>

Next == (\E m \in Values : Execute(m)) \/ Lose \/ Call \/ LeaveBlock \/ Return

X87Spec == Init /\ [][Next]_vars

---------------------------------------------------------------------------
Contents == <<window.st0, window.st1>> \o window.library

\* The window and the library hold the x87 stack slot by slot, and what an
\* instruction stores or compares is what the processor stores or compares, on
\* every path of a function, whatever lies below the stack of a function that
\* fell back: lowerX87Window and x87WindowPush/Pop/peek/poke.
WindowHoldsStack ==
  tracked => /\ stored[1] = stored[2]
             /\ \A i \in DOMAIN stack : i \in DOMAIN Contents /\ Contents[i] = stack[i]

\* Where the depth is known it is the depth of the x87 stack, and the library
\* holds what exceeds the window and nothing else (for functions that combine no
\* value returned in ST0 with others): computeX87BlockDepths.
DepthIsExact ==
  tracked /\ window.precise => /\ window.depth = Len(stack)
                               /\ Len(window.library) = IF window.depth > 2 THEN window.depth - 2 ELSE 0
=============================================================================
