---------------------------- MODULE PcodeBlocks ----------------------------
(* The control flow PcodeLowerer gives a function: LLVM blocks cut out of the *)
(* p-code by the native block ranges and by branches inside an instruction,   *)
(* edges taken from p-code targets and from the native successor facts, and   *)
(* the visibility of the temporaries ("uniques") that cross those blocks.     *)
EXTENDS Integers, Sequences, FiniteSets

LOCAL INSTANCE FiniteSetsExt
LOCAL INSTANCE SequencesExt

(* A function p: ops, a sequence of [addr, kind, ram, rel, def, use, const]:  *)
(* kind "plain", "branch", "cbranch", "ind" or "return", or one about a       *)
(* register with a function pointer: "slot" loads it from a GOT slot, "set"   *)
(* and "part" write all or a part of it, "callind" calls it; the target is    *)
(* address ram, or rel operations away if ram is 0; def and use are uniques   *)
(* ("" for none) and const says that def is set to a constant.  ranges maps a *)
(* native block to its end, succ to its successor facts; entry is its entry.  *)
Leave == 0          \* out of the function: a return or a tail call
Error == -1         \* the lowering rejects the function
Empty(a) == 1000 + a  \* the block of a native range without p-code

Terminators == {"branch", "cbranch", "ind", "return"}

Ops(p) == DOMAIN p.ops

RangeOf(p, a) ==
  LET around == {s \in DOMAIN p.ranges : s <= a /\ a < p.ranges[s]}
  IN IF around = {} THEN 0 ELSE Min(around)

Covers(p, a) == RangeOf(p, a) # 0

Sharing(p, i, j) == RangeOf(p, p.ops[i].addr) = RangeOf(p, p.ops[j].addr)

FirstOp(p, a) ==
  LET at == {i \in Ops(p) : p.ops[i].addr = a} IN IF at = {} THEN 0 ELSE Min(at)

RelativeTarget(p, i) ==
  LET t == i + p.ops[i].rel IN IF p.ops[i].ram = 0 /\ t \in Ops(p) THEN t ELSE 0

---------------------------------------------------------------------------
(* Blocks are named by their first operation.                                *)
OpsIn(p, s) == {i \in Ops(p) : s <= p.ops[i].addr /\ p.ops[i].addr < p.ranges[s]}

NativeStarts(p) == {Min(OpsIn(p, s)) : s \in {r \in DOMAIN p.ranges : OpsIn(p, r) # {}}}

EmptyRanges(p) == {s \in DOMAIN p.ranges : OpsIn(p, s) = {}}

\* Where p-code control flow cuts a native block: behind a terminator and at a branch target.
CutsAt(p, i) ==
  LET op == p.ops[i]
      target == IF op.ram # 0 THEN FirstOp(p, op.ram) ELSE RelativeTarget(p, i)
  IN {j \in {i + 1} \cup (IF op.kind \in {"branch", "cbranch"} THEN {target} ELSE {}) :
        j \in Ops(p) /\ Sharing(p, i, j)}

InternalStarts(p) ==
  (UNION {CutsAt(p, i) : i \in {j \in Ops(p) : p.ops[j].kind \in Terminators /\ Covers(p, p.ops[j].addr)}})
    \ NativeStarts(p)

Starts(p) == NativeStarts(p) \cup InternalStarts(p)

Parent(p, b) == RangeOf(p, p.ops[b].addr)

BlockAddress(p, b) == IF b \in InternalStarts(p) THEN p.ops[b].addr ELSE Parent(p, b)

\* The block ends at the next start of its native block, or with the native block.
BlockEnd(p, b) ==
  Min({e \in b + 1 .. Len(p.ops) + 1 :
         \/ e = Len(p.ops) + 1
         \/ e \in Starts(p) /\ Sharing(p, e, b)
         \/ ~Sharing(p, e, b)})

BlockOf(p, i) == Max({b \in Starts(p) : b <= i})

NextBlock(p, b) ==
  LET later == {c \in Starts(p) : c > b} IN IF later = {} THEN Leave ELSE Min(later)

\* blockForNativeTarget: the first block of that address, or an error.
BlockForAddress(p, a) ==
  LET at == {b \in Starts(p) : BlockAddress(p, b) = a}
  IN CASE at # {}               -> Min(at)
       [] a \in EmptyRanges(p) -> Empty(a)
       [] OTHER                 -> Error

---------------------------------------------------------------------------
(* Native successor facts: those of the block, else those of its parent.     *)
NoFacts == {Error}

Facts(p, b) ==
  CASE BlockAddress(p, b) \in DOMAIN p.succ -> p.succ[BlockAddress(p, b)]
    [] Parent(p, b) \in DOMAIN p.succ       -> p.succ[Parent(p, b)]
    [] OTHER                                -> NoFacts

OwnFacts(p, b) == IF BlockAddress(p, b) \in DOMAIN p.succ THEN p.succ[BlockAddress(p, b)] ELSE NoFacts

OnlyTarget(p, facts) ==
  CASE facts = {}             -> Leave
    [] Cardinality(facts) > 1 -> Error
    [] OTHER                  -> BlockForAddress(p, CHOOSE a \in facts : TRUE)

\* A block without terminator: an internal one runs into the next block.
Fallthrough(p, b) ==
  IF b \in InternalStarts(p) THEN NextBlock(p, b) ELSE OnlyTarget(p, OwnFacts(p, b))

EmptySuccessor(p, a) ==
  IF a \in DOMAIN p.succ THEN OnlyTarget(p, p.succ[a]) ELSE Error

InternalTarget(p, b, t) == t \in InternalStarts(p) /\ Parent(p, t) = Parent(p, b)

\* nativeDirectBranchTarget: a target outside the native block needs a fact.
Checked(p, b, a, t) ==
  IF InternalTarget(p, b, t) \/ (BlockForAddress(p, a) = t /\ a \in Facts(p, b)) THEN t ELSE Error

DirectBlock(p, b, i) ==
  LET a == p.ops[i].ram
      t == BlockForAddress(p, a)
  IN IF t # Error THEN Checked(p, b, a, t) ELSE IF Covers(p, a) THEN Error ELSE Leave

RelativeBlock(p, b, i) ==
  LET t == RelativeTarget(p, i)
  IN IF t = 0 \/ t \notin Starts(p) THEN Error
     ELSE IF BlockAddress(p, t) # p.ops[t].addr THEN Error
     ELSE Checked(p, b, p.ops[t].addr, t)

\* For a conditional branch a target outside the ranges needs no fact.
TakenBlock(p, b, i) ==
  IF p.ops[i].ram # 0 THEN DirectBlock(p, b, i) ELSE RelativeBlock(p, b, i)

TakenAddress(p, i) ==
  IF p.ops[i].ram # 0 THEN p.ops[i].ram ELSE p.ops[RelativeTarget(p, i)].addr

\* The false edge stays inside the native block if p-code follows there.
InternalContinuation(p, i) == i + 1 \in Starts(p) /\ Sharing(p, i, i + 1)

\* Bug: the operation behind the branch is the false edge whatever block it is in.
FalseIsNext(p, b, i) == IF i + 1 \in Starts(p) THEN i + 1 ELSE Error

FalseBlock(p, b, i) ==
  LET taken == TakenAddress(p, i)
      rest  == Facts(p, b) \ {taken}
  IN CASE InternalContinuation(p, i) -> i + 1
       [] OTHER ->
            IF \/ Facts(p, b) = NoFacts
               \/ Covers(p, taken) /\ taken \notin Facts(p, b)
               \/ Cardinality(rest) # 1
              THEN Error ELSE OnlyTarget(p, rest)

LastOp(p, b) == BlockEnd(p, b) - 1

SwitchBlocks(p, b) == {BlockForAddress(p, a) : a \in Facts(p, b) \ NoFacts}

\* The edges out of block b by the operation i that ends it, or by its end.
LastEdges(p, b, i) ==
  CASE p.ops[i].kind = "branch"  -> <<IF p.ops[i].ram # 0 THEN DirectBlock(p, b, i) ELSE RelativeBlock(p, b, i)>>
    [] p.ops[i].kind = "cbranch" -> <<TakenBlock(p, b, i), FalseBlock(p, b, i)>>
    [] p.ops[i].kind = "return"  -> <<Leave>>
    [] p.ops[i].kind = "ind"     -> <<>>
    [] OTHER                     -> <<Fallthrough(p, b)>>

\* All edges, as pairs of a block and its edges in order.
Edges(p) == {<<b, LastEdges(p, b, LastOp(p, b))>> : b \in Starts(p)}

\* The successor relation, with the targets of the switches.
Successors(p, edges) ==
  UNION {{e[1]} \X (ToSet(e[2]) \cup (IF p.ops[LastOp(p, e[1])].kind = "ind" THEN SwitchBlocks(p, e[1]) ELSE {})) :
           e \in edges}

\* The lowering accepts the function with these successors.
Accepted(p, succ) ==
  /\ \A i \in Ops(p) : Covers(p, p.ops[i].addr)
  /\ \A e \in succ : e[2] # Error
  /\ \A b \in Starts(p) : p.ops[LastOp(p, b)].kind = "ind" => Facts(p, b) # NoFacts
  /\ \A a \in EmptyRanges(p) : EmptySuccessor(p, a) # Error

Lowered(p) == Accepted(p, Successors(p, Edges(p)))

EntryBlock(p) == BlockForAddress(p, RangeOf(p, p.entry))

---------------------------------------------------------------------------
(* Values.  Blocks are lowered in order, so a read sees the edges of the     *)
(* blocks before its own; Outside is the LLVM entry block.                   *)
Outside == 0

SeenPreds(p, succ, b) ==
  {e[1] : e \in {x \in succ : x[2] = b /\ x[1] < b}} \cup (IF b = EntryBlock(p) THEN {Outside} ELSE {})

\* Blocks that every path from the entry to b goes through, over the edges seen at s.
Dominates(p, succ, d, b, s) ==
  LET step(S) == S \cup {e[2] : e \in {x \in succ : x[1] < s /\ x[1] \in S}}
      reach[n \in Nat] == IF n = 0 THEN {EntryBlock(p)} \ {d} ELSE step(reach[n - 1]) \ {d}
  IN b = d \/ b \notin reach[Cardinality(succ)]

\* The definition the value cache holds for a read at i: the last one in the
\* order of the operations, as far back as the last native block start.
CachedDef(p, i) ==
  LET from == Max({b \in NativeStarts(p) : b <= i})
      defs == {d \in from .. i - 1 : p.ops[d].def # "" /\ p.ops[d].def = p.ops[i].use}
  IN IF defs = {} THEN 0 ELSE Max(defs)

\* Bug: a read behind a join takes the value of the definition on every path.
ReadModeAlwaysSame(p, succ, b, d, preds) == IF d = 0 THEN "unknown" ELSE "same"

\* visibleCachedValue: how a read in block b gets the value of definition d:
\* "unknown", "same" (the value of the definition) or "join" (a PHI over the
\* predecessors seen so far).
ReadMode(p, succ, b, d, preds) ==
  CASE d = 0                                                       -> "unknown"
    [] p.ops[d].const \/ BlockOf(p, d) = b                         -> "same"
    [] BlockOf(p, d) \notin preds /\ Dominates(p, succ, BlockOf(p, d), b, b) -> "same"
    [] BlockOf(p, d) \in preds /\ Cardinality(preds) = 1           -> "same"
    [] preds = {}                                                  -> "unknown"
    [] OTHER                                                       -> "join"

\* The predecessors on whose edge the PHI of a read carries the value.
CarryingPreds(p, succ, b, d, preds) ==
  {c \in preds : \/ c = BlockOf(p, d)
                 \/ BlockOf(p, d) \notin preds /\ c # Outside /\ Dominates(p, succ, BlockOf(p, d), c, b)}

Read(p, succ, b, d, preds) ==
  [mode     |-> ReadMode(p, succ, b, d, preds),
   cached   |-> d,
   preds    |-> preds,
   carrying |-> IF d = 0 THEN {} ELSE CarryingPreds(p, succ, b, d, preds)]

---------------------------------------------------------------------------
(* SourceRamByVarnode: the slot a register was loaded from, kept over blocks *)
(* and only forgotten when exactly that register is written.                 *)
LoadedFromSlot(p, i) ==
  LET known == {j \in 1 .. i - 1 : p.ops[j].kind \in {"slot", "set"}}
  IN known # {} /\ p.ops[Max(known)].kind = "slot"

---------------------------------------------------------------------------
\* The code an accepted function is lowered to: the block of an operation and
\* its edges if it is the last one, whether it calls the external of the slot, and
\* how a read gets its value.
OpCode(p, edges, succ, i, b) ==
  [block  |-> b,
   last   |-> i = LastOp(p, b),
   edges  |-> (CHOOSE e \in edges : e[1] = b)[2],
   known  |-> p.ops[i].kind = "callind" /\ LoadedFromSlot(p, i),
   switch |-> [a \in Facts(p, b) |-> BlockForAddress(p, a)],
   read   |-> Read(p, succ, b, CachedDef(p, i), SeenPreds(p, succ, b))]

Code(p, edges, succ) == [i \in Ops(p) |-> OpCode(p, edges, succ, i, BlockOf(p, i))]

\* Where it starts, and what the blocks without p-code lead to.
LoweredFunction(p, edges) ==
  [code |-> Code(p, edges, Successors(p, edges)), first |-> EntryBlock(p),
   empty |-> [a \in EmptyRanges(p) |-> EmptySuccessor(p, a)]]
=============================================================================
