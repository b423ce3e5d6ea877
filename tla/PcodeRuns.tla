----------------------------- MODULE PcodeRuns -----------------------------
(* A p-code function and the LLVM function it is lowered to, executed side by *)
(* side.                                                                     *)
EXTENDS PcodeBlocks

CONSTANTS PcodeFunctions, Uniques

Undefined == -5
Unknown == -6        \* notdec.unknown
Invalid == -7        \* a PHI without an entry for the edge taken

VARIABLES fun, pc,   \* the function, and the operation p-code executes next
          lowering,  \* what PcodeLowerer makes of the function
          where,     \* the operation the lowered code executes next
          came,      \* the LLVM block it came from
          uniq,      \* p-code: the value of each unique
          result,    \* LLVM: the value each definition computed last
          seen,      \* the unique read last, on both sides
          pointer    \* p-code: what the pointer register holds, "slot" or "other"

vars == <<fun, pc, lowering, where, came, uniq, result, seen, pointer>>

\* The first operation at or behind an address; an instruction may have none.
RECURSIVE From(_, _)
From(q, a) ==
  CASE ~Covers(q, a)      -> Leave
    [] FirstOp(q, a) # 0  -> FirstOp(q, a)
    [] OTHER              -> From(q, a + 1)

After(q, i) ==
  IF i + 1 \in Ops(q) /\ q.ops[i + 1].addr = q.ops[i].addr THEN i + 1 ELSE From(q, q.ops[i].addr + 1)

Target(q, i) == IF q.ops[i].ram # 0 THEN From(q, q.ops[i].ram) ELSE RelativeTarget(q, i)

PcodeNext(q, i, taken, a) ==
  CASE q.ops[i].kind = "branch"  -> Target(q, i)
    [] q.ops[i].kind = "cbranch" -> IF taken THEN Target(q, i) ELSE After(q, i)
    [] q.ops[i].kind = "return"  -> Leave
    [] q.ops[i].kind = "ind"     -> From(q, a)
    [] OTHER                     -> After(q, i)

\* Blocks without p-code only branch on.
RECURSIVE Through(_, _)
Through(empty, t) == IF t > 1000 THEN Through(empty, empty[t - 1000]) ELSE t

LoweredNext(q, i, taken, a) ==
  CASE ~lowering.code[i].last  -> i + 1
    [] q.ops[i].kind = "ind"     -> Through(lowering.empty, lowering.code[i].switch[a])
    [] q.ops[i].kind = "cbranch" -> Through(lowering.empty, lowering.code[i].edges[IF taken THEN 1 ELSE 2])
    [] OTHER                     -> Through(lowering.empty, lowering.code[i].edges[1])

ReadValue(read, from, values) ==
  CASE read.mode = "unknown"    -> Unknown
    [] read.mode = "same"       -> values[read.cached]
    [] from \notin read.preds   -> Invalid
    [] from \in read.carrying   -> values[read.cached]
    [] OTHER                    -> Unknown

Init ==
  /\ fun \in PcodeFunctions /\ Lowered(fun)
  /\ lowering = LoweredFunction(fun, Edges(fun))
  /\ pc = From(fun, fun.entry)
  /\ where = Through(lowering.empty, lowering.first)
  /\ came = Outside
  /\ uniq = [u \in Uniques |-> Undefined]
  /\ result = [i \in Ops(fun) |-> IF fun.ops[i].const THEN 10 + i ELSE Undefined]
  /\ seen = <<Undefined, Undefined>>
  /\ pointer = "other"

Step(taken, a, v) ==
  LET op == fun.ops[pc]
      value == IF op.const THEN 10 + pc ELSE v
  IN /\ pc \in Ops(fun) /\ where = pc
     /\ pc' = PcodeNext(fun, pc, taken, a)
     /\ where' = LoweredNext(fun, pc, taken, a)
     /\ came' = IF lowering.code[pc].last THEN lowering.code[pc].block ELSE came
     /\ uniq' = IF op.def = "" THEN uniq ELSE [uniq EXCEPT ![op.def] = value]
     /\ result' = IF op.def = "" THEN result ELSE [result EXCEPT ![pc] = value]
     /\ seen' = IF op.use = "" THEN <<Undefined, Undefined>>
                ELSE <<uniq[op.use], ReadValue(lowering.code[pc].read, came, result)>>
     /\ pointer' = CASE op.kind = "slot"            -> "slot"
                     [] op.kind \in {"set", "part"} -> "other"
                     [] OTHER                       -> pointer
     /\ UNCHANGED <<fun, lowering>>

Jumps(i) == IF fun.ops[i].kind = "ind" THEN DOMAIN lowering.code[i].switch ELSE {0}

Taken(i) == IF fun.ops[i].kind = "cbranch" THEN BOOLEAN ELSE {FALSE}

Results(i) == IF fun.ops[i].def # "" /\ ~fun.ops[i].const THEN {0, 1} ELSE {0}

Next ==
  /\ pc \in Ops(fun)
  /\ \E taken \in Taken(pc), a \in Jumps(pc), v \in Results(pc) : Step(taken, a, v)

PcodeSpec == Init /\ [][Next]_vars

\* The lowered function executes the operations p-code executes, in the same
\* order, and leaves when it leaves: block starts, block ends, targets, false
\* edges and empty blocks of buildBasicBlocks and lowerTerminator.
SamePlace == pc = where

\* A temporary read behind a branch inside an instruction has the value p-code
\* gives it on that path, or is unknown, but never has the value of another path
\* or iteration (for functions that set no temporary to a constant and again to
\* something else): visibleCachedValue.
UniquesAgree == seen[1] # Undefined => seen[2] \in {seen[1], Unknown}

\* An indirect call becomes a call of the external of a GOT slot only if its
\* pointer was loaded from that slot (comment at
\* PcodeLoweringConfig::IndirectExternalCallTargets).
SlotCallsLoadedSlot == pc \in Ops(fun) /\ lowering.code[pc].known => pointer = "slot"
=============================================================================
