---------------------------- MODULE StackFrames ----------------------------
(***************************************************************************)
(* NativeStackAddress.cpp and NativeStackFrame.cpp: where the stack        *)
(* pointer is at every instruction, and the accesses below its entry value *)
(* moved to one local array per function, the native frame.                *)
(*                                                                         *)
(* Memory in lifted code: "inttoptr" and "ptrtoint", "memload" and         *)
(* "memstore" (value, pointer), "alloca" for the native frame, "gep" with  *)
(* its constant offset in lo, "pass" for a call given an address, "keep"   *)
(* for the marker that keeps a frame address-taken.  A byte is bits / size *)
(* of an access; sizes are in lo.  SP and FP are the stack and the frame   *)
(* pointer register.  Values of the SSA pass that stand for the stack      *)
(* pointer (isSummaryStackPointerValue) are left out: their addresses are  *)
(* relative, and only entry addresses are rewritten.                       *)
(***************************************************************************)
EXTENDS LiftedCode

CONSTANTS AddressBits    \* the width of an address

StackPointer == "SP"
FramePointer == "FP"

-----------------------------------------------------------------------------
(* Stack addresses *)

Address(kind, base, off) == [kind |-> kind, base |-> base, off |-> off]
NoAddress == Address("none", 0, 0)
Unreached == Address("unreached", 0, 0)
Offsets == -(2^(AddressBits - 1)) .. 2^(AddressBits - 1) - 1

(* nativeStackAddressWithOffset: no address rather than a wrapped one.     *)
WithOffset(address, n) ==
    IF address.kind \in {"none", "unreached"} \/ address.off + n \notin Offsets THEN NoAddress
    ELSE [address EXCEPT !.off = @ + n]

SignedConstant(operand) == Signed(operand.n, AddressBits)
IsStackAlignmentMask(operand) ==
    /\ operand.kind = "constant"
    /\ \E k \in 1 .. AddressBits - 1 : SignedConstant(operand) = -(2^k)

(* The operands an add or sub may be an offset of, with the offset;        *)
(* subtractionOffset has no result for the least number.                   *)
Displacements(ins) ==
    LET constant(k) == ins.args[k].kind = "constant"
        n(k) == SignedConstant(ins.args[k])
    IN  {d \in {[of |-> ins.args[1], by |-> IF ins.op = "add" THEN n(2) ELSE -n(2)]} :
            constant(2) /\ (ins.op = "add" \/ n(2) # -(2^(AddressBits - 1)))}
        \cup {d \in {[of |-> ins.args[2], by |-> n(1)]} : ins.op = "add" /\ constant(1)}

\* What the address of a value is an offset of.
FrameSources(ins) ==
    CASE ins.op = "gep" -> {[of |-> ins.args[1], by |-> ins.lo]}
      [] ins.op \in {"inttoptr", "ptrtoint"} -> {[of |-> ins.args[1], by |-> 0]}
      [] ins.op \in {"add", "sub"} -> Displacements(ins)
      [] OTHER -> {}

(* nativeFramePointerAddress, nativeFrameIntegerAddress                    *)
RECURSIVE FrameAddress(_, _)
FrameAddress(fn, operand) ==
    LET ins == DefOf(fn, operand)
        from(source) == WithOffset(FrameAddress(fn, source.of), source.by)
    IN  IF ins.op = "alloca" THEN Address("frame", ins.id, 0)
        ELSE IF FrameSources(ins) = {} THEN NoAddress
        ELSE from(CHOOSE source \in FrameSources(ins) : TRUE)

IntegerSources(ins, operand) ==
    LET incoming == ToSet(ins.args) \ {operand}
    IN  CASE ins.op = "phi" -> {[of |-> o, by |-> 0] : o \in {o \in incoming : incoming = {o}}}
          [] ins.op = "and" -> {[of |-> ins.args[k], by |-> 0] :
                                  k \in {k \in 1 .. 2 : IsStackAlignmentMask(ins.args[3 - k])}}
          [] ins.op \in {"add", "sub"} -> Displacements(ins)
          [] OTHER -> {}

(* addressForInteger; `before` is the stack pointer before each            *)
(* instruction.  An aligned address is the base of addresses of its own.   *)
RECURSIVE AddressForInteger(_, _, _)
AddressForInteger(fn, before, operand) ==
    LET ins == DefOf(fn, operand)
        sources == IntegerSources(ins, operand)
        derived(base, by) ==
            IF ins.op # "and" THEN WithOffset(base, by)
            ELSE IF base.kind \in {"none", "frame"} THEN NoAddress
            ELSE Address("relative", ins.id, 0)
        from(source) == derived(AddressForInteger(fn, before, source.of), source.by)
    IN  CASE ins.op = "load" /\ ins.reg = StackPointer -> WithOffset(before[ins.id], 0)
          [] ins.op = "ptrtoint" -> FrameAddress(fn, ins.args[1])
          [] sources # {} -> from(CHOOSE source \in sources : TRUE)
          [] OTHER -> NoAddress

(* addressForPointer                                                       *)
AddressForPointer(fn, before, operand) ==
    LET frame == FrameAddress(fn, operand)
        ins == DefOf(fn, operand)
    IN  IF frame # NoAddress THEN frame
        ELSE IF ins.op = "inttoptr" THEN AddressForInteger(fn, before, ins.args[1])
        ELSE NoAddress

\* A cast to a pointer is asked for as a pointer, all else as an integer.
AddressOf(fn, before, ins) ==
    IF ins.op = "inttoptr" THEN AddressForPointer(fn, before, V(ins.id))
    ELSE AddressForInteger(fn, before, V(ins.id))

\* Bug: the first predecessor decides.
BlockEntryStateOfFirst(fn, out, b) ==
    LET come == {p \in DOMAIN fn : b \in Successors(fn[p]) /\ out[p] # Unreached}
    IN  IF b = 1 THEN Address("entry", 0, 0)
        ELSE IF come = {} THEN Unreached
        ELSE out[CHOOSE p \in come : \A q \in come : p <= q]

(* blockEntryState: the predecessors reached so far have to agree.         *)
BlockEntryState(fn, out, b) ==
    LET come == {out[p] : p \in {q \in DOMAIN fn : b \in Successors(fn[q])}} \ {Unreached}
    IN  IF b = 1 THEN Address("entry", 0, 0)
        ELSE IF come = {} THEN Unreached
        ELSE IF Cardinality(come) = 1 THEN CHOOSE a \in come : TRUE
        ELSE NoAddress

IsStackPointerStore(ins) == ins.op = "store" /\ ins.reg = StackPointer

(* One block: the state before each instruction, and the state behind it.  *)
PassBlock(fn, facts, b) ==
    LET Step(f, ins) ==
            LET before == [f.before EXCEPT ![ins.id] = f.state]
            IN  [f EXCEPT !.before = before,
                          !.state = IF @ # Unreached /\ IsStackPointerStore(ins)
                                    THEN AddressForInteger(fn, before, ins.args[1]) ELSE @]
        done == FoldLeft(Step, [before |-> facts.before, out |-> facts.out,
                                state |-> BlockEntryState(fn, facts.out, b)], fn[b])
    IN  [before |-> done.before, out |-> [done.out EXCEPT ![b] = done.state]]

PassFunction(fn, facts) ==
    FoldLeft(LAMBDA f, b : PassBlock(fn, f, b), facts, [b \in DOMAIN fn |-> b])

(* Passes until the blocks' results repeat; the last one fills the states  *)
(* before the instructions from them, also when the rounds are used up.    *)
RECURSIVE Iterate(_, _, _)
Iterate(fn, facts, rounds) ==
    LET settled(next) == IF rounds = 0 \/ next.out = facts.out THEN next
                         ELSE Iterate(fn, next, rounds - 1)
    IN  settled(PassFunction(fn, facts))

(* NativeStackAddressAnalysis::build                                       *)
StackAddresses(fn) ==
    Iterate(fn, [before |-> [id \in {ins.id : ins \in Instructions(fn)} |-> NoAddress],
                 out |-> [b \in DOMAIN fn |-> Unreached]],
            4 * Len(fn)).before

-----------------------------------------------------------------------------
(* Loads of the frame pointer *)

RECURSIVE Reach(_, _, _)
Reach(fn, blocks, avoided) ==
    LET more == UNION {Successors(fn[b]) : b \in blocks} \ (blocks \cup avoided)
    IN  IF more = {} THEN blocks ELSE Reach(fn, blocks \cup more, avoided)

DominatesBlock(fn, a, b) == a = b \/ a = 1 \/ b \notin Reach(fn, {1}, {a})
Dominates(fn, p, q) ==
    IF p[1] = q[1] THEN p[2] < q[2] ELSE DominatesBlock(fn, p[1], q[1])

(* valueUsesRegisterLoad                                                   *)
RECURSIVE ValueUsesStackPointer(_, _, _)
ValueUsesStackPointer(fn, operand, depth) ==
    LET ins == DefOf(fn, operand) IN
    /\ depth < 12
    /\ IF ins.op = "load" THEN ins.reg = StackPointer
       ELSE /\ ins.op # "memload"
            /\ \E k \in DOMAIN ins.args : ValueUsesStackPointer(fn, ins.args[k], depth + 1)

FramePointerWrites(fn) ==
    {p \in Places(fn) : LET ins == InstructionAt(fn, p)
                        IN  ins.op \in {"store", "write"} /\ ins.reg = FramePointer}
FramePointerSetters(fn) ==
    {p \in FramePointerWrites(fn) :
        LET ins == InstructionAt(fn, p)
        IN  ins.op = "store" /\ ValueUsesStackPointer(fn, ins.args[1], 0)}

(* The blocks behind a write that is no setter.                            *)
Poisoned(fn) ==
    LET others == {p[1] : p \in FramePointerWrites(fn) \ FramePointerSetters(fn)}
    IN  Reach(fn, UNION {Successors(fn[b]) : b \in others}, {})

(* The frame pointer may have changed since the setter.                    *)
Blocked(fn, p, setter) ==
    LET earlier == {w \in FramePointerWrites(fn) : w[1] = p[1] /\ w[2] < p[2]}
    IN  IF earlier = {} THEN p[1] \in Poisoned(fn)
        ELSE \E w \in earlier : w # setter /\ \A v \in earlier : v[2] <= w[2]

(* replaceFramePointerLoads: where the only write from the stack pointer   *)
(* dominates a load and no other write comes between, the load is the      *)
(* value written.                                                          *)
ReplaceFramePointerLoads(fn) ==
    LET setter == CHOOSE p \in FramePointerSetters(fn) : TRUE
        loads == {p \in Places(fn) :
                    /\ InstructionAt(fn, p).op = "load"
                    /\ InstructionAt(fn, p).reg = FramePointer
                    /\ Dominates(fn, setter, p) /\ ~Blocked(fn, p, setter)}
        ids == {InstructionAt(fn, p).id : p \in loads}
        base == InstructionAt(fn, setter).args[1]
    IN  IF Cardinality(FramePointerSetters(fn)) # 1 THEN fn
        ELSE Without(FoldSet(LAMBDA id, code : ReplaceUses(code, id, base), fn, ids), ids)

-----------------------------------------------------------------------------
(* The native frame *)

ValueOperations ==
    {"add", "sub", "mul", "and", "or", "xor", "shl", "lshr", "ashr", "zext", "sext", "trunc",
     "inttoptr", "ptrtoint", "phi", "select"}

(* The values computed from `ids` by arithmetic, casts, phis and selects.  *)
RECURSIVE Flowing(_, _)
Flowing(fn, ids) ==
    LET more == {u.id : u \in {u \in UNION {Users(fn, id) : id \in ids} :
                                  u.op \in ValueOperations}} \ ids
    IN  IF more = {} THEN ids ELSE Flowing(fn, ids \cup more)

(* valueFeedsStackPointerStore                                             *)
FeedsStackPointer(fn, id) ==
    \E v \in Flowing(fn, {id}) : \E u \in Users(fn, v) : IsStackPointerStore(u)

(* valueFeedsEntryStackInput                                               *)
FeedsEntryStackInput(fn, before, id) ==
    \E v \in Flowing(fn, {id}) : \E u \in Users(fn, v) :
        LET address == AddressOf(fn, before, u)
        IN  address.kind = "entry" /\ address.off >= 0

IsBelowEntry(address) == address.kind = "entry" /\ address.off < 0

PointerOperand(ins) ==
    CASE ins.op = "memload" -> ins.args[1]
      [] ins.op = "memstore" -> ins.args[2]
      [] OTHER -> PoisonOperand

(* A pointer below the entry that is only loaded from and stored to,       *)
(* nothing of it above the entry.                                          *)
IsLocalPointer(fn, before, ins) ==
    LET address == AddressForPointer(fn, before, V(ins.id))
    IN  /\ ins.op = "inttoptr" /\ IsBelowEntry(address) /\ ~Unused(fn, ins.id)
        /\ \A u \in Users(fn, ins.id) : PointerOperand(u) = V(ins.id) /\ u.lo <= -address.off

(* An address below the entry that neither becomes the stack pointer nor   *)
(* is a way to what lies above the entry.                                  *)
IsLocalInteger(fn, before, ins) ==
    /\ ins.op # "inttoptr" /\ IsBelowEntry(AddressForInteger(fn, before, V(ins.id)))
    /\ ~FeedsStackPointer(fn, ins.id)
    /\ ~FeedsEntryStackInput(fn, before, ins.id)

IdsWhere(fn, op) == {ins.id : ins \in {i \in Instructions(fn) : i.op = op}}
LeastOf(numbers) == CHOOSE n \in numbers : \A m \in numbers : n <= m
GreatestId(fn) == LET ids == {ins.id : ins \in Instructions(fn)}
                  IN  CHOOSE n \in ids : \A m \in ids : m <= n

(* functionCanObserveFrame: the helpers are calls too.                     *)
CallOperations ==
    {"call", "fail", "pass", "keep", "read", "write", "extract", "insert", "unknown", "vararg"}

(* The values of the frame, in one cluster behind its allocation.  Frame   *)
(* pointers that are there already are moved into the cluster.             *)
WithCluster(fn, storage, low, pointerOffsets, integerOffsets, top) ==
    LET geps == {g \in Instructions(fn) : g.op = "gep" /\ g.args[1] = V(storage.id)}
        reused == {g \in geps : \A h \in geps : h.lo = g.lo => g.id <= h.id}
        code == Without(fn, {g.id : g \in reused} \cup {storage.id})
        known == {g.lo + low : g \in reused}
        gep(off) == [Ins(top - 2 * off, "gep", 0, <<V(storage.id)>>) EXCEPT !.lo = off - low]
        pointer(off) == IF off \in known THEN (CHOOSE g \in reused : g.lo + low = off).id
                        ELSE top - 2 * off
        integer(off) == Cast(top - 2 * off + 1, "ptrtoint", AddressBits, AddressBits, V(pointer(off)))
        keep == IF /\ \E ins \in Instructions(fn) : ins.op \in CallOperations
                   /\ \A ins \in Instructions(fn) : ins.op = "keep" => V(storage.id) \notin ToSet(ins.args)
                THEN <<Ins(top - 2 * low + 2, "keep", 0, <<V(storage.id)>>)>> ELSE <<>>
    IN  [code EXCEPT ![1] =
            <<storage>> \o keep \o SetToSeq(reused)
            \o SetToSeq({gep(off) : off \in (pointerOffsets \cup integerOffsets) \ known})
            \o SetToSeq({integer(off) : off \in integerOffsets}) \o @]

PointerAt(fn, storage, bytes) ==
    LeastOf({g.id : g \in {i \in Instructions(fn) :
                             i.op = "gep" /\ i.args[1] = V(storage) /\ i.lo = bytes}})

(* The pointers are replaced by those of the cluster, the integers of      *)
(* `used` by the casts behind them.                                        *)
MoveLocals(fn, clustered, storage, top, offset, pointers, used) ==
    LET moved(ins) == IF ins.op = "inttoptr"
                      THEN V(PointerAt(clustered, storage.id, offset[ins] + storage.lo))
                      ELSE V(top - 2 * offset[ins] + 1)
    IN  FoldSet(LAMBDA ins, code : ReplaceUses(code, ins.id, moved(ins)),
                clustered, pointers \cup used)

(* `offset` gives each local address its distance to the entry.            *)
RewriteLocals(fn, offset) ==
    LET locals == DOMAIN offset
        pointers == {ins \in locals : ins.op = "inttoptr"}
        used == {ins \in locals \ pointers : ~Unused(fn, ins.id)}
        low == LeastOf({offset[ins] : ins \in locals})
        frames == IdsWhere(fn, "alloca")
        top == GreatestId(fn) + 1
        storage == IF frames = {} THEN [Ins(top, "alloca", 0, <<>>) EXCEPT !.lo = -low]
                   ELSE Def(fn, CHOOSE id \in frames : TRUE)
        clustered == WithCluster(fn, storage, -storage.lo, {offset[i] : i \in pointers},
                                 {offset[i] : i \in used}, top)
        pruned(code) == EraseUnused(code, {V(ins.id) : ins \in locals}, SideEffects \cup {"read"})
        emptied == pruned(fn)
    IN  IF Cardinality(frames) > 1 \/ locals = {} \/ low < -storage.lo THEN fn
        ELSE IF pointers \cup used # {}
             THEN pruned(MoveLocals(fn, clustered, storage, top, offset, pointers, used))
        ELSE Without(emptied, {id \in frames : Unused(emptied, id)})

(* rewriteFunctionStackAccesses                                            *)
RewriteStackAccesses(fn) ==
    LET before == StackAddresses(fn)
        locals == {ins \in Instructions(fn) :
                     IsLocalPointer(fn, before, ins) \/ IsLocalInteger(fn, before, ins)}
    IN  RewriteLocals(fn, [ins \in locals |-> AddressOf(fn, before, ins).off])

(* runNativeStackFrameRewrite                                              *)
StackFrameRewrite(fn) == RewriteStackAccesses(ReplaceFramePointerLoads(fn))

-----------------------------------------------------------------------------
(* The late cleanup *)

(* stackAllocaBase, stackAllocaPointer                                     *)
RECURSIVE FrameOf(_, _)
FrameOf(fn, operand) ==
    LET ins == DefOf(fn, operand) IN
    CASE ins.op = "alloca" -> {ins.id}
      [] ins.op = "gep" -> FrameOf(fn, ins.args[1])
      [] OTHER -> {}

(* collectEscapedStackAllocas: some operand is the frame, or a pointer     *)
(* into it, other than as the address of an access or the base of a gep.   *)
EscapedFrames(fn) ==
    UNION {UNION {FrameOf(fn, ins.args[k]) :
                    k \in {j \in DOMAIN ins.args :
                             /\ ins.op # "gep"
                             /\ PointerOperand(ins) # ins.args[j]}} :
             ins \in Instructions(fn)}

(* valueIsRegisterSpill                                                    *)
RECURSIVE IsRegisterSpill(_, _, _)
IsRegisterSpill(fn, operand, depth) ==
    LET ins == DefOf(fn, operand)
        parts == {o \in ToSet(ins.args) : o.kind = "value"}
    IN  /\ depth <= 8
        /\ \/ ins.op \in {"load", "read", "extract", "insert", "unknown", "vararg"}
           \/ /\ ins.op \in {"add", "sub", "and", "or", "xor", "shl", "lshr", "ashr", "select",
                             "zext", "sext", "trunc", "gep", "phi"}
              /\ parts # {}
              /\ \A o \in parts : IsRegisterSpill(fn, o, depth + 1)

FrameAccesses(fn, op) ==
    {ins \in Instructions(fn) : ins.op = op /\ FrameOf(fn, PointerOperand(ins)) # {}}

\* Bug: the stores of an escaped frame are judged like those of any other.
IsDeadFrameStoreUnescaped(fn, escaped, store) ==
    \A l \in FrameAccesses(fn, "memload") : PointerOperand(l) # PointerOperand(store)

(* A store into the frame goes when nothing is loaded from the very same   *)
(* pointer; in a frame that escapes only the spill of a register goes.     *)
IsDeadFrameStore(fn, escaped, store) ==
    /\ FrameOf(fn, PointerOperand(store)) \cap escaped # {} => IsRegisterSpill(fn, store.args[1], 0)
    /\ \A l \in FrameAccesses(fn, "memload") : PointerOperand(l) # PointerOperand(store)

(* cleanupStackAllocaAccesses: `escaped` is what escaped at the start.     *)
RECURSIVE CleanFrame(_, _)
CleanFrame(fn, escaped) ==
    LET loads == {l.id : l \in {i \in FrameAccesses(fn, "memload") : Unused(fn, i.id)}}
        stores == {s.id : s \in {i \in FrameAccesses(fn, "memstore") :
                                   IsDeadFrameStore(fn, escaped, i)}}
        stored == Without(fn, stores)
        frames == {id \in IdsWhere(fn, "alloca") : Unused(stored, id)}
    IN  IF loads # {} THEN CleanFrame(Without(fn, loads), escaped)
        ELSE IF stores \cup frames # {} THEN CleanFrame(Without(stored, frames), escaped)
        ELSE fn

-----------------------------------------------------------------------------
(* The registers whose meaning the frame has taken over *)

ReadsRegister(fn, ins, registers) ==
    ins.op = "load" /\ ins.reg \in registers /\ ~Unused(fn, ins.id)
WritesRegister(ins, registers) == ins.op = "store" /\ ins.reg \in registers

(* transferBlock: the registers live before instruction i of a block.      *)
LiveBefore(fn, block, i, registers, out) ==
    LET Step(ins, live) ==
            IF ReadsRegister(fn, ins, registers) THEN live \cup {ins.reg}
            ELSE IF WritesRegister(ins, registers) THEN live \ {ins.reg}
            ELSE live
    IN  FoldRight(Step, SubSeq(block, i, Len(block)), out)

LiveOut(fn, liveIn, b) == UNION {liveIn[s] : s \in Successors(fn[b])}

RECURSIVE LiveIns(_, _, _)
LiveIns(fn, registers, liveIn) ==
    LET next == [b \in DOMAIN fn |->
                   LiveBefore(fn, fn[b], 1, registers, LiveOut(fn, liveIn, b))]
    IN  IF next = liveIn THEN liveIn ELSE LiveIns(fn, registers, next)

(* cleanupRegisterBookkeeping: loads nobody uses and stores nobody loads;  *)
(* calls and the partial accesses count for nothing.                       *)
CleanRegisters(fn, registers) ==
    LET liveIn == LiveIns(fn, registers, [b \in DOMAIN fn |-> {}])
        dead == {p \in Places(fn) :
                   LET ins == InstructionAt(fn, p)
                       live == LiveBefore(fn, fn[p[1]], p[2] + 1, registers,
                                          LiveOut(fn, liveIn, p[1]))
                   IN  \/ ins.op = "load" /\ ins.reg \in registers /\ Unused(fn, ins.id)
                       \/ WritesRegister(ins, registers) /\ ins.reg \notin live}
    IN  Without(fn, {InstructionAt(fn, p).id : p \in dead})

(* runNativeStackFrameCleanup                                              *)
StackFrameCleanup(fn, registers) ==
    LET loaded == IF FramePointer \in registers THEN ReplaceFramePointerLoads(fn) ELSE fn
        cleaned(local) == CleanFrame(local, EscapedFrames(local))
    IN  CleanRegisters(cleaned(CleanRegisters(RewriteStackAccesses(loaded), registers)), registers)
=============================================================================
