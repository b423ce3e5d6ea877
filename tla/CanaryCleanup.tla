--------------------------- MODULE CanaryCleanup ---------------------------
(***************************************************************************)
(* NativeStackCanaryCleanup.cpp: the compiler's check that the canary      *)
(* saved in the frame still equals the one in thread-local storage is      *)
(* removed, with the store that saved it and the block that reports the    *)
(* failure.                                                                *)
(*                                                                         *)
(* "fail" is a call of __stack_chk_fail, or of a function that only calls  *)
(* it (functionOnlyCallsStackCheckFail); the terminator behind it is       *)
(* "unreachable".  A removed block keeps its number, as an "unreachable".  *)
(* Registers are told apart by name; PHIs the SSA pass has marked as the   *)
(* stack pointer are left out.                                             *)
(***************************************************************************)
EXTENDS StackFrames

CONSTANTS TlsRegister, TlsOffset    \* the TlsCanarySpec of the machine

ZeroFlag == "ZF"

-----------------------------------------------------------------------------
(* The canary in thread-local storage *)

(* unknownValue                                                            *)
IsUnknown(fn, operand) ==
    \/ operand.kind = "poison"
    \/ LET ins == DefOf(fn, operand) IN ins.op = "freeze" /\ ins.args[1].kind = "poison"

(* The inputs of a PHI that say something: neither undefined nor a value   *)
(* that is being asked about already.                                      *)
KnownInputs(fn, ins, visiting) ==
    {o \in ToSet(ins.args) : ~IsUnknown(fn, o) /\ o \notin visiting}

(* valueIsTlsBase                                                          *)
RECURSIVE IsTlsBase(_, _, _)
IsTlsBase(fn, operand, above) ==
    LET ins == DefOf(fn, operand)
        visiting == above \cup {operand}
        known == KnownInputs(fn, ins, visiting)
    IN  \/ ins.op = "load" /\ ins.reg = TlsRegister
        \/ ins.op = "phi" /\ known # {} /\ \A o \in known : IsTlsBase(fn, o, visiting)

(* integerOffsetFromTlsBase: {n} when the value is n above the base.  Of   *)
(* the addresses a PHI joins each has to be that of the canary.            *)
RECURSIVE OffsetsFromTls(_, _, _)
OffsetsFromTls(fn, operand, above) ==
    LET ins == DefOf(fn, operand)
        visiting == above \cup {operand}
        from(o) == IF o \in visiting THEN {} ELSE OffsetsFromTls(fn, o, visiting)
        known == KnownInputs(fn, ins, visiting)
    IN  CASE IsTlsBase(fn, operand, {}) -> {0}
          [] ins.op = "phi" -> {TlsOffset : o \in {o \in known : \A i \in known : from(i) = {TlsOffset}}}
          [] ins.op \in {"add", "sub"} -> UNION {{n + d.by : n \in from(d.of)} : d \in Displacements(ins)}
          [] ins.op = "zext" -> from(ins.args[1])
          [] OTHER -> {}

(* findTlsCanaryAddress: its first two searches, from every base in the    *)
(* function, find nothing that the last one does not.                      *)
IsTlsCanaryLoad(fn, ins) ==
    LET pointer == DefOf(fn, PointerOperand(ins))
    IN  /\ ins.op = "memload" /\ pointer.op = "inttoptr"
        /\ OffsetsFromTls(fn, pointer.args[1], {}) = {TlsOffset}

-----------------------------------------------------------------------------
(* The canary in the frame *)

(* stackAllocaPointer                                                      *)
RECURSIVE LeadsToFrame(_, _)
LeadsToFrame(fn, operand) ==
    LET ins == DefOf(fn, operand) IN
    \/ ins.op = "alloca"
    \/ /\ ins.op \in {"gep", "inttoptr", "ptrtoint", "zext", "and"}
       /\ \E o \in ToSet(ins.args) : LeadsToFrame(fn, o)

(* offsetFromRegister, offsetFromFramePointer                              *)
RECURSIVE OffsetsFrom(_, _, _)
OffsetsFrom(fn, operand, reg) ==
    LET ins == DefOf(fn, operand) IN
    CASE ins.op = "load" /\ ins.reg = reg -> {0}
      [] ins.op \in {"add", "sub"} ->
            UNION {{n + d.by : n \in OffsetsFrom(fn, d.of, reg)} : d \in Displacements(ins)}
      [] OTHER -> {}

(* loadIsSavedCanarySlot: below the frame pointer, or anywhere but at the  *)
(* stack pointer, when the frame has not been recovered.                   *)
IsSavedSlotLoad(fn, ins) ==
    LET pointer == DefOf(fn, PointerOperand(ins))
        offsets(reg) == IF pointer.op = "inttoptr" THEN OffsetsFrom(fn, pointer.args[1], reg) ELSE {}
    IN  /\ ins.op = "memload"
        /\ \/ LeadsToFrame(fn, PointerOperand(ins))
           \/ \E n \in offsets(FramePointer) : n < 0
           \/ \E n \in offsets(StackPointer) : n # 0

(* savedCanaryLoadFromCompareOperand: the load, or its low half.           *)
LowHalf == AddressBits \div 2
ComparedLoads(fn, operand) ==
    LET ins == DefOf(fn, operand)
        masked == {k \in DOMAIN ins.args : ins.args[3 - k] = C(2^LowHalf - 1)}
    IN  IF ins.op = "and"
        THEN {l \in {DefOf(fn, ins.args[k]) : k \in masked} : l.op = "memload" /\ l.bits > LowHalf}
        ELSE {l \in {ins} : l.op = "memload"}

(* sameAddressExpression.  The code takes a pair it has compared before    *)
(* for the same, whatever the result was; that shows in sums of sums of    *)
(* one value only and is left out.                                         *)
RECURSIVE SameAddress(_, _, _)
SameAddress(fn, p, q) ==
    LET x == DefOf(fn, p)
        y == DefOf(fn, q)
        same(order) == \A k \in DOMAIN x.args : SameAddress(fn, x.args[k], y.args[order[k]])
    IN  \/ p = q
        \/ /\ p.kind = "value" /\ q.kind = "value"
           /\ x.op = y.op /\ x.lo = y.lo /\ Len(x.args) = Len(y.args)
           /\ x.op \in {"inttoptr", "ptrtoint", "zext", "gep", "and", "add", "sub"}
           /\ \E order \in {<<1, 2>>} \cup (IF x.op \in {"and", "add"} THEN {<<2, 1>>} ELSE {}) :
                 same(order)

(* findSavedCanaryStore finds nothing when there are several.              *)
SavedStores(fn, saved) ==
    {s \in Instructions(fn) :
        /\ s.op = "memstore" /\ SameAddress(fn, PointerOperand(s), PointerOperand(saved))
        /\ Dominates(fn, PlaceOf(fn, s.id), PlaceOf(fn, saved.id))
        /\ IsTlsCanaryLoad(fn, DefOf(fn, s.args[1]))}

-----------------------------------------------------------------------------
(* The comparison *)

IsCompare(ins) == ins.op \in {"eq", "ne"}
ZeroTested(ins) ==
    LET k == IF ins.args[1].kind = "constant" THEN 1 ELSE 2
    IN  IF IsCompare(ins) /\ ins.args[k] = C(0) THEN {ins.args[3 - k]} ELSE {}
OnlyUser(fn, ins, user) == Users(fn, ins.id) \subseteq {user}

(* A match is the comparison, whether the branch is taken when its sides   *)
(* are equal, and the stores of the flag it went through.                  *)
Match(cmp, equal, flags) == [cmp |-> cmp, equal |-> equal, flags |-> flags]
Through(outer, inner) == (outer.op = "ne") = (inner.op = "eq")

(* conditionTrueMeansCanaryEqual, conditionUseChainIsPrivate               *)
DirectMatches(fn, branch) ==
    LET outer == DefOf(fn, branch.args[1])
        casts == {z \in {DefOf(fn, o) : o \in ZeroTested(outer)} : z.op = "zext"}
        inner(z) == DefOf(fn, z.args[1])
    IN  IF ~IsCompare(outer) \/ ~OnlyUser(fn, outer, branch) THEN {}
        ELSE IF casts = {} THEN {Match(outer, outer.op = "eq", {})}
        ELSE {Match(inner(z), Through(outer, inner(z)), {}) :
                z \in {z \in casts : /\ IsCompare(inner(z)) /\ OnlyUser(fn, z, outer)
                                     /\ OnlyUser(fn, inner(z), z)}}

LastFlagStore(fn, load) ==
    LET p == PlaceOf(fn, load.id)
        stores == {i \in 1 .. p[2] - 1 : fn[p[1]][i].op = "store" /\ fn[p[1]][i].reg = ZeroFlag}
    IN  {fn[p[1]][i] : i \in {i \in stores : \A j \in stores : j <= i}}

(* zfConditionTrueMeansCanaryEqual, zfConditionUseChainIsPrivate           *)
FlagMatches(fn, branch) ==
    LET outer == DefOf(fn, branch.args[1])
        loads == {l \in {DefOf(fn, o) : o \in ZeroTested(outer)} : l.op = "load" /\ l.reg = ZeroFlag}
        value(store) == DefOf(fn, store.args[1])
        compare(store) == IF value(store).op = "zext" THEN DefOf(fn, value(store).args[1]) ELSE value(store)
        private(store) ==
            /\ IsCompare(compare(store))
            /\ OnlyUser(fn, value(store), store)
            /\ value(store).op = "zext" => OnlyUser(fn, compare(store), value(store))
    IN  IF ~IsCompare(outer) \/ ~OnlyUser(fn, outer, branch) THEN {}
        ELSE {Match(compare(s), Through(outer, compare(s)), {s}) :
                s \in {s \in UNION {LastFlagStore(fn, l) : l \in {l \in loads : OnlyUser(fn, l, outer)}} :
                         private(s)}}

(* matchCanaryCondition                                                    *)
ConditionMatches(fn, branch) ==
    IF FlagMatches(fn, branch) # {} THEN FlagMatches(fn, branch) ELSE DirectMatches(fn, branch)

-----------------------------------------------------------------------------
(* The block that reports the failure *)

Casts == {"zext", "sext", "trunc", "inttoptr", "ptrtoint"}
BinaryOperations ==
    {"add", "sub", "mul", "and", "or", "disjoint", "xor", "shl", "lshr", "ashr",
     "udiv", "sdiv", "urem", "srem"}

(* valueDependsOnLocalAlloca                                               *)
RECURSIVE OnLocalAlloca(_, _, _)
OnLocalAlloca(fn, operand, block) ==
    LET ins == DefOf(fn, operand) IN
    /\ ins \in ToSet(block)
    /\ \/ ins.op = "alloca"
       \/ /\ ins.op \in Casts \cup BinaryOperations \cup {"gep"}
          /\ \E o \in ToSet(ins.args) : OnLocalAlloca(fn, o, block)

(* pureInstructionOnlyFeedsBlock, storeIsFailCallSetup and the helper      *)
(* calls that are skipped.                                                 *)
PreparesFail(fn, ins, block) ==
    \/ /\ ins.op \in Casts \cup BinaryOperations \cup {"alloca", "gep", "load", "memload", "phi"}
       /\ Users(fn, ins.id) \subseteq ToSet(block)
    \/ /\ ins.op = "memstore"
       /\ LET pointer == DefOf(fn, PointerOperand(ins))
          IN  IF ins.args[1].kind = "constant"
              THEN pointer \in ToSet(block) /\ pointer.op \in Casts \cup {"gep"}
              ELSE OnLocalAlloca(fn, PointerOperand(ins), block)
    \/ ins.op = "unknown" /\ Unused(fn, ins.id)

(* blockOnlyCallsStackCheckFail                                            *)
OnlyFails(fn, block) ==
    \E i \in DOMAIN block :
        /\ block[i].op = "fail"
        /\ \A j \in 1 .. i - 1 : PreparesFail(fn, block[j], block)
        /\ \A j \in i + 1 .. Len(block) : block[j].op = "unreachable"

-----------------------------------------------------------------------------
(* Removing a check *)

LastOf(block) == block[Len(block)]

\* Bug: the first successor is taken for the failure, whatever was compared.
ChecksOnEdge(fn, b, fail) ==
    LET branch == LastOf(fn[b])
    IN  IF branch.op # "br" \/ branch.args = <<>> THEN {}
        ELSE {[match |-> m, success |-> branch.to[2]] :
                m \in {m \in ConditionMatches(fn, branch) : branch.to[1] = fail}}

(* The checks that leave block b for the block `fail`.                     *)
ChecksOf(fn, b, fail) ==
    LET branch == LastOf(fn[b])
        success(m) == branch.to[IF m.equal THEN 1 ELSE 2]
        failure(m) == branch.to[IF m.equal THEN 2 ELSE 1]
    IN  IF branch.op # "br" \/ branch.args = <<>> THEN {}
        ELSE {[match |-> m, success |-> success(m)] :
                m \in {m \in ConditionMatches(fn, branch) :
                         failure(m) = fail /\ success(m) # fail}}

(* The saved and the thread-local side of a comparison; the saved side is  *)
(* looked for on the left first.                                           *)
Sides(fn, cmp) ==
    LET pairs(k) == {<<s, t>> \in ComparedLoads(fn, cmp.args[k]) \X {DefOf(fn, cmp.args[3 - k])} :
                        IsSavedSlotLoad(fn, s) /\ IsTlsCanaryLoad(fn, t)}
    IN  IF pairs(1) # {} THEN pairs(1) ELSE pairs(2)

Erased(fn, operands) == EraseUnused(fn, operands, SideEffects \cup {"read"})

(* eraseSavedCanaryStore                                                   *)
WithoutSavedStore(fn, saved) ==
    LET stores == SavedStores(fn, saved)
        erase(s) == Erased(Without(fn, {s.id}), {s.args[1]})
    IN  IF Cardinality(stores) = 1 THEN erase(CHOOSE s \in stores : TRUE) ELSE fn

(* BasicBlock::removePredecessor, without folding a PHI of one input.      *)
DropInputs(block, gone) ==
    [i \in DOMAIN block |->
        IF block[i].op # "phi" THEN block[i]
        ELSE LET kept == SelectSeq([k \in DOMAIN block[i].to |-> k], LAMBDA k : block[i].to[k] \notin gone)
             IN  [block[i] EXCEPT !.args = [n \in DOMAIN kept |-> block[i].args[kept[n]]],
                                  !.to = [n \in DOMAIN kept |-> block[i].to[kept[n]]]]]

(* removeUnreachableBlocks                                                 *)
WithoutUnreachable(fn) ==
    LET gone == DOMAIN fn \ Reach(fn, {1}, {})
    IN  [b \in DOMAIN fn |->
            IF b \in gone THEN <<[Ins(LastOf(fn[b]).id, "unreachable", 0, <<>>) EXCEPT !.to = <<>>]>>
            ELSE DropInputs(fn[b], gone)]

(* eraseStackCanaryPredecessor                                             *)
EraseCheck(fn, b, fail, check, saved, local) ==
    LET branch == LastOf(fn[b])
        straight(code) ==
            [code EXCEPT ![fail] = DropInputs(@, {b}),
                         ![b] = Append(Front(@), Leaving(branch.id, "br", <<>>, <<check.success>>))]
        unflagged(code) ==
            Erased(Without(code, {s.id : s \in check.match.flags}),
                   {s.args[1] : s \in check.match.flags})
    IN  WithoutUnreachable(
            Erased(unflagged(Erased(straight(WithoutSavedStore(fn, saved)), {branch.args[1]})),
                   {V(saved.id), V(local.id)}))

(* eraseStackCanaryChecks, one check after the other until none is left:   *)
(* the first block that only fails, from any of its predecessors (their    *)
(* order is that of LLVM's use list).                                      *)
RECURSIVE StackCanaryCleanup(_)
StackCanaryCleanup(fn) ==
    LET confirmed(b, fail) == {c \in ChecksOf(fn, b, fail) : Sides(fn, c.match.cmp) # {}}
        edges == {e \in (DOMAIN fn) \X (DOMAIN fn) :
                    OnlyFails(fn, fn[e[2]]) /\ confirmed(e[1], e[2]) # {}}
        erase(e, c, sides) == EraseCheck(fn, e[1], e[2], c, sides[1], sides[2])
        eraseAny(e, checks) ==
            LET c == CHOOSE c \in checks : TRUE
            IN  erase(e, c, CHOOSE sides \in Sides(fn, c.match.cmp) : TRUE)
        first == CHOOSE e \in edges : \A f \in edges : e[2] <= f[2]
    IN  IF edges = {} THEN fn
        ELSE StackCanaryCleanup(eraseAny(first, confirmed(first[1], first[2])))
=============================================================================
