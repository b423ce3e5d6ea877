-------------------------- MODULE RegisterPeephole --------------------------
(***************************************************************************)
(* The register peephole passes of NativeRegisterPeephole.cpp.             *)
(* PreSummary, before the register summaries are computed: flag stores     *)
(* that nobody reads go, a full register load of which one field is used   *)
(* becomes a partial read, and the reads behind a value of which only the  *)
(* low bits are observed are narrowed to those bits.                       *)
(* PostRewrite, after the register SSA: extracts become shifts, constant   *)
(* divisions are recognised (MagicDivision) and a field cut out of a chain *)
(* of inserts is the inserted value.                                       *)
(***************************************************************************)
EXTENDS MagicDivision

CONSTANTS
    Flags,             \* the arithmetic flags CF, OF, SF, ZF, PF
    WriteWidths,       \* the widths of writes that can be an anchor (8 .. 32)
    ReadWidths         \* the widths a read can be narrowed to (8, 16, 32)

OnReg(ins, op, reg) == ins.op = op /\ ins.reg = reg

-----------------------------------------------------------------------------
(* Walking forward from an instruction to the next one that stops the      *)
(* walk.  A block is entered once; the block of the start counts as        *)
(* entered, so its instructions before the start are never looked at.      *)

RECURSIVE Entered(_, _, _, _)
Entered(fn, through, frontier, done) ==
    LET new == frontier \ done
    IN  IF new = {} THEN done
        ELSE Entered(fn, through,
                     UNION {Successors(fn[b]) : b \in new \cap through}, done \cup new)

UpToStop(code, stops) ==
    LET at == {i \in DOMAIN code : code[i].id \in stops}
    IN  IF at = {} THEN code ELSE SubSeq(code, 1, Min(at))

(* The instructions looked at from place p on, the stopping ones included. *)
Walk(fn, p, stops) ==
    LET tail == SubSeq(fn[p[1]], p[2], Len(fn[p[1]]))
        Open(code) == \A i \in DOMAIN code : code[i].id \notin stops
        through == {b \in DOMAIN fn : Open(fn[b])}
        blocks == Entered(fn, through,
                          IF Open(tail) THEN Successors(tail) ELSE {}, {p[1]}) \ {p[1]}
    IN  ToSet(UpToStop(tail, stops)) \cup UNION {ToSet(UpToStop(fn[b], stops)) : b \in blocks}

After(p) == <<p[1], p[2] + 1>>
IdsOf(fn, Test(_)) == {ins.id : ins \in {i \in Instructions(fn) : Test(i)}}

-----------------------------------------------------------------------------
(* Flags nobody reads *)

FlagStops(fn, flag) ==
    IdsOf(fn, LAMBDA ins : \/ OnReg(ins, "load", flag) \/ OnReg(ins, "store", flag)
                           \/ ins.op \in {"call", "ret"})

\* Bug: a conditional branch counts as the end of the flag's life.
FlagValueIsReadInBlock(fn, store) ==
    \E ins \in Walk(fn, After(PlaceOf(fn, store.id)),
                    FlagStops(fn, store.reg) \cup IdsOf(fn, LAMBDA i : i.op = "br")) :
        OnReg(ins, "load", store.reg)

FlagValueIsRead(fn, store) ==
    \E ins \in Walk(fn, After(PlaceOf(fn, store.id)), FlagStops(fn, store.reg)) :
        OnReg(ins, "load", store.reg)

FlagChainEnds == {"store", "write", "observe", "call", "br", "ret"}
EraseFlagStore(fn, id) ==
    LET store == Def(fn, id)
    IN  IF ~Exists(fn, id) THEN fn
        ELSE IF FlagValueIsRead(fn, store) THEN fn
        ELSE EraseUnused(Without(fn, {id}), ToSet(store.args), FlagChainEnds)

IdsInOrder(fn, Test(_)) ==
    LET chosen(block) == SelectSeq(block, Test)
    IN  FlattenSeq([b \in DOMAIN fn |->
            [i \in DOMAIN chosen(fn[b]) |-> chosen(fn[b])[i].id]])
FlagStores(fn) == IdsInOrder(fn, LAMBDA ins : ins.op = "store" /\ ins.reg \in Flags)

RECURSIVE EraseDeadFlags(_, _)
EraseDeadFlags(fn, rounds) ==
    LET next == FoldLeft(EraseFlagStore, fn, FlagStores(fn))
    IN  IF rounds = 0 \/ next = fn THEN fn ELSE EraseDeadFlags(next, rounds - 1)

-----------------------------------------------------------------------------
(* A full load of which one field is used *)

(* narrowUseFromFullLoad: the truncation that is the only use, and the     *)
(* first bit it keeps.                                                     *)
NarrowUses(fn, load) ==
    LET user == (CHOOSE u \in Uses(fn, load.id) : TRUE)[1]
        next == (CHOOSE u \in Uses(fn, user.id) : TRUE)[1]
    IN  IF Cardinality(Uses(fn, load.id)) # 1 THEN {}
        ELSE IF user.op = "trunc"
        THEN Only(user.bits < load.bits, [root |-> user, lo |-> 0])
        ELSE IF user.op # "lshr" \/ Cardinality(Uses(fn, user.id)) # 1 THEN {}
        ELSE {[root |-> next, lo |-> k] : k \in {n \in ConstantAmount(user) :
                /\ n < load.bits
                /\ next.op = "trunc" /\ next.bits <= load.bits - n}}

PartialRead(id, reg, lo, bits, full) ==
    [OnRegister(id, "read", reg, lo, bits, <<>>) EXCEPT !.from = full]

RewriteLoad(fn, id) ==
    IF ~Exists(fn, id) THEN fn
    ELSE LET load == Def(fn, id)
             uses == NarrowUses(fn, load)
             Read(u) == PartialRead(u.root.id, load.reg, u.lo, u.root.bits, load.bits)
         IN  IF uses = {} THEN fn
             ELSE LET u == CHOOSE x \in uses : TRUE
                  IN  EraseUnused(Splice(fn, u.root.id, <<Read(u)>>),
                                  ToSet(u.root.args) \cup {V(id)}, SideEffects)

Loads(fn) == IdsInOrder(fn, LAMBDA ins : ins.op = "load" /\ ins.reg \notin Flags)

-----------------------------------------------------------------------------
(* Reads of which only the low bits are observed *)

Reaches(ins) == ins.lo + ins.bits
ReadStops(fn, reg) ==
    IdsOf(fn, LAMBDA ins : \/ OnReg(ins, "write", reg) \/ OnReg(ins, "store", reg)
                           \/ OnReg(ins, "load", reg) \/ ins.op \in {"call", "ret"})

Escapes == -1

(* observedWidthUntilNextWrite: 0 when nothing is read, and Escapes when   *)
(* more than the written bits may be.                                      *)
ObservedWidth(fn, p, reg, writeWidth) ==
    LET seen == Walk(fn, p, ReadStops(fn, reg))
        reads == {ins \in seen : OnReg(ins, "read", reg)}
    IN  IF \/ \E ins \in seen : ins.op \in {"call", "ret"} \/ OnReg(ins, "load", reg)
           \/ \E ins \in reads : Reaches(ins) > writeWidth
        THEN Escapes
        ELSE Max({0} \cup {Reaches(ins) : ins \in reads})

(* collectNarrowableReads: back from the written value through operations  *)
(* whose low bits depend on low bits only; a value keeps the width it was  *)
(* first reached with.                                                     *)
LowClosed == {"add", "sub", "mul", "and", "or", "disjoint", "xor"}
Operands(ins, needed) ==
    LET n == IF needed < ins.bits THEN needed ELSE ins.bits
        Shift(k) == CHOOSE s \in ConstantAmount(ins) : TRUE
    IN  CASE ins.op \in LowClosed -> [k \in DOMAIN ins.args |-> <<ins.args[k], n>>]
          [] ins.op = "shl" /\ ConstantAmount(ins) # {} ->
                <<<<ins.args[1], IF Shift(1) < n THEN n - Shift(1) ELSE 0>>>>
          [] ins.op \in {"lshr", "ashr"} /\ ConstantAmount(ins) # {} ->
                <<<<ins.args[1], Min({ins.bits, n + Shift(1)})>>>>
          [] OTHER -> <<>>

RECURSIVE Collect(_, _, _, _)
Collect(fn, stack, traversed, targets) ==
    IF stack = <<>> THEN [traversed |-> traversed, targets |-> targets]
    ELSE LET top == stack[Len(stack)]
             rest == SubSeq(stack, 1, Len(stack) - 1)
             ins == DefOf(fn, top[1])
         IN  IF top[1].kind # "value" \/ top[2] = 0 \/ ins.id \in traversed
             THEN Collect(fn, rest, traversed, targets)
             ELSE Collect(fn, rest \o Operands(ins, top[2]), traversed \cup {ins.id},
                          targets \cup Only(ins.op = "read" /\ top[2] < ins.bits,
                                            [id |-> ins.id, bits |-> top[2]]))

(* The values that change with the narrowed reads have no user outside the *)
(* traversed chain and the anchor.                                         *)
RECURSIVE Dependents(_, _)
Dependents(fn, ids) ==
    LET more == ids \cup {ins.id : ins \in UNION {Users(fn, id) : id \in ids}}
    IN  IF more = ids THEN ids ELSE Dependents(fn, more)
ChainClosed(fn, ids, anchor, traversed) ==
    Dependents(fn, ids) \subseteq traversed \cup {anchor}

(* The anchor: a write, its read back, zero-extended and stored whole.     *)
IsAnchor(fn, p) ==
    LET at(k) == fn[p[1]][p[2] + k]
    IN  /\ p[2] + 4 <= Len(fn[p[1]])
        /\ at(0).op = "write" /\ at(0).lo = 0 /\ at(0).bits \in WriteWidths
        /\ OnReg(at(1), "read", at(0).reg) /\ at(1).lo = 0 /\ at(1).bits = at(0).bits
        /\ at(2).op = "zext" /\ at(2).args = <<V(at(1).id)>>
        /\ OnReg(at(3), "store", at(0).reg) /\ at(3).args = <<V(at(2).id)>>
        /\ Cardinality(Uses(fn, at(1).id)) = 1 /\ Cardinality(Uses(fn, at(2).id)) = 1

NarrowRead(fn, target) ==
    LET read == Def(fn, target.id)
    IN  Splice(fn, target.id,
            <<PartialRead(100 + target.id, read.reg, read.lo, target.bits, read.from),
              Cast(target.id, "zext", target.bits, read.bits, V(100 + target.id))>>)

(* narrowObservedReads *)
NarrowObservedReads(fn, id) ==
    LET p == PlaceOf(fn, id)
        write == Def(fn, id)
        width == ObservedWidth(fn, <<p[1], p[2] + 4>>, write.reg, write.bits)
        walk == Collect(fn, <<<<write.args[1], width>>>>, {}, {})
        usable == {t \in walk.targets : t.bits \in ReadWidths}
    IN  IF ~Exists(fn, id) THEN fn
        ELSE IF ~IsAnchor(fn, p) THEN fn
        ELSE IF width \notin 1 .. write.bits - 1 THEN fn
        ELSE IF /\ usable # {}
                /\ ChainClosed(fn, {t.id : t \in usable}, id, walk.traversed)
             THEN FoldSet(LAMBDA t, code : NarrowRead(code, t), fn, usable)
             ELSE fn

Anchors(fn) ==
    IdsInOrder(fn, LAMBDA ins : ins.op = "write" /\ ins.lo = 0 /\ ins.bits \in WriteWidths)

(* runNativeRegisterPreSummaryPeephole *)
NarrowAll(fn) == FoldLeft(NarrowObservedReads, fn, Anchors(fn))
RewriteLoads(fn) == FoldLeft(RewriteLoad, fn, Loads(fn))
PreSummary(fn) == NarrowAll(RewriteLoads(EraseDeadFlags(fn, 4)))

-----------------------------------------------------------------------------
(* After the register SSA *)

LowerExtract(fn, id) ==
    LET ins == Def(fn, id)
        shift == Ins(100 + id, "lshr", ins.from, <<ins.args[1], C(ins.lo)>>)
    IN  IF ins.from <= ins.bits THEN fn
        ELSE IF ins.lo = 0
        THEN Splice(fn, id, <<Cast(id, "trunc", ins.from, ins.bits, ins.args[1])>>)
        ELSE Splice(fn, id, <<shift, Cast(id, "trunc", ins.from, ins.bits, V(shift.id))>>)
LowerExtracts(fn) ==
    FoldLeft(LowerExtract, fn, IdsInOrder(fn, LAMBDA ins : ins.op = "extract"))

Overlap(lo1, bits1, lo2, bits2) == lo1 < lo2 + bits2 /\ lo2 < lo1 + bits1

(* findInsertedRangePiece: the value inserted last over exactly the field, *)
(* or the zero below all inserts; at most one operand.                     *)
RECURSIVE InsertedPiece(_, _, _, _, _)
InsertedPiece(fn, operand, full, lo, bits) ==
    LET ins == DefOf(fn, operand)
    IN  CASE operand = C(0) -> {C(0)}
          [] ins.op = "insert" /\ ins.bits = full ->
                IF Overlap(lo, bits, ins.lo, ins.from)
                THEN Only(lo = ins.lo /\ bits = ins.from, ins.args[2])
                ELSE InsertedPiece(fn, ins.args[1], full, lo, bits)
          [] OTHER -> {}

(* simplifyInsertedValueExtract *)
SimplifyTrunc(fn, id) ==
    LET trunc == Def(fn, id)
        middle == DefOf(fn, trunc.args[1])
        shifted == middle.op = "lshr"
        source == IF shifted THEN middle.args[1] ELSE trunc.args[1]
        full == IF shifted THEN middle.bits ELSE trunc.from
        pieces == UNION {InsertedPiece(fn, source, full, lo, trunc.bits) :
                    lo \in {k \in IF shifted THEN ConstantAmount(middle) ELSE {0} :
                                trunc.bits < full /\ k < full /\ trunc.bits <= full - k}}
        replaced == Without(ReplaceUses(fn, id, CHOOSE x \in pieces : TRUE), {id})
    IN  IF ~Exists(fn, id) THEN fn
        ELSE IF Unused(fn, id) \/ pieces = {} THEN fn
        ELSE Without(replaced, Only(Unused(replaced, middle.id), middle.id))
SimplifyTruncs(fn) ==
    FoldLeft(SimplifyTrunc, fn, IdsInOrder(fn, LAMBDA ins : ins.op = "trunc"))

(* runNativeRegisterPostRewritePeephole *)
PostRewrite(fn) == SimplifyTruncs(RewriteDivisions(LowerExtracts(fn)))
=============================================================================
