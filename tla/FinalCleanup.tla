---------------------------- MODULE FinalCleanup ----------------------------
(***************************************************************************)
(* NativeRegisterFinalCleanup.cpp: the last register pass turns the        *)
(* helpers extract and insert into shifts and masks, the placeholders of   *)
(* unknown variadic arguments into poison, and erases the reads, unknown   *)
(* values and instructions left without a user.                            *)
(***************************************************************************)
EXTENDS LiftedCode

(* lowerValueExtract                                                       *)
LowerValueExtract(fn, ins) ==
    LET shift == Ins(200 + ins.id, "lshr", ins.from, <<ins.args[1], C(ins.lo)>>)
        bits == IF ins.lo = 0 THEN <<>> ELSE <<shift>>
        source == IF ins.lo = 0 THEN ins.args[1] ELSE V(shift.id)
    IN  IF ins.lo = 0 /\ ins.bits = ins.from
        THEN Without(ReplaceUses(fn, ins.id, ins.args[1]), {ins.id})
        ELSE Splice(fn, ins.id, bits \o <<Cast(ins.id, "trunc", ins.from, ins.bits, source)>>)

\* Bug: the written bits of the base are not cleared.
LowerValueInsertOver(fn, ins) ==
    LET wide == Cast(200 + ins.id, "zext", ins.from, ins.bits, ins.args[2])
        moved == Ins(300 + ins.id, "shl", ins.bits, <<V(wide.id), C(ins.lo)>>)
    IN  Splice(fn, ins.id,
               <<wide, moved, Ins(ins.id, "or", ins.bits, <<ins.args[1], V(moved.id)>>)>>)

(* lowerValueInsert: the base without the written bits, or'ed with the     *)
(* value moved to its place.                                               *)
LowerValueInsert(fn, ins) ==
    LET mask == NumberOf(ins.lo .. ins.lo + ins.from - 1)
        all == 2^ins.bits - 1
        wide == Cast(200 + ins.id, "zext", ins.from, ins.bits, ins.args[2])
        moved == Ins(300 + ins.id, "shl", ins.bits, <<V(wide.id), C(ins.lo)>>)
        masked == Ins(400 + ins.id, "and", ins.bits, <<V(moved.id), C(mask)>>)
        kept == Ins(500 + ins.id, "and", ins.bits, <<ins.args[1], C(all - mask)>>)
    IN  IF ins.lo = 0 /\ ins.from = ins.bits
        THEN Without(ReplaceUses(fn, ins.id, ins.args[2]), {ins.id})
        ELSE Splice(fn, ins.id,
                <<wide, moved, masked, kept,
                  Ins(ins.id, "or", ins.bits, <<V(kept.id), V(masked.id)>>)>>)

LowerHelper(fn, id) ==
    IF Def(fn, id).op = "extract" THEN LowerValueExtract(fn, Def(fn, id))
    ELSE LowerValueInsert(fn, Def(fn, id))

IdsOfOps(fn, ops) ==
    LET chosen(block) == SelectSeq(block, LAMBDA ins : ins.op \in ops)
    IN  FlattenSeq([b \in DOMAIN fn |->
            [i \in DOMAIN chosen(fn[b]) |-> chosen(fn[b])[i].id]])

LowerValueRangeHelpers(fn) ==
    FoldLeft(LowerHelper, fn, IdsOfOps(fn, {"extract", "insert"}))

LowerVarArgUnknowns(fn) ==
    LET ids == ToSet(IdsOfOps(fn, {"vararg"}))
    IN  Without(FoldSet(LAMBDA id, code : ReplaceUses(code, id, PoisonOperand), fn, ids), ids)

UnusedOf(fn, ops) == {id \in ToSet(IdsOfOps(fn, ops)) : Unused(fn, id)}
EraseUnusedOnce(fn, ops) == Without(fn, UnusedOf(fn, ops))

(* DCE and ADCE                                                            *)
EraseDeadCode(fn) ==
    EraseUnused(fn, {V(ins.id) : ins \in Instructions(fn)}, SideEffects \cup {"read"})

(* runNativeRegisterFinalCleanup                                           *)
FinalCleanup(fn) ==
    LET lowered == EraseDeadCode(LowerVarArgUnknowns(LowerValueRangeHelpers(fn)))
        known == EraseUnusedOnce(lowered, {"unknown"})
    IN  EraseDeadCode(EraseUnusedOnce(known, {"load", "read"}))

(* isRegisterLoadOrStore, isRegisterHelperCall                             *)
HasRegisterResidue(fn) ==
    \E ins \in Instructions(fn) :
        ins.op \in {"load", "store", "read", "write", "extract", "insert"}
=============================================================================
