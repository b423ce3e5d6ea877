---------------------------- MODULE MCRewriteRuns ----------------------------
(***************************************************************************)
(* Programs for RewriteRuns: registers of 8 bits, dividends of 4 bits with *)
(* products of 8 bits, so that every dividend is executed; the magic       *)
(* numbers are all of those of 4 bits, with every shift of the product.    *)
(***************************************************************************)
EXTENDS RewriteRuns

Program(pass, code, entries, given, watched) ==
    [pass |-> pass, code |-> code, entries |-> entries, inputs |-> given,
     watched |-> watched, bound |-> {}]
In(id, bits) == Ins(id, "input", bits, <<>>)
Bin(id, op, bits, a, b) == Ins(id, op, bits, <<a, b>>)
Load(id, reg) == OnRegister(id, "load", reg, 0, 8, <<>>)
Read(id, reg, lo, bits) == PartialRead(id, reg, lo, bits, 8)
Store(id, reg, v) == OnRegister(id, "store", reg, 0, 8, <<v>>)
Write(id, reg, lo, bits, v) == OnRegister(id, "write", reg, lo, bits, <<v>>)
Observe(id, v) == Ins(id, "observe", 0, <<v>>)
Goto(id, b) == Leaving(id, "br", <<>>, <<b>>)
Branch(id, v, b, c) == Leaving(id, "br", <<v>>, <<b, c>>)
Return(id, args) == Leaving(id, "ret", args, <<>>)

NoRegisters == {[A |-> 0, B |-> 0, CF |-> 0, OF |-> 0]}
SomeRegisters == {[A |-> a, B |-> 5, CF |-> c, OF |-> 1] : a \in {0, 27, 240}, c \in 0 .. 1}
One(id, bits) == {(id :> n) : n \in 0 .. 2^bits - 1}
Two(i, m, j, n) == {(i :> a) @@ (j :> b) : a \in 0 .. 2^m - 1, b \in 0 .. 2^n - 1}

-----------------------------------------------------------------------------
(* Before the summaries *)

(* Two flags are set; one is tested behind a branch, the other is read in  *)
(* the last block or never, and a call separates them on one path.         *)
FlagProgram(last, back) ==
    Program("pre",
        << <<In(1, 2), Bin(2, "eq", 1, V(1), C(3)), Store(3, "CF", V(2)),
             Bin(4, "eq", 1, V(1), C(1)), Store(5, "OF", V(4)),
             In(6, 1), Branch(7, V(6), 2, 3)>>,
           <<Load(8, "CF"), Branch(9, V(8), 3, 4)>>,
           <<Ins(10, "call", 0, <<>>), Store(11, "CF", C(1)), Goto(12, back)>>,
           <<Load(13, last), Observe(14, V(13)), Return(15, <<>>)>> >>,
        SomeRegisters, Two(1, 2, 6, 1), <<"A">>)

(* One field of a register is used.                                        *)
FieldProgram(lo, bits, user) ==
    Program("pre",
        << <<Load(1, "A"), Bin(2, "lshr", 8, V(1), C(lo)),
             Cast(3, "trunc", 8, bits, V(2)), In(4, 4), Store(5, "B", C(3)),
             Ins(6, user, 0, <<V(3)>>), Return(7, <<>>)>> >>,
        SomeRegisters, One(4, 1), <<"A", "B">>)

(* A value is written to the low four bits and stored zero-extended; then  *)
(* one path reads `bits` bits of it at `lo` and the other leaves by `exit`.*)
AnchorProgram(op, lo, bits, exit) ==
    Program("pre",
        << <<Read(1, "A", 0, 4), In(2, 4), Bin(3, op, 4, V(1), V(2)),
             Write(4, "A", 0, 4, V(3)), Read(5, "A", 0, 4),
             Cast(6, "zext", 4, 8, V(5)), Store(7, "A", V(6)),
             In(8, 1), Branch(9, V(8), 2, 3)>>,
           <<Read(10, "A", lo, bits), Observe(11, V(10)), Goto(12, 3)>>,
           exit \o <<Return(14, <<>>)>> >>,
        SomeRegisters, Two(2, 4, 8, 1), <<"A">>)

PreSummaryPrograms ==
    <<FlagProgram("CF", 4), FlagProgram("OF", 4), FlagProgram("A", 4), FlagProgram("A", 2),
      FieldProgram(0, 4, "observe"), FieldProgram(3, 2, "observe"), FieldProgram(4, 4, "call"),
      AnchorProgram("add", 0, 2, <<Store(13, "A", C(1))>>),
      AnchorProgram("mul", 1, 1, <<Store(13, "A", C(1))>>),
      AnchorProgram("xor", 0, 2, <<>>), AnchorProgram("lshr", 0, 2, <<Store(13, "A", C(1))>>)>>

-----------------------------------------------------------------------------
(* Partial demand *)

(* A value is stored and returned in part; another is only stored, so its  *)
(* operands are demanded by nobody.                                        *)
ProductProgram(lo) ==
    Program("demand",
        << <<In(1, 4), In(2, 4), Cast(3, "zext", 4, 8, V(1)), Cast(4, "zext", 4, 8, V(2)),
             Bin(5, "mul", 8, V(3), V(4)), Store(6, "A", V(5)),
             Bin(7, "lshr", 8, V(5), C(lo)), Cast(8, "trunc", 8, 4, V(7)),
             Bin(9, "xor", 8, V(3), C(9)), Bin(10, "add", 8, V(9), C(3)), Store(11, "B", V(10)),
             Return(12, <<V(8)>>)>> >>,
        NoRegisters, Two(1, 4, 2, 4), <<>>)
ShiftProgram(op, user) ==
    Program("demand",
        << <<In(1, 4), In(2, 2), Cast(3, "zext", 2, 4, V(2)), Bin(4, op, 4, V(1), V(3)),
             Store(5, "A", V(4)), Bin(6, "add", 4, V(1), C(3)), Bin(7, "mul", 4, V(6), C(3)),
             Store(8, "B", V(7)), Bin(9, "eq", 1, V(4), C(4)), Branch(10, V(9), 2, 3)>>,
           <<Ins(11, user, 0, <<V(4)>>), Goto(12, 3)>>,
           <<Return(13, <<V(4)>>)>> >>,
        NoRegisters, Two(1, 4, 2, 2), <<>>)
(* Two halves are joined, and both are cut out again.                      *)
JoinProgram(join) ==
    Program("demand",
        << <<In(1, 4), In(2, 4), Cast(3, "zext", 4, 8, V(1)), Cast(4, "zext", 4, 8, V(2)),
             Bin(5, "shl", 8, V(4), C(4)), Bin(6, join, 8, V(3), V(5)), Store(7, "A", V(6)),
             Extract(8, 4, 0, 8, V(6)), Extract(9, 4, 4, 8, V(6)),
             Bin(10, "and", 8, V(6), C(60)), Bin(11, "sub", 8, V(10), C(1)), Store(12, "B", V(11)),
             Observe(13, V(8)), Return(14, <<V(9)>>)>> >>,
        NoRegisters, Two(1, 4, 2, 4), <<>>)
(* A counter kept in a register; the last value is stored once more.       *)
LoopProgram(start, returned) ==
    Program("demand",
        << <<In(1, 2), Goto(2, 2)>>,
           <<[Ins(3, "phi", 4, <<V(1), V(4)>>) EXCEPT !.to = <<1, 2>>],
             Bin(4, "add", 4, V(3), C(1)), Store(5, "A", V(4)),
             [Ins(6, "phi", 4, <<C(start), V(7)>>) EXCEPT !.to = <<1, 2>>],
             Bin(7, "add", 4, V(6), C(2)), Store(8, "B", V(7)),
             Bin(9, "eq", 1, V(4), C(4)), Branch(10, V(9), 3, 2)>>,
           <<Bin(11, "shl", 4, V(4), C(1)), Store(12, "A", V(11)), Return(13, returned)>> >>,
        NoRegisters, One(1, 2), <<>>)
InsertProgram ==
    Program("demand",
        << <<In(1, 8), In(2, 4), Insert(3, 8, 4, 4, V(1), V(2)), Store(4, "A", V(3)),
             Extract(5, 4, 4, 8, V(3)), Extract(6, 2, 0, 8, V(3)),
             Bin(7, "and", 8, V(3), C(3)), Bin(8, "xor", 8, V(7), C(255)), Store(9, "B", V(8)),
             Observe(10, V(6)), Return(11, <<V(5)>>)>> >>,
        NoRegisters, {(1 :> a) @@ (2 :> b) : a \in {0, 3, 165, 255}, b \in 0 .. 15}, <<>>)
DemandPrograms ==
    <<ProductProgram(4), ProductProgram(0), ProductProgram(2),
      ShiftProgram("shl", "observe"), ShiftProgram("lshr", "call"), ShiftProgram("ashr", "call"),
      JoinProgram("or"), JoinProgram("disjoint"), JoinProgram("xor"),
      LoopProgram(0, <<V(4)>>), LoopProgram(1, <<V(4), V(7)>>), LoopProgram(1, <<>>),
      InsertProgram, [InsertProgram EXCEPT !.bound = {8}]>>

-----------------------------------------------------------------------------
(* Divisions.  Dividends have 4 bits; each shape is given every magic      *)
(* number from 3 on and every shift, with two exceptions that the code     *)
(* does not make (the README says which): signed chains leave out magic    *)
(* numbers that are powers of two and divisors above the signed range, and *)
(* chains with a correction have a divisor one below a power of two.       *)

Division(code) == Program("post", <<code>>, NoRegisters, One(1, 4), <<>>)
Observed(id) == <<Observe(id + 1, V(id)), Return(id + 2, <<>>)>>
HighHalf(extend, magic, n) ==
    <<Cast(2, extend, 4, 8, V(1)), Bin(3, "mul", 8, V(2), C(magic)),
      Bin(4, "lshr", 8, V(3), C(n)), Cast(5, "trunc", 8, 4, V(4))>>

PlainDivision(magic, n, s) ==
    Division(<<In(1, 4)>> \o HighHalf("zext", magic, n)
             \o <<Bin(6, "lshr", 4, V(5), C(s))>> \o Observed(6))
(* The dividend has itself been shifted.                                   *)
EvenDivision(magic, n, s) ==
    Division(<<In(1, 4), Bin(9, "lshr", 4, V(1), C(s)), Cast(2, "zext", 4, 8, V(9)),
               Bin(3, "mul", 8, V(2), C(magic)), Bin(4, "lshr", 8, V(3), C(n)),
               Cast(5, "trunc", 8, 4, V(4))>> \o Observed(5))
CorrectedDivision(magic, n, s) ==
    Division(<<In(1, 4)>> \o HighHalf("zext", magic, n)
             \o <<Bin(6, "sub", 4, V(1), V(5)), Bin(7, "lshr", 4, V(6), C(1)),
                  Bin(8, "add", 4, V(7), V(5)), Bin(9, "lshr", 4, V(8), C(s))>> \o Observed(9))
SignedDivision(magic, n, s) ==
    Division(<<In(1, 4)>> \o HighHalf("sext", magic, n)
             \o <<Bin(6, "ashr", 4, V(5), C(s)), Bin(7, "lshr", 4, V(1), C(3)),
                  Bin(8, "add", 4, V(6), V(7))>> \o Observed(8))
(* The sign is subtracted as a mask 0 / -1.                                *)
MaskedDivision(magic, n, s) ==
    Division(<<In(1, 4)>> \o HighHalf("sext", magic, n)
             \o <<Bin(6, "ashr", 4, V(5), C(s)), Bin(7, "ashr", 4, V(1), C(3)),
                  Bin(8, "sub", 4, V(6), V(7))>> \o Observed(8))
(* The mask has the shifted product subtracted from it: x / -d.            *)
NegatedDivision(magic, n, s) ==
    Division(<<In(1, 4)>> \o HighHalf("sext", magic, n)
             \o <<Bin(6, "ashr", 4, V(5), C(s)), Bin(7, "ashr", 4, V(1), C(3)),
                  Bin(8, "sub", 4, V(7), V(6))>> \o Observed(8))
(* The magic number is negative: the dividend is added back.               *)
AddBackDivision(magic, n, s) ==
    Division(<<In(1, 4)>> \o HighHalf("sext", magic - 16 + 256, n)
             \o <<Bin(6, "add", 4, V(5), V(1)), Bin(7, "ashr", 4, V(6), C(s)),
                  Bin(8, "lshr", 4, V(6), C(3)), Bin(9, "add", 4, V(7), V(8))>> \o Observed(9))
NarrowDivision(magic, s) ==
    Division(<<In(1, 4), Cast(2, "zext", 4, 8, V(1)), Bin(3, "mul", 8, V(2), C(magic)),
               Bin(4, "lshr", 8, V(3), C(s))>> \o Observed(4))
NarrowSignedDivision(magic, s) ==
    Division(<<In(1, 4), Cast(2, "sext", 4, 8, V(1)), Bin(3, "mul", 8, V(2), C(magic)),
               Bin(4, "lshr", 8, V(3), C(s)), Bin(5, "lshr", 8, V(3), C(7)),
               Bin(6, "add", 8, V(4), V(5)), Cast(7, "trunc", 8, 4, V(6))>> \o Observed(7))

Magics == [k \in 1 .. 13 |-> k + 2]
All(Shape(_, _), magics, shifts) ==
    FlattenSeq([k \in DOMAIN magics |->
        [j \in DOMAIN shifts |-> Shape(magics[k], shifts[j])]])
SignedMagics(n, s) ==
    SelectSeq(Magics, LAMBDA m : m \notin {4, 8} /\ CeilingOf(2^(n + s), m) < 8)
CorrectionMagics(n, s) ==
    SelectSeq(Magics, LAMBDA m : CeilingOf(2^n, m) + 1 = 2^(s + 1))

DivisionPrograms ==
    LET Three == <<1, 2, 3>>
        Signed3(Shape(_, _, _), n) ==
            FlattenSeq([s \in 1 .. 3 |-> [k \in DOMAIN SignedMagics(n, s) |->
                            Shape(SignedMagics(n, s)[k], n, s)]])
        Corrected(n) ==
            FlattenSeq([s \in 1 .. 3 |-> [k \in DOMAIN CorrectionMagics(n, s) |->
                            CorrectedDivision(CorrectionMagics(n, s)[k], n, s)]])
    IN  All(LAMBDA m, s : PlainDivision(m, 4, s), Magics, Three)
        \o All(LAMBDA m, s : PlainDivision(m, 5, s), Magics, Three)
        \o All(LAMBDA m, s : EvenDivision(m, 4, s), Magics, Three)
        \o All(LAMBDA m, s : EvenDivision(m, 5, s), Magics, Three)
        \o Signed3(SignedDivision, 4) \o Signed3(MaskedDivision, 4)
        \o Signed3(AddBackDivision, 4)
        \o Corrected(4) \o Corrected(5) \o Corrected(6)
        \o All(NarrowDivision, Magics, <<4, 5, 6, 7>>)
        \o All(NarrowSignedDivision, SignedMagics(4, 0), <<4>>)

(* Fields of a chain of two inserts, one overlapping the fields in part.   *)
FieldOfInserts(lo, bits) ==
    Program("post",
        << <<In(1, 8), In(2, 4), Insert(3, 8, 4, 4, V(1), V(2)),
             Insert(4, 8, 0, 2, V(3), C(2)), Extract(5, bits, lo, 8, V(4)),
             Observe(6, V(5)), Return(7, <<>>)>> >>,
        NoRegisters, {(1 :> a) @@ (2 :> b) : a \in {0, 165, 255}, b \in 0 .. 15}, <<>>)
PostPrograms ==
    DivisionPrograms \o <<FieldOfInserts(4, 4), FieldOfInserts(0, 2), FieldOfInserts(0, 4),
                          FieldOfInserts(2, 4), FieldOfInserts(4, 2)>>

-----------------------------------------------------------------------------
(* The final cleanup *)

InsertLowering(lo, bits, top) ==
    Program("final",
        << <<In(1, 8), In(2, bits), Load(3, "A"), Read(4, "A", 0, 4), Ins(8, "unknown", 4, <<>>),
             Insert(5, 8, lo, bits, V(1), V(2)), Extract(6, 8 - top, top, 8, V(5)),
             Ins(7, "vararg", 4, <<>>), Ins(9, "call", 0, <<V(5), V(7)>>),
             Bin(10, "add", 8, V(3), C(1)), Return(11, <<V(6)>>)>> >>,
        NoRegisters, {(1 :> a) @@ (2 :> b) @@ (8 :> 3) :
                        a \in {0, 165, 255}, b \in 0 .. 2^bits - 1}, <<>>)
FinalPrograms ==
    <<InsertLowering(0, 4, 0), InsertLowering(4, 4, 3), InsertLowering(3, 2, 4),
      InsertLowering(0, 8, 1)>>

-----------------------------------------------------------------------------
(* The native frame: a byte has 2 bits, an address 8, so a saved register  *)
(* has four bytes.  Everything is a function that pushes FP, sets it to SP *)
(* and takes eight bytes; `body` follows and then the epilogue.            *)

At(id, op, size, args) == [Ins(id, op, 2 * size, args) EXCEPT !.lo = size]
LoadSP(id) == Load(id, StackPointer)
LoadFP(id) == Load(id, FramePointer)
Moved(id, n, v) == Bin(id, "add", 8, V(v), C(Wrap(n, 8)))
Pointer(id, v) == Ins(id, "inttoptr", 8, <<V(v)>>)
Prologue ==
    <<LoadSP(1), Moved(2, -4, 1), Store(3, StackPointer, V(2)), LoadFP(4), LoadSP(5), Pointer(6, 5),
      At(7, "memstore", 4, <<V(4), V(6)>>), LoadSP(8), Store(9, FramePointer, V(8)),
      LoadSP(10), Bin(11, "sub", 8, V(10), C(8)), Store(12, StackPointer, V(11)), In(13, 4)>>
Restore(id) ==
    <<LoadFP(id), Store(id + 1, StackPointer, V(id)), LoadSP(id + 2), Pointer(id + 3, id + 2),
      At(id + 4, "memload", 4, <<V(id + 3)>>), Store(id + 5, FramePointer, V(id + 4)),
      LoadSP(id + 6), Moved(id + 7, 4, id + 6), Store(id + 8, StackPointer, V(id + 7))>>
Epilogue == Restore(80) \o <<Return(89, <<>>)>>

(* Accesses at an offset of FP or SP; each uses the ids id .. id + 4.      *)
StoreAt(id, reg, off, size, v) ==
    <<Load(id, reg), Moved(id + 1, off, id), Pointer(id + 2, id + 1),
      At(id + 3, "memstore", size, <<v, V(id + 2)>>)>>
LoadAt(id, reg, off, size) ==
    <<Load(id, reg), Moved(id + 1, off, id), Pointer(id + 2, id + 1),
      At(id + 3, "memload", size, <<V(id + 2)>>), Observe(id + 4, V(id + 3))>>
PassAt(id, reg, off, size) ==
    <<Load(id, reg), Moved(id + 1, off, id), At(id + 2, "pass", size, <<V(id + 1)>>)>>

FrameFunction(pass, blocks) ==
    Program(pass, [b \in DOMAIN blocks |->
                     (IF b = 1 THEN Prologue ELSE <<>>) \o blocks[b]
                     \o (IF b = Len(blocks) THEN Epilogue ELSE <<>>)],
            {[SP |-> 64, FP |-> 201]}, One(13, 4), <<FramePointer>>)
Straight(pass, body) == FrameFunction(pass, <<body>>)
(* Entry, two arms, join.                                                  *)
Arms(pass, entering, left, right, join) ==
    FrameFunction(pass,
        <<entering \o <<Bin(20, "eq", 1, V(13), C(3)), Branch(21, V(20), 2, 3)>>,
          left \o <<Goto(22, 4)>>, right \o <<Goto(23, 4)>>, join>>)
(* Entry, a loop that runs twice, and the exit.                            *)
Twice(pass, entering, body, exit) ==
    FrameFunction(pass,
        <<entering \o <<Goto(20, 2)>>,
          <<[Ins(21, "phi", 4, <<C(0), V(22)>>) EXCEPT !.to = <<1, 2>>]>> \o body
          \o <<Bin(22, "add", 4, V(21), C(1)), Bin(23, "eq", 1, V(22), C(2)), Branch(24, V(23), 3, 2)>>,
          exit>>)

Local == StoreAt(30, FramePointer, -4, 2, V(13))
Taken(id) == <<LoadSP(id), Moved(id + 1, -4, id), Store(id + 2, StackPointer, V(id + 1))>>
Aligned ==
    <<LoadSP(40), Bin(41, "and", 8, V(40), C(Wrap(-8, 8))), Store(42, StackPointer, V(41))>>
      \o StoreAt(45, StackPointer, 0, 2, V(13)) \o LoadAt(50, StackPointer, 0, 2)
FrameShapes(pass) ==
    <<Straight(pass, Local \o LoadAt(40, FramePointer, -4, 2)),
      Straight(pass, Local \o LoadAt(40, StackPointer, 4, 2)),
      Straight(pass, Local \o PassAt(40, FramePointer, -4, 2)),
      Straight(pass, Local \o PassAt(40, FramePointer, -4, 2) \o LoadAt(50, FramePointer, -4, 2)),
      Straight(pass, Local \o PassAt(40, StackPointer, 4, 1) \o LoadAt(50, FramePointer, -4, 2)
                     \o LoadAt(60, FramePointer, 8, 1)),
      Straight(pass, Local \o Aligned \o LoadAt(60, FramePointer, -4, 2)),
      Arms(pass, Local, <<>>, StoreAt(40, StackPointer, 4, 2, C(9)), LoadAt(50, FramePointer, -4, 2)),
      Arms(pass, Local, Taken(40) \o StoreAt(45, StackPointer, 0, 1, C(2)) \o LoadAt(50, StackPointer, 0, 1),
           <<>>, LoadAt(60, FramePointer, -4, 2)),
      Arms(pass, Local, Taken(40), <<>>,
           StoreAt(50, StackPointer, 0, 1, C(2)) \o PassAt(60, StackPointer, 0, 1)
           \o LoadAt(65, FramePointer, -4, 2)),
      Arms(pass, Local, Taken(60) \o Aligned, <<>>, LoadAt(70, FramePointer, -4, 2)),
      Twice(pass, Local, StoreAt(40, FramePointer, -6, 2, V(21)) \o PassAt(45, FramePointer, -6, 2),
            LoadAt(50, FramePointer, -4, 2) \o LoadAt(60, FramePointer, -6, 2)),
      Twice(pass, Local, Taken(40) \o StoreAt(45, StackPointer, 0, 1, C(1)), LoadAt(50, FramePointer, -4, 2)),
      Twice(pass, Local, LoadAt(40, FramePointer, -4, 2) \o StoreAt(50, FramePointer, -4, 2, V(21)), <<>>)>>
(* The frame is gone on both ways to the last block, where FP is the       *)
(* caller's again.                                                         *)
Left(pass) ==
    Program(pass,
        <<Prologue \o Local \o <<Bin(20, "eq", 1, V(13), C(3)), Branch(21, V(20), 2, 3)>>,
          Restore(40) \o <<Goto(22, 4)>>,
          LoadAt(50, FramePointer, -4, 2) \o Restore(60) \o <<Goto(23, 4)>>,
          <<LoadFP(80), Observe(81, V(80)), Return(82, <<>>)>> >>,
        {[SP |-> 64, FP |-> 201]}, One(13, 4), <<FramePointer>>)
(* Part of a slot is read: before the late cleanup only.                   *)
Early == <<Straight("frame", Local \o LoadAt(40, FramePointer, -3, 1)), Left("frame"), Left("late")>>
StackPrograms == FrameShapes("frame") \o FrameShapes("late") \o Early

-----------------------------------------------------------------------------
(* Stack canaries: four bytes at TlsOffset above FS, saved below FP.       *)

Canary(id, off) ==
    <<Load(id, "FS"), Moved(id + 1, off, id), Pointer(id + 2, id + 1),
      At(id + 3, "memload", 4, <<V(id + 2)>>)>>
Saved == Canary(20, TlsOffset) \o StoreAt(24, FramePointer, -4, 4, V(23))
Work == StoreAt(30, FramePointer, -8, 2, V(13)) \o LoadAt(40, FramePointer, -8, 2)
(* Both sides of the comparison, in V(id + 3) and V(id + 7).               *)
Reloaded(id) ==
    <<LoadFP(id), Moved(id + 1, -4, id), Pointer(id + 2, id + 1),
      At(id + 3, "memload", 4, <<V(id + 2)>>)>> \o Canary(id + 4, TlsOffset)
Check(id, op, ok, fail) ==
    Reloaded(id) \o <<Bin(id + 8, op, 1, V(id + 3), V(id + 7)), Branch(id + 9, V(id + 8), ok, fail)>>
Fail == <<Ins(78, "fail", 0, <<>>), Leaving(79, "unreachable", <<>>, <<>>)>>

CanaryFunction(blocks) ==
    [FrameFunction("canary", [blocks EXCEPT ![1] = Saved \o @])
        EXCEPT !.entries = {[SP |-> 64, FP |-> 201, FS |-> 96, ZF |-> 0]}]
(* One check at the end, its comparison tested in different ways.          *)
Checked(tail) == CanaryFunction(<<Work \o Reloaded(50) \o tail, Fail, <<>> >>)
Tested(inner, outer, ok, fail) ==
    Checked(<<Bin(58, inner, 1, V(57), V(53)), Cast(59, "zext", 1, 8, V(58)),
              Bin(60, outer, 1, V(59), C(0)), Branch(61, V(60), ok, fail)>>)
Flagged(inner, outer, ok, fail) ==
    Checked(<<Bin(58, inner, 1, V(53), V(57)), Cast(59, "zext", 1, 8, V(58)),
              Store(60, ZeroFlag, V(59)), Load(61, ZeroFlag), Bin(62, outer, 1, C(0), V(61)),
              Branch(63, V(62), ok, fail)>>)
(* The canary's address, or its base, is joined on two paths.              *)
BaseJoined(early) ==
    CanaryFunction(
        <<Work \o <<Bin(45, "eq", 1, V(13), C(3)), Branch(46, V(45), 2, 3)>>,
          <<Load(70, "FS"), Moved(71, TlsOffset, 70), Goto(72, 4)>>,
          <<Load(74, "FS"), Moved(75, TlsOffset, 74), Goto(76, 4)>>,
          <<[Ins(50, "phi", 8, IF early THEN <<V(71), V(75)>> ELSE <<V(70), V(74)>>)
                EXCEPT !.to = <<2, 3>>],
            Moved(51, IF early THEN 0 ELSE TlsOffset, 50), Pointer(52, 51),
            At(53, "memload", 4, <<V(52)>>),
            LoadFP(54), Moved(55, -4, 54), Pointer(56, 55), At(57, "memload", 4, <<V(56)>>),
            Bin(58, "eq", 1, V(57), V(53)), Branch(59, V(58), 6, 5)>>,
          Fail, <<>> >>)
CanaryPrograms ==
    <<CanaryFunction(<<Work \o Check(50, "eq", 3, 2), Fail, <<>> >>),
      CanaryFunction(<<Work \o Check(50, "ne", 2, 3), Fail, <<>> >>),
      Tested("eq", "ne", 3, 2), Tested("eq", "eq", 2, 3), Tested("ne", "ne", 2, 3),
      Flagged("eq", "eq", 2, 3), Flagged("ne", "eq", 3, 2), Flagged("eq", "ne", 3, 2),
      BaseJoined(FALSE), BaseJoined(TRUE),
      \* two returns with a check each
      CanaryFunction(<<Work \o <<Bin(45, "eq", 1, V(13), C(3)), Branch(46, V(45), 2, 4)>>,
                       Check(50, "eq", 3, 6), Restore(90) \o <<Return(100, <<>>)>>,
                       Check(60, "ne", 6, 5), <<Goto(70, 7)>>, Fail, <<>> >>),
      \* the failure is also where another condition leads
      CanaryFunction(<<Work \o <<Bin(45, "eq", 1, V(13), C(3)), Branch(46, V(45), 3, 2)>>,
                       Check(50, "eq", 4, 3),
                       <<[Ins(70, "phi", 4, <<C(1), C(2)>>) EXCEPT !.to = <<1, 2>>]>> \o Fail,
                       <<>> >>),
      \* a check that looks like one but is needed
      CanaryFunction(<<Work \o <<LoadFP(50), Moved(51, -8, 50), Pointer(52, 51),
                                 At(53, "memload", 2, <<V(52)>>), Bin(54, "eq", 1, V(53), C(3)),
                                 Branch(55, V(54), 3, 2)>>, Fail, <<>> >>),
      Checked(<<Bin(58, "eq", 1, V(53), V(57)), Observe(59, V(57)), Branch(60, V(58), 3, 2)>>),
      Checked(<<Bin(58, "eq", 1, V(53), V(57)), Observe(59, V(58)), Branch(60, V(58), 3, 2)>>),
      CanaryFunction(<<Work \o Check(50, "eq", 3, 2), <<Observe(70, V(13))>> \o Fail, <<>> >>),
      \* a constant is stored for the call, into the frame or elsewhere
      CanaryFunction(<<Work \o Check(50, "eq", 3, 2),
                       <<Ins(70, "inttoptr", 8, <<C(20)>>),
                         At(71, "memstore", 4, <<C(9), V(70)>>)>> \o Fail, <<>> >>),
      CanaryFunction(<<Work \o Check(50, "eq", 3, 2),
                       <<LoadSP(70), Moved(71, -4, 70), Pointer(72, 71),
                         At(73, "memstore", 4, <<C(9), V(72)>>)>> \o Fail, <<>> >>),
      CanaryFunction(<<Work \o Reloaded(50) \o Canary(60, TlsOffset + 4)
                       \o <<Bin(64, "eq", 1, V(53), V(63)), Branch(65, V(64), 3, 2)>>,
                       Fail, <<>> >>),
      \* a check in a loop
      CanaryFunction(<<Work \o <<Goto(45, 2)>>,
                       <<[Ins(46, "phi", 4, <<C(0), V(47)>>) EXCEPT !.to = <<1, 3>>]>>
                       \o Check(50, "eq", 3, 4),
                       <<Bin(47, "add", 4, V(46), C(1)), Observe(48, V(47)), Bin(49, "eq", 1, V(47), C(2)),
                         Branch(70, V(49), 5, 2)>>,
                       Fail, <<>> >>)>>

MCPrograms ==
    PreSummaryPrograms \o DemandPrograms \o PostPrograms \o FinalPrograms \o StackPrograms
    \o CanaryPrograms
NegativeDivisorPrograms == <<NegatedDivision(11, 4, 1), NegatedDivision(6, 4, 0)>>
=============================================================================
