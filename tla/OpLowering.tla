----------------------------- MODULE OpLowering -----------------------------
(***************************************************************************)
(* What a p-code operation becomes: RegisterStorage, which keeps the       *)
(* overlapping registers of a machine in one LLVM global per group, and    *)
(* the lowering of the operations outside terminators, straight-line code  *)
(* only (PcodeBlocks has the control flow).  The lowered code is not       *)
(* written down but executed: LowerOp(low, op, x) is its machine after the *)
(* code that lowerOp() emits has run.                                      *)
(*                                                                         *)
(* A varnode is [space, off, size]; an operation is [at, next, op, out,    *)
(* in], `at` and `next` the addresses of its machine instruction and of    *)
(* the one behind it.  A value carries its width, as LLVM's do.            *)
(***************************************************************************)
EXTENDS LiftedCode

CONSTANTS
    ByteBits,        \* the bits of a byte: 8, fewer where every value is tried
    PointerSize,     \* the bytes of an address
    RegisterTable,   \* the registers of the machine, [off, size], in any order
    BigEndian,
    StackPointer,    \* the varnode of RSP or ESP
    Thunks           \* get_pc thunks: address -> the register varnode they set

Width(size) == IF size = 0 THEN 1 ELSE size * ByteBits
Value(n, bits) == [n |-> n, bits |-> bits]
IntConstant(n, size) == Value(Wrap(n, Width(size)), Width(size))

(* IRBuilder: an instruction with a poison operand gives poison.           *)
Build(op, bits, x) ==
    Value(IF \E k \in DOMAIN x : x[k].n = Poison THEN Poison
          ELSE Pure(Ins(0, op, bits, <<>>), [k \in DOMAIN x |-> x[k].n]), bits)
Truth(x, condition) ==
    Value(IF \E k \in DOMAIN x : x[k].n = Poison THEN Poison
          ELSE IF condition THEN 1 ELSE 0, 1)

Extend(v, op, bits) ==
    Value(IF v.n = Poison THEN Poison
          ELSE Pure(Cast(0, op, v.bits, bits, PoisonOperand), <<v.n>>), bits)
Resize(v, size) ==
    IF v.bits < Width(size) THEN Extend(v, "zext", Width(size))
    ELSE IF v.bits > Width(size) THEN Extend(v, "trunc", Width(size)) ELSE v

-----------------------------------------------------------------------------
(* RegisterStorage *)

Overlaps(a, b) == a.off < b.off + b.size /\ b.off < a.off + a.size
Hull(a, b) ==
    LET from == Min({a.off, b.off})
    IN  [off |-> from, size |-> Max({a.off + a.size, b.off + b.size}) - from]

(* The first unit a register overlaps grows to hold it.                    *)
Merged(units, reg) ==
    LET hit == {k \in DOMAIN units : Overlaps(units[k], reg)}
    IN  IF hit = {} THEN Append(units, [off |-> reg.off, size |-> reg.size])
        ELSE [units EXCEPT ![Min(hit)] = Hull(@, reg)]
Units ==
    FoldLeft(Merged, <<>>,
        SortSeq(RegisterTable,
                LAMBDA a, b : a.off < b.off \/ (a.off = b.off /\ a.size > b.size)))

HoldingUnits(access) ==
    {k \in DOMAIN Units : /\ Units[k].off <= access.off
                          /\ access.off + access.size <= Units[k].off + Units[k].size}
HasRegister(access) == access.space = "register" /\ HoldingUnits(access) # {}
UnitFor(access) == Min(HoldingUnits(access))

BitOffset(unit, access) ==
    LET relative == access.off - unit.off
    IN  ByteBits * (IF BigEndian THEN unit.size - relative - access.size ELSE relative)

WholeUnit(access) ==
    access.off = Units[UnitFor(access)].off /\ access.size = Units[UnitFor(access)].size

RegisterRead(low, access) ==
    LET all == low.units[UnitFor(access)]
    IN  Value(IF all = Poison THEN Poison
              ELSE IF WholeUnit(access) THEN all
              ELSE Field(all, BitOffset(Units[UnitFor(access)], access), Width(access.size)),
              Width(access.size))

\* Bug: a narrow write sets the register's upper bits to zero.
RegisterWriteZeroing(low, access, v) ==
    [low EXCEPT !.units[UnitFor(access)] =
        IF v.n = Poison THEN Poison
        ELSE v.n * 2^BitOffset(Units[UnitFor(access)], access)]

RegisterWrite(low, access, v) ==
    [low EXCEPT !.units[UnitFor(access)] =
        IF WholeUnit(access) THEN v.n
        ELSE IF v.n = Poison \/ @ = Poison THEN Poison
        ELSE Replaced(@, BitOffset(Units[UnitFor(access)], access), Width(access.size), v.n)]

-----------------------------------------------------------------------------
(* Reading and writing varnodes *)

AddressSpace == 2^Width(PointerSize)
Cells(address, size) == [k \in 1 .. size |-> (address + k - 1) % AddressSpace]
Weight(k, size) == 2^(ByteBits * (IF BigEndian THEN size - k ELSE k - 1))

(* A load or store through notdec_ram_ptr.                                 *)
MemoryLoad(low, address, size) ==
    LET bytes == [k \in 1 .. size |-> low.memory[Cells(address.n, size)[k]]]
    IN  Value(IF Poison \in ToSet(bytes) THEN Poison
              ELSE FoldFunction(+, 0, [k \in 1 .. size |-> bytes[k] * Weight(k, size)]),
              Width(size))
MemoryStore(low, address, v) ==
    LET size == v.bits \div ByteBits
        byte(k) == IF v.n = Poison THEN Poison ELSE (v.n \div Weight(k, size)) % 2^ByteBits
    IN  [low EXCEPT !.memory = [a \in DOMAIN @ |->
            IF a \in ToSet(Cells(address.n, size))
            THEN byte(CHOOSE k \in 1 .. size : Cells(address.n, size)[k] = a) ELSE @[a]]]

Unknown(size) == Value(Poison, Width(size))

Read(low, varnode) ==
    IF varnode.space = "const" THEN IntConstant(varnode.off, varnode.size)
    ELSE IF varnode \in DOMAIN low.values THEN low.values[varnode]
    ELSE IF varnode.space = "ram"
         THEN MemoryLoad(low, IntConstant(varnode.off, PointerSize), varnode.size)
    ELSE IF HasRegister(varnode) THEN RegisterRead(low, varnode)
    ELSE Unknown(varnode.size)

ReadAs(low, varnode, size) == Resize(Read(low, varnode), size)

Write(low, varnode, v) ==
    LET resized == Resize(v, varnode.size)
    IN  IF HasRegister(varnode) THEN RegisterWrite(low, varnode, resized)
        ELSE IF varnode.space = "ram"
             THEN MemoryStore(low, IntConstant(varnode.off, PointerSize), resized)
        ELSE [low EXCEPT !.values = (varnode :> resized) @@ @]

(* A register read whose only users mask it with constants reads no more   *)
(* bytes than the mask needs; here, for a read by the masking operation.   *)
ActiveBits(n) == IF n = 0 THEN 0 ELSE 1 + Max(BitsOf(n))
MaskedRead(low, varnode, mask) ==
    LET wide == {s \in {1, 2, 4, 8} : ActiveBits(mask) <= s * ByteBits}
        narrow == [varnode EXCEPT !.size = Min(wide)]
        narrows == /\ HasRegister(varnode) /\ varnode.size > 1
                   /\ ActiveBits(mask) \in 1 .. Width(varnode.size) - 1
                   /\ narrow.size < varnode.size
    IN  Extend(Read(low, IF narrows THEN narrow ELSE varnode), "zext", Width(varnode.size))

-----------------------------------------------------------------------------
(* One operator per lower...(): the value written to the output, from the  *)
(* values x read from the inputs.                                          *)

BinaryOpcode ==
    [INT_ADD |-> "add", INT_SUB |-> "sub", INT_MULT |-> "mul", INT_DIV |-> "udiv",
     INT_SDIV |-> "sdiv", INT_REM |-> "urem", INT_SREM |-> "srem", INT_AND |-> "and",
     INT_OR |-> "or", INT_XOR |-> "xor", INT_LEFT |-> "shl", INT_RIGHT |-> "lshr",
     INT_SRIGHT |-> "ashr"]

LowerBinary(op, x) ==
    LET size == op.out.size
    IN  IF op.op = "INT_XOR" /\ op.in[1] = op.in[2] THEN IntConstant(0, size)
        ELSE Build(BinaryOpcode[op.op], Width(size), <<Resize(x[1], size), Resize(x[2], size)>>)

LowerCompare(op, x) ==
    LET a == x[1].n
        b == Resize(x[2], op.in[1].size).n
        s(n) == Signed(n, x[1].bits)
    IN  Truth(x, CASE op.op = "INT_EQUAL" -> a = b
                   [] op.op = "INT_NOTEQUAL" -> a # b
                   [] op.op = "INT_LESS" -> a < b
                   [] op.op = "INT_LESSEQUAL" -> a <= b
                   [] op.op = "INT_SLESS" -> s(a) < s(b)
                   [] op.op = "INT_SLESSEQUAL" -> s(a) <= s(b))

LowerCast(op, x) ==
    Extend(x[1], IF op.op = "INT_ZEXT" THEN "zext" ELSE "sext", Width(op.out.size))

LowerUnary(op, x) ==
    LET size == op.out.size
        v == Resize(x[1], size)
    IN  IF op.op = "INT_NEGATE" THEN Build("xor", Width(size), <<v, IntConstant(-1, size)>>)
        ELSE Build("sub", Width(size), <<IntConstant(0, size), v>>)

LowerSubpiece(op, x) ==
    Build("lshr", x[1].bits, <<x[1], Value(op.in[2].off * ByteBits, x[1].bits)>>)

LowerPiece(op, x) ==
    LET bits == Width(op.out.size)
        high == Build("shl", bits, <<Extend(x[1], "zext", bits), Value(x[2].bits, bits)>>)
    IN  Build("or", bits, <<high, Extend(x[2], "zext", bits)>>)

LowerCountBits(op, x) ==
    IF x[1].n = Poison THEN x[1]
    ELSE Value(IF op.op = "POPCOUNT" THEN Cardinality(BitsOf(x[1].n))
               ELSE x[1].bits - ActiveBits(x[1].n), x[1].bits)

LowerPtrAdd(op, x) ==
    LET size == op.out.size
        scaled == Build("mul", Width(size), <<Resize(x[2], size), IntConstant(op.in[3].off, size)>>)
    IN  Build("add", Width(size), <<Resize(x[1], size), scaled>>)

LowerPtrSub(op, x) ==
    LET size == op.out.size
    IN  Build("add", Width(size), <<Resize(x[1], size), IntConstant(op.in[2].off, size)>>)

(* The carry of llvm.uadd, llvm.sadd and llvm.ssub.with.overflow.          *)
LowerOverflow(op, x) ==
    LET bits == x[1].bits
        b == Resize(x[2], op.in[1].size).n
        signed == IF op.op = "INT_SCARRY" THEN Signed(x[1].n, bits) + Signed(b, bits)
                  ELSE Signed(x[1].n, bits) - Signed(b, bits)
    IN  Truth(x, IF op.op = "INT_CARRY" THEN x[1].n + b >= 2^bits
                 ELSE signed \notin -(2^(bits - 1)) .. 2^(bits - 1) - 1)

AsCondition(v) == IF v.bits = 1 THEN v ELSE Truth(<<v>>, v.n # 0)

LowerBoolNegate(x) == Build("xor", 1, <<AsCondition(x[1]), Value(1, 1)>>)

BoolOpcode == [BOOL_AND |-> "and", BOOL_OR |-> "or", BOOL_XOR |-> "xor"]
LowerBoolBinary(op, x) ==
    Build(BoolOpcode[op.op], 1, <<AsCondition(x[1]), AsCondition(x[2])>>)

(* MOVMSKPD of input 1, with lanes of two bytes for its eight.             *)
LaneBits == 2 * ByteBits
LowerX86Movmskpd(op, x) ==
    LET lanes == op.in[1].size \div 2
        bit(k) == Field(x[1].n, k * LaneBits + LaneBits - 1, 1)
    IN  Value(IF x[1].n = Poison THEN Poison
              ELSE NumberOf({k \in 0 .. lanes - 1 : bit(k) = 1}), Width(op.out.size))

Compares == {"INT_EQUAL", "INT_NOTEQUAL", "INT_LESS", "INT_LESSEQUAL", "INT_SLESS",
             "INT_SLESSEQUAL"}

LowerPure(op, x) ==
    CASE op.op \in DOMAIN BinaryOpcode -> LowerBinary(op, x)
      [] op.op \in Compares -> LowerCompare(op, x)
      [] op.op \in {"INT_ZEXT", "INT_SEXT"} -> LowerCast(op, x)
      [] op.op \in {"INT_NEGATE", "INT_2COMP"} -> LowerUnary(op, x)
      [] op.op = "SUBPIECE" -> LowerSubpiece(op, x)
      [] op.op = "PIECE" -> LowerPiece(op, x)
      [] op.op \in {"POPCOUNT", "LZCOUNT"} -> LowerCountBits(op, x)
      [] op.op \in {"COPY", "CAST"} -> x[1]
      [] op.op = "PTRADD" -> LowerPtrAdd(op, x)
      [] op.op = "PTRSUB" -> LowerPtrSub(op, x)
      [] op.op \in {"INT_CARRY", "INT_SCARRY", "INT_SBORROW"} -> LowerOverflow(op, x)
      [] op.op = "BOOL_NEGATE" -> LowerBoolNegate(x)
      [] op.op \in DOMAIN BoolOpcode -> LowerBoolBinary(op, x)
      [] op.op = "MOVMSKPD" -> LowerX86Movmskpd(op, x)

(* The address space is input 1.                                           *)
LowerLoad(low, op, x) == MemoryLoad(low, Resize(x[2], PointerSize), op.out.size)
LowerStore(low, x) == MemoryStore(low, Resize(x[2], PointerSize), x[3])

(* A callee keeps what it is lowered to keep; a get_pc thunk loads its     *)
(* register from the top of the stack.                                     *)
CallWrites(op) == op.in[1].off \in DOMAIN Thunks
LowerCall(low, op) ==
    MemoryLoad(low, Read(low, StackPointer), Thunks[op.in[1].off].size)

IsMask(op, k) ==
    /\ op.op = "INT_AND" /\ \A i \in {1, 2} : op.in[i].size = op.out.size
    /\ op.in[k].space = "const"
Operands(low, op) ==
    [k \in DOMAIN op.in |->
        IF IsMask(op, 1) \/ IsMask(op, 2)
        THEN IF IsMask(op, k) THEN Read(low, op.in[k])
             ELSE MaskedRead(low, op.in[k], IntConstant(op.in[3 - k].off, op.out.size).n)
        ELSE Read(low, op.in[k])]

LowerOp(low, op, x) ==
    CASE op.op = "STORE" -> LowerStore(low, x)
      [] op.op \in {"LOCK", "RETURN"} -> low
      [] op.op = "CALL" ->
            IF CallWrites(op) THEN Write(low, Thunks[op.in[1].off], LowerCall(low, op)) ELSE low
      [] OTHER -> Write(low, op.out, IF op.op = "LOAD" THEN LowerLoad(low, op, x)
                                     ELSE LowerPure(op, x))

-----------------------------------------------------------------------------
(* Operations that calls and returns leave out.  A machine's CALL pushes   *)
(* its return address and RET pops it; an LLVM call and ret do neither.    *)

SameInstruction(ops, i) == {j \in DOMAIN ops : ops[j].at = ops[i].at}
FirstOf(places) == IF places = {} THEN {} ELSE {Min(places)}
Adjusts(op, opcode) ==
    /\ op.op = opcode /\ op.out = StackPointer
    /\ op.in[1] = StackPointer
    /\ op.in[2] = [space |-> "const", off |-> PointerSize, size |-> PointerSize]

CallStackEffect(ops, group) ==
    LET subtract == FirstOf({j \in group : Adjusts(ops[j], "INT_SUB")})
        pushes(j) == /\ ops[j].op = "STORE" /\ ops[j].in[2] = StackPointer
                     /\ ops[j].in[3] = [space |-> "const", off |-> ops[j].next,
                                        size |-> PointerSize]
        store == FirstOf({j \in group : pushes(j) /\ \E k \in subtract : j > k})
    IN  IF store = {} THEN {} ELSE subtract \cup store

ReturnStackEffect(ops, group) ==
    LET return == FirstOf({j \in group : ops[j].op = "RETURN"})
        before == {j \in group : \E k \in return : j < k}
        loads(j) == /\ ops[j].op = "LOAD" /\ ops[j].in[2] = StackPointer
                    /\ \E k \in return : ops[j].out = ops[k].in[1]
        load == FirstOf({j \in before : loads(j)})
        add == FirstOf({j \in before : /\ Adjusts(ops[j], "INT_ADD")
                                       /\ \E k \in load : j > k})
    IN  IF add = {} THEN {} ELSE load \cup add

HasOp(ops, group, opcode) == \E j \in group : ops[j].op = opcode
StackEffects(ops) ==
    UNION {(IF HasOp(ops, SameInstruction(ops, i), "CALL")
            THEN CallStackEffect(ops, SameInstruction(ops, i)) ELSE {})
           \cup (IF HasOp(ops, SameInstruction(ops, i), "RETURN")
                 THEN ReturnStackEffect(ops, SameInstruction(ops, i)) ELSE {}) :
             i \in DOMAIN ops}

(* A call of a get_pc thunk and the addition to its register that follows  *)
(* become one constant, written where the call was.                        *)
ThunkCalls(ops) == {i \in DOMAIN ops : ops[i].op = "CALL" /\ ops[i].in[1].off \in DOMAIN Thunks}
ThunkAdd(ops, i) ==
    LET reg == Thunks[ops[i].in[1].off]
        behind == {j \in DOMAIN ops : j > Max(SameInstruction(ops, i))}
        ends == {j \in behind : ops[j].op \in {"CALL", "RETURN"}}
        adds(j) == /\ ops[j].op = "INT_ADD" /\ ops[j].out = reg
                   /\ \E k \in DOMAIN ops[j].in : ops[j].in[k] = reg
                   /\ \E k \in DOMAIN ops[j].in : ops[j].in[k].space = "const"
    IN  FirstOf({j \in behind : adds(j) /\ \A k \in ends : j < k})
Addend(op) == op.in[Min({k \in DOMAIN op.in : op.in[k].space = "const"})].off

ThunkWrites(ops) ==
    UNION {{[at |-> Min(SameInstruction(ops, i)), reg |-> Thunks[ops[i].in[1].off],
             value |-> ops[i].next + Addend(ops[j])] : j \in ThunkAdd(ops, i)} :
             i \in ThunkCalls(ops)}

Suppressed(ops) ==
    StackEffects(ops)
    \cup UNION {UNION {SameInstruction(ops, i) \cup {k \in SameInstruction(ops, j) : k >= j} :
                         j \in ThunkAdd(ops, i)} : i \in ThunkCalls(ops)}

LowerAt(low, ops, i, suppressed, writes) ==
    IF i \notin suppressed THEN LowerOp(low, ops[i], Operands(low, ops[i]))
    ELSE FoldSet(LAMBDA w, l : Write(l, w.reg, IntConstant(w.value, w.reg.size)), low,
                 {w \in writes : w.at = i})
=============================================================================
