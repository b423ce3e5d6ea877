------------------------------- MODULE OpRuns -------------------------------
(***************************************************************************)
(* Straight-line p-code executed by a p-code machine, whose registers,     *)
(* temporaries and memory are bytes, next to the code it is lowered to     *)
(* (OpLowering), one machine instruction at a time.                        *)
(***************************************************************************)
EXTENDS OpLowering

CONSTANTS
    Codes,       \* the sequences of operations executed
    RegisterStarts       \* the bytes of the registers at the start

Undefined == -100000      \* no result of an operation
RegisterBytes == UNION {r.off .. r.off + r.size - 1 : r \in ToSet(RegisterTable)}
UniqueBytes == 0 .. 7
Addresses == 0 .. AddressSpace - 1

VARIABLES code,      \* the operations executed
          place,     \* the next one
          machine,   \* the p-code machine: space -> byte -> value
          lowered    \* the lowered code's registers, values and memory

opVars == <<code, place, machine, lowered>>

-----------------------------------------------------------------------------
(* The p-code machine *)

Positions(v) == IF v.space = "ram" THEN Cells(v.off, v.size)
                ELSE [k \in 1 .. v.size |-> v.off + k - 1]
Stored(m, v) ==
    LET bytes == [k \in 1 .. v.size |-> m[v.space][Positions(v)[k]]]
    IN  IF Undefined \in ToSet(bytes) THEN Undefined
        ELSE FoldFunction(+, 0, [k \in 1 .. v.size |-> bytes[k] * Weight(k, v.size)])
Holds(m, v) == IF v.space = "const" THEN v.off % 2^Width(v.size) ELSE Stored(m, v)

ByteOf(n, k, size) == IF n = Undefined THEN n ELSE (n \div Weight(k, size)) % 2^ByteBits
Put(m, v, n) ==
    [m EXCEPT ![v.space] = [c \in DOMAIN @ |->
        IF c \in ToSet(Positions(v))
        THEN ByteOf(n, CHOOSE k \in 1 .. v.size : Positions(v)[k] = c, v.size) ELSE @[c]]]

Ram(address, size) == [space |-> "ram", off |-> address, size |-> size]
Truncated(n, d) == (IF (n < 0) = (d < 0) THEN 1 ELSE -1) * (Magnitude(n) \div Magnitude(d))
Bool(condition) == IF condition THEN 1 ELSE 0
BitSet(n) == {k \in 0 .. 15 : (n \div 2^k) % 2 = 1}
FromBits(bits) == MapThenSumSet(LAMBDA k : 2^k, bits)

(* The manual's result for the input values x, before it is cut to the     *)
(* size of the output; a division by zero has none.                        *)
Result(op, x) ==
    LET bits == Width(op.in[1].size)
        s(k) == IF x[k] >= 2^(Width(op.in[k].size) - 1)
                THEN x[k] - 2^Width(op.in[k].size) ELSE x[k]
        range == -(2^(bits - 1)) .. 2^(bits - 1) - 1
    IN  CASE op.op \in {"COPY", "CAST", "INT_ZEXT"} -> x[1]
          [] op.op = "INT_SEXT" -> s(1)
          [] op.op \in {"INT_ADD", "PTRSUB"} -> x[1] + x[2]
          [] op.op = "INT_SUB" -> x[1] - x[2]
          [] op.op = "INT_MULT" -> x[1] * x[2]
          [] op.op = "PTRADD" -> x[1] + x[2] * x[3]
          [] op.op \in {"INT_DIV", "INT_REM", "INT_SDIV", "INT_SREM"} /\ x[2] = 0 -> Undefined
          [] op.op = "INT_DIV" /\ x[2] # 0 -> x[1] \div x[2]
          [] op.op = "INT_REM" /\ x[2] # 0 -> x[1] % x[2]
          [] op.op = "INT_SDIV" /\ x[2] # 0 -> Truncated(s(1), s(2))
          [] op.op = "INT_SREM" /\ x[2] # 0 -> s(1) - s(2) * Truncated(s(1), s(2))
          [] op.op = "INT_AND" -> FromBits(BitSet(x[1]) \cap BitSet(x[2]))
          [] op.op = "INT_OR" -> FromBits(BitSet(x[1]) \cup BitSet(x[2]))
          [] op.op = "INT_XOR" -> x[1] + x[2] - 2 * FromBits(BitSet(x[1]) \cap BitSet(x[2]))
          [] op.op = "INT_NEGATE" -> 2^bits - 1 - x[1]
          [] op.op = "INT_2COMP" -> -x[1]
          [] op.op = "INT_LEFT" -> x[1] * 2^x[2]
          [] op.op = "INT_RIGHT" -> x[1] \div 2^x[2]
          [] op.op = "INT_SRIGHT" -> s(1) \div 2^x[2]
          [] op.op = "INT_EQUAL" -> Bool(x[1] = x[2])
          [] op.op = "INT_NOTEQUAL" -> Bool(x[1] # x[2])
          [] op.op = "INT_LESS" -> Bool(x[1] < x[2])
          [] op.op = "INT_LESSEQUAL" -> Bool(x[1] <= x[2])
          [] op.op = "INT_SLESS" -> Bool(s(1) < s(2))
          [] op.op = "INT_SLESSEQUAL" -> Bool(s(1) <= s(2))
          [] op.op = "INT_CARRY" -> Bool(x[1] + x[2] >= 2^bits)
          [] op.op = "INT_SCARRY" -> Bool(s(1) + s(2) \notin range)
          [] op.op = "INT_SBORROW" -> Bool(s(1) - s(2) \notin range)
          [] op.op = "SUBPIECE" -> x[1] \div 2^(ByteBits * x[2])
          [] op.op = "PIECE" -> x[1] * 2^Width(op.in[2].size) + x[2]
          [] op.op = "POPCOUNT" -> Cardinality(BitSet(x[1]))
          [] op.op = "LZCOUNT" -> Cardinality({k \in 0 .. bits - 1 : x[1] < 2^k})
          [] op.op = "BOOL_NEGATE" -> 1 - x[1]
          [] op.op = "BOOL_AND" -> x[1] * x[2]
          [] op.op = "BOOL_OR" -> Bool(x[1] + x[2] > 0)
          [] op.op = "BOOL_XOR" -> Bool(x[1] # x[2])
          [] op.op = "MOVMSKPD" ->
                FromBits({k \in 0 .. op.in[1].size \div 2 - 1 :
                            x[1] \div 2^(LaneBits * (k + 1) - 1) % 2 = 1})

(* A called function does what its lowering does and returns, with the     *)
(* return address popped and its place on the stack used or not.           *)
Called(m, op) ==
    LET sp == Holds(m, StackPointer)
        slot == Ram(sp, PointerSize)
        done == IF op.in[1].off \in DOMAIN Thunks
                THEN Put(m, Thunks[op.in[1].off], Holds(m, slot)) ELSE m
    IN  Put(Put(done, slot, Undefined), StackPointer, sp + PointerSize)

Operate(m, op) ==
    CASE op.op = "LOAD" -> Put(m, op.out, Holds(m, Ram(Holds(m, op.in[2]), op.out.size)))
      [] op.op = "STORE" -> Put(m, Ram(Holds(m, op.in[2]), op.in[3].size), Holds(m, op.in[3]))
      [] op.op = "CALL" -> Called(m, op)
      [] op.op \in {"LOCK", "RETURN"} -> m
      [] OTHER ->
            LET x == [k \in DOMAIN op.in |-> Holds(m, op.in[k])]
            IN  Put(m, op.out,
                    IF Undefined \in ToSet(x) THEN Undefined ELSE Result(op, x))

-----------------------------------------------------------------------------
StartBytes(start) == [register |-> start,
                      unique |-> [u \in UniqueBytes |-> Undefined],
                      ram |-> [a \in Addresses |-> (a + 1) % 2^ByteBits]]
UnitValue(bytes, unit) ==
    FoldFunction(+, 0, [k \in 1 .. unit.size |->
        bytes[unit.off + k - 1] * Weight(k, unit.size)])

OpInit ==
    /\ code \in Codes
    /\ place = 1
    /\ \E start \in RegisterStarts :
         /\ machine = StartBytes(start)
         /\ lowered = [units |-> [k \in DOMAIN Units |-> UnitValue(start, Units[k])],
                       values |-> <<>>, memory |-> StartBytes(start).ram]

Instruction == [k \in 1 .. Cardinality(SameInstruction(code, place)) |-> place + k - 1]

ExecuteInstruction ==
    /\ place \in DOMAIN code
    /\ machine' = FoldLeft(LAMBDA m, i : Operate(m, code[i]), machine, Instruction)
    /\ lowered' = LET suppressed == Suppressed(code)
                    writes == ThunkWrites(code)
                IN  FoldLeft(LAMBDA l, i : LowerAt(l, code, i, suppressed, writes),
                             lowered, Instruction)
    /\ place' = place + Len(Instruction)
    /\ UNCHANGED code

-----------------------------------------------------------------------------
Returned == place \notin DOMAIN code /\ code[Len(code)].op = "RETURN"

(* Where lowered code has not popped the return address.                   *)
Expected ==
    IF Returned THEN Put(machine, StackPointer, Holds(machine, StackPointer) - PointerSize)
    ELSE machine

(* The register of a get_pc thunk between the call and the addition.       *)
Pending ==
    UNION {UNION {ToSet(Positions(Thunks[code[i].in[1].off])) :
                    j \in {k \in ThunkAdd(code, i) : i < place /\ place <= k}} :
             i \in ThunkCalls(code)}

Register(off) == [space |-> "register", off |-> off, size |-> 1]
SameRegisters ==
    \A b \in RegisterBytes \ Pending :
        Expected.register[b] \in {Undefined, RegisterRead(lowered, Register(b)).n}
SameMemory == \A a \in Addresses : machine.ram[a] \in {Undefined, lowered.memory[a]}
SameTemporaries ==
    Returned \/ \A v \in DOMAIN lowered.values :
        Stored(machine, v) \in {Undefined, lowered.values[v].n}

StatesAgree == SameRegisters /\ SameMemory /\ SameTemporaries
=============================================================================
