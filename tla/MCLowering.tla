---------------------------- MODULE MCLowering ----------------------------
(* Functions of a few instructions for the block structure and for the x87   *)
(* window, and short p-code sequences for the operations.                    *)
EXTENDS LoweringRuns, TLC

LOCAL INSTANCE SequencesExt

Functions == INSTANCE LoweringPrograms
MCPcodeFunctions == Functions!CutFunctions
MCStalePointers == Functions!StalePointers
MCX87Functions == Functions!WindowFunctions
MCArith(a, b) == Functions!Combined(a, b)
MCUnary(a) == Functions!Negated(a)

-----------------------------------------------------------------------------
(* P-code as SLEIGH makes it of x86 instructions, on a machine with bytes of *)
(* two bits: a register A with AX, AL and AH inside, B with BL, two          *)
(* registers that overlap in part, a flag and a stack pointer.               *)

Reg(off, size) == [space |-> "register", off |-> off, size |-> size]
Const(n, size) == [space |-> "const", off |-> n, size |-> size]
Memory(off, size) == [space |-> "ram", off |-> off, size |-> size]
Unique(off, size) == [space |-> "unique", off |-> off, size |-> size]
A == Reg(0, 4)   AX == Reg(0, 2)   AL == Reg(0, 1)   AH == Reg(1, 1)
B == Reg(4, 2)   BL == Reg(4, 1)   SP == Reg(6, 2)   F == Reg(8, 1)
X == Reg(9, 2)   Y == Reg(10, 2)

MCStackPointer == SP
MCRegisterTable ==
    <<[off |-> 0, size |-> 1], [off |-> 0, size |-> 4], [off |-> 1, size |-> 1],
      [off |-> 0, size |-> 2], [off |-> 10, size |-> 2], [off |-> 6, size |-> 2],
      [off |-> 4, size |-> 1], [off |-> 9, size |-> 2], [off |-> 8, size |-> 1],
      [off |-> 4, size |-> 2]>>
ThunkEntry == 13
MCThunks == (ThunkEntry :> B)

MCRegisterStarts ==
    {[b \in 0 .. 11 |-> IF b = 6 THEN 2 ELSE IF b = 7 THEN 2 ELSE IF b = 8 THEN f
                              ELSE (b * b + k) % 4] : k \in 0 .. 3, f \in 0 .. 1}

Do(op, out, in) == [op |-> op, out |-> out, in |-> in]
NextAddress == Const(99, 2)      \* stands for the address behind
Nothing == Const(0, 1)
Space == Const(0, 1)

\* No two temporaries of different size share bytes, as in SLEIGH.
T(size) == Unique(2 * (size - 1), size)
Flagged(flag, op, out, in) == <<Do(flag, F, in), Do(op, out, in)>>
Shift(op, reg) == <<Do("INT_AND", Unique(4, 2), <<B, Const(3, 2)>>), Do(op, reg, <<reg, Unique(4, 2)>>)>>
Push(v) == <<Do("COPY", T(2), <<v>>), Do("INT_SUB", SP, <<SP, Const(2, 2)>>),
             Do("STORE", Nothing, <<Space, SP, T(2)>>)>>
Pop(v) == <<Do("LOAD", v, <<Space, SP>>), Do("INT_ADD", SP, <<SP, Const(2, 2)>>)>>
Call(target) == <<Do("INT_SUB", SP, <<SP, Const(2, 2)>>),
                  Do("STORE", Nothing, <<Space, SP, NextAddress>>),
                  Do("CALL", Nothing, <<Const(target, 2)>>)>>
Ret == <<Do("LOAD", T(2), <<Space, SP>>), Do("INT_ADD", SP, <<SP, Const(2, 2)>>),
         Do("RETURN", Nothing, <<T(2)>>)>>
AddBase == <<Do("INT_ADD", B, <<B, Const(3, 2)>>)>>

Writes ==
    {<<Do("COPY", AL, <<BL>>)>>, <<Do("COPY", AH, <<AL>>)>>, <<Do("COPY", AX, <<B>>)>>,
     <<Do("INT_ZEXT", A, <<AX>>)>>, <<Do("INT_SEXT", A, <<B>>)>>, <<Do("COPY", X, <<AX>>)>>,
     <<Do("COPY", Y, <<B>>)>>, <<Do("COPY", Memory(3, 2), <<AX>>)>>,
     <<Do("STORE", Nothing, <<Space, AX, AL>>)>>, <<Do("LOAD", B, <<Space, AX>>)>>,
     <<Do("LOCK", Nothing, <<>>), Do("LOAD", T(1), <<Space, B>>), Do("INT_ADD", T(1), <<T(1), AL>>),
       Do("STORE", Nothing, <<Space, B, T(1)>>)>>,
     Push(AX), Pop(AX), Call(7),
     Flagged("INT_CARRY", "INT_ADD", AL, <<AL, AH>>), Flagged("INT_SCARRY", "INT_ADD", B, <<B, AX>>),
     Flagged("INT_SBORROW", "INT_SUB", AX, <<AX, B>>), Flagged("INT_LESS", "INT_SUB", BL, <<BL, AL>>),
     Shift("INT_LEFT", A), Shift("INT_RIGHT", AX), Shift("INT_SRIGHT", A)}

Readers ==
    {<<Do(op, B, <<AX, X>>)>> : op \in {"INT_DIV", "INT_SDIV", "INT_REM", "INT_SREM"}}
    \cup {<<Do(op, A, <<A, Const(n, 4)>>)>> : op \in {"INT_AND", "INT_OR", "INT_MULT"}, n \in {3, 15, 16, 129, 255}}
    \cup {<<Do(op, F, <<AX, Y>>)>> :
            op \in {"INT_EQUAL", "INT_NOTEQUAL", "INT_LESSEQUAL", "INT_SLESS", "INT_SLESSEQUAL"}}
    \cup {<<Do("BOOL_NEGATE", F, <<F>>)>>}
    \cup {<<Do("INT_EQUAL", T(1), <<AL, BL>>), Do(op, F, <<F, T(1)>>)>> :
            op \in {"BOOL_AND", "BOOL_OR", "BOOL_XOR"}}
    \cup {<<Do(op, B, <<AX>>)>> : op \in {"INT_NEGATE", "INT_2COMP", "POPCOUNT", "LZCOUNT", "CAST"}}
    \cup {<<Do("SUBPIECE", AL, <<A, Const(n, 2)>>)>> : n \in 0 .. 3}
    \cup {<<Do("SUBPIECE", T(2), <<A, Const(1, 2)>>), Do("COPY", B, <<T(2)>>)>>,
          <<Do("PIECE", A, <<B, AX>>)>>, <<Do("PIECE", AX, <<AL, AH>>)>>,
          <<Do("PTRADD", B, <<B, AX, Const(3, 2)>>)>>, <<Do("PTRSUB", B, <<X, Const(5, 2)>>)>>,
          <<Do("MOVMSKPD", B, <<A>>)>>, <<Do("INT_XOR", A, <<A, A>>)>>,
          <<Do("INT_XOR", AL, <<AL, AH>>)>>, <<Do("COPY", Y, <<X>>)>>,
          <<Do("COPY", B, <<Memory(3, 2)>>)>>, <<Do("LOAD", AX, <<Space, B>>)>>, Ret}

Assemble(instructions) ==
    FlattenSeq([k \in DOMAIN instructions |->
        [j \in DOMAIN instructions[k] |->
            LET op == instructions[k][j]
                operand(v) == IF v = NextAddress THEN Const(2 * k, 2) ELSE v
            IN  [op |-> op.op, out |-> op.out, in |-> [i \in DOMAIN op.in |-> operand(op.in[i])],
                 at |-> 2 * (k - 1), next |-> 2 * k]]])

MCCodes ==
    {Assemble(<<a, b>>) : a \in Writes, b \in Writes \cup Readers}
    \cup {Assemble(<<Call(ThunkEntry), a, AddBase, <<Do("COPY", AX, <<B>>)>>, Ret>>) :
            a \in {<<Do("COPY", AL, <<AH>>)>>, Push(AX)}}
    \cup {Assemble(<<Push(B), Call(7), Pop(AX), b>>) : b \in Readers}
=============================================================================
