----------------------------- MODULE SummaryRun ----------------------------
(***************************************************************************)
(* What a register summary means: the summarised function runs on a        *)
(* machine, next to the replay of the analysis that the callsite evidence  *)
(* is collected from (collectExternalCallsiteEvidence: each block again    *)
(* from its stable input).  At every program point the abstract state must *)
(* describe the machine, and at the exits the effect must.                 *)
(*                                                                         *)
(* A bit of the machine is the entry value of a register's bit,            *)
(* <<register, bit>>, or Other.  Callees keep what their summary or the    *)
(* ABI says they keep, and choose freely otherwise.                        *)
(***************************************************************************)
EXTENDS SummaryFlow, FiniteSets

Defines(i) == i.op \in {"load", "reload", "pread"}

Positions(p) == UNION {{b} \X DOMAIN p.code[b] : b \in BlocksOf(p)}
InstructionAt(p, x) == p.code[x[1]][x[2]]
InstructionsOf(p) == {InstructionAt(p, x) : x \in Positions(p)}

(* What LLVM and the lifter see to: nothing branches to the entry block, an *)
(* SSA value has one definition, and what is stored to a whole register is  *)
(* as wide as the register, so never the result of a partial read.          *)
IsLifted(p) ==
  /\ \A b \in BlocksOf(p) : EntryOf(p) \notin SuccsOf(p, b)
  /\ \A x, y \in Positions(p) :
       LET i == InstructionAt(p, x)  j == InstructionAt(p, y) IN
       Defines(i) /\ Defines(j) /\ i.val = j.val => x = y
  /\ \A i, j \in InstructionsOf(p) : i.op = "pread" /\ j.op = "store" => j.src # i.val

\* The blocks that are reached through the block d only.
Behind(p, d) ==
  UNION {S \in SUBSET (BlocksOf(p) \ {EntryOf(p), d}) :
           \A c \in S : PredsOf(p, c) \subseteq S \cup {d}}

(* What the code does not look at for reads.  A whole-register load and     *)
(* store that expand a partial write ("keep"); the lifter emits a call of   *)
(* the partial-write helper instead.  A partial read that only feeds frame  *)
(* slots without loads ("dead").  The operand of a store to an ignored      *)
(* register, which must not be an entry value as it is.                     *)
Unread(i) == i.off \/ i.src \notin Values

InstructionVisible(i) ==
  /\ i.op \in {"load", "store"} => ~i.keep
  /\ i.op = "pread" => ~i.dead
  /\ i.op \in {"store", "pwrite"} => i.reg \notin Ignored \/ Unread(i)

Uses(i) == i.op \in {"store", "spill", "pwrite", "use"}

(* Functions whose reads the summary can see: such instructions aside, a    *)
(* value is used behind its definition.  That is LLVM's dominance, but for  *)
(* the operand of a PHI, which is read at the end of a predecessor and      *)
(* which the code counts as read at the PHI.                                *)
ReadsVisible(p) ==
  /\ \A i \in InstructionsOf(p) : InstructionVisible(i)
  /\ \A x, y \in Positions(p) :
       LET i == InstructionAt(p, x)  j == InstructionAt(p, y) IN
       Defines(i) /\ Uses(j) /\ j.src = i.val =>
         IF x[1] = y[1] THEN x[2] < y[2] ELSE y[1] \in Behind(p, x[1])

ASSUME LiftedAssumption == \A p \in Programs : IsLifted(p)

VARIABLES
  block, at,   \* where the machine is: a block and the next instruction
  status,      \* "idle", "running", then "returned" or "exited"
  abs,         \* the replayed abstract state at that point
  regs,        \* register -> bit -> value
  vals,        \* SSA value -> bit -> value, for the values defined so far
  mem,         \* stack slot -> bit -> value
  killed,      \* bits <<register, bit>> written at least once
  writer,      \* register -> bit -> who wrote it last
  fresh,       \* slots written since the last call
  reads        \* entry bits read before anything was written over them

runVars == <<block, at, status, abs, regs, vals, mem, killed, writer, fresh,
             reads>>

Other == <<"other", 0>>

EntryValue(r) == [b \in Bits |-> <<r, b>>]
NoValue == [b \in Bits |-> Other]
ValueOf(src, off) == IF src \in DOMAIN vals /\ ~off THEN vals[src] ELSE NoValue

EntryBitsIn(value) == {value[b] : b \in Bits} \ {Other}

\* A bit written before counts as no entry bit, wherever its value now comes from.
Read(tags) == reads' = reads \cup (tags \ killed)
ReadNothing == UNCHANGED reads

RunInit ==
  /\ Init
  /\ block = NoBlock /\ at = 1 /\ status = "idle"
  /\ abs = InitialState(FALSE)
  /\ regs = [r \in Registers |-> EntryValue(r)]
  /\ vals = EmptyMap
  /\ mem = [s \in Slots |-> NoValue]
  /\ killed = {}
  /\ writer = [r \in Registers |-> [b \in Bits |-> "entry"]]
  /\ fresh = {} /\ reads = {}

Analyse == Next /\ UNCHANGED runVars

Enter(b) == block' = b /\ at' = 1 /\ abs' = in[b]

Start ==
  /\ phase = "done" /\ status = "idle"
  /\ status' = "running"
  /\ Enter(EntryOf(prog))
  /\ UNCHANGED <<regs, vals, mem, killed, writer, fresh, reads>>

\* The machine writes "value" to the bits "mask" of a register.
SetBits(reg, mask, value, who) ==
  /\ regs' = [regs EXCEPT ![reg] = [b \in Bits |-> IF b \in mask THEN value[b] ELSE @[b]]]
  /\ killed' = killed \cup ({reg} \X mask)
  /\ writer' = [writer EXCEPT ![reg] = [b \in Bits |-> IF b \in mask THEN who ELSE @[b]]]

Code == prog.code[block]
Instr == Code[at]

Instruction(op) ==
  /\ status = "running" /\ at <= Len(Code) /\ Instr.op = op
  /\ abs' = TransferInstruction(Instr, abs, prog.adjust)
  /\ at' = at + 1
  /\ UNCHANGED block

RunLoad ==
  /\ Instruction("load")
  /\ vals' = Put(vals, Instr.val, regs[Instr.reg])
  /\ ReadNothing
  /\ UNCHANGED <<status, regs, mem, killed, writer, fresh>>

RunPartialRead ==
  /\ Instruction("pread")
  /\ LET value == [b \in Bits |-> IF b \in Instr.mask THEN regs[Instr.reg][b] ELSE Other]
     IN  vals' = Put(vals, Instr.val, value) /\ Read(EntryBitsIn(value))
  /\ UNCHANGED <<status, regs, mem, killed, writer, fresh>>

\* Writing a register's own entry value back is no read of it.
RunStore ==
  /\ Instruction("store")
  /\ LET value == ValueOf(Instr.src, Instr.off) IN
       /\ SetBits(Instr.reg, Bits, value, IF Instr.float THEN "float" ELSE "local")
       /\ Read(EntryBitsIn(value) \ EntryBitsIn(EntryValue(Instr.reg)))
  /\ UNCHANGED <<status, vals, mem, fresh>>

RunPartialWrite ==
  /\ Instruction("pwrite")
  /\ LET value == ValueOf(Instr.src, Instr.off) IN
       /\ SetBits(Instr.reg, IF Instr.low32 THEN Bits ELSE Instr.mask, value,
                  IF Instr.float THEN "float" ELSE "local")
       /\ Read(EntryBitsIn(value))
  /\ UNCHANGED <<status, vals, mem, fresh>>

\* A callee-saved register may be parked in a slot without being read.
RunSpill ==
  /\ Instruction("spill")
  /\ LET value == IF Instr.slot \in prog.adjust THEN NoValue
                  ELSE ValueOf(Instr.src, Instr.off)
     IN  /\ mem' = [mem EXCEPT ![Instr.slot] = value]
         /\ Read({t \in EntryBitsIn(value) : ~CanTrackSaved(t[1])})
  /\ fresh' = fresh \cup {Instr.slot}
  /\ UNCHANGED <<status, regs, vals, killed, writer>>

RunReload ==
  /\ Instruction("reload")
  /\ vals' = Put(vals, Instr.val, mem[Instr.slot])
  /\ ReadNothing
  /\ UNCHANGED <<status, regs, mem, killed, writer, fresh>>

RunUse ==
  /\ Instruction("use")
  /\ Read(EntryBitsIn(ValueOf(Instr.src, Instr.off)))
  /\ UNCHANGED <<status, regs, vals, mem, killed, writer, fresh>>

\* What a callee reads, what it must overwrite and what it may overwrite.
CalleeReads(c) ==
  CASE c.kind = "shape" -> UNION {{r} \X c.inputs[r] : r \in DOMAIN c.inputs \ Ignored}
    [] c.kind = "summary" -> UNION {{r} \X CellIn(c.effect.Registers, r).ReadEntry :
                                      r \in Registers \ (Ignored \cup Unaffected)}
    [] c.kind = "external" -> IF UnknownReadsAbi THEN (AbiInputs \ Ignored) \X Bits ELSE {}

CalleeMayWrite(c) ==
  IF c.kind = "summary"
  THEN UNION {{r} \X CellIn(c.effect.Registers, r).MayNonEntry : r \in VisibleRegisters}
  ELSE Clobbered \X Bits

CalleeMustWrite(c) ==
  IF c.kind = "summary"
  THEN UNION {{r} \X (Bits \ CellIn(c.effect.Registers, r).MayEntry) : r \in VisibleRegisters}
  ELSE Clobbered \X Bits

RunCall ==
  /\ Instruction("call")
  /\ LET c == Instr.callee IN
       /\ Read({regs[t[1]][t[2]] : t \in CalleeReads(c)} \ {Other})
       /\ \E written \in SUBSET CalleeMayWrite(c) :
            /\ CalleeMustWrite(c) \subseteq written
            /\ regs' = [r \in Registers |-> [b \in Bits |->
                          IF <<r, b>> \in written THEN Other ELSE regs[r][b]]]
            /\ killed' = killed \cup written
            /\ writer' = [r \in Registers |-> [b \in Bits |->
                            IF <<r, b>> \in CalleeMayWrite(c) THEN "call" ELSE writer[r][b]]]
       /\ status' = IF NeverReturns(c) THEN "exited" ELSE status
  /\ fresh' = {}
  /\ UNCHANGED <<vals, mem>>

\* The end of a block: return, or go on with one of its successors.
EndBlock ==
  /\ status = "running" /\ at > Len(Code)
  /\ \/ /\ block \in prog.returns
        /\ status' = "returned"
        /\ UNCHANGED <<block, at, abs>>
     \/ /\ block \notin prog.returns
        /\ \E b \in SuccsOf(prog, block) : Enter(b)
        /\ UNCHANGED status
  /\ UNCHANGED <<regs, vals, mem, killed, writer, fresh, reads>>

Execute ==
  \/ Start \/ RunLoad \/ RunPartialRead \/ RunStore \/ RunPartialWrite
  \/ RunSpill \/ RunReload \/ RunUse \/ RunCall \/ EndBlock

RunNext == Analyse \/ (Execute /\ UNCHANGED vars)

\* The analysis runs to its end before anything else is done with the function.
RunSpec == RunInit /\ [][RunNext]_<<vars, runVars>> /\ WF_<<vars, runVars>>(Analyse)

-----------------------------------------------------------------------------
Running == status = "running"
Tracked == Registers \ Ignored

(* A part of a callee-saved register in a stack slot counts as the whole of *)
(* it for the code, so the state says nothing certain of such a register.   *)
SavedInPart(p) ==
  {r \in Registers :
     /\ CanTrackSaved(r)
     /\ \E i, j \in InstructionsOf(p) :
          i.op = "pread" /\ i.reg = r /\ j.op = "spill" /\ j.src = i.val}

Known == Tracked \ SavedInPart(prog)

(* A bit the state does not call MayNonEntry holds the entry value, which   *)
(* callers rely on to keep a register across a call; so does a slot that    *)
(* counts as the home of a saved register, and a value with an origin, in   *)
(* the bits of its mask.                                                    *)
EntryValuesInPlace ==
  Running =>
    /\ \A r \in Known : \A b \in Bits :
         b \notin CellIn(abs.Cells, r).MayNonEntry => regs[r][b] = <<r, b>>
    /\ \A s \in DOMAIN abs.StackSlots :
         abs.StackSlots[s] \in Known => mem[s] = EntryValue(abs.StackSlots[s])
    /\ \A v \in DOMAIN abs.ValueOrigins :
         LET o == abs.ValueOrigins[v] IN
         o.Base \in Known => v \in DOMAIN vals /\ \A b \in o.Mask : vals[v][b] = <<o.Base, b>>

(* Callsite evidence: what counts as a local definition was written by the  *)
(* function itself after the last call that could overwrite it, a float     *)
(* argument by a float instruction, a clobbered bit by a call, and a stack  *)
(* argument since the last call.                                            *)
CallsiteEvidenceHolds ==
  Running =>
    /\ \A r \in Tracked : \A b \in Bits :
         LET o == abs.Origins[r] IN
         /\ b \in o.Local => writer[r][b] \in {"local", "float"}
         /\ b \in o.Local \cap o.FloatLocal => writer[r][b] = "float"
         /\ b \in o.CallClobber => writer[r][b] = "call"
    /\ DOMAIN abs.StackSlotOrigins \subseteq fresh

(* The effect at a return: a preserved bit holds its entry value, for the   *)
(* registers whose effect callers use.                                      *)
EffectHolds ==
  status = "returned" =>
    \A r \in Tracked \ Unaffected : \A b \in Bits :
      LET c == CellIn(effect.Registers, r) IN
      /\ b \notin c.MayNonEntry => regs[r][b] = <<r, b>>
      /\ <<r, b>> \notin killed => b \in c.MayEntry

(* Where the function ends, by a return or inside a call that does not      *)
(* return, its effect has every entry bit that was read before it was       *)
(* overwritten: not for the stack pointer, whose reads are addresses, nor   *)
(* for callee-saved registers, whose entry values no caller passes on       *)
(* purpose.                                                                 *)
ReadsAtExitRecorded ==
  status \in {"returned", "exited"} =>
    \A t \in reads :
      t[1] \in Tracked \ (Unaffected \cup {StackPointer}) =>
        t[2] \in CellIn(effect.Registers, t[1]).ReadEntry
=============================================================================
