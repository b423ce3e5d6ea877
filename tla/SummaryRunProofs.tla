-------------------------- MODULE SummaryRunProofs -------------------------
(***************************************************************************)
(* What a summary claims of the registers is true of every run of the      *)
(* function: the abstract state that is replayed next to the machine       *)
(* describes the machine at every instruction, and the effect describes it *)
(* at the returns, for every function, register file and set of options.   *)
(* The invariant relates the two states clause by clause; an instruction   *)
(* keeps each clause, and so does a join, which only says less.            *)
(*                                                                         *)
(* The effect also has the entry bits a run read: what was not recorded    *)
(* yet can be found by its origin wherever it may be used.                 *)
(***************************************************************************)
EXTENDS SummaryRun, SummaryFlowProofs

-----------------------------------------------------------------------------
(* The invariant.                                                           *)

Bitwise == [Bits -> (Registers \X Bits) \cup {Other}]

Writers == {"entry", "local", "float", "call"}

MachineTypeOK ==
  /\ block \in BlocksOf(prog) \cup {NoBlock}
  /\ at \in Nat /\ at >= 1
  /\ status \in {"idle", "running", "returned", "exited"}
  /\ regs \in [Registers -> Bitwise]
  /\ vals \in Sparse(Values, Bitwise)
  /\ mem \in [Slots -> Bitwise]
  /\ killed \subseteq Registers \X Bits
  /\ writer \in [Registers -> [Bits -> Writers]]
  /\ fresh \subseteq Slots

\* The parts of "the state s describes the machine".
CellsHold(s) ==
  \A r \in Known : \A b \in Bits :
    b \notin CellIn(s.Cells, r).MayNonEntry => regs[r][b] = <<r, b>>

SlotsHold(s) ==
  \A k \in DOMAIN s.StackSlots :
    s.StackSlots[k] \in Known => mem[k] = EntryValue(s.StackSlots[k])

ValuesHold(s) ==
  \A v \in DOMAIN s.ValueOrigins :
    /\ v \in DOMAIN vals
    /\ s.ValueOrigins[v].Base \in Known =>
         \A b \in s.ValueOrigins[v].Mask : vals[v][b] = <<s.ValueOrigins[v].Base, b>>

\* An origin was given by the instruction that defines the value.
OriginsDefined(s) ==
  \A v \in DOMAIN s.ValueOrigins : \E i \in InstructionsOf(prog) :
    /\ Defines(i) /\ i.val = v
    /\ IF i.op = "pread" THEN s.ValueOrigins[v] = [Base |-> i.reg, Mask |-> i.mask]
       ELSE s.ValueOrigins[v].Mask = Bits
    /\ i.op = "load" => i.reg # StackPointer

UnwrittenMayBeEntry(s) ==
  \A r \in Tracked : \A b \in Bits :
    <<r, b>> \notin killed => b \in CellIn(s.Cells, r).MayEntry

EvidenceHolds(s) ==
  /\ \A r \in Tracked : \A b \in Bits :
       /\ b \in s.Origins[r].Local => writer[r][b] \in {"local", "float"}
       /\ b \in s.Origins[r].Local \cap s.Origins[r].FloatLocal => writer[r][b] = "float"
       /\ b \in s.Origins[r].CallClobber => writer[r][b] = "call"
  /\ DOMAIN s.StackSlotOrigins \subseteq fresh

Describes(s) ==
  /\ CellsHold(s) /\ SlotsHold(s) /\ ValuesHold(s) /\ OriginsDefined(s)
  /\ UnwrittenMayBeEntry(s) /\ EvidenceHolds(s)

\* The replayed state belongs to the place the machine is at.
ReplayInv ==
  status \in {"running", "returned"} =>
    /\ block \in BlocksOf(prog) /\ at <= Len(Code) + 1
    /\ Visited(prog, block, in[block], at - 1, abs)
    /\ abs.Reachable
    /\ Describes(abs)
    /\ status = "returned" => block \in prog.returns /\ at = Len(Code) + 1

\* The solver's last state: block inputs and results agree with each other.
InputsSettled ==
  \A b \in BlocksOf(prog) \ Waiting : in[b] = EntryInput(prog, b, out)

EffectIsOfExits ==
  phase = "done" =>
    effect = EffectOf({out[b] : b \in prog.returns},
                      {out[b] : b \in {c \in BlocksOf(prog) : out[c].EndsInNoReturn}})

\* Before the analysis is done the machine is as it was at the start.
Untouched ==
  status = "idle" =>
    /\ regs = [r \in Registers |-> EntryValue(r)]
    /\ killed = {}

RunInv ==
  /\ SolverInv /\ SettledInv /\ InputsSettled /\ EffectIsOfExits
  /\ status # "idle" => phase = "done"
  /\ MachineTypeOK /\ Untouched /\ ReplayInv
-----------------------------------------------------------------------------
(* What a result says less than the last state of its block.                *)

LEMMA PruneSaysLess ==
  ASSUME NEW p, NEW b, NEW s \in State
  PROVE  /\ SaysLess(s, PruneBlockLocal(p, b, s))
         /\ PruneBlockLocal(p, b, s).Reachable = s.Reachable
<1> DEFINE kept == DOMAIN s.ValueOrigins \ (DefinedIn(p, b) \ CrossBlockValues(p))
           origins == [v \in kept |-> s.ValueOrigins[v]]
           t == [s EXCEPT !.ValueOrigins = origins]
<1>1. t.ValueOrigins = origins /\ t.Cells = s.Cells /\ t.Origins = s.Origins
      /\ t.StackSlots = s.StackSlots /\ t.StackSlotOrigins = s.StackSlotOrigins
      /\ t.Reachable = s.Reachable
  BY DEF State
<1>2. PruneBlockLocal(p, b, s) = t
  BY DEF PruneBlockLocal
<1> HIDE DEF t
<1> QED BY <1>1, <1>2 DEF SaysLess

-----------------------------------------------------------------------------
(* Steps of the machine.                                                    *)

\* The machine at an instruction, with the state that describes it.
AtInstruction ==
  /\ prog \in Programs /\ MachineTypeOK
  /\ block \in BlocksOf(prog) /\ at <= Len(Code)
  /\ abs \in State /\ Describes(abs)

LEMMA InstrType ==
  ASSUME AtInstruction
  PROVE  /\ Instr \in Instructions /\ Instr \in InstructionsOf(prog)
         /\ <<block, at>> \in Positions(prog) /\ InstructionAt(prog, <<block, at>>) = Instr
<1>1. Code \in Seq(Instructions) /\ at \in 1..Len(Code)
  BY ProgramShape DEF AtInstruction, MachineTypeOK, Code
<1>2. at \in DOMAIN Code /\ Instr \in Instructions
  BY <1>1 DEF Instr
<1>3. <<block, at>> \in Positions(prog)
  BY <1>2 DEF Positions, AtInstruction, Code
<1>4. InstructionAt(prog, <<block, at>>) = Instr
  BY DEF InstructionAt, Instr, Code
<1> QED BY <1>2, <1>3, <1>4 DEF InstructionsOf

\* A value has one definition.
LEMMA OneDefinition ==
  ASSUME NEW p \in Programs, NEW i \in InstructionsOf(p), NEW j \in InstructionsOf(p),
         Defines(i), Defines(j), i.val = j.val
  PROVE  i = j
BY LiftedAssumption DEF IsLifted, InstructionsOf

\* What does not depend on the machine's step.
LEMMA SameFunction ==
  ASSUME prog' = prog
  PROVE  Known' = Known /\ Known \subseteq Tracked /\ Tracked' = Tracked
         /\ InstructionsOf(prog)' = InstructionsOf(prog)
BY DEF Known, Tracked

\* A step that leaves the machine alone and adds reads to the state.
LEMMA OnlyReads ==
  ASSUME Describes(abs), SameFacts(abs, abs'), prog' = prog,
         UNCHANGED <<regs, vals, mem, killed, writer, fresh>>
  PROVE  Describes(abs)'
<1> USE SameFunction DEF SameFacts, Describes
<1>1. CellsHold(abs)' BY DEF CellsHold
<1>2. SlotsHold(abs)' BY DEF SlotsHold
<1>3. ValuesHold(abs)' BY DEF ValuesHold
<1>4. OriginsDefined(abs)' BY DEF OriginsDefined
<1>5. UnwrittenMayBeEntry(abs)' BY DEF UnwrittenMayBeEntry
<1>6. EvidenceHolds(abs)' BY DEF EvidenceHolds
<1> QED BY <1>1, <1>2, <1>3, <1>4, <1>5, <1>6

\* A step that gives one SSA value a content and at most an origin that fits.
LEMMA DefinesValue ==
  ASSUME NEW val, NEW content, Describes(abs), prog' = prog,
         abs'.Origins = abs.Origins, abs'.StackSlots = abs.StackSlots,
         abs'.StackSlotOrigins = abs.StackSlotOrigins,
         \A r : /\ CellIn(abs'.Cells, r).MayEntry = CellIn(abs.Cells, r).MayEntry
                /\ CellIn(abs'.Cells, r).MayNonEntry = CellIn(abs.Cells, r).MayNonEntry,
         vals' = Put(vals, val, content),
         UNCHANGED <<regs, mem, killed, writer, fresh>>,
         \A v \in DOMAIN abs'.ValueOrigins \ {val} :
           v \in DOMAIN abs.ValueOrigins /\ abs'.ValueOrigins[v] = abs.ValueOrigins[v],
         val \in DOMAIN abs'.ValueOrigins =>
           LET o == abs'.ValueOrigins[val] IN
           /\ o.Base \in Known => \A b \in o.Mask : content[b] = <<o.Base, b>>
           /\ \E i \in InstructionsOf(prog) :
                /\ Defines(i) /\ i.val = val
                /\ IF i.op = "pread" THEN o = [Base |-> i.reg, Mask |-> i.mask] ELSE o.Mask = Bits
                /\ i.op = "load" => i.reg # StackPointer
  PROVE  Describes(abs)'
<1> USE SameFunction DEF Describes
<1>1. CellsHold(abs)' BY DEF CellsHold
<1>2. SlotsHold(abs)' BY DEF SlotsHold
<1>3. ValuesHold(abs)'
  <2> SUFFICES ASSUME NEW v \in DOMAIN abs'.ValueOrigins
               PROVE  /\ v \in DOMAIN vals'
                      /\ abs'.ValueOrigins[v].Base \in Known =>
                           \A b \in abs'.ValueOrigins[v].Mask :
                             vals'[v][b] = <<abs'.ValueOrigins[v].Base, b>>
    BY DEF ValuesHold
  <2>1. CASE v = val
    BY <2>1 DEF Put
  <2>2. CASE v # val
    BY <2>2 DEF Put, ValuesHold
  <2> QED BY <2>1, <2>2
<1>4. OriginsDefined(abs)'
  <2> SUFFICES ASSUME NEW v \in DOMAIN abs'.ValueOrigins
               PROVE  \E i \in InstructionsOf(prog) :
                        /\ Defines(i) /\ i.val = v
                        /\ IF i.op = "pread"
                           THEN abs'.ValueOrigins[v] = [Base |-> i.reg, Mask |-> i.mask]
                           ELSE abs'.ValueOrigins[v].Mask = Bits
                        /\ i.op = "load" => i.reg # StackPointer
    BY DEF OriginsDefined
  <2>1. CASE v = val
    BY <2>1
  <2>2. CASE v # val
    BY <2>2 DEF OriginsDefined
  <2> QED BY <2>1, <2>2
<1>5. UnwrittenMayBeEntry(abs)' BY DEF UnwrittenMayBeEntry
<1>6. EvidenceHolds(abs)' BY DEF EvidenceHolds
<1> QED BY <1>1, <1>2, <1>3, <1>4, <1>5, <1>6

\* A pure cell claims the whole register, and the machine agrees.
LEMMA PureCellHolds ==
  ASSUME NEW r \in Known, PureEntry(CellIn(abs.Cells, r)), Describes(abs)
  PROVE  \A b \in Bits : regs[r][b] = <<r, b>>
BY DEF PureEntry, Describes, CellsHold

LEMMA LoadDescribes ==
  ASSUME AtInstruction, prog' = prog, RunLoad
  PROVE  Describes(abs)' /\ abs'.Reachable = abs.Reachable
<1> DEFINE pure == PureEntry(CellIn(abs.Cells, Instr.reg))
<1>1. /\ Instr \in InstructionsOf(prog) /\ Instr.op = "load" /\ Defines(Instr)
      /\ Instr.reg \in Registers /\ Instr.val \in Values
      /\ abs \in State /\ Describes(abs)
  BY InstrType DEF AtInstruction, RunLoad, Instruction, Defines, Instructions, RegisterLoads,
     RegisterStores, SlotLoads, SlotStores, PartialReads, PartialWrites, OtherUses, AnalysableCalls
<1>2. abs' = TransferLoad(Instr, abs)
  BY DEF RunLoad, Instruction, TransferInstruction
<1>3. /\ \A r : /\ CellIn(abs'.Cells, r).MayEntry = CellIn(abs.Cells, r).MayEntry
                /\ CellIn(abs'.Cells, r).MayNonEntry = CellIn(abs.Cells, r).MayNonEntry
      /\ abs'.Reachable = abs.Reachable /\ abs'.Origins = abs.Origins
      /\ abs'.StackSlots = abs.StackSlots /\ abs'.StackSlotOrigins = abs.StackSlotOrigins
      /\ ~pure => abs'.ValueOrigins = Drop(abs.ValueOrigins, Instr.val)
      /\ pure /\ Instr.reg # StackPointer =>
           abs'.ValueOrigins = Put(abs.ValueOrigins, Instr.val, [Base |-> Instr.reg, Mask |-> Bits])
      /\ pure /\ Instr.reg = StackPointer => abs'.ValueOrigins = abs.ValueOrigins
  BY <1>1, <1>2, LoadFacts
<1>4. pure /\ Instr.reg \in Known => \A b \in Bits : regs[Instr.reg][b] = <<Instr.reg, b>>
  BY <1>1, PureCellHolds
<1>5. Instr.reg = StackPointer => Instr.val \notin DOMAIN abs.ValueOrigins
  BY <1>1, OneDefinition DEF Describes, OriginsDefined, AtInstruction
<1> HIDE DEF pure
<1>6. \A v \in DOMAIN abs'.ValueOrigins \ {Instr.val} :
        v \in DOMAIN abs.ValueOrigins /\ abs'.ValueOrigins[v] = abs.ValueOrigins[v]
  BY <1>3 DEF Put, Drop
<1>7. Instr.val \in DOMAIN abs'.ValueOrigins =>
        /\ pure /\ Instr.reg # StackPointer
        /\ abs'.ValueOrigins[Instr.val] = [Base |-> Instr.reg, Mask |-> Bits]
  BY <1>3, <1>5 DEF Put, Drop
<1>8. /\ vals' = Put(vals, Instr.val, regs[Instr.reg])
      /\ UNCHANGED <<regs, mem, killed, writer, fresh>>
  BY DEF RunLoad
<1> QED BY <1>1, <1>3, <1>4, <1>6, <1>7, <1>8, DefinesValue

LEMMA ReloadDescribes ==
  ASSUME AtInstruction, prog' = prog, RunReload
  PROVE  Describes(abs)' /\ abs'.Reachable = abs.Reachable
<1> DEFINE saved == Instr.slot \in DOMAIN abs.StackSlots \ prog.adjust
           origin == [Base |-> abs.StackSlots[Instr.slot], Mask |-> Bits]
<1>1. /\ Instr \in InstructionsOf(prog) /\ Instr.op = "reload" /\ Defines(Instr)
      /\ abs \in State /\ Describes(abs)
  BY InstrType DEF AtInstruction, RunReload, Instruction, Defines
<1>2. abs' = IF saved THEN SetOrigin(abs, Instr.val, abs.StackSlots[Instr.slot], Bits)
             ELSE DropOrigin(abs, Instr.val)
  BY DEF RunReload, Instruction, TransferInstruction, TransferReload
<1>3. saved /\ origin.Base \in Known => \A b \in Bits : mem[Instr.slot][b] = <<origin.Base, b>>
  BY <1>1 DEF Describes, SlotsHold, EntryValue
<1> HIDE DEF saved
<1>4. /\ abs'.Cells = abs.Cells /\ abs'.Reachable = abs.Reachable /\ abs'.Origins = abs.Origins
      /\ abs'.StackSlots = abs.StackSlots /\ abs'.StackSlotOrigins = abs.StackSlotOrigins
      /\ abs'.ValueOrigins = IF saved THEN Put(abs.ValueOrigins, Instr.val, origin)
                             ELSE Drop(abs.ValueOrigins, Instr.val)
  <2> HIDE DEF origin
  <2>1. CASE saved BY <1>1, <1>2, <2>1 DEF SetOrigin, State, origin
  <2>2. CASE ~saved BY <1>1, <1>2, <2>2 DEF DropOrigin, State
  <2> QED BY <2>1, <2>2
<1>5. \A v \in DOMAIN abs'.ValueOrigins \ {Instr.val} :
        v \in DOMAIN abs.ValueOrigins /\ abs'.ValueOrigins[v] = abs.ValueOrigins[v]
  BY <1>4 DEF Put, Drop
<1>6. Instr.val \in DOMAIN abs'.ValueOrigins => saved /\ abs'.ValueOrigins[Instr.val] = origin
  BY <1>4 DEF Put, Drop
<1>7. /\ vals' = Put(vals, Instr.val, mem[Instr.slot])
      /\ UNCHANGED <<regs, mem, killed, writer, fresh>>
  BY DEF RunReload
<1> QED BY <1>1, <1>3, <1>4, <1>5, <1>6, <1>7, DefinesValue

LEMMA PartialReadDescribes ==
  ASSUME AtInstruction, prog' = prog, RunPartialRead
  PROVE  Describes(abs)' /\ abs'.Reachable = abs.Reachable
<1> DEFINE sets == Instr.reg \notin Ignored /\ ~Instr.dead /\ PureEntry(CellIn(abs.Cells, Instr.reg))
           origin == [Base |-> Instr.reg, Mask |-> Instr.mask]
           read == IF Instr.reg \in Ignored \/ Instr.dead THEN abs
                   ELSE ReadRegister(abs, Instr.reg, Instr.mask)
           content == [b \in Bits |-> IF b \in Instr.mask THEN regs[Instr.reg][b] ELSE Other]
<1>1. /\ Instr \in InstructionsOf(prog) /\ Instr.op = "pread" /\ Defines(Instr)
      /\ Instr.reg \in Registers /\ Instr.mask \subseteq Bits
      /\ abs \in State /\ Describes(abs)
  BY InstrType DEF AtInstruction, RunPartialRead, Instruction, Defines, Instructions, RegisterLoads,
     RegisterStores, SlotLoads, SlotStores, PartialReads, PartialWrites, OtherUses, AnalysableCalls
<1>2. abs' = IF sets THEN SetOrigin(read, Instr.val, Instr.reg, Instr.mask)
             ELSE DropOrigin(read, Instr.val)
  BY DEF RunPartialRead, Instruction, TransferInstruction, TransferPartialRead
<1>3. SameFacts(abs, read) /\ read \in State
  <2>1. SameFacts(abs, abs)
    BY DEF SameFacts
  <2>2. /\ SameFacts(abs, ReadRegister(abs, Instr.reg, Instr.mask))
        /\ ReadRegister(abs, Instr.reg, Instr.mask) \in State
    BY <1>1, ReadRegisterSame, ReadRegisterType
  <2> QED BY <1>1, <2>1, <2>2
<1>4. sets /\ Instr.reg \in Known => \A b \in Instr.mask : content[b] = <<Instr.reg, b>>
  BY <1>1, PureCellHolds
<1> HIDE DEF sets, read, content
<1>5. /\ \A r : /\ CellIn(abs'.Cells, r).MayEntry = CellIn(abs.Cells, r).MayEntry
                /\ CellIn(abs'.Cells, r).MayNonEntry = CellIn(abs.Cells, r).MayNonEntry
      /\ abs'.Reachable = abs.Reachable /\ abs'.Origins = abs.Origins
      /\ abs'.StackSlots = abs.StackSlots /\ abs'.StackSlotOrigins = abs.StackSlotOrigins
      /\ abs'.ValueOrigins = IF sets THEN Put(abs.ValueOrigins, Instr.val, origin)
                             ELSE Drop(abs.ValueOrigins, Instr.val)
  <2> HIDE DEF origin
  <2>1. CASE sets BY <1>2, <1>3, <2>1 DEF SameFacts, SetOrigin, State, origin
  <2>2. CASE ~sets BY <1>2, <1>3, <2>2 DEF SameFacts, DropOrigin, State
  <2> QED BY <2>1, <2>2
<1>6. \A v \in DOMAIN abs'.ValueOrigins \ {Instr.val} :
        v \in DOMAIN abs.ValueOrigins /\ abs'.ValueOrigins[v] = abs.ValueOrigins[v]
  BY <1>5 DEF Put, Drop
<1>7. Instr.val \in DOMAIN abs'.ValueOrigins => sets /\ abs'.ValueOrigins[Instr.val] = origin
  BY <1>5 DEF Put, Drop
<1>8. /\ vals' = Put(vals, Instr.val, content)
      /\ UNCHANGED <<regs, mem, killed, writer, fresh>>
  BY DEF RunPartialRead, content
<1> QED BY <1>1, <1>4, <1>5, <1>6, <1>7, <1>8, DefinesValue

LEMMA UseDescribes ==
  ASSUME AtInstruction, prog' = prog, RunUse
  PROVE  Describes(abs)' /\ abs'.Reachable = abs.Reachable
<1>1. abs' = MarkEntryValueRead(abs, Instr.src, Instr.off)
  BY DEF RunUse, Instruction, TransferInstruction
<1>2. SameFacts(abs, abs')
  BY <1>1, MarkReadSame DEF AtInstruction
<1>3. UNCHANGED <<regs, vals, mem, killed, writer, fresh>> /\ Describes(abs)
  BY DEF RunUse, AtInstruction
<1> QED BY <1>2, <1>3, OnlyReads DEF SameFacts

\* A step that writes bits of one register, and claims no more of them than
\* the machine keeps.
LEMMA DefinesRegister ==
  ASSUME NEW reg \in Registers, NEW mask \in SUBSET Bits, NEW value, NEW who,
         MachineTypeOK, Describes(abs), prog' = prog,
         SetBits(reg, mask, value, who), UNCHANGED <<vals, mem, fresh>>,
         abs'.StackSlots = abs.StackSlots, abs'.StackSlotOrigins = abs.StackSlotOrigins,
         abs'.ValueOrigins = abs.ValueOrigins,
         \A r \in Registers : r # reg =>
           /\ CellIn(abs'.Cells, r).MayEntry = CellIn(abs.Cells, r).MayEntry
           /\ CellIn(abs'.Cells, r).MayNonEntry = CellIn(abs.Cells, r).MayNonEntry
           /\ abs'.Origins[r] = abs.Origins[r],
         reg \in Tracked =>
           LET old == CellIn(abs.Cells, reg)
               new == CellIn(abs'.Cells, reg)
               was == abs.Origins[reg]
               is  == abs'.Origins[reg] IN
           \A b \in Bits :
             /\ b \notin new.MayNonEntry =>
                  IF b \in mask THEN reg \in Known => value[b] = <<reg, b>>
                  ELSE b \notin old.MayNonEntry
             /\ b \in old.MayEntry \ mask => b \in new.MayEntry
             /\ b \in is.Local =>
                  IF b \in mask THEN who \in {"local", "float"} ELSE b \in was.Local
             /\ b \in is.Local \cap is.FloatLocal =>
                  IF b \in mask THEN who = "float" ELSE b \in was.FloatLocal
             /\ b \in is.CallClobber => b \notin mask /\ b \in was.CallClobber
  PROVE  Describes(abs)'
<1> USE SameFunction
<1>1. /\ regs \in [Registers -> Bitwise] /\ writer \in [Registers -> [Bits -> Writers]]
      /\ regs' = [regs EXCEPT ![reg] = [b \in Bits |-> IF b \in mask THEN value[b] ELSE @[b]]]
      /\ killed' = killed \cup ({reg} \X mask)
      /\ writer' = [writer EXCEPT ![reg] = [b \in Bits |-> IF b \in mask THEN who ELSE @[b]]]
  BY DEF MachineTypeOK, SetBits
<1>2. \A r \in Registers : r # reg => regs'[r] = regs[r] /\ writer'[r] = writer[r]
  BY <1>1
<1>3. \A b \in Bits : /\ regs'[reg][b] = IF b \in mask THEN value[b] ELSE regs[reg][b]
                      /\ writer'[reg][b] = IF b \in mask THEN who ELSE writer[reg][b]
  BY <1>1
<1>4. CellsHold(abs)'
  <2> SUFFICES ASSUME NEW r \in Known, NEW b \in Bits, b \notin CellIn(abs'.Cells, r).MayNonEntry
               PROVE  regs'[r][b] = <<r, b>>
    BY DEF CellsHold
  <2>1. r \in Registers /\ r \in Tracked
    BY DEF Known, Tracked
  <2>2. \A q \in Known : \A c \in Bits :
          c \notin CellIn(abs.Cells, q).MayNonEntry => regs[q][c] = <<q, c>>
    BY DEF Describes, CellsHold
  <2>3. CASE r = reg BY <1>3, <2>1, <2>2, <2>3
  <2>4. CASE r # reg BY <1>2, <2>1, <2>2, <2>4
  <2> QED BY <2>3, <2>4
<1>5. UnwrittenMayBeEntry(abs)'
  <2> SUFFICES ASSUME NEW r \in Tracked, NEW b \in Bits, <<r, b>> \notin killed'
               PROVE  b \in CellIn(abs'.Cells, r).MayEntry
    BY DEF UnwrittenMayBeEntry
  <2>1. r \in Registers
    BY DEF Tracked
  <2>2. b \in CellIn(abs.Cells, r).MayEntry /\ (r = reg => b \notin mask)
    BY <1>1 DEF Describes, UnwrittenMayBeEntry
  <2>3. CASE r = reg BY <2>2, <2>3
  <2>4. CASE r # reg BY <2>1, <2>2, <2>4
  <2> QED BY <2>3, <2>4
<1>6. EvidenceHolds(abs)'
  <2>1. ASSUME NEW r \in Tracked, NEW b \in Bits
        PROVE  /\ b \in abs'.Origins[r].Local => writer'[r][b] \in {"local", "float"}
               /\ b \in abs'.Origins[r].Local \cap abs'.Origins[r].FloatLocal =>
                    writer'[r][b] = "float"
               /\ b \in abs'.Origins[r].CallClobber => writer'[r][b] = "call"
    <3>1. r \in Registers
      BY DEF Tracked
    <3>2. /\ b \in abs.Origins[r].Local => writer[r][b] \in {"local", "float"}
          /\ b \in abs.Origins[r].Local \cap abs.Origins[r].FloatLocal => writer[r][b] = "float"
          /\ b \in abs.Origins[r].CallClobber => writer[r][b] = "call"
      BY DEF Describes, EvidenceHolds
    <3>3. CASE r = reg BY <1>3, <3>2, <3>3
    <3>4. CASE r # reg BY <1>2, <3>1, <3>2, <3>4
    <3> QED BY <3>3, <3>4
  <2>2. DOMAIN abs'.StackSlotOrigins \subseteq fresh'
    BY DEF Describes, EvidenceHolds
  <2> QED BY <2>1, <2>2 DEF EvidenceHolds
<1>7. SlotsHold(abs)' BY DEF Describes, SlotsHold
<1>8. ValuesHold(abs)' BY DEF Describes, ValuesHold
<1>9. OriginsDefined(abs)' BY DEF Describes, OriginsDefined
<1> QED BY <1>4, <1>5, <1>6, <1>7, <1>8, <1>9 DEF Describes

\* A whole entry value is stored back: it was loaded or reloaded, not read in part.
LEMMA StoredBackIsWhole ==
  ASSUME NEW j \in InstructionsOf(prog), prog \in Programs, OriginsDefined(abs),
         j.op = "store", HasEntryOrigin(abs, j.src)
  PROVE  abs.ValueOrigins[j.src].Mask = Bits
<1>1. PICK i \in InstructionsOf(prog) :
        /\ Defines(i) /\ i.val = j.src
        /\ i.op # "pread" => abs.ValueOrigins[j.src].Mask = Bits
  BY DEF OriginsDefined, HasEntryOrigin
<1>2. i.op # "pread"
  BY <1>1, LiftedAssumption DEF IsLifted
<1> QED BY <1>1, <1>2

LEMMA StoreDescribes ==
  ASSUME AtInstruction, prog' = prog, RunStore
  PROVE  Describes(abs)' /\ abs'.Reachable = abs.Reachable
<1> DEFINE reg == Instr.reg
           restores == /\ HasEntryOrigin(abs, Instr.src) /\ ~Instr.off
                       /\ abs.ValueOrigins[Instr.src].Base = reg
           read == MarkEntryValueRead(abs, Instr.src, Instr.off)
           value == ValueOf(Instr.src, Instr.off)
           who == IF Instr.float THEN "float" ELSE "local"
<1>1. /\ Instr \in InstructionsOf(prog) /\ Instr.op = "store" /\ reg \in Registers
      /\ abs \in State /\ Describes(abs) /\ MachineTypeOK /\ prog \in Programs
  BY InstrType DEF AtInstruction, RunStore, Instruction, Defines, Instructions, RegisterLoads,
     RegisterStores, SlotLoads, SlotStores, PartialReads, PartialWrites, OtherUses, AnalysableCalls
<1>2. SetBits(reg, Bits, value, who) /\ UNCHANGED <<vals, mem, fresh>>
  BY DEF RunStore
<1>3. abs' = TransferStore(Instr, abs)
  BY DEF RunStore, Instruction, TransferInstruction
<1> HIDE DEF value, who, read
<1>4. CASE reg \in Ignored
  <2>1. abs' = abs /\ reg \notin Tracked
    BY <1>3, <1>4 DEF TransferStore, Tracked
  <2> QED BY <1>1, <1>2, <2>1, DefinesRegister
<1>5. CASE reg \notin Ignored /\ Instr.keep
  <2> DEFINE w == WriteRegister(abs, reg, Bits)
  <2>1. abs' = DefineOrigin(w, reg, Bits, "Mixed", FALSE)
    BY <1>3, <1>5 DEF TransferStore, DefineOrigin
  <2>2. w \in State
    BY <1>1, WriteRegisterType
  <2>3. /\ w.Reachable = abs.Reachable /\ w.Origins = abs.Origins /\ w.StackSlots = abs.StackSlots
        /\ w.StackSlotOrigins = abs.StackSlotOrigins /\ w.ValueOrigins = abs.ValueOrigins
        /\ \A r : r # reg => CellIn(w.Cells, r) = CellIn(abs.Cells, r)
        /\ CellIn(w.Cells, reg).MayNonEntry = CellIn(abs.Cells, reg).MayNonEntry \cup Bits
    BY <1>1, WriteRegisterFacts
  <2> HIDE DEF w
  <2>4. /\ OnlyOriginOf(w, abs', reg)
        /\ OriginWritten(w.Origins[reg], abs'.Origins[reg], Bits, "Mixed", FALSE)
    BY <1>1, <2>1, <2>2, DefineOriginFacts
  <2> QED BY <1>1, <1>2, <2>3, <2>4, DefinesRegister DEF OnlyOriginOf, OriginWritten
<1>6. CASE reg \notin Ignored /\ ~Instr.keep /\ restores
  <2> DEFINE mask == abs.ValueOrigins[Instr.src].Mask
             w == RestoreRegister(abs, reg, mask)
  <2>1. mask = Bits
    BY <1>1, <1>6, StoredBackIsWhole DEF Describes
  <2>2. reg \in Known => \A b \in Bits : value[b] = <<reg, b>>
    BY <1>1, <1>6, <2>1 DEF Describes, ValuesHold, HasEntryOrigin, ValueOf, value
  <2>3. abs' = DefineOrigin(w, reg, Bits, "Entry", FALSE)
    BY <1>3, <1>6 DEF TransferStore, DefineOrigin
  <2>4. w \in State
    BY <1>1, <2>1, RestoreRegisterType
  <2>5. /\ w.Reachable = abs.Reachable /\ w.Origins = abs.Origins /\ w.StackSlots = abs.StackSlots
        /\ w.StackSlotOrigins = abs.StackSlotOrigins /\ w.ValueOrigins = abs.ValueOrigins
        /\ \A r : r # reg => CellIn(w.Cells, r) = CellIn(abs.Cells, r)
    BY <1>1, RestoreRegisterFacts
  <2> HIDE DEF w, mask
  <2>6. /\ OnlyOriginOf(w, abs', reg)
        /\ OriginWritten(w.Origins[reg], abs'.Origins[reg], Bits, "Entry", FALSE)
    BY <1>1, <2>3, <2>4, DefineOriginFacts
  <2> QED BY <1>1, <1>2, <2>2, <2>5, <2>6, DefinesRegister DEF OnlyOriginOf, OriginWritten
<1>7. CASE reg \notin Ignored /\ ~Instr.keep /\ ~restores
  <2> DEFINE w == WriteRegister(read, reg, Bits)
             kind == StoredKind(read, Instr.src)
  <2>1. abs' = DefineOrigin(w, reg, Bits, kind, Instr.float)
    BY <1>3, <1>7 DEF TransferStore, read
  <2>2. read \in State /\ SameFacts(abs, read)
    BY <1>1, MarkEntryValueReadType, MarkReadSame DEF read
  <2>3. w \in State
    BY <1>1, <2>2, WriteRegisterType
  <2>5. kind # "CallClobber"
    BY DEF StoredKind
  <2> HIDE DEF read, kind, reg, restores
  <2>4. /\ w.Reachable = read.Reachable /\ w.Origins = read.Origins /\ w.StackSlots = read.StackSlots
        /\ w.StackSlotOrigins = read.StackSlotOrigins /\ w.ValueOrigins = read.ValueOrigins
        /\ \A r : r # reg => CellIn(w.Cells, r) = CellIn(read.Cells, r)
        /\ CellIn(w.Cells, reg).MayNonEntry = CellIn(read.Cells, reg).MayNonEntry \cup Bits
    BY <2>2, WriteRegisterFacts
  <2> HIDE DEF w
  <2>6. /\ OnlyOriginOf(w, abs', reg)
        /\ OriginWritten(w.Origins[reg], abs'.Origins[reg], Bits, kind, Instr.float)
    BY <1>1, <2>1, <2>3, <2>5, DefineOriginFacts
  <2>7. \A b \in Bits : /\ b \in abs'.Origins[reg].Local => who \in {"local", "float"}
                        /\ b \in abs'.Origins[reg].Local \cap abs'.Origins[reg].FloatLocal =>
                             who = "float"
    BY <2>6 DEF who, OriginWritten
  <2> QED BY <1>1, <1>2, <2>2, <2>4, <2>6, <2>7, DefinesRegister
         DEF SameFacts, OnlyOriginOf, OriginWritten
<1> QED BY <1>4, <1>5, <1>6, <1>7

LEMMA PartialWriteDescribes ==
  ASSUME AtInstruction, prog' = prog, RunPartialWrite
  PROVE  Describes(abs)' /\ abs'.Reachable = abs.Reachable
<1> DEFINE reg == Instr.reg
           mask == IF Instr.low32 THEN Bits ELSE Instr.mask
           read == MarkEntryValueRead(abs, Instr.src, Instr.off)
           value == ValueOf(Instr.src, Instr.off)
           who == IF Instr.float THEN "float" ELSE "local"
           w == WriteRegister(read, reg, mask)
           kind == StoredKind(read, Instr.src)
<1>1. /\ Instr.op = "pwrite" /\ reg \in Registers /\ mask \in SUBSET Bits
      /\ abs \in State /\ Describes(abs) /\ MachineTypeOK
  BY InstrType DEF AtInstruction, RunPartialWrite, Instruction, Instructions, RegisterLoads,
     RegisterStores, SlotLoads, SlotStores, PartialReads, PartialWrites, OtherUses, AnalysableCalls
<1>2. SetBits(reg, mask, value, who) /\ UNCHANGED <<vals, mem, fresh>>
  BY DEF RunPartialWrite
<1>3. abs' = IF reg \in Ignored THEN abs ELSE DefineOrigin(w, reg, mask, kind, Instr.float)
  BY DEF RunPartialWrite, Instruction, TransferInstruction, TransferPartialWrite
<1> HIDE DEF value, who, read, mask, w, kind
<1>4. CASE reg \in Ignored
  <2>1. abs' = abs /\ reg \notin Tracked
    BY <1>3, <1>4 DEF Tracked
  <2> QED BY <1>1, <1>2, <2>1, DefinesRegister
<1>5. CASE reg \notin Ignored
  <2>1. read \in State /\ SameFacts(abs, read)
    BY <1>1, MarkEntryValueReadType, MarkReadSame DEF read
  <2>2. w \in State
    BY <1>1, <2>1, WriteRegisterType DEF w
  <2>3. /\ w.Reachable = read.Reachable /\ w.Origins = read.Origins /\ w.StackSlots = read.StackSlots
        /\ w.StackSlotOrigins = read.StackSlotOrigins /\ w.ValueOrigins = read.ValueOrigins
        /\ \A r : r # reg => CellIn(w.Cells, r) = CellIn(read.Cells, r)
        /\ CellIn(w.Cells, reg).MayEntry = CellIn(read.Cells, reg).MayEntry \ mask
        /\ CellIn(w.Cells, reg).MayNonEntry = CellIn(read.Cells, reg).MayNonEntry \cup mask
    BY <2>1, WriteRegisterFacts DEF w
  <2>4. kind # "CallClobber"
    BY DEF StoredKind, kind
  <2>5. /\ OnlyOriginOf(w, abs', reg)
        /\ OriginWritten(w.Origins[reg], abs'.Origins[reg], mask, kind, Instr.float)
    BY <1>1, <1>3, <1>5, <2>2, <2>4, DefineOriginFacts
  <2>6. \A b \in mask : /\ b \in abs'.Origins[reg].Local => who \in {"local", "float"}
                        /\ b \in abs'.Origins[reg].Local \cap abs'.Origins[reg].FloatLocal =>
                             who = "float"
    BY <2>5 DEF who, OriginWritten
  <2> QED BY <1>1, <1>2, <2>1, <2>3, <2>5, <2>6, DefinesRegister
         DEF SameFacts, OnlyOriginOf, OriginWritten
<1> QED BY <1>4, <1>5

LEMMA SpillDescribes ==
  ASSUME AtInstruction, prog' = prog, RunSpill
  PROVE  Describes(abs)' /\ abs'.Reachable = abs.Reachable
<1> DEFINE slot == Instr.slot
           src == Instr.src
           saves == /\ HasEntryOrigin(abs, src) /\ ~Instr.off
                    /\ CanTrackSaved(abs.ValueOrigins[src].Base)
           base == abs.ValueOrigins[src].Base
           value == IF slot \in prog.adjust THEN NoValue ELSE ValueOf(src, Instr.off)
<1>1. /\ Instr \in InstructionsOf(prog) /\ Instr.op = "spill" /\ slot \in Slots
      /\ abs \in State /\ Describes(abs) /\ MachineTypeOK /\ prog \in Programs
  BY InstrType DEF AtInstruction, RunSpill, Instruction, Defines, Instructions, RegisterLoads,
     RegisterStores, SlotLoads, SlotStores, PartialReads, PartialWrites, OtherUses, AnalysableCalls
<1>2. /\ mem' = [mem EXCEPT ![slot] = value] /\ mem \in [Slots -> Bitwise]
      /\ fresh' = fresh \cup {slot}
      /\ UNCHANGED <<regs, vals, killed, writer>>
  BY <1>1 DEF RunSpill, MachineTypeOK
<1>3. abs' = TransferSpill(Instr, abs, prog.adjust)
  BY DEF RunSpill, Instruction, TransferInstruction
<1>4. /\ \A r : /\ CellIn(abs'.Cells, r).MayEntry = CellIn(abs.Cells, r).MayEntry
                /\ CellIn(abs'.Cells, r).MayNonEntry = CellIn(abs.Cells, r).MayNonEntry
      /\ abs'.Reachable = abs.Reachable /\ abs'.Origins = abs.Origins
      /\ abs'.ValueOrigins = abs.ValueOrigins
      /\ abs'.StackSlots = IF slot \notin prog.adjust /\ saves THEN Put(abs.StackSlots, slot, base)
                           ELSE Drop(abs.StackSlots, slot)
      /\ DOMAIN abs'.StackSlotOrigins \subseteq DOMAIN abs.StackSlotOrigins \cup {slot}
  BY <1>1, <1>3, SpillFacts
<1>5. ASSUME slot \notin prog.adjust, saves, base \in Known PROVE value = EntryValue(base)
  <2>1. /\ src \in DOMAIN vals /\ value = vals[src]
        /\ \A b \in abs.ValueOrigins[src].Mask : vals[src][b] = <<base, b>>
    BY <1>1, <1>5 DEF Describes, ValuesHold, HasEntryOrigin, ValueOf
  <2>2. PICK i \in InstructionsOf(prog) :
          /\ Defines(i) /\ i.val = src
          /\ IF i.op = "pread" THEN abs.ValueOrigins[src] = [Base |-> i.reg, Mask |-> i.mask]
             ELSE abs.ValueOrigins[src].Mask = Bits
    BY <1>1, <1>5 DEF Describes, OriginsDefined, HasEntryOrigin
  <2>3. i.op # "pread"
    <3> SUFFICES ASSUME i.op = "pread" PROVE FALSE
      OBVIOUS
    <3>1. base = i.reg /\ base \in Registers /\ CanTrackSaved(base)
      BY <2>2, <1>5 DEF Known, Tracked
    <3>2. base \in SavedInPart(prog)
      BY <1>1, <2>2, <3>1 DEF SavedInPart
    <3> QED BY <1>5, <3>2 DEF Known
  <2>4. \A b \in Bits : vals[src][b] = <<base, b>>
    BY <2>1, <2>2, <2>3
  <2>5. vals[src] \in Bitwise
    BY <1>1, <2>1, SparseFacts DEF MachineTypeOK
  <2> HIDE DEF base, src, value
  <2> QED BY <2>1, <2>4, <2>5 DEF Bitwise, EntryValue
<1> HIDE DEF value, base, saves
<1> USE SameFunction
<1>6. SlotsHold(abs)'
  <2> SUFFICES ASSUME NEW k \in DOMAIN abs'.StackSlots, abs'.StackSlots[k] \in Known
               PROVE  mem'[k] = EntryValue(abs'.StackSlots[k])
    BY DEF SlotsHold
  <2>1. CASE k = slot
    BY <1>1, <1>2, <1>4, <1>5, <2>1 DEF Put, Drop
  <2>2. CASE k # slot
    <3>1. k \in DOMAIN abs.StackSlots /\ abs'.StackSlots[k] = abs.StackSlots[k]
      BY <1>4, <2>2 DEF Put, Drop
    <3>2. k \in Slots
      BY <1>1, <3>1, SparseFacts DEF State
    <3> QED BY <1>1, <1>2, <2>2, <3>1, <3>2 DEF Describes, SlotsHold
  <2> QED BY <2>1, <2>2
<1>7. CellsHold(abs)' BY <1>1, <1>2, <1>4 DEF Describes, CellsHold
<1>8. ValuesHold(abs)' BY <1>1, <1>2, <1>4 DEF Describes, ValuesHold
<1>9. OriginsDefined(abs)' BY <1>1, <1>4 DEF Describes, OriginsDefined
<1>10. UnwrittenMayBeEntry(abs)' BY <1>1, <1>2, <1>4 DEF Describes, UnwrittenMayBeEntry
<1>11. EvidenceHolds(abs)' BY <1>1, <1>2, <1>4 DEF Describes, EvidenceHolds
<1> QED BY <1>4, <1>6, <1>7, <1>8, <1>9, <1>10, <1>11 DEF Describes

\* A register the callee may not overwrite keeps its bits and their writers;
\* of one it may overwrite, the state after the call claims what the callee
\* must leave alone.
LEMMA CallOnRegister ==
  ASSUME NEW c \in Callees, NEW r \in Registers, r \in Overwritable(c),
         NEW cell \in CoveredCell, NEW b \in Bits
  PROVE  /\ b \notin CellAfterCall(c, r, cell).MayNonEntry =>
              b \notin cell.MayNonEntry /\ <<r, b>> \notin CalleeMayWrite(c)
         /\ b \in cell.MayEntry /\ <<r, b>> \notin CalleeMustWrite(c) =>
              b \in CellAfterCall(c, r, cell).MayEntry
<1>1. CASE c.kind = "summary"
  <2>1. c.effect.Registers \in Sparse(Registers, CoveredCell)
    BY <1>1 DEF Callees, ShapeCallees, SummaryCallees, ExternalCallees, FunctionEffect
  <2> DEFINE callee == CellIn(c.effect.Registers, r)
  <2>2. callee \in CoveredCell
    BY <2>1, CellInCovered
  <2>3. r \in VisibleRegisters
    BY <1>1 DEF Overwritable
  <2>4. CellAfterCall(c, r, cell) = ThroughCall(cell, callee)
    BY <1>1 DEF CellAfterCall
  <2>5. /\ <<r, b>> \in CalleeMayWrite(c) => b \in callee.MayNonEntry
        /\ <<r, b>> \notin CalleeMustWrite(c) => b \in callee.MayEntry
    BY <1>1, <2>3 DEF CalleeMayWrite, CalleeMustWrite
  <2> HIDE DEF callee
  <2> QED BY <2>2, <2>4, <2>5 DEF ThroughCall, CoveredCell, Covered, Cell
<1>2. CASE c.kind # "summary"
  <2>1. <<r, b>> \in CalleeMustWrite(c)
    BY <1>2 DEF CalleeMustWrite, Overwritable
  <2>2. b \in CellAfterCall(c, r, cell).MayNonEntry
    BY <1>2 DEF CellAfterCall, WriteCell, CoveredCell, Cell
  <2> QED BY <2>1, <2>2
<1> QED BY <1>1, <1>2

LEMMA CallWritesOnly ==
  ASSUME NEW c \in Callees, NEW r \in Registers, NEW b \in Bits, <<r, b>> \in CalleeMayWrite(c)
  PROVE  r \in Overwritable(c)
BY DEF CalleeMayWrite, Overwritable

LEMMA CallOnEvidence ==
  ASSUME NEW c \in Callees, NEW r \in Registers, r \in Overwritable(c),
         NEW bits \in OriginBits, NEW b \in Bits
  PROVE  LET new == OriginAfterCall(c, r, bits) IN
         /\ b \in new.Local => b \in bits.Local /\ <<r, b>> \notin CalleeMayWrite(c)
         /\ b \in new.FloatLocal => b \in bits.FloatLocal
         /\ b \in new.CallClobber => b \in bits.CallClobber \/ <<r, b>> \in CalleeMayWrite(c)
<1> DEFINE new == OriginAfterCall(c, r, bits)
<1>1. CASE c.kind = "summary"
  <2>1. c.effect.Registers \in Sparse(Registers, CoveredCell)
    BY <1>1 DEF Callees, ShapeCallees, SummaryCallees, ExternalCallees, FunctionEffect
  <2> DEFINE callee == CellIn(c.effect.Registers, r)
  <2>2. callee \in CoveredCell
    BY <2>1, CellInCovered
  <2>3. <<r, b>> \in CalleeMayWrite(c) <=> b \in callee.MayNonEntry
    BY <1>1 DEF CalleeMayWrite, Overwritable
  <2>4. new = CallOrigin(bits, callee)
    BY <1>1 DEF OriginAfterCall
  <2> HIDE DEF callee, new
  <2>5. CASE callee.MayNonEntry = {}
    BY <2>3, <2>4, <2>5 DEF CallOrigin, new
  <2>6. CASE callee.MayNonEntry # {} /\ callee.MayEntry = {}
    <3>1. b \in callee.MayNonEntry
      BY <2>2, <2>6 DEF CoveredCell, Covered
    <3>2. new = MarkOrigin(bits, Bits, "CallClobber")
      BY <2>4, <2>6 DEF CallOrigin
    <3> QED BY <2>3, <3>1, <3>2 DEF MarkOrigin, new
  <2>7. CASE callee.MayNonEntry # {} /\ callee.MayEntry # {}
    <3>1. new = MarkOrigin(bits, Bits, "Mixed")
      BY <2>4, <2>7 DEF CallOrigin
    <3> QED BY <3>1 DEF MarkOrigin, new
  <2> QED BY <2>5, <2>6, <2>7
<1>2. CASE c.kind # "summary"
  <2>1. new = MarkOrigin(bits, Bits, "CallClobber")
    BY <1>2 DEF OriginAfterCall
  <2>2. <<r, b>> \in CalleeMayWrite(c)
    BY <1>2 DEF CalleeMayWrite, Overwritable
  <2> HIDE DEF new
  <2> QED BY <2>1, <2>2 DEF MarkOrigin, new
<1> QED BY <1>1, <1>2

LEMMA CallDescribes ==
  ASSUME AtInstruction, prog' = prog, RunCall
  PROVE  /\ Describes(abs)'
         /\ status' = "running" => abs'.Reachable = abs.Reachable
<1> DEFINE c == Instr.callee
<1>1. /\ c \in Callees /\ abs \in State /\ Describes(abs) /\ MachineTypeOK
  BY InstrType DEF AtInstruction, RunCall, Instruction, Instructions, RegisterLoads,
     RegisterStores, SlotLoads, SlotStores, PartialReads, PartialWrites, OtherUses, AnalysableCalls
<1>2. PICK written \in SUBSET CalleeMayWrite(c) :
        /\ CalleeMustWrite(c) \subseteq written
        /\ regs' = [r \in Registers |-> [b \in Bits |->
                      IF <<r, b>> \in written THEN Other ELSE regs[r][b]]]
        /\ killed' = killed \cup written
        /\ writer' = [r \in Registers |-> [b \in Bits |->
                        IF <<r, b>> \in CalleeMayWrite(c) THEN "call" ELSE writer[r][b]]]
  BY DEF RunCall
<1>3. /\ UNCHANGED <<vals, mem>> /\ abs' = TransferCall(c, abs)
      /\ status = "running" /\ status' = IF NeverReturns(c) THEN "exited" ELSE status
  BY DEF RunCall, Instruction, TransferInstruction
<1> HIDE DEF c
<1>4. /\ AfterCall(c, abs, abs') /\ DOMAIN abs'.StackSlotOrigins = {}
      /\ abs'.Reachable = IF NeverReturns(c) THEN FALSE ELSE abs.Reachable
  BY <1>1, <1>3, TransferCallFacts
<1> USE SameFunction
<1>5. CellsHold(abs)'
  <2> SUFFICES ASSUME NEW r \in Known, NEW b \in Bits, b \notin CellIn(abs'.Cells, r).MayNonEntry
               PROVE  regs'[r][b] = <<r, b>>
    BY DEF CellsHold
  <2>1. r \in Registers
    BY DEF Known, Tracked
  <2>2. b \notin CellIn(abs.Cells, r).MayNonEntry /\ <<r, b>> \notin CalleeMayWrite(c)
    <3>1. CASE r \in Overwritable(c)
      BY <1>1, <1>4, <2>1, <3>1, CallOnRegister DEF AfterCall
    <3>2. CASE r \notin Overwritable(c)
      BY <1>1, <1>4, <2>1, <3>2, CallWritesOnly DEF AfterCall
    <3> QED BY <3>1, <3>2
  <2> QED BY <1>1, <1>2, <2>1, <2>2 DEF Describes, CellsHold
<1>6. UnwrittenMayBeEntry(abs)'
  <2> SUFFICES ASSUME NEW r \in Tracked, NEW b \in Bits, <<r, b>> \notin killed'
               PROVE  b \in CellIn(abs'.Cells, r).MayEntry
    BY DEF UnwrittenMayBeEntry
  <2>1. r \in Registers
    BY DEF Tracked
  <2>2. b \in CellIn(abs.Cells, r).MayEntry /\ <<r, b>> \notin CalleeMustWrite(c)
    BY <1>1, <1>2 DEF Describes, UnwrittenMayBeEntry
  <2>3. CASE r \in Overwritable(c)
    BY <1>1, <1>4, <2>1, <2>2, <2>3, CallOnRegister DEF AfterCall
  <2>4. CASE r \notin Overwritable(c)
    BY <1>4, <2>1, <2>2, <2>4 DEF AfterCall
  <2> QED BY <2>3, <2>4
<1>7. EvidenceHolds(abs)'
  <2>1. ASSUME NEW r \in Tracked, NEW b \in Bits
        PROVE  /\ b \in abs'.Origins[r].Local => writer'[r][b] \in {"local", "float"}
               /\ b \in abs'.Origins[r].Local \cap abs'.Origins[r].FloatLocal =>
                    writer'[r][b] = "float"
               /\ b \in abs'.Origins[r].CallClobber => writer'[r][b] = "call"
    <3>1. r \in Registers /\ abs.Origins[r] \in OriginBits
      BY <1>1 DEF Tracked, State
    <3>2. /\ b \in abs.Origins[r].Local => writer[r][b] \in {"local", "float"}
          /\ b \in abs.Origins[r].Local \cap abs.Origins[r].FloatLocal => writer[r][b] = "float"
          /\ b \in abs.Origins[r].CallClobber => writer[r][b] = "call"
      BY <1>1 DEF Describes, EvidenceHolds
    <3>3. writer'[r][b] = IF <<r, b>> \in CalleeMayWrite(c) THEN "call" ELSE writer[r][b]
      BY <1>2, <3>1
    <3>4. /\ b \in abs'.Origins[r].Local =>
               b \in abs.Origins[r].Local /\ <<r, b>> \notin CalleeMayWrite(c)
          /\ b \in abs'.Origins[r].FloatLocal => b \in abs.Origins[r].FloatLocal
          /\ b \in abs'.Origins[r].CallClobber =>
               b \in abs.Origins[r].CallClobber \/ <<r, b>> \in CalleeMayWrite(c)
      <4>1. CASE r \in Overwritable(c)
        BY <1>1, <1>4, <3>1, <4>1, CallOnEvidence DEF AfterCall
      <4>2. CASE r \notin Overwritable(c)
        BY <1>1, <1>4, <3>1, <4>2, CallWritesOnly DEF AfterCall
      <4> QED BY <4>1, <4>2
    <3> QED BY <3>2, <3>3, <3>4
  <2> QED BY <1>4, <2>1 DEF EvidenceHolds
<1>8. SlotsHold(abs)' BY <1>1, <1>3, <1>4 DEF Describes, SlotsHold, AfterCall
<1>9. ValuesHold(abs)' BY <1>1, <1>3, <1>4 DEF Describes, ValuesHold, AfterCall
<1>10. OriginsDefined(abs)' BY <1>1, <1>4 DEF Describes, OriginsDefined, AfterCall
<1>11. status' = "running" => abs'.Reachable = abs.Reachable
  BY <1>3, <1>4
<1> QED BY <1>5, <1>6, <1>7, <1>8, <1>9, <1>10, <1>11 DEF Describes

-----------------------------------------------------------------------------
(* The types of the machine.                                                *)

LEMMA PutValue ==
  ASSUME MachineTypeOK, NEW v \in Values, NEW content \in Bitwise
  PROVE  Put(vals, v, content) \in Sparse(Values, Bitwise)
BY PutSparse DEF MachineTypeOK

LEMMA ValueOfType ==
  ASSUME MachineTypeOK, NEW src, NEW off
  PROVE  ValueOf(src, off) \in Bitwise
<1>1. NoValue \in Bitwise
  BY DEF NoValue, Bitwise
<1>2. src \in DOMAIN vals => vals[src] \in Bitwise
  BY SparseFacts DEF MachineTypeOK
<1> QED BY <1>1, <1>2 DEF ValueOf

LEMMA SetBitsType ==
  ASSUME MachineTypeOK, NEW reg \in Registers, NEW mask \in SUBSET Bits, NEW value \in Bitwise,
         NEW who \in Writers, SetBits(reg, mask, value, who)
  PROVE  /\ regs' \in [Registers -> Bitwise] /\ killed' \subseteq Registers \X Bits
         /\ writer' \in [Registers -> [Bits -> Writers]]
<1> DEFINE new == [b \in Bits |-> IF b \in mask THEN value[b] ELSE regs[reg][b]]
           newWho == [b \in Bits |-> IF b \in mask THEN who ELSE writer[reg][b]]
<1>1. /\ regs \in [Registers -> Bitwise] /\ writer \in [Registers -> [Bits -> Writers]]
      /\ killed \subseteq Registers \X Bits
  BY DEF MachineTypeOK
<1>2. regs[reg] \in Bitwise /\ writer[reg] \in [Bits -> Writers]
  BY <1>1
<1>3. new \in Bitwise /\ newWho \in [Bits -> Writers]
  BY <1>2 DEF Bitwise
<1>4. /\ regs' = [regs EXCEPT ![reg] = new] /\ writer' = [writer EXCEPT ![reg] = newWho]
      /\ killed' = killed \cup ({reg} \X mask)
  BY DEF SetBits
<1> HIDE DEF new, newWho
<1> QED BY <1>1, <1>3, <1>4

LEMMA InstructionShape ==
  ASSUME AtInstruction
  PROVE  /\ Instr.op \in {"load", "store", "reload", "spill", "pread", "pwrite", "use", "call"}
         /\ Instr.op \in {"load", "pread"} => Instr.reg \in Registers /\ Instr.val \in Values
         /\ Instr.op = "reload" => Instr.slot \in Slots /\ Instr.val \in Values
         /\ Instr.op \in {"store", "pwrite"} => Instr.reg \in Registers
         /\ Instr.op = "pwrite" => Instr.mask \in SUBSET Bits
         /\ Instr.op = "spill" => Instr.slot \in Slots
         /\ Instr.op = "call" => Instr.callee \in Callees
BY InstrType DEF Instructions, RegisterLoads, RegisterStores, SlotLoads, SlotStores,
   PartialReads, PartialWrites, OtherUses, AnalysableCalls

LEMMA CalleeWritesType ==
  ASSUME NEW c \in Callees
  PROVE  CalleeMayWrite(c) \subseteq Registers \X Bits
<1>1. CASE c.kind = "summary"
  <2>1. c.effect.Registers \in Sparse(Registers, CoveredCell)
    BY <1>1 DEF Callees, ShapeCallees, SummaryCallees, ExternalCallees, FunctionEffect
  <2>2. \A r : CellIn(c.effect.Registers, r).MayNonEntry \subseteq Bits
    BY <2>1, CellInCovered DEF CoveredCell, Cell
  <2> QED BY <1>1, <2>2 DEF CalleeMayWrite, VisibleRegisters
<1>2. CASE c.kind # "summary"
  BY <1>2 DEF CalleeMayWrite, Clobbered
<1> QED BY <1>1, <1>2

\* The part of the machine that holds values.
DataTypeOK ==
  /\ regs \in [Registers -> Bitwise]
  /\ vals \in Sparse(Values, Bitwise)
  /\ mem \in [Slots -> Bitwise]
  /\ killed \subseteq Registers \X Bits
  /\ writer \in [Registers -> [Bits -> Writers]]
  /\ fresh \subseteq Slots

RunInstruction ==
  \/ RunLoad \/ RunPartialRead \/ RunStore \/ RunPartialWrite
  \/ RunSpill \/ RunReload \/ RunUse \/ RunCall

LEMMA InstructionData ==
  ASSUME AtInstruction, RunInstruction
  PROVE  DataTypeOK'
<1>1. MachineTypeOK /\ DataTypeOK
  BY DEF AtInstruction, MachineTypeOK, DataTypeOK
<1>2. /\ \A r \in Registers : regs[r] \in Bitwise
      /\ \A k \in Slots : mem[k] \in Bitwise
  BY <1>1 DEF MachineTypeOK
<1>3. CASE RunLoad
  <2>1. Instr.reg \in Registers /\ Instr.val \in Values
    BY <1>3, InstructionShape DEF RunLoad, Instruction
  <2>2. Put(vals, Instr.val, regs[Instr.reg]) \in Sparse(Values, Bitwise)
    BY <1>1, <1>2, <2>1, PutValue
  <2> QED BY <1>1, <1>3, <2>2 DEF RunLoad, DataTypeOK
<1>4. CASE RunPartialRead
  <2> DEFINE value == [b \in Bits |-> IF b \in Instr.mask THEN regs[Instr.reg][b] ELSE Other]
  <2>1. Instr.reg \in Registers /\ Instr.val \in Values
    BY <1>4, InstructionShape DEF RunPartialRead, Instruction
  <2>2. value \in Bitwise
    BY <1>2, <2>1 DEF Bitwise
  <2>3. Put(vals, Instr.val, value) \in Sparse(Values, Bitwise)
    <3> HIDE DEF value
    <3> QED BY <1>1, <2>1, <2>2, PutValue
  <2>4. vals' = Put(vals, Instr.val, value)
    BY <1>4 DEF RunPartialRead
  <2> HIDE DEF value
  <2> QED BY <1>1, <1>4, <2>3, <2>4 DEF RunPartialRead, DataTypeOK
<1>5. CASE RunStore
  <2> DEFINE value == ValueOf(Instr.src, Instr.off)
             who == IF Instr.float THEN "float" ELSE "local"
  <2>1. Instr.reg \in Registers
    BY <1>5, InstructionShape DEF RunStore, Instruction
  <2>2. value \in Bitwise /\ who \in Writers /\ Bits \in SUBSET Bits
    BY <1>1, ValueOfType DEF Writers
  <2>3. SetBits(Instr.reg, Bits, value, who) /\ UNCHANGED <<vals, mem, fresh>>
    BY <1>5 DEF RunStore
  <2> HIDE DEF value, who
  <2>4. /\ regs' \in [Registers -> Bitwise] /\ killed' \subseteq Registers \X Bits
        /\ writer' \in [Registers -> [Bits -> Writers]]
    BY <1>1, <2>1, <2>2, <2>3, SetBitsType
  <2> QED BY <1>1, <2>3, <2>4 DEF DataTypeOK
<1>6. CASE RunPartialWrite
  <2> DEFINE value == ValueOf(Instr.src, Instr.off)
             who == IF Instr.float THEN "float" ELSE "local"
             mask == IF Instr.low32 THEN Bits ELSE Instr.mask
  <2>1. Instr.reg \in Registers /\ mask \in SUBSET Bits
    BY <1>6, InstructionShape DEF RunPartialWrite, Instruction
  <2>2. value \in Bitwise /\ who \in Writers
    BY <1>1, ValueOfType DEF Writers
  <2>3. SetBits(Instr.reg, mask, value, who) /\ UNCHANGED <<vals, mem, fresh>>
    BY <1>6 DEF RunPartialWrite
  <2> HIDE DEF value, who, mask
  <2>4. /\ regs' \in [Registers -> Bitwise] /\ killed' \subseteq Registers \X Bits
        /\ writer' \in [Registers -> [Bits -> Writers]]
    BY <1>1, <2>1, <2>2, <2>3, SetBitsType
  <2> QED BY <1>1, <2>3, <2>4 DEF DataTypeOK
<1>7. CASE RunSpill
  <2> DEFINE value == IF Instr.slot \in prog.adjust THEN NoValue
                      ELSE ValueOf(Instr.src, Instr.off)
  <2>1. Instr.slot \in Slots
    BY <1>7, InstructionShape DEF RunSpill, Instruction
  <2>2. value \in Bitwise
    BY <1>1, ValueOfType DEF NoValue, Bitwise
  <2>3. /\ mem' = [mem EXCEPT ![Instr.slot] = value] /\ fresh' = fresh \cup {Instr.slot}
        /\ UNCHANGED <<regs, vals, killed, writer>>
    BY <1>7 DEF RunSpill
  <2> HIDE DEF value
  <2> QED BY <1>1, <2>1, <2>2, <2>3 DEF DataTypeOK
<1>8. CASE RunReload
  <2>1. Instr.slot \in Slots /\ Instr.val \in Values
    BY <1>8, InstructionShape DEF RunReload, Instruction
  <2>2. Put(vals, Instr.val, mem[Instr.slot]) \in Sparse(Values, Bitwise)
    BY <1>1, <1>2, <2>1, PutValue
  <2> QED BY <1>1, <1>8, <2>2 DEF RunReload, DataTypeOK
<1>9. CASE RunUse
  BY <1>1, <1>9 DEF RunUse, DataTypeOK
<1>10. CASE RunCall
  <2> DEFINE c == Instr.callee
  <2>1. CalleeMayWrite(c) \subseteq Registers \X Bits
    BY <1>10, InstructionShape, CalleeWritesType DEF RunCall, Instruction
  <2>2. PICK written \in SUBSET CalleeMayWrite(c) :
          /\ regs' = [r \in Registers |-> [b \in Bits |->
                        IF <<r, b>> \in written THEN Other ELSE regs[r][b]]]
          /\ killed' = killed \cup written
          /\ writer' = [r \in Registers |-> [b \in Bits |->
                          IF <<r, b>> \in CalleeMayWrite(c) THEN "call" ELSE writer[r][b]]]
    BY <1>10 DEF RunCall
  <2>3. fresh' = {} /\ UNCHANGED <<vals, mem>>
    BY <1>10 DEF RunCall
  <2> HIDE DEF c
  <2>4. regs' \in [Registers -> Bitwise]
    <3>1. \A r \in Registers :
            [b \in Bits |-> IF <<r, b>> \in written THEN Other ELSE regs[r][b]] \in Bitwise
      BY <1>2 DEF Bitwise
    <3> QED BY <2>2, <3>1
  <2>5. writer' \in [Registers -> [Bits -> Writers]]
    BY <1>1, <2>2 DEF DataTypeOK, Writers
  <2> QED BY <1>1, <2>1, <2>2, <2>3, <2>4, <2>5 DEF DataTypeOK
<1> QED BY <1>3, <1>4, <1>5, <1>6, <1>7, <1>8, <1>9, <1>10 DEF RunInstruction

-----------------------------------------------------------------------------
(* The replay keeps up with the machine.                                     *)

LEMMA VisitedFacts ==
  ASSUME NEW p, NEW b, NEW s, NEW n \in Nat, NEW last, Visited(p, b, s, n, last)
  PROVE  last \in State /\ (last.Reachable => s.Reachable)
<1>1. PICK t \in [0..n -> State] :
        /\ t[0] = s /\ t[n] = last
        /\ \A m \in 1..n : t[m-1].Reachable
  BY DEF Visited
<1>2. last \in State
  BY <1>1
<1>3. CASE n = 0 BY <1>1, <1>2, <1>3
<1>4. CASE n # 0
  <2>1. 1 \in 1..n
    BY <1>4
  <2>2. t[1-1].Reachable
    BY <1>1, <2>1
  <2> QED BY <1>1, <1>2, <2>2
<1> QED BY <1>3, <1>4

LEMMA VisitedNone ==
  ASSUME NEW p, NEW b, NEW s \in State
  PROVE  Visited(p, b, s, 0, s)
<1> DEFINE t == [m \in 0..0 |-> s]
<1>1. t \in [0..0 -> State] /\ t[0] = s
  OBVIOUS
<1>2. 1..0 = {}
  OBVIOUS
<1> HIDE DEF t
<1> QED BY <1>1, <1>2 DEF Visited

LEMMA InstructionDescribes ==
  ASSUME AtInstruction, prog' = prog, RunInstruction
  PROVE  Describes(abs)' /\ (status' = "running" => abs'.Reachable = abs.Reachable)
BY LoadDescribes, PartialReadDescribes, StoreDescribes, PartialWriteDescribes, SpillDescribes,
   ReloadDescribes, UseDescribes, CallDescribes DEF RunInstruction

\* A step that leaves the machine alone and claims less of it.
LEMMA OnlyLess ==
  ASSUME Describes(abs), SaysLess(abs, abs'), prog' = prog,
         UNCHANGED <<regs, vals, mem, killed, writer, fresh>>
  PROVE  Describes(abs)'
<1> USE SameFunction DEF Describes, SaysLess, Known, Tracked
<1>1. CellsHold(abs)' BY DEF CellsHold
<1>2. SlotsHold(abs)' BY DEF SlotsHold
<1>3. ValuesHold(abs)' BY DEF ValuesHold
<1>4. OriginsDefined(abs)' BY DEF OriginsDefined
<1>5. UnwrittenMayBeEntry(abs)' BY DEF UnwrittenMayBeEntry
<1>6. EvidenceHolds(abs)' BY DEF EvidenceHolds
<1> QED BY <1>1, <1>2, <1>3, <1>4, <1>5, <1>6

LEMMA SaysLessTransitive ==
  ASSUME NEW s, NEW t, NEW u, SaysLess(s, t), SaysLess(t, u)
  PROVE  SaysLess(s, u)
BY DEF SaysLess

LEMMA InstructionStep ==
  ASSUME SolverInv, MachineTypeOK, ReplayInv, RunInstruction, UNCHANGED vars
  PROVE  MachineTypeOK' /\ ReplayInv' /\ status' # "idle"
<1>1. /\ prog \in Programs /\ prog' = prog /\ in' = in
      /\ status = "running" /\ at <= Len(Code) /\ at \in Nat /\ at >= 1
      /\ abs' = TransferInstruction(Instr, abs, prog.adjust) /\ at' = at + 1 /\ block' = block
      /\ status' \in {"running", "exited"}
  BY DEF SolverInv, TypeOK, vars, MachineTypeOK, RunInstruction, RunLoad, RunPartialRead, RunStore,
     RunPartialWrite, RunSpill, RunReload, RunUse, RunCall, Instruction
<1>2. /\ block \in BlocksOf(prog) /\ abs.Reachable /\ Describes(abs)
      /\ Visited(prog, block, in[block], at - 1, abs)
  BY <1>1 DEF ReplayInv
<1>3. at - 1 \in Nat /\ (at - 1) + 1 = at /\ at' - 1 = at
  BY <1>1
<1>4. abs \in State
  BY <1>2, <1>3, VisitedFacts
<1>5. AtInstruction
  BY <1>1, <1>2, <1>4 DEF AtInstruction
<1>6. MachineTypeOK'
  BY <1>1, <1>2, <1>5, InstructionData DEF DataTypeOK, MachineTypeOK
<1>7. ReplayInv'
  <2> SUFFICES ASSUME status' = "running" PROVE ReplayInv'
    BY <1>1 DEF ReplayInv
  <2>1. Describes(abs)' /\ abs'.Reachable
    BY <1>1, <1>2, <1>5, InstructionDescribes
  <2>2. Instr \in Instructions
    BY <1>5, InstrType
  <2>3. abs' \in State
    BY <1>1, <1>4, <2>2, TransferInstructionType
  <2>4. Instr = prog.code[block][at]
    BY DEF Instr, Code
  <2>5. Visited(prog, block, in[block], (at - 1) + 1, abs')
    BY <1>1, <1>2, <1>3, <1>4, <2>3, <2>4, VisitedNext
  <2>6. Visited(prog, block, in[block], at' - 1, abs')
    BY <1>3, <2>5
  <2>7. Len(Code) \in Nat /\ Code' = Code
    BY <1>1, <1>2, ProgramShape DEF Code
  <2>8. at' <= Len(Code') + 1
    BY <1>1, <2>7
  <2> QED BY <1>1, <1>2, <2>1, <2>6, <2>8 DEF ReplayInv
<1> QED BY <1>1, <1>6, <1>7

LEMMA DoneSettled ==
  ASSUME SolverInv, SettledInv, InputsSettled, phase = "done", NEW b \in BlocksOf(prog)
  PROVE  in[b] = EntryInput(prog, b, out) /\ out[b] = TransferBlock(prog, b, in[b])
<1>1. Waiting = {}
  BY SetOfEmpty DEF SolverInv, DoneInv, Waiting
<1> QED BY <1>1 DEF SettledInv, InputsSettled, BlockResult

\* At the end of a block the state is what the solver has as its result, or
\* says more.
LEMMA ResultSaysLess ==
  ASSUME SolverInv, SettledInv, InputsSettled, phase = "done", prog \in Programs,
         block \in BlocksOf(prog), abs.Reachable,
         Visited(prog, block, in[block], Len(Code), abs)
  PROVE  SaysLess(abs, out[block]) /\ out[block].Reachable /\ out[block] \in State
<1>1. Len(Code) \in Nat /\ Code = prog.code[block]
  BY ProgramShape DEF Code
<1>2. abs \in State /\ in[block].Reachable
  BY <1>1, VisitedFacts
<1>3. TransferBlock(prog, block, in[block]) = PruneBlockLocal(prog, block, abs)
  <2> DEFINE n == Len(prog.code[block])
  <2>1. n \in Nat /\ n <= n /\ Visited(prog, block, in[block], n, abs)
    BY <1>1
  <2> QED BY <1>2, <2>1, VisitComputesBlock
<1>4. out[block] = PruneBlockLocal(prog, block, abs)
  BY <1>3, DoneSettled
<1> QED BY <1>2, <1>4, PruneSaysLess, PruneBlockLocalType

LEMMA EndBlockStep ==
  ASSUME SolverInv, SettledInv, InputsSettled, phase = "done", MachineTypeOK, ReplayInv,
         EndBlock, UNCHANGED vars
  PROVE  MachineTypeOK' /\ ReplayInv' /\ status' # "idle"
<1>1. /\ prog \in Programs /\ prog' = prog /\ in' = in /\ out \in [BlocksOf(prog) -> State]
      /\ status = "running" /\ at > Len(Code) /\ at \in Nat
      /\ UNCHANGED <<regs, vals, mem, killed, writer, fresh>>
  BY DEF SolverInv, TypeOK, vars, MachineTypeOK, EndBlock
<1>2. /\ block \in BlocksOf(prog) /\ at <= Len(Code) + 1 /\ abs.Reachable /\ Describes(abs)
      /\ Visited(prog, block, in[block], at - 1, abs)
  BY <1>1 DEF ReplayInv
<1>3. Len(Code) \in Nat
  BY <1>1, <1>2, ProgramShape DEF Code
<1>4. at = Len(Code) + 1 /\ at - 1 = Len(Code)
  BY <1>1, <1>2, <1>3
<1>5. CASE block \in prog.returns
  <2>1. status' = "returned" /\ UNCHANGED <<block, at, abs>>
    BY <1>5 DEF EndBlock
  <2>2. SameFacts(abs, abs')
    BY <2>1 DEF SameFacts
  <2>3. Describes(abs)'
    BY <1>1, <1>2, <2>2, OnlyReads
  <2>4. Code' = Code
    BY <1>1, <2>1 DEF Code
  <2> QED BY <1>1, <1>2, <1>4, <1>5, <2>1, <2>3, <2>4 DEF ReplayInv, MachineTypeOK
<1>6. CASE block \notin prog.returns
  <2>1. PICK b \in SuccsOf(prog, block) :
          block' = b /\ at' = 1 /\ abs' = in[b] /\ status' = status
    BY <1>6 DEF EndBlock, Enter
  <2>2. b \in BlocksOf(prog)
    <3>1. prog.succ[block] \in Seq(BlocksOf(prog))
      BY <1>1, <1>2, ProgramShape
    <3> QED BY <2>1, <3>1 DEF SuccsOf, SeqSet
  <2>3. b # EntryOf(prog)
    BY <1>1, <1>2, <2>1, LiftedAssumption DEF IsLifted
  <2> DEFINE results == {out[q] : q \in PredsOf(prog, b)}
  <2>4. in[b] = JoinStates(results)
    BY <2>2, <2>3, DoneSettled DEF EntryInput
  <2>5. results \in SUBSET State /\ out[block] \in results
    BY <1>1, <1>2, <2>1 DEF PredsOf
  <2>6. SaysLess(abs, out[block]) /\ out[block].Reachable
    BY <1>1, <1>2, <1>4, ResultSaysLess
  <2> HIDE DEF results
  <2>7. SaysLess(out[block], in[b]) /\ in[b].Reachable
    BY <2>4, <2>5, <2>6, JoinSaysLess
  <2>8. SaysLess(abs, abs')
    BY <2>1, <2>6, <2>7, SaysLessTransitive
  <2>9. Describes(abs)'
    BY <1>1, <1>2, <2>8, OnlyLess
  <2>10. in[b] \in State
    BY <2>2 DEF SolverInv, TypeOK
  <2>11. Visited(prog, b, in[b], at' - 1, abs')
    BY <2>1, <2>10, VisitedNone
  <2>12. at' <= Len(Code') + 1
    <3>1. Len(prog.code[b]) \in Nat
      BY <1>1, <2>2, ProgramShape
    <3>2. Code' = prog.code[b]
      BY <1>1, <2>1 DEF Code
    <3> QED BY <2>1, <3>1, <3>2
  <2> QED BY <1>1, <2>1, <2>2, <2>7, <2>9, <2>11, <2>12 DEF ReplayInv, MachineTypeOK
<1> QED BY <1>5, <1>6

LEMMA StartStep ==
  ASSUME SolverInv, SettledInv, InputsSettled, MachineTypeOK, Untouched, Start, UNCHANGED vars
  PROVE  MachineTypeOK' /\ ReplayInv' /\ status' # "idle"
<1> DEFINE e == EntryOf(prog)
<1>1. /\ prog \in Programs /\ prog' = prog /\ in' = in /\ phase = "done" /\ status = "idle"
      /\ status' = "running" /\ block' = e /\ at' = 1 /\ abs' = in[e]
      /\ UNCHANGED <<regs, vals, mem, killed, writer, fresh>>
  BY DEF SolverInv, TypeOK, vars, Start, Enter
<1>2. e \in BlocksOf(prog) /\ Len(prog.code[e]) \in Nat
  BY <1>1, ProgramShape
<1>3. abs' = InitialState(TRUE)
  BY <1>1, <1>2, DoneSettled DEF EntryInput
<1>4. /\ \A r : CellIn(abs'.Cells, r) = DefaultCell
      /\ DOMAIN abs'.StackSlots = {} /\ DOMAIN abs'.StackSlotOrigins = {}
      /\ DOMAIN abs'.ValueOrigins = {} /\ abs'.Reachable
      /\ \A r \in Registers : abs'.Origins[r] = DefaultOrigin
  BY <1>3 DEF InitialState, EmptyMap, CellIn
<1>5. /\ \A r \in Registers : \A b \in Bits : regs'[r][b] = <<r, b>>
      /\ killed' = {}
  BY <1>1 DEF Untouched, EntryValue
<1>6. Describes(abs)'
  <2>1. CellsHold(abs)' BY <1>4, <1>5 DEF CellsHold, Known, Tracked
  <2>2. SlotsHold(abs)' BY <1>4 DEF SlotsHold
  <2>3. ValuesHold(abs)' BY <1>4 DEF ValuesHold
  <2>4. OriginsDefined(abs)' BY <1>4 DEF OriginsDefined
  <2>5. UnwrittenMayBeEntry(abs)' BY <1>4 DEF UnwrittenMayBeEntry, DefaultCell
  <2>6. EvidenceHolds(abs)' BY <1>4 DEF EvidenceHolds, DefaultOrigin, Tracked
  <2> QED BY <2>1, <2>2, <2>3, <2>4, <2>5, <2>6 DEF Describes
<1>7. in[e] \in State
  BY <1>2 DEF SolverInv, TypeOK
<1>8. Visited(prog, e, in[e], at' - 1, abs')
  BY <1>1, <1>7, VisitedNone
<1>9. at' <= Len(Code') + 1 /\ at' \in Nat /\ at' >= 1
  <2>1. Code' = prog.code[e]
    BY <1>1 DEF Code
  <2> QED BY <1>1, <1>2, <2>1
<1> HIDE DEF e
<1>10. ReplayInv'
  BY <1>1, <1>2, <1>4, <1>6, <1>8, <1>9 DEF ReplayInv
<1>11. MachineTypeOK'
  BY <1>1, <1>2, <1>9 DEF MachineTypeOK
<1> QED BY <1>1, <1>10, <1>11

-----------------------------------------------------------------------------
(* The solver's side.                                                        *)

LEMMA InputsSettledNext ==
  ASSUME CollectEvidence, SolverInv, InputsSettled, [Next]_vars
  PROVE  InputsSettled'
<1>1. CASE StoreResult
  <2> DEFINE c == current
  <2>1. /\ c \in Waiting /\ c \in BlocksOf(prog) /\ prog' = prog
        /\ out' = [out EXCEPT ![c] = BlockResult(c)]
        /\ Waiting' = (Waiting \ {c})
             \cup (IF SameResult(out[c], BlockResult(c)) THEN {} ELSE SuccsOf(prog, c))
    BY <1>1, StoreResultInv
  <2>2. /\ out \in [BlocksOf(prog) -> State] /\ in' = in
        /\ in[c] = EntryInput(prog, c, out)
    BY <1>1 DEF SolverInv, TypeOK, VisitInv, StoreResult
  <2>3. CASE out[c] = BlockResult(c)
    <3>1. out' = out
      BY <2>1, <2>2, <2>3
    <3>2. \A b \in BlocksOf(prog) \ Waiting' : b = c \/ b \notin Waiting
      BY <2>1
    <3> QED BY <2>1, <2>2, <3>1, <3>2 DEF InputsSettled
  <2>4. CASE out[c] # BlockResult(c)
    <3>1. Waiting' = (Waiting \ {c}) \cup SuccsOf(prog, c)
      BY <2>1, <2>4 DEF SameResult
    <3>2. ASSUME NEW b \in BlocksOf(prog), b \notin Waiting'
          PROVE  in'[b] = EntryInput(prog, b, out')
      <4>1. c \notin PredsOf(prog, b)
        BY <3>1, <3>2 DEF PredsOf
      <4>2. {out'[q] : q \in PredsOf(prog, b)} = {out[q] : q \in PredsOf(prog, b)}
        BY <2>1, <2>2, <4>1 DEF PredsOf
      <4>3. EntryInput(prog, b, out') = EntryInput(prog, b, out)
        BY <4>2 DEF EntryInput
      <4>4. b = c \/ b \notin Waiting
        BY <3>1, <3>2
      <4> QED BY <2>2, <3>2, <4>3, <4>4 DEF InputsSettled
    <3> QED BY <2>1, <3>2 DEF InputsSettled
  <2> QED BY <2>3, <2>4
<1>2. CASE PopBlock
  <2> DEFINE c == Head(worklist)
  <2>1. /\ Waiting' = Waiting /\ prog' = prog /\ out' = out
        /\ in' = [in EXCEPT ![c] = EntryInput(prog, c, out)]
    BY <1>2, PopBlockInv DEF PopBlock
  <2>2. worklist \in Seq(BlocksOf(prog)) /\ worklist # <<>> /\ in \in [BlocksOf(prog) -> State]
    BY <1>2 DEF SolverInv, TypeOK, PopBlock
  <2>3. c \in SeqSet(worklist)
    BY <2>2, HeadAndTail
  <2>4. c \in Waiting
    BY <2>3 DEF Waiting
  <2> HIDE DEF c
  <2> QED BY <2>1, <2>2, <2>4 DEF InputsSettled
<1>3. CASE ~StoreResult /\ ~PopBlock
  <2>1. UNCHANGED <<prog, in, out>>
    BY <1>3 DEF Next, TransferNext, EnqueueNext, CollectExits, vars
  <2>2. Waiting' = Waiting
    BY <1>3, SolverSteps
  <2> QED BY <2>1, <2>2 DEF InputsSettled
<1> QED BY <1>1, <1>2, <1>3

LEMMA DoneStays ==
  ASSUME SolverInv, phase = "done", [Next]_vars
  PROVE  UNCHANGED vars
BY DEF SolverInv, DoneInv, Next, PopBlock, TransferNext, StoreResult, EnqueueNext, CollectExits

LEMMA EffectIsOfExitsNext ==
  ASSUME SolverInv, EffectIsOfExits, [Next]_vars
  PROVE  EffectIsOfExits'
<1>1. CASE phase = "done"
  BY <1>1, DoneStays DEF EffectIsOfExits, vars
<1>2. CASE CollectExits
  BY <1>2 DEF CollectExits, EffectIsOfExits
<1>3. CASE phase # "done" /\ ~CollectExits
  BY <1>3 DEF Next, PopBlock, TransferNext, StoreResult, EnqueueNext, vars, EffectIsOfExits
<1> QED BY <1>1, <1>2, <1>3

-----------------------------------------------------------------------------
(* The theorems.                                                             *)

LEMMA InitRunInv == RunInit => RunInv
<1> SUFFICES ASSUME RunInit PROVE RunInv
  OBVIOUS
<1>1. Init /\ prog \in Programs
  BY DEF RunInit, Init
<1>2. SolverInv
  BY <1>1, InitSolverInv
<1>3. Waiting = BlocksOf(prog)
  BY <1>1, SetOfEmpty DEF Init, Waiting, BlocksOf
<1>4. SettledInv /\ InputsSettled
  BY <1>3 DEF SettledInv, InputsSettled
<1>5. EffectIsOfExits
  BY <1>1 DEF Init, EffectIsOfExits
<1>6. MachineTypeOK
  <2>1. \A r \in Registers : EntryValue(r) \in Bitwise
    BY DEF EntryValue, Bitwise
  <2>2. NoValue \in Bitwise
    BY DEF NoValue, Bitwise
  <2>3. vals \in Sparse(Values, Bitwise)
    BY EmptySparse DEF RunInit
  <2> QED BY <2>1, <2>2, <2>3 DEF RunInit, MachineTypeOK, Writers
<1>7. status = "idle" /\ Untouched /\ ReplayInv
  BY DEF RunInit, Untouched, ReplayInv
<1> QED BY <1>2, <1>4, <1>5, <1>6, <1>7 DEF RunInv

LEMMA SolverPartNext ==
  ASSUME CollectEvidence, RunInv, [Next]_vars
  PROVE  /\ SolverInv' /\ SettledInv' /\ InputsSettled' /\ EffectIsOfExits' /\ prog' = prog
         /\ phase = "done" => phase' = "done"
<1>1. SolverInv /\ SettledInv /\ InputsSettled /\ EffectIsOfExits
  BY DEF RunInv
<1>2. prog' = prog
  BY <1>1, SolverSteps, StoreResultInv
<1>3. phase = "done" => phase' = "done"
  BY <1>1, DoneStays DEF vars
<1> QED BY <1>1, <1>2, <1>3, SolverSteps, SettledNext, InputsSettledNext, EffectIsOfExitsNext

LEMMA RunInvNext ==
  ASSUME CollectEvidence, RunInv, [RunNext]_<<vars, runVars>>
  PROVE  RunInv'
<1>1. [Next]_vars
  BY DEF RunNext, Analyse
<1>2. /\ SolverInv' /\ SettledInv' /\ InputsSettled' /\ EffectIsOfExits' /\ prog' = prog
      /\ phase = "done" => phase' = "done"
  BY <1>1, SolverPartNext
<1>3. CASE Execute /\ UNCHANGED vars
  <2>1. /\ SolverInv /\ SettledInv /\ InputsSettled /\ MachineTypeOK /\ ReplayInv /\ Untouched
        /\ status # "idle" => phase = "done"
    BY DEF RunInv
  <2>2. CASE Start
    BY <1>2, <1>3, <2>1, <2>2, StartStep DEF RunInv, Untouched, Start
  <2>3. CASE RunInstruction
    <3>1. status = "running"
      BY <2>3 DEF RunInstruction, RunLoad, RunPartialRead, RunStore, RunPartialWrite, RunSpill,
         RunReload, RunUse, RunCall, Instruction
    <3>2. MachineTypeOK' /\ ReplayInv' /\ status' # "idle"
      BY <1>3, <2>1, <2>3, InstructionStep
    <3> QED BY <1>2, <2>1, <3>1, <3>2 DEF RunInv, Untouched
  <2>4. CASE EndBlock
    <3>1. status = "running"
      BY <2>4 DEF EndBlock
    <3>2. MachineTypeOK' /\ ReplayInv' /\ status' # "idle"
      BY <1>3, <2>1, <2>4, <3>1, EndBlockStep
    <3> QED BY <1>2, <2>1, <3>1, <3>2 DEF RunInv, Untouched
  <2> QED BY <1>3, <2>2, <2>3, <2>4 DEF Execute, RunInstruction
<1>4. CASE UNCHANGED runVars
  <2>1. MachineTypeOK' /\ Untouched'
    BY <1>2, <1>4 DEF RunInv, MachineTypeOK, Untouched, runVars
  <2>2. CASE phase = "done"
    <3>1. UNCHANGED vars
      BY <1>1, <2>2, DoneStays DEF RunInv
    <3>2. SameFacts(abs, abs') /\ UNCHANGED <<regs, vals, mem, killed, writer, fresh>>
      BY <1>4 DEF SameFacts, runVars
    <3>3. Describes(abs) => Describes(abs)'
      BY <1>2, <3>2, OnlyReads
    <3>4. ReplayInv'
      BY <1>4, <3>1, <3>3 DEF RunInv, ReplayInv, Code, vars, runVars
    <3> QED BY <1>2, <1>4, <2>1, <2>2, <3>4 DEF RunInv, runVars
  <2>3. CASE phase # "done"
    <3>1. status = "idle" /\ status' = "idle"
      BY <1>4, <2>3 DEF RunInv, runVars
    <3> QED BY <1>2, <2>1, <3>1 DEF RunInv, ReplayInv
  <2> QED BY <2>2, <2>3
<1> QED BY <1>3, <1>4 DEF RunNext, Analyse

LEMMA RunInvariant ==
  ASSUME CollectEvidence
  PROVE  RunSpec => []RunInv
<1>1. RunInv /\ [RunNext]_<<vars, runVars>> => RunInv'
  BY RunInvNext
<1> QED BY <1>1, InitRunInv, PTL DEF RunSpec

(* solveFunction and the replay: a bit that the state at an instruction does *)
(* not call MayNonEntry holds the entry value, and so do slots and values    *)
(* that count as its homes, in every run of every function.                  *)
THEOREM EntryValuesProved ==
  ASSUME CollectEvidence
  PROVE  RunSpec => []EntryValuesInPlace
<1>1. RunInv => EntryValuesInPlace
  BY DEF RunInv, ReplayInv, Describes, CellsHold, SlotsHold, ValuesHold, EntryValuesInPlace, Running
<1> QED BY <1>1, RunInvariant, PTL

(* collectExternalCallsiteEvidence: what it takes for the caller's own       *)
(* definition of an argument register, for a float argument, for a clobbered *)
(* register or for a stack argument is one, in every run of every function.  *)
THEOREM CallsiteEvidenceProved ==
  ASSUME CollectEvidence
  PROVE  RunSpec => []CallsiteEvidenceHolds
<1>1. RunInv => CallsiteEvidenceHolds
  BY DEF RunInv, ReplayInv, Describes, EvidenceHolds, CallsiteEvidenceHolds, Running
<1> QED BY <1>1, RunInvariant, PTL

\* An exit claims what the state at its return claims, callee-saved registers
\* aside.
LEMMA ExitStateKeeps ==
  ASSUME NEW s \in State, NEW r, r \notin Unaffected
  PROVE  /\ CellIn(ExitState(s).Cells, r) = CellIn(s.Cells, r)
         /\ ExitState(s).Reachable = s.Reachable
<1> DEFINE saved == {s.StackSlots[k] : k \in DOMAIN s.StackSlots}
           back == {q \in Unaffected \ (Ignored \cup {StackPointer}) :
                      q \in saved /\ CellIn(s.Cells, q).MayNonEntry # {}}
           cells == [q \in DOMAIN s.Cells |->
                       IF q \in back THEN RestoreCell(s.Cells[q], Bits) ELSE s.Cells[q]]
           t == [s EXCEPT !.Cells = cells]
<1>1. ExitState(s) = t
  BY DEF ExitState
<1>2. t.Cells = cells /\ t.Reachable = s.Reachable
  BY DEF State
<1>3. r \notin back
  OBVIOUS
<1> HIDE DEF back
<1>4. CellIn(cells, r) = CellIn(s.Cells, r)
  BY <1>3 DEF CellIn
<1> HIDE DEF t, cells
<1> QED BY <1>1, <1>2, <1>4

\* The effect keeps the cells of the exits, with more reads.
LEMMA EffectCells ==
  ASSUME NEW returns \in SUBSET State, NEW noReturns \in SUBSET State, NEW s \in returns,
         s.Reachable, NEW r \in Registers, r \notin Unaffected
  PROVE  LET effectCell == CellIn(EffectOf(returns, noReturns).Registers, r) IN
         /\ CellIn(s.Cells, r).MayEntry \subseteq effectCell.MayEntry
         /\ CellIn(s.Cells, r).MayNonEntry \subseteq effectCell.MayNonEntry
<1> DEFINE states == {ExitState(t) : t \in returns}
           exits == JoinStates(states)
           readCells == NoReturnReads(noReturns)
           withReads(q) ==
             [CellIn(exits.Cells, q) EXCEPT !.ReadEntry =
                @ \cup (IF q \in DOMAIN readCells THEN readCells[q].ReadEntry ELSE {})]
           cells == [q \in DOMAIN exits.Cells \cup DOMAIN readCells |-> withReads(q)]
<1>1. states \in SUBSET State /\ ExitState(s) \in states
  BY ExitStateType
<1>2. ExitState(s).Reachable /\ CellIn(ExitState(s).Cells, r) = CellIn(s.Cells, r)
  BY ExitStateKeeps
<1>3. SaysLess(ExitState(s), exits) /\ exits.Reachable
  <2> HIDE DEF states
  <2> QED BY <1>1, <1>2, JoinSaysLess
<1>4. exits \in State
  <2> HIDE DEF states
  <2> QED BY <1>1, JoinStatesType
<1>5. EffectOf(returns, noReturns) = [Registers |-> cells, NoReturn |-> FALSE]
  BY <1>3, Zenon DEF EffectOf
<1> HIDE DEF exits, readCells
<1>6. CellIn(exits.Cells, r) \in Cell
  BY <1>4, CellOf DEF CoveredCell
<1>7. /\ withReads(r).MayEntry = CellIn(exits.Cells, r).MayEntry
      /\ withReads(r).MayNonEntry = CellIn(exits.Cells, r).MayNonEntry
  BY <1>6 DEF Cell
<1> HIDE DEF withReads
<1>8. CellIn(cells, r) = withReads(r) \/ CellIn(cells, r) = CellIn(exits.Cells, r)
  BY DEF CellIn
<1> HIDE DEF cells
<1>9. EffectOf(returns, noReturns).Registers = cells
  BY <1>5
<1> QED BY <1>2, <1>3, <1>7, <1>8, <1>9 DEF SaysLess

\* Saved in part are callee-saved registers only.
LEMMA CallersKnow == Tracked \ Unaffected \subseteq Known
BY DEF Known, SavedInPart, CanTrackSaved

LEMMA EffectInv == RunInv => EffectHolds
<1> SUFFICES ASSUME RunInv, status = "returned" PROVE EffectHolds
  BY DEF EffectHolds
<1>1. /\ prog \in Programs /\ block \in BlocksOf(prog) /\ block \in prog.returns
      /\ out \in [BlocksOf(prog) -> State] /\ phase = "done"
      /\ abs.Reachable /\ Describes(abs)
      /\ at = Len(Code) + 1 /\ Visited(prog, block, in[block], at - 1, abs)
      /\ SolverInv /\ SettledInv /\ InputsSettled
  BY DEF RunInv, SolverInv, TypeOK, ReplayInv
<1>2. Len(Code) \in Nat
  BY <1>1, ProgramShape DEF Code
<1>3. Visited(prog, block, in[block], Len(Code), abs)
  <2>1. at - 1 = Len(Code)
    BY <1>1, <1>2
  <2> QED BY <1>1, <2>1
<1>4. SaysLess(abs, out[block]) /\ out[block].Reachable
  BY <1>1, <1>3, ResultSaysLess
<1> DEFINE returns == {out[b] : b \in prog.returns}
           noReturns == {out[b] : b \in {c \in BlocksOf(prog) : out[c].EndsInNoReturn}}
<1>5. /\ returns \in SUBSET State /\ noReturns \in SUBSET State /\ out[block] \in returns
      /\ effect = EffectOf(returns, noReturns)
  BY <1>1, ProgramShape DEF RunInv, EffectIsOfExits
<1> HIDE DEF returns, noReturns
<1>6. ASSUME NEW r \in Tracked \ Unaffected, NEW b \in Bits
      PROVE  /\ b \notin CellIn(effect.Registers, r).MayNonEntry => regs[r][b] = <<r, b>>
             /\ <<r, b>> \notin killed => b \in CellIn(effect.Registers, r).MayEntry
  <2>1. r \in Registers /\ r \in Known /\ r \in Tracked
    BY CallersKnow DEF Tracked
  <2>2. /\ CellIn(out[block].Cells, r).MayEntry \subseteq CellIn(effect.Registers, r).MayEntry
        /\ CellIn(out[block].Cells, r).MayNonEntry \subseteq CellIn(effect.Registers, r).MayNonEntry
    BY <1>4, <1>5, <1>6, <2>1, EffectCells
  <2>3. /\ b \notin CellIn(abs.Cells, r).MayNonEntry => regs[r][b] = <<r, b>>
        /\ <<r, b>> \notin killed => b \in CellIn(abs.Cells, r).MayEntry
    BY <1>1, <2>1 DEF Describes, CellsHold, UnwrittenMayBeEntry
  <2> QED BY <1>4, <2>1, <2>2, <2>3 DEF SaysLess
<1> QED BY <1>6 DEF EffectHolds

(* collectExits: at a return, a register whose effect callers use holds the  *)
(* entry value in every bit the effect does not call MayNonEntry, and a bit  *)
(* nothing ever wrote counts as MayEntry, in every run of every function.    *)
THEOREM EffectProved ==
  ASSUME CollectEvidence
  PROVE  RunSpec => []EffectHolds
BY EffectInv, RunInvariant, PTL

-----------------------------------------------------------------------------
(* The origin of a value, once its block has one to give, is there wherever  *)
(* the value may be used.                                                    *)

LEMMA BehindFacts ==
  ASSUME NEW p, NEW d, NEW b \in Behind(p, d)
  PROVE  /\ b \in BlocksOf(p) /\ b # EntryOf(p) /\ b # d
         /\ \A q \in PredsOf(p, b) : q = d \/ q \in Behind(p, d)
<1>1. PICK S \in SUBSET (BlocksOf(p) \ {EntryOf(p), d}) :
        b \in S /\ \A c \in S : PredsOf(p, c) \subseteq S \cup {d}
  BY Zenon DEF Behind
<1>2. \A c \in S : c \in Behind(p, d)
  BY <1>1, Zenon DEF Behind
<1> QED BY <1>1, <1>2

SameOrigin(s, t, v) ==
  /\ v \in DOMAIN t.ValueOrigins <=> v \in DOMAIN s.ValueOrigins
  /\ v \in DOMAIN s.ValueOrigins => t.ValueOrigins[v] = s.ValueOrigins[v]

LEMMA PutDropSame ==
  ASSUME NEW map, NEW k, NEW x, NEW v, v # k
  PROVE  /\ v \in DOMAIN Put(map, k, x) <=> v \in DOMAIN map
         /\ v \in DOMAIN map => Put(map, k, x)[v] = map[v]
         /\ v \in DOMAIN Drop(map, k) <=> v \in DOMAIN map
         /\ v \in DOMAIN map => Drop(map, k)[v] = map[v]
BY DEF Put, Drop

\* An instruction changes the origin of the value it defines at most.
LEMMA InstructionOrigins ==
  ASSUME NEW s \in State, NEW i \in Instructions, NEW adjust, NEW v, Defines(i) => v # i.val
  PROVE  SameOrigin(s, TransferInstruction(i, s, adjust), v)
<1>1. /\ i.op \in {"load", "store", "reload", "spill", "pread", "pwrite", "use", "call"}
      /\ i.op \in {"load", "store", "pread", "pwrite"} => i.reg \in Registers
      /\ i.op = "pwrite" => i.mask \in SUBSET Bits
      /\ i.op = "call" => i.callee \in Callees
  BY DEF Instructions, RegisterLoads, RegisterStores, SlotLoads, SlotStores,
     PartialReads, PartialWrites, OtherUses, AnalysableCalls
<1> DEFINE t == TransferInstruction(i, s, adjust)
<1>2. CASE i.op = "load"
  <2> DEFINE origin == [Base |-> i.reg, Mask |-> Bits]
  <2>1. t = TransferLoad(i, s) /\ v # i.val
    BY <1>2 DEF TransferInstruction, Defines
  <2> HIDE DEF t
  <2>2. \/ t.ValueOrigins = s.ValueOrigins
        \/ t.ValueOrigins = Drop(s.ValueOrigins, i.val)
        \/ t.ValueOrigins = Put(s.ValueOrigins, i.val, origin)
    BY <1>1, <1>2, <2>1, LoadFacts
  <2> HIDE DEF origin
  <2> QED BY <2>1, <2>2, PutDropSame DEF SameOrigin, t
<1>3. CASE i.op = "store"
  <2>1. t = TransferStore(i, s)
    BY <1>3 DEF TransferInstruction
  <2> HIDE DEF t
  <2>2. t.ValueOrigins = s.ValueOrigins
    BY <1>1, <1>3, <2>1, StoreFacts
  <2> QED BY <2>2 DEF SameOrigin, t
<1>4. CASE i.op = "reload"
  <2> DEFINE origin == [Base |-> s.StackSlots[i.slot], Mask |-> Bits]
  <2>1. t = TransferReload(i, s, adjust) /\ v # i.val
    BY <1>4 DEF TransferInstruction, Defines
  <2> HIDE DEF t
  <2>2. \/ t.ValueOrigins = Drop(s.ValueOrigins, i.val)
        \/ t.ValueOrigins = Put(s.ValueOrigins, i.val, origin)
    BY <2>1, ReloadFacts
  <2> HIDE DEF origin
  <2> QED BY <2>1, <2>2, PutDropSame DEF SameOrigin, t
<1>5. CASE i.op = "spill"
  <2>1. t = TransferSpill(i, s, adjust)
    BY <1>5 DEF TransferInstruction
  <2> HIDE DEF t
  <2>2. t.ValueOrigins = s.ValueOrigins
    BY <2>1, SpillKeeps
  <2> QED BY <2>2 DEF SameOrigin, t
<1>6. CASE i.op = "pread"
  <2> DEFINE origin == [Base |-> i.reg, Mask |-> i.mask]
  <2>1. t = TransferPartialRead(i, s) /\ v # i.val
    BY <1>6 DEF TransferInstruction, Defines
  <2> HIDE DEF t
  <2>2. \/ t.ValueOrigins = Drop(s.ValueOrigins, i.val)
        \/ t.ValueOrigins = Put(s.ValueOrigins, i.val, origin)
    BY <1>1, <1>6, <2>1, PartialReadFacts
  <2> HIDE DEF origin
  <2> QED BY <2>1, <2>2, PutDropSame DEF SameOrigin, t
<1>7. CASE i.op = "pwrite"
  <2>1. t = TransferPartialWrite(i, s)
    BY <1>7 DEF TransferInstruction
  <2> HIDE DEF t
  <2>2. t.ValueOrigins = s.ValueOrigins
    BY <1>1, <1>7, <2>1, PartialWriteFacts
  <2> QED BY <2>2 DEF SameOrigin, t
<1>8. CASE i.op = "use"
  <2>1. t = MarkEntryValueRead(s, i.src, i.off)
    BY <1>8 DEF TransferInstruction
  <2> HIDE DEF t
  <2>2. t.ValueOrigins = s.ValueOrigins
    BY <2>1, MarkReadSame DEF SameFacts
  <2> QED BY <2>2 DEF SameOrigin, t
<1>9. CASE i.op = "call"
  <2>1. t = TransferCall(i.callee, s)
    BY <1>9 DEF TransferInstruction
  <2> HIDE DEF t
  <2>2. t.ValueOrigins = s.ValueOrigins
    BY <1>1, <1>9, <2>1, TransferCallFacts DEF AfterCall
  <2> QED BY <2>2 DEF SameOrigin, t
<1> QED BY <1>1, <1>2, <1>3, <1>4, <1>5, <1>6, <1>7, <1>8, <1>9

\* The values that the block b of p defines.
LEMMA DefinedAt ==
  ASSUME NEW p, NEW b, NEW v
  PROVE  v \in DefinedIn(p, b) <=>
           \E n \in DOMAIN p.code[b] : Defines(p.code[b][n]) /\ v = p.code[b][n].val
BY DEF DefinedIn, Defines

LEMMA PruneOrigins ==
  ASSUME NEW p, NEW b, NEW s \in State, NEW v, v \notin DefinedIn(p, b) \/ v \in CrossBlockValues(p)
  PROVE  SameOrigin(s, PruneBlockLocal(p, b, s), v)
<1> DEFINE t == PruneBlockLocal(p, b, s)
           gone == DefinedIn(p, b) \ CrossBlockValues(p)
<1>1. t.ValueOrigins = [w \in DOMAIN s.ValueOrigins \ gone |-> s.ValueOrigins[w]]
  BY PruneFacts
<1>2. v \notin gone
  OBVIOUS
<1> HIDE DEF t, gone
<1> QED BY <1>1, <1>2 DEF SameOrigin, t

\* A block changes the origins of the values it defines at most.
LEMMA BlockOrigins ==
  ASSUME NEW p \in Programs, NEW b \in BlocksOf(p), NEW s \in State,
         NEW v, v \notin DefinedIn(p, b)
  PROVE  SameOrigin(s, TransferBlock(p, b, s), v)
<1> DEFINE N == Len(p.code[b])
           x == AfterEach(p, b, s)
           next(n, u) == TransferInstruction(p.code[b][n], u, p.adjust)
           worse == {n \in 0..N : ~SameOrigin(s, x[n], v)}
<1>1. /\ N \in Nat /\ x \in [0..N -> State] /\ x[0] = s
      /\ \A n \in 1..N : x[n] = IF x[n-1].Reachable THEN next(n, x[n-1]) ELSE x[n-1]
  BY BlockStates
<1>2. \A n \in 1..N : p.code[b][n] \in Instructions /\ n \in DOMAIN p.code[b]
  <2>1. p.code[b] \in Seq(Instructions)
    BY ProgramShape
  <2> QED BY <2>1
<1> HIDE DEF x
<1>3. ASSUME worse # {} PROVE FALSE
  <2>1. worse \subseteq Nat
    BY <1>1
  <2>2. PICK n \in worse : \A m \in worse : n <= m
    <3> HIDE DEF worse
    <3> QED BY <1>3, <2>1, LeastNumber
  <2>3. n \in 0..N /\ ~SameOrigin(s, x[n], v)
    OBVIOUS
  <2>4. n # 0
    BY <1>1, <2>3 DEF SameOrigin
  <2>5. n - 1 \in 0..N /\ n - 1 < n /\ n \in 1..N
    BY <1>1, <2>3, <2>4
  <2>6. n - 1 \notin worse
    <3>1. ~(n <= n - 1)
      BY <1>1, <2>5
    <3> HIDE DEF worse
    <3> QED BY <2>2, <3>1, Zenon
  <2>7. SameOrigin(s, x[n-1], v) /\ x[n-1] \in State
    BY <1>1, <2>5, <2>6
  <2>8. SameOrigin(x[n-1], next(n, x[n-1]), v)
    BY <1>2, <2>5, <2>7, InstructionOrigins, DefinedAt
  <2>9. x[n] = x[n-1] \/ x[n] = next(n, x[n-1])
    BY <1>1, <2>5
  <2> HIDE DEF next
  <2> QED BY <2>3, <2>7, <2>8, <2>9 DEF SameOrigin
<1>4. N \in 0..N
  BY <1>1
<1>5. SameOrigin(s, x[N], v) /\ x[N] \in State
  BY <1>1, <1>3, <1>4
<1> DEFINE last == x[N]
           t == PruneBlockLocal(p, b, last)
<1>6. last \in State
  BY <1>5
<1> HIDE DEF last
<1>7. SameOrigin(last, t, v)
  BY <1>6, PruneOrigins
<1> HIDE DEF t
<1>8. SameOrigin(s, t, v)
  BY <1>5, <1>7 DEF SameOrigin, last
<1> QED BY <1>8 DEF TransferBlock, SameOrigin, t, last, x

\* The definition of a value with an origin that is used elsewhere.
OriginKeptIn(d, v) ==
  \A q \in Behind(prog, d) : out[q].Reachable =>
    /\ out[d].Reachable
    /\ v \in DOMAIN out[d].ValueOrigins =>
         v \in DOMAIN out[q].ValueOrigins /\ out[q].ValueOrigins[v] = out[d].ValueOrigins[v]

OriginKept ==
  \A x \in Positions(prog) :
    Defines(InstructionAt(prog, x)) => OriginKeptIn(x[1], InstructionAt(prog, x).val)

\* What the defining block knows of a value, a block behind it starts with.
LEMMA KeptAtEntry ==
  ASSUME prog \in Programs, out \in [BlocksOf(prog) -> State], NEW d \in BlocksOf(prog), NEW v,
         OriginKeptIn(d, v), NEW b \in Behind(prog, d), EntryInput(prog, b, out).Reachable
  PROVE  /\ out[d].Reachable
         /\ v \in DOMAIN out[d].ValueOrigins =>
              LET s == EntryInput(prog, b, out) IN
              v \in DOMAIN s.ValueOrigins /\ s.ValueOrigins[v] = out[d].ValueOrigins[v]
<1> DEFINE F == {out[q] : q \in PredsOf(prog, b)}
           R == {u \in F : u.Reachable}
           s == JoinStates(F)
           maps == {u.ValueOrigins : u \in R}
           value == out[d].ValueOrigins[v]
<1>1. EntryInput(prog, b, out) = s
  BY BehindFacts DEF EntryInput
<1>2. F \in SUBSET State
  BY DEF PredsOf
<1>3. R # {} /\ s.ValueOrigins = Agreement(maps)
  BY <1>1, <1>2, JoinFacts
<1>4. ASSUME NEW u \in R
      PROVE  /\ out[d].Reachable
             /\ v \in DOMAIN out[d].ValueOrigins =>
                  v \in DOMAIN u.ValueOrigins /\ u.ValueOrigins[v] = value
  <2>1. PICK q \in PredsOf(prog, b) : u = out[q] /\ out[q].Reachable
    OBVIOUS
  <2>2. q = d \/ q \in Behind(prog, d)
    BY BehindFacts
  <2> HIDE DEF R
  <2> QED BY <2>1, <2>2 DEF OriginKeptIn
<1>5. out[d].Reachable
  BY <1>3, <1>4
<1>6. ASSUME v \in DOMAIN out[d].ValueOrigins
      PROVE  v \in DOMAIN s.ValueOrigins /\ s.ValueOrigins[v] = value
  <2>1. maps # {} /\ \A m \in maps : v \in DOMAIN m /\ m[v] = value
    <3> HIDE DEF R, value
    <3> QED BY <1>3, <1>4, <1>6
  <2> HIDE DEF maps, R, s, value
  <2> QED BY <1>3, <2>1, AgreementHas
<1> HIDE DEF s
<1> QED BY <1>1, <1>5, <1>6

LEMMA PositionFacts ==
  ASSUME prog \in Programs, NEW x \in Positions(prog), Defines(InstructionAt(prog, x))
  PROVE  /\ x[1] \in BlocksOf(prog)
         /\ InstructionAt(prog, x).val \in DefinedIn(prog, x[1])
         /\ \A b \in BlocksOf(prog) : InstructionAt(prog, x).val \in DefinedIn(prog, b) => b = x[1]
<1>1. PICK d \in BlocksOf(prog) : \E n \in DOMAIN prog.code[d] : x = <<d, n>>
  BY DEF Positions
<1> PICK n \in DOMAIN prog.code[d] : x = <<d, n>>
  BY <1>1
<1>2. x[1] = d /\ InstructionAt(prog, x) = prog.code[d][n]
  BY <1>1 DEF InstructionAt
<1>3. InstructionAt(prog, x).val \in DefinedIn(prog, x[1])
  BY <1>2, DefinedAt
<1>4. ASSUME NEW b \in BlocksOf(prog), InstructionAt(prog, x).val \in DefinedIn(prog, b)
      PROVE  b = x[1]
  <2>1. PICK m \in DOMAIN prog.code[b] :
          Defines(prog.code[b][m]) /\ InstructionAt(prog, x).val = prog.code[b][m].val
    BY <1>4, DefinedAt
  <2> DEFINE y == <<b, m>>
  <2>2. y \in Positions(prog) /\ InstructionAt(prog, y) = prog.code[b][m] /\ y[1] = b
    BY DEF Positions, InstructionAt
  <2> HIDE DEF y
  <2>3. x = y
    BY <2>1, <2>2, LiftedAssumption DEF IsLifted
  <2> QED BY <2>2, <2>3
<1> QED BY <1>1, <1>2, <1>3, <1>4

LEMMA UnreachedStays ==
  ASSUME NEW p, NEW b, NEW s, TransferBlock(p, b, s).Reachable
  PROVE  s.Reachable
BY DEF TransferBlock

LEMMA OriginKeptInit == Init => OriginKept
BY BehindFacts DEF Init, OriginKept, OriginKeptIn, InitialState

LEMMA OriginKeptNext ==
  ASSUME SolverInv, Ascending, OriginKept, [Next]_vars
  PROVE  OriginKept'
<1>1. CASE StoreResult
  <2>1. /\ current \in BlocksOf(prog) /\ prog' = prog
        /\ out' = [out EXCEPT ![current] = BlockResult(current)]
    BY <1>1, StoreResultInv
  <2>2. out \in [BlocksOf(prog) -> State] /\ prog \in Programs
    BY DEF SolverInv, TypeOK
  <2> SUFFICES ASSUME NEW x \in Positions(prog), Defines(InstructionAt(prog, x))
               PROVE  OriginKeptIn(x[1], InstructionAt(prog, x).val)'
    BY <2>1 DEF OriginKept
  <2> DEFINE d == x[1]
             v == InstructionAt(prog, x).val
  <2>3. /\ d \in BlocksOf(prog) /\ OriginKeptIn(d, v)
        /\ \A b \in BlocksOf(prog) : v \in DefinedIn(prog, b) => b = d
    BY <2>2, PositionFacts DEF OriginKept
  <2> HIDE DEF d, v
  <2>4. SUFFICES ASSUME NEW q \in Behind(prog, d), out'[q].Reachable
                 PROVE  /\ out'[d].Reachable
                        /\ v \in DOMAIN out'[d].ValueOrigins =>
                             /\ v \in DOMAIN out'[q].ValueOrigins
                             /\ out'[q].ValueOrigins[v] = out'[d].ValueOrigins[v]
    BY <2>1 DEF OriginKeptIn, d, v
  <2>5. q \in BlocksOf(prog) /\ q # d
    BY BehindFacts
  <2>6. CASE q = current
    <3> DEFINE s == EntryInput(prog, q, out)
    <3>1. out'[d] = out[d] /\ out'[q] = TransferBlock(prog, q, s)
      BY <2>1, <2>2, <2>3, <2>5, <2>6 DEF BlockResult
    <3>2. s.Reachable
      BY <2>4, <3>1, UnreachedStays
    <3>3. /\ out[d].Reachable
          /\ v \in DOMAIN out[d].ValueOrigins =>
               v \in DOMAIN s.ValueOrigins /\ s.ValueOrigins[v] = out[d].ValueOrigins[v]
      BY <2>2, <2>3, <3>2, KeptAtEntry
    <3>4. s \in State
      BY <2>5, EntryInputType DEF SolverInv, TypeOK
    <3> HIDE DEF s
    <3>5. v \notin DefinedIn(prog, q)
      BY <2>3, <2>5
    <3>6. SameOrigin(s, out'[q], v)
      BY <2>2, <2>5, <3>1, <3>4, <3>5, BlockOrigins
    <3> QED BY <3>1, <3>3, <3>6 DEF SameOrigin
  <2>7. CASE q # current
    <3>1. out'[q] = out[q]
      BY <2>1, <2>2, <2>5, <2>7
    <3>2. /\ out[d].Reachable
          /\ v \in DOMAIN out[d].ValueOrigins =>
               /\ v \in DOMAIN out[q].ValueOrigins
               /\ out[q].ValueOrigins[v] = out[d].ValueOrigins[v]
      BY <2>3, <2>4, <3>1 DEF OriginKeptIn
    <3>3. Weakens(out[d], out'[d])
      BY <2>3, AscendingNext DEF OnlyWeaker
    <3> QED BY <3>1, <3>2, <3>3 DEF Weakens, PartOf
  <2> QED BY <2>6, <2>7
<1>2. CASE Waiting' = Waiting /\ out' = out /\ prog' = prog
  BY <1>2 DEF OriginKept, OriginKeptIn
<1> QED BY <1>1, <1>2, SolverSteps

-----------------------------------------------------------------------------
(* What instructions record as read.                                         *)

LEMMA ReadInputsReads ==
  ASSUME NEW s \in State, NEW masks
  PROVE  /\ MoreRead(s, ReadInputs(s, masks))
         /\ \A r \in DOMAIN masks : r \notin Ignored =>
              RecordsRead(s, ReadInputs(s, masks), r, masks[r])
<1> DEFINE read == {r \in DOMAIN masks \ Ignored : masks[r] # {}}
           cell(r) == ReadCell(CellIn(s.Cells, r), masks[r])
           cells == [r \in DOMAIN s.Cells \cup read |->
                       IF r \in read THEN cell(r) ELSE CellIn(s.Cells, r)]
           t == [s EXCEPT !.Cells = cells]
<1>1. ReadInputs(s, masks) = t
  BY DEF ReadInputs
<1>2. \A r : cell(r).ReadEntry = CellIn(s.Cells, r).ReadEntry
                                   \cup (CellIn(s.Cells, r).MayEntry \cap masks[r])
  BY CellOf DEF ReadCell, CoveredCell, Cell
<1>3. \A r \in DOMAIN masks : r \notin Ignored => r \in read \/ masks[r] = {}
  OBVIOUS
<1> HIDE DEF cell, read
<1>4. \A r : CellIn(cells, r) = IF r \in read THEN cell(r) ELSE CellIn(s.Cells, r)
  BY DEF CellIn
<1> HIDE DEF cells
<1>5. t.Cells = cells
  BY DEF State
<1> HIDE DEF t
<1>6. MoreRead(s, t)
  BY <1>2, <1>4, <1>5 DEF MoreRead
<1>7. \A r \in DOMAIN masks : r \notin Ignored => RecordsRead(s, t, r, masks[r])
  BY <1>2, <1>3, <1>4, <1>5 DEF RecordsRead
<1> QED BY <1>1, <1>6, <1>7

LEMMA AbiCallReads ==
  ASSUME NEW s \in State, NEW r
  PROVE  CellIn(AbiCallClobbers(s).Cells, r).ReadEntry = CellIn(s.Cells, r).ReadEntry
<1> DEFINE cell(q) == WriteCell(CellIn(s.Cells, q), Bits)
           cells == [q \in DOMAIN s.Cells \cup Clobbered |->
                       IF q \in Clobbered THEN cell(q) ELSE CellIn(s.Cells, q)]
           t == AbiCallClobbers(s)
<1>1. t.Cells = cells
  BY DEF AbiCallClobbers, State
<1>2. cell(r).ReadEntry = CellIn(s.Cells, r).ReadEntry
  BY CellOf DEF WriteCell, CoveredCell, Cell
<1> HIDE DEF cell, t
<1>3. CellIn(cells, r) = IF r \in Clobbered THEN cell(r) ELSE CellIn(s.Cells, r)
  BY DEF CellIn
<1> HIDE DEF cells
<1> QED BY <1>1, <1>2, <1>3 DEF t

LEMMA EffectCallReads ==
  ASSUME NEW s \in State, NEW effect0 \in FunctionEffect, NEW r
  PROVE  LET t == ApplyFunctionEffect(effect0, s)
             old == CellIn(s.Cells, r) IN
         CellIn(t.Cells, r).ReadEntry =
           IF r \in VisibleRegisters
           THEN old.ReadEntry \cup (CellIn(effect0.Registers, r).ReadEntry \cap old.MayEntry)
           ELSE old.ReadEntry
<1> DEFINE cell(q) == ThroughCall(CellIn(s.Cells, q), CellIn(effect0.Registers, q))
           cells == [q \in DOMAIN s.Cells \cup VisibleRegisters |->
                       IF q \in VisibleRegisters THEN cell(q) ELSE CellIn(s.Cells, q)]
           t == ApplyFunctionEffect(effect0, s)
<1>1. t.Cells = cells
  BY DEF ApplyFunctionEffect, State, VisibleRegisters
<1>2. cell(r).ReadEntry = CellIn(s.Cells, r).ReadEntry
        \cup (CellIn(effect0.Registers, r).ReadEntry \cap CellIn(s.Cells, r).MayEntry)
  BY DEF ThroughCall
<1> HIDE DEF cell, t
<1>3. CellIn(cells, r) = IF r \in VisibleRegisters THEN cell(r) ELSE CellIn(s.Cells, r)
  BY DEF CellIn
<1> HIDE DEF cells
<1> QED BY <1>1, <1>2, <1>3 DEF t

LEMMA EndCallReads ==
  ASSUME NEW u \in State, NEW noReturn
  PROVE  EndCall(u, noReturn).Cells = u.Cells
BY DEF EndCall, ConsumeStackArgEvidence, MarkNoReturnExit, State

\* A call reads what its callee reads, where it may be an entry value.
LEMMA CallReads ==
  ASSUME NEW s \in State, NEW c \in Callees
  PROVE  LET t == TransferCall(c, s) IN
         /\ MoreRead(s, t)
         /\ \A r, b : <<r, b>> \in CalleeReads(c) /\ b \in CellIn(s.Cells, r).MayEntry =>
              b \in CellIn(t.Cells, r).ReadEntry
<1> DEFINE t == TransferCall(c, s)
<1> USE DEF Callees, ShapeCallees, SummaryCallees, ExternalCallees
<1>1. CASE c.kind = "shape"
  <2> DEFINE read == ReadInputs(s, c.inputs)
             u == AbiCallClobbers(read)
  <2>1. DOMAIN c.inputs \subseteq Registers
    BY <1>1, SparseFacts
  <2>2. /\ read \in State /\ MoreRead(s, read)
        /\ \A r \in DOMAIN c.inputs : r \notin Ignored => RecordsRead(s, read, r, c.inputs[r])
    BY <2>1, ReadInputsType, ReadInputsReads
  <2>3. t = EndCall(u, c.noReturn)
    BY <1>1 DEF TransferCall, ExternalCallEffect
  <2> HIDE DEF read
  <2>4. u \in State
    BY <2>2, AbiCallClobbersType
  <2>5. \A r : CellIn(u.Cells, r).ReadEntry = CellIn(read.Cells, r).ReadEntry
    BY <2>2, AbiCallReads
  <2> HIDE DEF u, t
  <2>6. t.Cells = u.Cells
    BY <2>3, <2>4, EndCallReads
  <2>7. \A r, b : <<r, b>> \in CalleeReads(c) =>
          r \in DOMAIN c.inputs /\ r \notin Ignored /\ b \in c.inputs[r]
    BY <1>1 DEF CalleeReads
  <2> QED BY <2>2, <2>5, <2>6, <2>7 DEF MoreRead, RecordsRead, t
<1>2. CASE c.kind = "external"
  <2> DEFINE read == IF UnknownReadsAbi THEN ReadInputs(s, AbiInputMasks) ELSE s
             u == AbiCallClobbers(read)
  <2>1. DOMAIN AbiInputMasks \subseteq Registers
    BY RegisterSetsAssumption DEF AbiInputMasks
  <2>2. /\ ReadInputs(s, AbiInputMasks) \in State /\ MoreRead(s, ReadInputs(s, AbiInputMasks))
        /\ \A r \in DOMAIN AbiInputMasks : r \notin Ignored =>
             RecordsRead(s, ReadInputs(s, AbiInputMasks), r, AbiInputMasks[r])
    BY <2>1, ReadInputsType, ReadInputsReads
  <2>3. MoreRead(s, s)
    BY DEF MoreRead
  <2>4. /\ read \in State /\ MoreRead(s, read)
        /\ UnknownReadsAbi => \A r \in DOMAIN AbiInputMasks : r \notin Ignored =>
                                RecordsRead(s, read, r, AbiInputMasks[r])
    <3>1. CASE UnknownReadsAbi
      BY <2>2, <3>1
    <3>2. CASE ~UnknownReadsAbi
      BY <2>3, <3>2
    <3> QED BY <3>1, <3>2
  <2>5. t = EndCall(u, c.noReturn)
    BY <1>2 DEF TransferCall, UnknownExternalCallEffect
  <2> HIDE DEF read
  <2>6. u \in State
    BY <2>4, AbiCallClobbersType
  <2>7. \A r : CellIn(u.Cells, r).ReadEntry = CellIn(read.Cells, r).ReadEntry
    BY <2>4, AbiCallReads
  <2> HIDE DEF u, t
  <2>8. t.Cells = u.Cells
    BY <2>5, <2>6, EndCallReads
  <2>9. \A r, b : <<r, b>> \in CalleeReads(c) =>
          /\ UnknownReadsAbi /\ r \in DOMAIN AbiInputMasks /\ r \notin Ignored
          /\ b \in AbiInputMasks[r]
    BY <1>2 DEF CalleeReads, AbiInputMasks
  <2> QED BY <2>4, <2>7, <2>8, <2>9 DEF MoreRead, RecordsRead, t
<1>3. CASE c.kind = "summary"
  <2> DEFINE u == ApplyFunctionEffect(c.effect, s)
  <2>1. c.effect \in FunctionEffect
    BY <1>3
  <2>2. u \in State
    BY <2>1, ApplyFunctionEffectType
  <2>3. \A r : CellIn(u.Cells, r).ReadEntry =
                 IF r \in VisibleRegisters
                 THEN CellIn(s.Cells, r).ReadEntry
                   \cup (CellIn(c.effect.Registers, r).ReadEntry \cap CellIn(s.Cells, r).MayEntry)
                 ELSE CellIn(s.Cells, r).ReadEntry
    BY <2>1, EffectCallReads
  <2>4. t = EndCall(u, c.effect.NoReturn)
    BY <1>3 DEF TransferCall
  <2> HIDE DEF u, t
  <2>5. t.Cells = u.Cells
    BY <2>2, <2>4, EndCallReads
  <2>6. \A r, b : <<r, b>> \in CalleeReads(c) =>
          r \in VisibleRegisters /\ b \in CellIn(c.effect.Registers, r).ReadEntry
    BY <1>3 DEF CalleeReads, VisibleRegisters
  <2> QED BY <2>3, <2>5, <2>6 DEF MoreRead, t
<1> QED BY <1>1, <1>2, <1>3

LEMMA ReloadReads ==
  ASSUME NEW s \in State, NEW i, NEW adjust
  PROVE  MoreRead(s, TransferReload(i, s, adjust))
<1> DEFINE t == TransferReload(i, s, adjust)
<1>1. t.Cells = s.Cells
  BY ReloadFacts, ZenonT(40)
<1> HIDE DEF t
<1> QED BY <1>1 DEF MoreRead, t

LEMMA TransferReads ==
  ASSUME NEW s \in State, NEW i \in Instructions, NEW adjust
  PROVE  MoreRead(s, TransferInstruction(i, s, adjust))
<1>1. /\ i.op \in {"load", "store", "reload", "spill", "pread", "pwrite", "use", "call"}
      /\ i.op \in {"load", "store", "pread", "pwrite"} => i.reg \in Registers
      /\ i.op = "pwrite" => i.mask \in SUBSET Bits
      /\ i.op = "call" => i.callee \in Callees
  BY DEF Instructions, RegisterLoads, RegisterStores, SlotLoads, SlotStores,
     PartialReads, PartialWrites, OtherUses, AnalysableCalls
<1>2. CASE i.op = "load"
  BY <1>1, <1>2, LoadReads DEF TransferInstruction
<1>3. CASE i.op = "store"
  BY <1>1, <1>3, StoreFacts DEF TransferInstruction
<1>4. CASE i.op = "reload"
  BY <1>4, ReloadReads DEF TransferInstruction
<1>5. CASE i.op = "spill"
  BY <1>5, SpillReads DEF TransferInstruction
<1>6. CASE i.op = "pread"
  BY <1>1, <1>6, PartialReadFacts DEF TransferInstruction
<1>7. CASE i.op = "pwrite"
  BY <1>1, <1>7, PartialWriteFacts DEF TransferInstruction
<1>8. CASE i.op = "use"
  BY <1>8, MarkReadReads DEF TransferInstruction
<1>9. CASE i.op = "call"
  BY <1>1, <1>9, CallReads DEF TransferInstruction
<1> QED BY <1>1, <1>2, <1>3, <1>4, <1>5, <1>6, <1>7, <1>8, <1>9

-----------------------------------------------------------------------------
(* Where the entry values are that were not recorded as read yet: in their   *)
(* own registers, in values with an origin that may be used, or overwritten. *)

\* Where the entry value of a register would have to show as read.
Interesting(r) == r \in Tracked \ (Unaffected \cup {StackPointer})

Seen(s, t) == Interesting(t[1]) => t[2] \in CellIn(s.Cells, t[1]).ReadEntry

\* An entry bit that was written since, or was read, may go anywhere.
Accounted(k, s, t) == t \in k \/ Seen(s, t)

FromOrigin(s, v, t) ==
  v \in DOMAIN s.ValueOrigins /\ t[1] = s.ValueOrigins[v].Base /\ t[2] \in s.ValueOrigins[v].Mask

\* The machine is where the value defined at the position x may be used.
Usable(x) ==
  \/ block = x[1] /\ at > x[2]
  \/ block \in Behind(prog, x[1]) /\ InstructionAt(prog, x).val \in CrossBlockValues(prog)

ContentAccounted(k, s, v, content) ==
  \A b \in Bits :
    content[b] # Other => Accounted(k, s, content[b]) \/ FromOrigin(s, v, content[b])

ValueAccounted(v) == v \in DOMAIN vals /\ ContentAccounted(killed, abs, v, vals[v])

ReadsSeen == \A t \in reads : Seen(abs, t)

RegistersAccounted ==
  \A r \in Registers, b \in Bits :
    regs[r][b] \notin {Other, <<r, b>>} => Accounted(killed, abs, regs[r][b])

SlotsAccounted ==
  \A k \in Slots, b \in Bits : mem[k][b] # Other => Accounted(killed, abs, mem[k][b])

ValuesAccounted ==
  \A x \in Positions(prog) :
    Defines(InstructionAt(prog, x)) /\ Usable(x) => ValueAccounted(InstructionAt(prog, x).val)

OriginsAgree ==
  \A x \in Positions(prog) :
    Defines(InstructionAt(prog, x)) /\ block \in Behind(prog, x[1]) =>
      SameOrigin(out[x[1]], abs, InstructionAt(prog, x).val)

ReadsParts ==
  ReadsSeen /\ RegistersAccounted /\ SlotsAccounted /\ ValuesAccounted /\ OriginsAgree

ValuesDefined ==
  \A v \in DOMAIN vals : \E x \in Positions(prog) :
    Defines(InstructionAt(prog, x)) /\ v = InstructionAt(prog, x).val

\* Where the function left the program, the solver saw it leave.
ExitedRecorded ==
  status = "exited" =>
    /\ ReadsSeen /\ block \in BlocksOf(prog)
    /\ out[block].EndsInNoReturn /\ out[block].Cells = abs.Cells

UnreadAtFirst ==
  status = "idle" => reads = {} /\ \A k \in Slots, b \in Bits : mem[k][b] = Other

ReadsInv ==
  /\ status \in {"running", "returned"} => ReadsParts
  /\ ValuesDefined /\ ExitedRecorded /\ UnreadAtFirst

-----------------------------------------------------------------------------
(* Steps of the machine.                                                     *)

LEMMA AccountedMore ==
  ASSUME NEW k, NEW l, k \subseteq l, NEW s, NEW t, MoreRead(s, t), NEW tag, Accounted(k, s, tag)
  PROVE  Accounted(l, t, tag)
BY DEF Accounted, Seen, MoreRead

\* An entry value that is read where it may still be one is accounted for.
LEMMA RecordedAccounted ==
  ASSUME UnwrittenMayBeEntry(abs), NEW t, NEW reg, NEW mask, RecordsRead(abs, t, reg, mask),
         NEW b \in Bits \cap mask
  PROVE  Accounted(killed, t, <<reg, b>>)
<1> DEFINE tag == <<reg, b>>
<1>1. tag[1] = reg /\ tag[2] = b
  OBVIOUS
<1>2. ASSUME Interesting(reg), tag \notin killed
      PROVE  b \in CellIn(t.Cells, reg).ReadEntry
  <2>1. reg \in Tracked
    BY <1>2 DEF Interesting
  <2> QED BY <1>2, <2>1 DEF RecordsRead, UnwrittenMayBeEntry
<1> HIDE DEF tag
<1> QED BY <1>1, <1>2 DEF Accounted, Seen, tag

\* A value with an origin is read as the register it comes from.
LEMMA OriginRead ==
  ASSUME UnwrittenMayBeEntry(abs), NEW v, NEW t, NEW tag \in Registers \X Bits,
         FromOrigin(abs, v, tag),
         RecordsRead(abs, t, abs.ValueOrigins[v].Base, abs.ValueOrigins[v].Mask)
  PROVE  Accounted(killed, t, tag)
<1> DEFINE base == abs.ValueOrigins[v].Base
           mask == abs.ValueOrigins[v].Mask
<1>1. PICK r \in Registers, b \in Bits : tag = <<r, b>>
  OBVIOUS
<1>2. r = base /\ b \in mask
  BY <1>1 DEF FromOrigin
<1> HIDE DEF base, mask
<1> QED BY <1>1, <1>2, RecordedAccounted DEF base, mask

LEMMA TagType ==
  ASSUME NEW value \in Bitwise, NEW b \in Bits, value[b] # Other
  PROVE  value[b] \in Registers \X Bits
BY DEF Bitwise

\* What counts as read is recorded.
LEMMA ReadRecorded ==
  ASSUME ReadsSeen, MoreRead(abs, abs'), NEW tags, Read(tags),
         \A t \in tags : Accounted(killed, abs', t)
  PROVE  ReadsSeen'
BY DEF ReadsSeen, Read, Accounted, Seen, MoreRead, Interesting, Tracked

LEMMA NothingRead ==
  ASSUME ReadsSeen, MoreRead(abs, abs'), ReadNothing
  PROVE  ReadsSeen'
BY DEF ReadsSeen, ReadNothing, Seen, MoreRead, Interesting, Tracked

\* The machine at an instruction the summary sees the reads of.
AtVisible ==
  AtInstruction /\ ReadsVisible(prog) /\ InstructionVisible(Instr)
    /\ ReadsParts /\ ValuesDefined /\ prog' = prog /\ UNCHANGED out

\* The contents of an operand.
LEMMA OperandAccounted ==
  ASSUME AtVisible, Uses(Instr), NEW b \in Bits, ValueOf(Instr.src, Instr.off)[b] # Other
  PROVE  LET t == ValueOf(Instr.src, Instr.off)[b] IN
         /\ t \in Registers \X Bits /\ ~Instr.off
         /\ Accounted(killed, abs, t) \/ FromOrigin(abs, Instr.src, t)
<1> DEFINE v == Instr.src
           off == Instr.off
           y == <<block, at>>
           t == ValueOf(v, off)[b]
<1>1. v \in DOMAIN vals /\ ~off /\ ValueOf(v, off) = vals[v]
  BY DEF ValueOf, NoValue
<1>2. /\ prog \in Programs /\ block \in BlocksOf(prog) /\ ValuesDefined /\ ValuesAccounted
      /\ ReadsVisible(prog) /\ MachineTypeOK
  BY DEF AtVisible, AtInstruction, ReadsParts
<1>3. PICK x \in Positions(prog) :
        Defines(InstructionAt(prog, x)) /\ v = InstructionAt(prog, x).val
  BY <1>1, <1>2 DEF ValuesDefined
<1>4. y \in Positions(prog) /\ InstructionAt(prog, y) = Instr /\ y[1] = block /\ y[2] = at
  BY InstrType DEF AtVisible
<1> HIDE DEF y, v, off
<1>5. IF x[1] = block THEN x[2] < at ELSE block \in Behind(prog, x[1])
  BY <1>2, <1>3, <1>4 DEF ReadsVisible, v
<1>6. Usable(x)
  <2>1. CASE x[1] = block
    <3>1. x[2] < at
      BY <1>5, <2>1
    <3>2. at > x[2]
      BY <3>1
    <3> QED BY <2>1, <3>2 DEF Usable
  <2>2. CASE x[1] # block
    <3>1. v \in UsedIn(prog, block)
      <4>1. at \in DOMAIN prog.code[block] /\ Instr = prog.code[block][at]
        <5>1. Code \in Seq(Instructions) /\ at \in 1..Len(Code)
          BY ProgramShape DEF AtVisible, AtInstruction, MachineTypeOK, Code
        <5> QED BY <5>1 DEF Code, Instr
      <4> QED BY <4>1 DEF UsedIn, Uses, v
    <3>2. /\ v \in DefinedIn(prog, x[1]) /\ x[1] \in BlocksOf(prog)
          /\ v \notin DefinedIn(prog, block)
      BY <1>2, <1>3, <2>2, PositionFacts
    <3>3. v \in CrossBlockValues(prog)
      BY <1>2, <3>1, <3>2 DEF CrossBlockValues
    <3> QED BY <1>3, <1>5, <2>2, <3>3 DEF Usable
  <2> QED BY <2>1, <2>2
<1>7. ValueAccounted(v)
  BY <1>2, <1>3, <1>6 DEF ValuesAccounted
<1>8. t = vals[v][b] /\ t # Other
  BY <1>1 DEF v, off
<1>9. t \in Registers \X Bits
  <2>1. vals[v] \in Bitwise
    BY <1>1, <1>2, SparseFacts DEF MachineTypeOK
  <2> QED BY <1>8, <2>1, TagType
<1> HIDE DEF t
<1>10. Accounted(killed, abs, t) \/ FromOrigin(abs, v, t)
  BY <1>7, <1>8 DEF ValueAccounted, ContentAccounted
<1> QED BY <1>1, <1>9, <1>10 DEF t, v, off

\* What an instruction does to the SSA values.
ValueStep ==
  IF Defines(Instr)
  THEN /\ DOMAIN vals' = DOMAIN vals \cup {Instr.val}
       /\ ContentAccounted(killed', abs', Instr.val, vals'[Instr.val])
       /\ \A v \in DOMAIN vals \ {Instr.val} : vals'[v] = vals[v]
  ELSE vals' = vals

\* Values defined before keep their content and their origin.
LEMMA ValuesStep ==
  ASSUME AtVisible, MoreRead(abs, abs'), killed \subseteq killed', ValueStep,
         block' = block, at' = at + 1, abs' = TransferInstruction(Instr, abs, prog.adjust)
  PROVE  ValuesAccounted' /\ OriginsAgree' /\ ValuesDefined'
<1> DEFINE here == <<block, at>>
           val(x) == InstructionAt(prog, x).val
<1>1. /\ prog \in Programs /\ prog' = prog /\ out' = out /\ abs \in State
      /\ block \in BlocksOf(prog) /\ at \in Nat
      /\ ValuesAccounted /\ OriginsAgree /\ ValuesDefined
  BY DEF AtVisible, AtInstruction, MachineTypeOK, ReadsParts
<1>2. /\ here \in Positions(prog) /\ InstructionAt(prog, here) = Instr
      /\ here[1] = block /\ here[2] = at /\ Instr \in Instructions
  BY InstrType DEF AtVisible
<1>3. ASSUME NEW x \in Positions(prog), Defines(InstructionAt(prog, x)), x # here
      PROVE  /\ Defines(Instr) => val(x) # Instr.val
             /\ SameOrigin(abs, abs', val(x))
  <2>1. Defines(Instr) => val(x) # Instr.val
    <3> HIDE DEF here
    <3> QED BY <1>1, <1>2, <1>3, LiftedAssumption DEF IsLifted
  <2> HIDE DEF val
  <2>2. SameOrigin(abs, abs', val(x))
    BY <1>1, <1>2, <2>1, InstructionOrigins
  <2> QED BY <2>1, <2>2
<1>4. ASSUME NEW x \in Positions(prog)
      PROVE  x = <<x[1], x[2]>> /\ x[2] \in Nat
  <2>1. PICK b \in BlocksOf(prog) : \E n \in DOMAIN prog.code[b] : x = <<b, n>>
    BY DEF Positions
  <2>2. PICK n \in DOMAIN prog.code[b] : x = <<b, n>>
    BY <2>1
  <2>3. prog.code[b] \in Seq(Instructions)
    BY <1>1, ProgramShape
  <2>4. n \in Nat
    BY <2>3
  <2> QED BY <2>2, <2>4
<1>5. ValuesAccounted'
  <2> SUFFICES ASSUME NEW x \in Positions(prog), Defines(InstructionAt(prog, x)), Usable(x)',
                      NEW w, w = val(x)
               PROVE  ValueAccounted(w)'
    BY <1>1 DEF ValuesAccounted, ValueAccounted
  <2>1. CASE x = here
    <3>1. w = Instr.val /\ Defines(Instr)
      <4> HIDE DEF here
      <4> QED BY <1>2, <2>1
    <3> QED BY <3>1 DEF ValueStep, ValueAccounted
  <2>2. CASE x # here
    <3>1. Usable(x)
      <4>1. x[1] = block /\ at' > x[2] => at > x[2]
        <5>1. x[1] = block => x[2] # at
          BY <1>4, <2>2
        <5> QED BY <1>1, <1>4, <5>1
      <4> QED BY <1>1, <4>1 DEF Usable
    <3>2. ValueAccounted(w)
      BY <1>1, <2>2, <3>1 DEF ValuesAccounted
    <3>3. (Defines(Instr) => w # Instr.val) /\ SameOrigin(abs, abs', w)
      BY <1>3, <2>2
    <3> HIDE DEF val
    <3>4. w \in DOMAIN vals' /\ vals'[w] = vals[w]
      BY <3>2, <3>3 DEF ValueStep, ValueAccounted
    <3>5. ASSUME NEW b \in Bits, vals[w][b] # Other
          PROVE  \/ Accounted(killed', abs', vals[w][b])
                 \/ FromOrigin(abs', w, vals[w][b])
      <4>1. \/ Accounted(killed, abs, vals[w][b])
            \/ FromOrigin(abs, w, vals[w][b])
        BY <3>2, <3>5 DEF ValueAccounted, ContentAccounted
      <4>2. Accounted(killed, abs, vals[w][b]) => Accounted(killed', abs', vals[w][b])
        BY AccountedMore
      <4> QED BY <3>3, <4>1, <4>2 DEF FromOrigin, SameOrigin
    <3> QED BY <3>4, <3>5 DEF ValueAccounted, ContentAccounted
  <2> QED BY <2>1, <2>2
<1>6. OriginsAgree'
  <2> SUFFICES ASSUME NEW x \in Positions(prog), Defines(InstructionAt(prog, x)),
                      block \in Behind(prog, x[1])
               PROVE  SameOrigin(out[x[1]], abs', val(x))
    BY <1>1 DEF OriginsAgree, SameOrigin
  <2>1. x # here
    BY <1>2, BehindFacts
  <2>2. SameOrigin(abs, abs', val(x)) /\ SameOrigin(out[x[1]], abs, val(x))
    BY <1>1, <1>3, <2>1 DEF OriginsAgree
  <2> HIDE DEF val
  <2> QED BY <2>2 DEF SameOrigin
<1>7. ValuesDefined'
  <2> HIDE DEF here
  <2> QED BY <1>1, <1>2 DEF ValuesDefined, ValueStep
<1> QED BY <1>5, <1>6, <1>7

\* The registers and the slots keep what they hold.
LEMMA StoreKept ==
  ASSUME RegistersAccounted, SlotsAccounted, MoreRead(abs, abs'), UNCHANGED <<regs, mem, killed>>
  PROVE  RegistersAccounted' /\ SlotsAccounted'
<1>1. \A tag : Accounted(killed, abs, tag) => Accounted(killed, abs', tag)
  BY AccountedMore
<1> QED BY <1>1 DEF RegistersAccounted, SlotsAccounted, Accounted, Seen, Interesting, Tracked

\* The bits of a register that is read: its own entry value where it may be
\* one, or what was accounted for before.
LEMMA RegisterAccounted ==
  ASSUME RegistersAccounted, UnwrittenMayBeEntry(abs), MoreRead(abs, abs'),
         NEW reg \in Registers, NEW b \in Bits, regs[reg][b] # Other,
         \/ ~Interesting(reg)
         \/ \E mask : b \in mask /\ RecordsRead(abs, abs', reg, mask)
  PROVE  Accounted(killed, abs', regs[reg][b])
<1>1. CASE regs[reg][b] # <<reg, b>>
  <2>1. Accounted(killed, abs, regs[reg][b])
    BY <1>1 DEF RegistersAccounted
  <2> QED BY <2>1, AccountedMore
<1>2. CASE regs[reg][b] = <<reg, b>>
  <2> DEFINE tag == <<reg, b>>
  <2>1. tag[1] = reg
    OBVIOUS
  <2> HIDE DEF tag
  <2>2. ~Interesting(reg) => Accounted(killed, abs', tag)
    BY <2>1 DEF Accounted, Seen
  <2>3. (\E mask : b \in mask /\ RecordsRead(abs, abs', reg, mask)) => Accounted(killed, abs', tag)
    BY RecordedAccounted DEF tag
  <2> QED BY <1>2, <2>2, <2>3 DEF tag
<1> QED BY <1>1, <1>2

LEMMA PutIsStep ==
  ASSUME NEW v, NEW content, Defines(Instr), v = Instr.val, vals' = Put(vals, v, content),
         ContentAccounted(killed', abs', v, content)
  PROVE  ValueStep
<1> DEFINE new == Put(vals, v, content)
<1>1. /\ DOMAIN new = DOMAIN vals \cup {v} /\ new[v] = content
      /\ \A w \in DOMAIN vals \ {v} : new[w] = vals[w]
  BY DEF Put
<1> HIDE DEF new
<1>2. vals' = new
  BY DEF new
<1>3. ContentAccounted(killed', abs', v, vals'[v])
  BY <1>1, <1>2
<1> QED BY <1>1, <1>2, <1>3 DEF ValueStep

StepAccounted ==
  /\ ReadsSeen' /\ RegistersAccounted' /\ SlotsAccounted'
  /\ ValueStep /\ killed \subseteq killed'

LEMMA VisibleFacts ==
  ASSUME AtVisible, NEW op, Instruction(op)
  PROVE  /\ MoreRead(abs, abs') /\ Instr.op = op
         /\ abs' = TransferInstruction(Instr, abs, prog.adjust)
         /\ abs \in State /\ UnwrittenMayBeEntry(abs) /\ InstructionVisible(Instr)
         /\ ReadsSeen /\ RegistersAccounted /\ SlotsAccounted /\ MachineTypeOK
         /\ \A r \in Registers : regs[r] \in Bitwise
         /\ \A k \in Slots : mem[k] \in Bitwise
<1>1. AtInstruction /\ ReadsParts /\ InstructionVisible(Instr)
  BY DEF AtVisible
<1>2. MachineTypeOK /\ abs \in State /\ Instr \in Instructions /\ Describes(abs)
  BY <1>1, InstrType DEF AtInstruction
<1>3. abs' = TransferInstruction(Instr, abs, prog.adjust) /\ Instr.op = op
  BY DEF Instruction
<1>4. MoreRead(abs, abs')
  BY <1>2, <1>3, TransferReads
<1>5. /\ \A r \in Registers : regs[r] \in Bitwise
      /\ \A k \in Slots : mem[k] \in Bitwise
  BY <1>2 DEF MachineTypeOK
<1> QED BY <1>1, <1>2, <1>3, <1>4, <1>5 DEF ReadsParts, Describes

LEMMA LoadAccounted ==
  ASSUME AtVisible, RunLoad
  PROVE  StepAccounted
<1> DEFINE reg == Instr.reg
           val == Instr.val
           content == regs[reg]
           cell == CellIn(abs.Cells, reg)
<1>1. /\ MoreRead(abs, abs') /\ Instr.op = "load" /\ abs \in State
      /\ abs' = TransferInstruction(Instr, abs, prog.adjust)
      /\ UnwrittenMayBeEntry(abs) /\ InstructionVisible(Instr)
      /\ ReadsSeen /\ RegistersAccounted /\ SlotsAccounted
  BY VisibleFacts DEF RunLoad
<1>2. /\ reg \in Registers /\ ~Instr.keep
      /\ vals' = Put(vals, val, content) /\ ReadNothing /\ UNCHANGED <<regs, mem, killed>>
  BY <1>1, InstructionShape DEF AtVisible, RunLoad, InstructionVisible
<1>3. ReadsSeen' /\ RegistersAccounted' /\ SlotsAccounted'
  BY <1>1, <1>2, NothingRead, StoreKept
<1>4. ContentAccounted(killed, abs', val, content)
  <2>1. abs' = TransferLoad(Instr, abs)
    BY <1>1 DEF TransferInstruction
  <2>2. SUFFICES ASSUME NEW b \in Bits, content[b] # Other
                 PROVE  \/ Accounted(killed, abs', content[b])
                        \/ FromOrigin(abs', val, content[b])
    BY DEF ContentAccounted
  <2>3. CASE ~Interesting(reg)
    BY <1>1, <1>2, <2>2, <2>3, RegisterAccounted
  <2>4. CASE Interesting(reg) /\ ~PureEntry(cell)
    <3>1. RecordsRead(abs, abs', reg, Bits)
      BY <1>1, <1>2, <2>1, <2>4, LoadReads DEF Interesting, Tracked
    <3> QED BY <1>1, <1>2, <2>2, <3>1, RegisterAccounted
  <2>5. CASE Interesting(reg) /\ PureEntry(cell)
    <3> DEFINE origin == [Base |-> reg, Mask |-> Bits]
    <3>1. reg # StackPointer
      BY <2>5 DEF Interesting
    <3>2. abs'.ValueOrigins = Put(abs.ValueOrigins, val, origin)
      BY <1>1, <1>2, <2>1, <2>5, <3>1, LoadFacts
    <3>3. origin.Base = reg /\ origin.Mask = Bits
      OBVIOUS
    <3> HIDE DEF origin
    <3>4. val \in DOMAIN abs'.ValueOrigins /\ abs'.ValueOrigins[val] = origin
      BY <3>2 DEF Put
    <3>5. CASE content[b] = <<reg, b>>
      BY <3>3, <3>4, <3>5 DEF FromOrigin
    <3>6. CASE content[b] # <<reg, b>>
      <4>1. Accounted(killed, abs, content[b])
        BY <1>1, <1>2, <2>2, <3>6 DEF RegistersAccounted
      <4> QED BY <1>1, <4>1, AccountedMore
    <3> QED BY <3>5, <3>6
  <2> QED BY <2>3, <2>4, <2>5
<1>5. ValueStep
  <2>1. Defines(Instr) /\ killed' = killed
    BY <1>1, <1>2 DEF Defines
  <2>2. ContentAccounted(killed', abs', val, content)
    BY <1>4, <2>1
  <2> HIDE DEF content
  <2> QED BY <1>2, <2>1, <2>2, PutIsStep
<1> QED BY <1>2, <1>3, <1>5 DEF StepAccounted

LEMMA PartialReadAccounted ==
  ASSUME AtVisible, RunPartialRead
  PROVE  StepAccounted
<1> DEFINE reg == Instr.reg
           val == Instr.val
           content == [b \in Bits |-> IF b \in Instr.mask THEN regs[reg][b] ELSE Other]
<1>1. /\ MoreRead(abs, abs') /\ Instr.op = "pread" /\ abs \in State
      /\ abs' = TransferInstruction(Instr, abs, prog.adjust)
      /\ UnwrittenMayBeEntry(abs) /\ InstructionVisible(Instr)
      /\ ReadsSeen /\ RegistersAccounted /\ SlotsAccounted
  BY VisibleFacts DEF RunPartialRead
<1>2. /\ reg \in Registers /\ ~Instr.dead
      /\ vals' = Put(vals, val, content) /\ Read(EntryBitsIn(content))
      /\ UNCHANGED <<regs, mem, killed>>
  BY <1>1, InstructionShape DEF AtVisible, RunPartialRead, InstructionVisible
<1>3. ASSUME NEW b \in Bits, content[b] # Other
      PROVE  Accounted(killed, abs', content[b])
  <2>1. abs' = TransferPartialRead(Instr, abs)
    BY <1>1 DEF TransferInstruction
  <2>2. content[b] = regs[reg][b] /\ b \in Instr.mask
    BY <1>3
  <2>3. Interesting(reg) => RecordsRead(abs, abs', reg, Instr.mask)
    BY <1>1, <1>2, <2>1, PartialReadFacts DEF Interesting, Tracked
  <2> HIDE DEF content
  <2> QED BY <1>1, <1>2, <1>3, <2>2, <2>3, RegisterAccounted
<1> HIDE DEF content
<1>4. ReadsSeen'
  <2>1. \A t \in EntryBitsIn(content) : Accounted(killed, abs', t)
    BY <1>3 DEF EntryBitsIn
  <2> QED BY <1>1, <1>2, <2>1, ReadRecorded
<1>5. RegistersAccounted' /\ SlotsAccounted'
  BY <1>1, <1>2, StoreKept
<1>6. ValueStep
  <2>1. Defines(Instr) /\ killed' = killed
    BY <1>1, <1>2 DEF Defines
  <2>2. ContentAccounted(killed', abs', val, content)
    BY <1>3, <2>1 DEF ContentAccounted
  <2> QED BY <1>2, <2>1, <2>2, PutIsStep
<1> QED BY <1>2, <1>4, <1>5, <1>6 DEF StepAccounted

LEMMA ReloadAccounted ==
  ASSUME AtVisible, RunReload
  PROVE  StepAccounted
<1> DEFINE val == Instr.val
           content == mem[Instr.slot]
<1>1. /\ MoreRead(abs, abs') /\ Instr.op = "reload"
      /\ ReadsSeen /\ RegistersAccounted /\ SlotsAccounted
  BY VisibleFacts DEF RunReload
<1>2. /\ Instr.slot \in Slots
      /\ vals' = Put(vals, val, content) /\ ReadNothing /\ UNCHANGED <<regs, mem, killed>>
  BY <1>1, InstructionShape DEF AtVisible, RunReload
<1>3. ReadsSeen' /\ RegistersAccounted' /\ SlotsAccounted'
  BY <1>1, <1>2, NothingRead, StoreKept
<1>4. ASSUME NEW b \in Bits, content[b] # Other
      PROVE  Accounted(killed, abs', content[b])
  <2>1. Accounted(killed, abs, content[b])
    BY <1>1, <1>2, <1>4 DEF SlotsAccounted
  <2> QED BY <1>1, <2>1, AccountedMore
<1>5. ValueStep
  <2>1. Defines(Instr) /\ killed' = killed
    BY <1>1, <1>2 DEF Defines
  <2>2. ContentAccounted(killed', abs', val, content)
    BY <1>4, <2>1 DEF ContentAccounted
  <2> HIDE DEF content
  <2> QED BY <1>2, <2>1, <2>2, PutIsStep
<1> QED BY <1>2, <1>3, <1>5 DEF StepAccounted

LEMMA UseAccounted ==
  ASSUME AtVisible, RunUse
  PROVE  StepAccounted
<1> DEFINE value == ValueOf(Instr.src, Instr.off)
<1>1. /\ MoreRead(abs, abs') /\ Instr.op = "use" /\ abs \in State
      /\ abs' = TransferInstruction(Instr, abs, prog.adjust)
      /\ UnwrittenMayBeEntry(abs)
      /\ ReadsSeen /\ RegistersAccounted /\ SlotsAccounted
  BY VisibleFacts DEF RunUse
<1>2. Read(EntryBitsIn(value)) /\ UNCHANGED <<regs, vals, mem, killed>>
  BY DEF RunUse
<1>3. ASSUME NEW b \in Bits, value[b] # Other
      PROVE  Accounted(killed, abs', value[b])
  <2>1. abs' = MarkEntryValueRead(abs, Instr.src, Instr.off)
    BY <1>1 DEF TransferInstruction
  <2>2. /\ value[b] \in Registers \X Bits /\ ~Instr.off
        /\ Accounted(killed, abs, value[b]) \/ FromOrigin(abs, Instr.src, value[b])
    BY <1>1, <1>3, OperandAccounted DEF Uses
  <2> HIDE DEF value
  <2>3. CASE Accounted(killed, abs, value[b])
    BY <1>1, <2>3, AccountedMore
  <2>4. CASE FromOrigin(abs, Instr.src, value[b])
    <3>1. HasEntryOrigin(abs, Instr.src)
      BY <2>4 DEF FromOrigin, HasEntryOrigin
    <3>2. RecordsRead(abs, abs', abs.ValueOrigins[Instr.src].Base, abs.ValueOrigins[Instr.src].Mask)
      BY <1>1, <2>1, <2>2, <3>1, MarkReadReads
    <3> QED BY <1>1, <2>2, <2>4, <3>2, OriginRead
  <2> QED BY <2>2, <2>3, <2>4
<1> HIDE DEF value
<1>4. ReadsSeen'
  <2>1. \A t \in EntryBitsIn(value) : Accounted(killed, abs', t)
    BY <1>3 DEF EntryBitsIn
  <2> QED BY <1>1, <1>2, <2>1, ReadRecorded
<1>5. RegistersAccounted' /\ SlotsAccounted'
  BY <1>1, <1>2, StoreKept
<1>6. ValueStep
  BY <1>1, <1>2 DEF ValueStep, Defines
<1> QED BY <1>2, <1>4, <1>5, <1>6 DEF StepAccounted

\* A register that is given new bits.
LEMMA BitsAccounted ==
  ASSUME MachineTypeOK, RegistersAccounted, MoreRead(abs, abs'),
         NEW reg \in Registers, NEW mask, NEW value, NEW who, SetBits(reg, mask, value, who),
         \A b \in Bits : value[b] # Other => Accounted(killed', abs', value[b])
  PROVE  RegistersAccounted' /\ killed \subseteq killed'
<1> DEFINE new == [b \in Bits |-> IF b \in mask THEN value[b] ELSE regs[reg][b]]
<1>1. /\ killed' = killed \cup ({reg} \X mask) /\ regs' = [regs EXCEPT ![reg] = new]
      /\ DOMAIN regs = Registers
  BY DEF SetBits, MachineTypeOK
<1>2. ASSUME NEW r \in Registers, NEW b \in Bits, regs'[r][b] \notin {Other, <<r, b>>}
      PROVE  Accounted(killed', abs', regs'[r][b])
  <2>1. \/ regs'[r][b] = regs[r][b]
        \/ regs'[r][b] = value[b]
    BY <1>1
  <2>2. CASE regs'[r][b] = regs[r][b]
    <3>1. Accounted(killed, abs, regs[r][b])
      BY <1>2, <2>2 DEF RegistersAccounted
    <3> QED BY <1>1, <2>2, <3>1, AccountedMore
  <2>3. CASE regs'[r][b] = value[b]
    BY <1>2, <2>3
  <2> QED BY <2>1, <2>2, <2>3
<1> QED BY <1>1, <1>2 DEF RegistersAccounted, Accounted, Seen, Interesting, Tracked

LEMMA SlotsKept ==
  ASSUME SlotsAccounted, MoreRead(abs, abs'), killed \subseteq killed', UNCHANGED mem
  PROVE  SlotsAccounted'
<1>1. \A tag : Accounted(killed, abs, tag) => Accounted(killed', abs', tag)
  BY AccountedMore
<1> QED BY <1>1 DEF SlotsAccounted, Accounted, Seen, Interesting, Tracked

LEMMA ReadIsNotUnread ==
  ASSUME MachineTypeOK, InstructionVisible(Instr), Instr.op \in {"store", "pwrite"}, NEW b \in Bits,
         ValueOf(Instr.src, Instr.off)[b] # Other
  PROVE  Instr.reg \notin Ignored
<1>1. Instr.src \in DOMAIN vals /\ ~Instr.off
  BY DEF ValueOf, NoValue
<1>2. DOMAIN vals \subseteq Values
  BY SparseFacts DEF MachineTypeOK
<1> QED BY <1>1, <1>2 DEF InstructionVisible, Unread

\* A register's own entry value is no read when it is stored back.
LEMMA StoreAccounted ==
  ASSUME AtVisible, RunStore
  PROVE  StepAccounted
<1> DEFINE reg == Instr.reg
           src == Instr.src
           value == ValueOf(src, Instr.off)
           who == IF Instr.float THEN "float" ELSE "local"
           tags == EntryBitsIn(value) \ EntryBitsIn(EntryValue(reg))
<1>1. /\ MoreRead(abs, abs') /\ Instr.op = "store" /\ abs \in State
      /\ abs' = TransferInstruction(Instr, abs, prog.adjust)
      /\ UnwrittenMayBeEntry(abs) /\ InstructionVisible(Instr) /\ MachineTypeOK
      /\ ReadsSeen /\ RegistersAccounted /\ SlotsAccounted
  BY VisibleFacts DEF RunStore
<1>2. /\ reg \in Registers /\ ~Instr.keep /\ (reg \notin Ignored \/ Unread(Instr))
      /\ SetBits(reg, Bits, value, who) /\ Read(tags) /\ UNCHANGED <<vals, mem>>
  BY <1>1, InstructionShape DEF AtVisible, RunStore, InstructionVisible
<1>3. abs' = TransferStore(Instr, abs)
  BY <1>1 DEF TransferInstruction
<1>4. killed' = killed \cup ({reg} \X Bits)
  BY <1>2 DEF SetBits
<1>5. ASSUME NEW b \in Bits, value[b] # Other
      PROVE  /\ value[b] \in Registers \X Bits
             /\ value[b][1] # reg => Accounted(killed, abs', value[b])
  <2>1. /\ value[b] \in Registers \X Bits /\ ~Instr.off
        /\ Accounted(killed, abs, value[b]) \/ FromOrigin(abs, src, value[b])
    BY <1>1, <1>5, OperandAccounted DEF Uses
  <2>4. reg \notin Ignored
    BY <1>1, <1>2, <1>5, ReadIsNotUnread
  <2> HIDE DEF value
  <2>2. CASE Accounted(killed, abs, value[b])
    BY <1>1, <2>1, <2>2, AccountedMore
  <2>3. CASE FromOrigin(abs, src, value[b]) /\ value[b][1] # reg
    <3>1. HasEntryOrigin(abs, src) /\ abs.ValueOrigins[src].Base # reg
      BY <2>3 DEF FromOrigin, HasEntryOrigin
    <3>2. RecordsRead(abs, abs', abs.ValueOrigins[src].Base, abs.ValueOrigins[src].Mask)
      BY <1>1, <1>2, <1>3, <2>1, <2>4, <3>1, StoreFacts
    <3> QED BY <1>1, <2>1, <2>3, <3>2, OriginRead
  <2> QED BY <2>1, <2>2, <2>3
<1>6. ASSUME NEW b \in Bits, value[b] # Other
      PROVE  Accounted(killed', abs', value[b])
  <2>1. value[b][1] = reg => value[b] \in killed'
    <3>1. value[b] \in Registers \X Bits
      BY <1>5, <1>6
    <3> HIDE DEF value
    <3> QED BY <1>4, <3>1
  <2>2. value[b][1] # reg => Accounted(killed, abs', value[b])
    BY <1>5, <1>6
  <2> HIDE DEF value
  <2> QED BY <1>4, <2>1, <2>2 DEF Accounted
<1>7. \A t \in tags : Accounted(killed, abs', t)
  <2> SUFFICES ASSUME NEW t \in tags PROVE Accounted(killed, abs', t)
    OBVIOUS
  <2>1. PICK b \in Bits : t = value[b] /\ t # Other
    BY DEF EntryBitsIn
  <2>2. t \in Registers \X Bits
    BY <1>5, <2>1
  <2>3. t[1] # reg
    <3> SUFFICES ASSUME t[1] = reg PROVE FALSE
      OBVIOUS
    <3>1. PICK c \in Bits : t = <<reg, c>>
      BY <2>2
    <3>2. EntryValue(reg)[c] = t
      BY <3>1 DEF EntryValue
    <3>3. t \in EntryBitsIn(EntryValue(reg))
      BY <2>1, <3>2 DEF EntryBitsIn
    <3> QED BY <3>3
  <2> HIDE DEF value, tags
  <2> QED BY <1>5, <2>1, <2>3
<1> HIDE DEF value, tags, who
<1>8. ReadsSeen'
  BY <1>1, <1>2, <1>7, ReadRecorded
<1>9. RegistersAccounted' /\ killed \subseteq killed'
  BY <1>1, <1>2, <1>6, BitsAccounted
<1>10. SlotsAccounted'
  BY <1>1, <1>2, <1>9, SlotsKept
<1>11. ValueStep
  BY <1>1, <1>2 DEF ValueStep, Defines
<1> QED BY <1>8, <1>9, <1>10, <1>11 DEF StepAccounted

LEMMA PartialWriteAccounted ==
  ASSUME AtVisible, RunPartialWrite
  PROVE  StepAccounted
<1> DEFINE reg == Instr.reg
           src == Instr.src
           value == ValueOf(src, Instr.off)
           who == IF Instr.float THEN "float" ELSE "local"
           mask == IF Instr.low32 THEN Bits ELSE Instr.mask
<1>1. /\ MoreRead(abs, abs') /\ Instr.op = "pwrite" /\ abs \in State
      /\ abs' = TransferInstruction(Instr, abs, prog.adjust)
      /\ UnwrittenMayBeEntry(abs) /\ InstructionVisible(Instr) /\ MachineTypeOK
      /\ ReadsSeen /\ RegistersAccounted /\ SlotsAccounted
  BY VisibleFacts DEF RunPartialWrite
<1>2. /\ reg \in Registers /\ (reg \notin Ignored \/ Unread(Instr)) /\ Instr.mask \in SUBSET Bits
      /\ SetBits(reg, mask, value, who) /\ Read(EntryBitsIn(value)) /\ UNCHANGED <<vals, mem>>
  BY <1>1, InstructionShape DEF AtVisible, RunPartialWrite, InstructionVisible
<1>3. abs' = TransferPartialWrite(Instr, abs)
  BY <1>1 DEF TransferInstruction
<1>4. killed \subseteq killed'
  BY <1>2 DEF SetBits
<1>5. ASSUME NEW b \in Bits, value[b] # Other
      PROVE  Accounted(killed, abs', value[b])
  <2>1. /\ value[b] \in Registers \X Bits /\ ~Instr.off
        /\ Accounted(killed, abs, value[b]) \/ FromOrigin(abs, src, value[b])
    BY <1>1, <1>5, OperandAccounted DEF Uses
  <2>4. reg \notin Ignored
    BY <1>1, <1>2, <1>5, ReadIsNotUnread
  <2> HIDE DEF value
  <2>2. CASE Accounted(killed, abs, value[b])
    BY <1>1, <2>2, AccountedMore
  <2>3. CASE FromOrigin(abs, src, value[b])
    <3>1. HasEntryOrigin(abs, src)
      BY <2>3 DEF FromOrigin, HasEntryOrigin
    <3>2. RecordsRead(abs, abs', abs.ValueOrigins[src].Base, abs.ValueOrigins[src].Mask)
      BY <1>1, <1>2, <1>3, <2>1, <2>4, <3>1, PartialWriteFacts
    <3> QED BY <1>1, <2>1, <2>3, <3>2, OriginRead
  <2> QED BY <2>1, <2>2, <2>3
<1> HIDE DEF value, mask, who
<1>6. ReadsSeen'
  <2>1. \A t \in EntryBitsIn(value) : Accounted(killed, abs', t)
    BY <1>5 DEF EntryBitsIn
  <2> QED BY <1>1, <1>2, <2>1, ReadRecorded
<1>7. RegistersAccounted'
  <2>1. \A b \in Bits : value[b] # Other => Accounted(killed', abs', value[b])
    BY <1>4, <1>5 DEF Accounted
  <2> QED BY <1>1, <1>2, <2>1, BitsAccounted
<1>8. SlotsAccounted'
  BY <1>1, <1>2, <1>4, SlotsKept
<1>9. ValueStep
  BY <1>1, <1>2 DEF ValueStep, Defines
<1> QED BY <1>4, <1>6, <1>7, <1>8, <1>9 DEF StepAccounted

\* What is parked in a slot is no read when it is a callee-saved register.
LEMMA SpillAccounted ==
  ASSUME AtVisible, RunSpill
  PROVE  StepAccounted
<1> DEFINE slot == Instr.slot
           src == Instr.src
           adjusts == slot \in prog.adjust
           value == IF adjusts THEN NoValue ELSE ValueOf(src, Instr.off)
           tags == {t \in EntryBitsIn(value) : ~CanTrackSaved(t[1])}
<1>1. /\ MoreRead(abs, abs') /\ Instr.op = "spill" /\ abs \in State
      /\ abs' = TransferInstruction(Instr, abs, prog.adjust)
      /\ UnwrittenMayBeEntry(abs) /\ MachineTypeOK
      /\ ReadsSeen /\ RegistersAccounted /\ SlotsAccounted
  BY VisibleFacts DEF RunSpill
<1>2. /\ slot \in Slots /\ mem' = [mem EXCEPT ![slot] = value] /\ Read(tags)
      /\ UNCHANGED <<regs, vals, killed>>
  BY <1>1, InstructionShape DEF AtVisible, RunSpill
<1>3. abs' = TransferSpill(Instr, abs, prog.adjust)
  BY <1>1 DEF TransferInstruction
<1>4. ASSUME NEW b \in Bits, value[b] # Other
      PROVE  Accounted(killed, abs', value[b])
  <2>1. ~adjusts /\ value = ValueOf(src, Instr.off)
    BY <1>4 DEF NoValue
  <2>2. /\ value[b] \in Registers \X Bits /\ ~Instr.off
        /\ Accounted(killed, abs, value[b]) \/ FromOrigin(abs, src, value[b])
    BY <1>1, <1>4, <2>1, OperandAccounted DEF Uses
  <2> HIDE DEF value
  <2>3. CASE Accounted(killed, abs, value[b])
    BY <1>1, <2>3, AccountedMore
  <2>4. CASE FromOrigin(abs, src, value[b]) /\ ~Saves(abs, Instr, prog.adjust)
    <3>1. HasEntryOrigin(abs, src)
      BY <2>4 DEF FromOrigin, HasEntryOrigin
    <3>2. RecordsRead(abs, abs', abs.ValueOrigins[src].Base, abs.ValueOrigins[src].Mask)
      BY <1>1, <1>3, <2>1, <2>2, <2>4, <3>1, SpillReads
    <3> QED BY <1>1, <2>2, <2>4, <3>2, OriginRead
  <2>5. CASE FromOrigin(abs, src, value[b]) /\ Saves(abs, Instr, prog.adjust)
    <3>1. ~Interesting(value[b][1])
      BY <2>5 DEF FromOrigin, Saves, CanTrackSaved, Interesting
    <3> QED BY <3>1 DEF Accounted, Seen
  <2> QED BY <2>2, <2>3, <2>4, <2>5
<1> HIDE DEF value
<1>5. ReadsSeen'
  <2>1. \A t \in tags : Accounted(killed, abs', t)
    BY <1>4 DEF EntryBitsIn
  <2> HIDE DEF tags
  <2> QED BY <1>1, <1>2, <2>1, ReadRecorded
<1>6. SlotsAccounted'
  <2>1. DOMAIN mem = Slots
    BY <1>1 DEF MachineTypeOK
  <2>2. ASSUME NEW k \in Slots, NEW b \in Bits, mem'[k][b] # Other
        PROVE  Accounted(killed, abs', mem'[k][b])
    <3>1. CASE k = slot
      BY <1>2, <1>4, <2>1, <2>2, <3>1
    <3>2. CASE k # slot
      <4>1. mem'[k] = mem[k]
        BY <1>2, <2>1, <3>2
      <4>2. Accounted(killed, abs, mem[k][b])
        BY <1>1, <2>2, <4>1 DEF SlotsAccounted
      <4> QED BY <1>1, <4>1, <4>2, AccountedMore
    <3> QED BY <3>1, <3>2
  <2> QED BY <1>2, <2>2 DEF SlotsAccounted, Accounted, Seen, Interesting, Tracked
<1>7. RegistersAccounted'
  <2>1. \A tag : Accounted(killed, abs, tag) => Accounted(killed, abs', tag)
    BY <1>1, AccountedMore
  <2> QED BY <1>1, <1>2, <2>1 DEF RegistersAccounted, Accounted, Seen, Interesting, Tracked
<1>8. ValueStep
  BY <1>1, <1>2 DEF ValueStep, Defines
<1> QED BY <1>2, <1>5, <1>6, <1>7, <1>8 DEF StepAccounted

LEMMA CalleeReadsType ==
  ASSUME NEW c \in Callees
  PROVE  CalleeReads(c) \subseteq Registers \X Bits
<1> USE DEF Callees, ShapeCallees, SummaryCallees, ExternalCallees
<1>1. CASE c.kind = "shape"
  <2>1. DOMAIN c.inputs \subseteq Registers /\ \A r \in DOMAIN c.inputs : c.inputs[r] \in SUBSET Bits
    BY <1>1, SparseFacts
  <2> QED BY <1>1, <2>1 DEF CalleeReads
<1>2. CASE c.kind = "summary"
  <2>1. c.effect.Registers \in Sparse(Registers, CoveredCell)
    BY <1>2 DEF FunctionEffect
  <2>2. \A r : CellIn(c.effect.Registers, r).ReadEntry \subseteq Bits
    BY <2>1, CellInCovered DEF CoveredCell, Cell
  <2> QED BY <1>2, <2>2 DEF CalleeReads
<1>3. CASE c.kind = "external"
  BY <1>3, RegisterSetsAssumption DEF CalleeReads
<1> QED BY <1>1, <1>2, <1>3

LEMMA CallAccounted ==
  ASSUME AtVisible, RunCall
  PROVE  StepAccounted
<1> DEFINE c == Instr.callee
           tags == {regs[t[1]][t[2]] : t \in CalleeReads(c)} \ {Other}
<1>1. /\ MoreRead(abs, abs') /\ Instr.op = "call" /\ abs \in State
      /\ abs' = TransferInstruction(Instr, abs, prog.adjust)
      /\ UnwrittenMayBeEntry(abs) /\ MachineTypeOK
      /\ ReadsSeen /\ RegistersAccounted /\ SlotsAccounted
  BY VisibleFacts DEF RunCall
<1>2. c \in Callees /\ CalleeReads(c) \subseteq Registers \X Bits
  BY <1>1, InstructionShape, CalleeReadsType DEF AtVisible
<1>3. abs' = TransferCall(c, abs)
  BY <1>1 DEF TransferInstruction
<1>4. PICK written :
        /\ regs' = [r \in Registers |-> [b \in Bits |->
                      IF <<r, b>> \in written THEN Other ELSE regs[r][b]]]
        /\ killed' = killed \cup written
  BY DEF RunCall
<1>5. Read(tags) /\ UNCHANGED <<vals, mem>>
  BY DEF RunCall
<1>6. \A t \in tags : Accounted(killed, abs', t)
  <2> SUFFICES ASSUME NEW r \in Registers, NEW b \in Bits, <<r, b>> \in CalleeReads(c),
                      regs[r][b] # Other
               PROVE  Accounted(killed, abs', regs[r][b])
    BY <1>2
  <2>1. b \in CellIn(abs.Cells, r).MayEntry => b \in CellIn(abs'.Cells, r).ReadEntry
    BY <1>1, <1>2, <1>3, CallReads
  <2>2. RecordsRead(abs, abs', r, {b})
    BY <2>1 DEF RecordsRead
  <2> HIDE DEF c
  <2> QED BY <1>1, <2>2, RegisterAccounted
<1> HIDE DEF tags
<1>7. ReadsSeen'
  BY <1>1, <1>5, <1>6, ReadRecorded
<1>8. RegistersAccounted'
  <2>1. ASSUME NEW r \in Registers, NEW b \in Bits, regs'[r][b] \notin {Other, <<r, b>>}
        PROVE  Accounted(killed', abs', regs'[r][b])
    <3>1. regs'[r][b] = regs[r][b]
      BY <1>4, <2>1
    <3>2. Accounted(killed, abs, regs[r][b])
      BY <1>1, <2>1, <3>1 DEF RegistersAccounted
    <3> QED BY <1>1, <1>4, <3>1, <3>2, AccountedMore
  <2> QED BY <2>1 DEF RegistersAccounted, Accounted, Seen, Interesting, Tracked
<1>9. SlotsAccounted'
  BY <1>1, <1>4, <1>5, SlotsKept
<1>10. ValueStep
  BY <1>1, <1>5 DEF ValueStep, Defines
<1> QED BY <1>4, <1>7, <1>8, <1>9, <1>10 DEF StepAccounted

LEMMA PruneKeeps ==
  ASSUME NEW p, NEW b, NEW s \in State
  PROVE  /\ PruneBlockLocal(p, b, s).Cells = s.Cells
         /\ PruneBlockLocal(p, b, s).EndsInNoReturn = s.EndsInNoReturn
<1> DEFINE kept == DOMAIN s.ValueOrigins \ (DefinedIn(p, b) \ CrossBlockValues(p))
           origins == [v \in kept |-> s.ValueOrigins[v]]
           t == [s EXCEPT !.ValueOrigins = origins]
<1>1. PruneBlockLocal(p, b, s) = t
  BY DEF PruneBlockLocal
<1> HIDE DEF origins
<1>2. t.Cells = s.Cells /\ t.EndsInNoReturn = s.EndsInNoReturn
  BY DEF State
<1> QED BY <1>1, <1>2

LEMMA NoReturnEnds ==
  ASSUME NEW s \in State, NEW c \in Callees, NeverReturns(c)
  PROVE  LET t == TransferCall(c, s) IN ~t.Reachable /\ t.EndsInNoReturn
<1> USE DEF Callees, ShapeCallees, SummaryCallees, ExternalCallees
<1>1. ASSUME NEW u \in State
      PROVE  ~EndCall(u, TRUE).Reachable /\ EndCall(u, TRUE).EndsInNoReturn
  BY DEF EndCall, MarkNoReturnExit, ConsumeStackArgEvidence, State
<1>2. CASE c.kind = "shape"
  <2> DEFINE u == AbiCallClobbers(ReadInputs(s, c.inputs))
  <2>1. DOMAIN c.inputs \subseteq Registers
    BY <1>2, SparseFacts
  <2>2. u \in State
    BY <2>1, ReadInputsType, AbiCallClobbersType
  <2>3. TransferCall(c, s) = EndCall(u, TRUE)
    BY <1>2 DEF TransferCall, ExternalCallEffect, NeverReturns
  <2> HIDE DEF u
  <2> QED BY <1>1, <2>2, <2>3
<1>3. CASE c.kind = "external"
  <2> DEFINE read == IF UnknownReadsAbi THEN ReadInputs(s, AbiInputMasks) ELSE s
             u == AbiCallClobbers(read)
  <2>1. DOMAIN AbiInputMasks \subseteq Registers
    BY RegisterSetsAssumption DEF AbiInputMasks
  <2>2. read \in State
    BY <2>1, ReadInputsType
  <2>3. TransferCall(c, s) = EndCall(u, TRUE)
    BY <1>3 DEF TransferCall, UnknownExternalCallEffect, NeverReturns
  <2> HIDE DEF read
  <2>4. u \in State
    BY <2>2, AbiCallClobbersType
  <2> HIDE DEF u
  <2> QED BY <1>1, <2>3, <2>4
<1>4. CASE c.kind = "summary"
  <2> DEFINE u == ApplyFunctionEffect(c.effect, s)
  <2>1. u \in State
    BY <1>4, ApplyFunctionEffectType
  <2>2. TransferCall(c, s) = EndCall(u, TRUE)
    BY <1>4 DEF TransferCall, NeverReturns
  <2> HIDE DEF u
  <2> QED BY <1>1, <2>1, <2>2
<1> QED BY <1>2, <1>3, <1>4

LEMMA InstructionAccounted ==
  ASSUME AtVisible, RunInstruction
  PROVE  ReadsParts' /\ ValuesDefined'
<1>1. StepAccounted
  BY LoadAccounted, PartialReadAccounted, StoreAccounted, PartialWriteAccounted, SpillAccounted,
     ReloadAccounted, UseAccounted, CallAccounted DEF RunInstruction
<1>2. \E op : Instruction(op)
  BY DEF RunInstruction, RunLoad, RunPartialRead, RunStore, RunPartialWrite, RunSpill, RunReload,
     RunUse, RunCall
<1>3. /\ MoreRead(abs, abs') /\ abs' = TransferInstruction(Instr, abs, prog.adjust)
      /\ block' = block /\ at' = at + 1
  BY <1>2, VisibleFacts DEF Instruction
<1> QED BY <1>1, <1>3, ValuesStep DEF StepAccounted, ReadsParts

\* The step at an instruction, on the way to a return or out of the program.
LEMMA InstructionReads ==
  ASSUME RunInv, ReadsInv, ReadsVisible(prog), RunInstruction, UNCHANGED vars
  PROVE  ReadsInv'
<1>1. /\ prog \in Programs /\ prog' = prog /\ in' = in /\ out' = out /\ phase = "done"
      /\ status = "running" /\ at <= Len(Code) /\ at \in Nat /\ at >= 1
      /\ abs' = TransferInstruction(Instr, abs, prog.adjust) /\ at' = at + 1 /\ block' = block
      /\ status' \in {"running", "exited"}
      /\ SolverInv /\ SettledInv /\ InputsSettled
  BY DEF RunInv, SolverInv, TypeOK, vars, MachineTypeOK, RunInstruction, RunLoad, RunPartialRead,
     RunStore, RunPartialWrite, RunSpill, RunReload, RunUse, RunCall, Instruction
<1>2. /\ block \in BlocksOf(prog) /\ abs.Reachable /\ Describes(abs)
      /\ Visited(prog, block, in[block], at - 1, abs)
  BY <1>1 DEF RunInv, ReplayInv
<1>3. at - 1 \in Nat /\ (at - 1) + 1 = at
  BY <1>1
<1>4. abs \in State
  BY <1>2, <1>3, VisitedFacts
<1>5. AtInstruction
  BY <1>1, <1>2, <1>4 DEF RunInv, AtInstruction
<1>6. Instr \in InstructionsOf(prog) /\ Instr \in Instructions
  BY <1>5, InstrType
<1>7. AtVisible
  BY <1>1, <1>5, <1>6 DEF AtVisible, ReadsVisible, ReadsInv
<1>8. ReadsParts' /\ ValuesDefined'
  BY <1>7, InstructionAccounted
<1>9. ASSUME status' = "exited"
      PROVE  out[block].EndsInNoReturn /\ out[block].Cells = abs'.Cells
  <2>1. RunCall
    BY <1>1, <1>9 DEF RunInstruction, RunLoad, RunPartialRead, RunStore, RunPartialWrite, RunSpill,
       RunReload, RunUse
  <2>2. Instr.op = "call" /\ Instr.callee \in Callees
    BY <1>5, <2>1, InstructionShape DEF RunCall, Instruction
  <2>3. NeverReturns(Instr.callee)
    BY <1>1, <1>9, <2>1 DEF RunCall
  <2>4. abs' = TransferCall(Instr.callee, abs)
    BY <1>1, <2>2 DEF TransferInstruction
  <2>5. ~abs'.Reachable /\ abs'.EndsInNoReturn
    BY <1>4, <2>2, <2>3, <2>4, NoReturnEnds
  <2>6. abs' \in State
    BY <1>1, <1>4, <1>6, TransferInstructionType
  <2>7. Instr = prog.code[block][at] /\ Code = prog.code[block]
    BY DEF Instr, Code
  <2>8. Visited(prog, block, in[block], (at - 1) + 1, abs')
    BY <1>1, <1>2, <1>3, <1>4, <2>6, <2>7, VisitedNext
  <2>9. Visited(prog, block, in[block], at, abs')
    BY <1>3, <2>8
  <2>10. Len(prog.code[block]) \in Nat /\ at <= Len(prog.code[block])
    BY <1>1, <1>2, <2>7, ProgramShape
  <2>11. in[block].Reachable
    BY <1>2, <1>3, VisitedFacts
  <2>12. out[block] = PruneBlockLocal(prog, block, abs')
    <3>1. TransferBlock(prog, block, in[block]) = PruneBlockLocal(prog, block, abs')
      BY <1>1, <2>5, <2>9, <2>10, <2>11, VisitComputesBlock
    <3> QED BY <1>1, <1>2, <3>1, DoneSettled
  <2> QED BY <2>5, <2>6, <2>12, PruneKeeps
<1> QED BY <1>1, <1>2, <1>8, <1>9 DEF ReadsInv, ReadsParts, ExitedRecorded, UnreadAtFirst

\* From a block to the next: the origins of the values that may be used there
\* are those the block that defines them ended with.
LEMMA NextBlockReads ==
  ASSUME RunInv, ReadsParts, OriginKept, status = "running", at > Len(Code),
         block \notin prog.returns, NEW b \in SuccsOf(prog, block),
         block' = b, at' = 1, abs' = in[b],
         UNCHANGED <<vars, regs, vals, mem, killed, reads>>
  PROVE  ReadsParts'
<1>1. /\ prog \in Programs /\ prog' = prog /\ out' = out /\ out \in [BlocksOf(prog) -> State]
      /\ SolverInv /\ SettledInv /\ InputsSettled /\ phase = "done"
      /\ block \in BlocksOf(prog) /\ at \in Nat /\ at <= Len(Code) + 1 /\ abs.Reachable
      /\ Visited(prog, block, in[block], at - 1, abs)
  BY DEF RunInv, SolverInv, TypeOK, vars, MachineTypeOK, ReplayInv
<1>2. Len(Code) \in Nat /\ Code = prog.code[block]
  BY <1>1, ProgramShape DEF Code
<1>3. at - 1 = Len(Code) /\ at - 1 \in Nat
  BY <1>1, <1>2
<1>4. abs \in State
  BY <1>1, <1>3, VisitedFacts
<1>5. b \in BlocksOf(prog)
  <2>1. prog.succ[block] \in Seq(BlocksOf(prog))
    BY <1>1, ProgramShape
  <2> QED BY <2>1 DEF SuccsOf, SeqSet
<1>6. block \in PredsOf(prog, b)
  BY <1>1 DEF PredsOf
<1>7. in[b] = EntryInput(prog, b, out)
  BY <1>1, <1>5, DoneSettled
<1>8. Visited(prog, block, in[block], Len(Code), abs)
  BY <1>1, <1>3
<1>9. SaysLess(abs, out[block]) /\ out[block].Reachable /\ out[block] \in State
  BY <1>1, <1>8, ResultSaysLess
<1>10. SaysLess(out[block], in[b]) /\ in[b].Reachable
  <2> DEFINE results == {out[q] : q \in PredsOf(prog, b)}
  <2>1. b # EntryOf(prog)
    BY <1>1, LiftedAssumption DEF IsLifted
  <2>2. in[b] = JoinStates(results)
    BY <1>7, <2>1 DEF EntryInput
  <2>3. results \in SUBSET State /\ out[block] \in results
    BY <1>1, <1>6 DEF PredsOf
  <2> HIDE DEF results
  <2> QED BY <1>9, <2>2, <2>3, JoinSaysLess
<1>11. out[block] = PruneBlockLocal(prog, block, abs)
  <2>1. in[block].Reachable
    BY <1>1, <1>3, VisitedFacts
  <2>2. TransferBlock(prog, block, in[block]) = PruneBlockLocal(prog, block, abs)
    <3> DEFINE n == Len(prog.code[block])
    <3>1. n \in Nat /\ n <= n /\ Visited(prog, block, in[block], n, abs)
      BY <1>2, <1>8
    <3> QED BY <2>1, <3>1, VisitComputesBlock
  <2> QED BY <1>1, <2>2, DoneSettled
<1>12. ASSUME NEW tag, Accounted(killed, abs, tag)
       PROVE  Accounted(killed, abs', tag)
  <2>1. \A r \in Registers : CellIn(abs.Cells, r).ReadEntry \subseteq CellIn(abs'.Cells, r).ReadEntry
    BY <1>9, <1>10 DEF SaysLess
  <2> QED BY <1>12, <2>1 DEF Accounted, Seen, Interesting, Tracked
<1>13. ReadsSeen'
  <2>1. \A r \in Registers : CellIn(abs.Cells, r).ReadEntry \subseteq CellIn(abs'.Cells, r).ReadEntry
    BY <1>9, <1>10 DEF SaysLess
  <2> QED BY <2>1 DEF ReadsParts, ReadsSeen, Seen, Interesting, Tracked
<1>14. RegistersAccounted' /\ SlotsAccounted'
  BY <1>12 DEF ReadsParts, RegistersAccounted, SlotsAccounted, Accounted, Seen, Interesting, Tracked
<1>15. ASSUME NEW x \in Positions(prog), Defines(InstructionAt(prog, x)), b \in Behind(prog, x[1])
       PROVE  /\ block = x[1] \/ block \in Behind(prog, x[1])
              /\ SameOrigin(out[x[1]], in[b], InstructionAt(prog, x).val)
  <2> DEFINE d == x[1]
             v == InstructionAt(prog, x).val
  <2>1. block = d \/ block \in Behind(prog, d)
    BY <1>6, <1>15, BehindFacts
  <2>2. d \in BlocksOf(prog) /\ OriginKeptIn(d, v)
    BY <1>1, <1>15, PositionFacts DEF OriginKept
  <2>3. block \in Behind(prog, d) => SameOrigin(out[d], abs, v)
    BY <1>15 DEF ReadsParts, OriginsAgree
  <2> HIDE DEF d, v
  <2>4. v \in DOMAIN out[d].ValueOrigins =>
          v \in DOMAIN in[b].ValueOrigins /\ in[b].ValueOrigins[v] = out[d].ValueOrigins[v]
    BY <1>1, <1>7, <1>10, <1>15, <2>2, KeptAtEntry DEF d
  <2>5. v \in DOMAIN in[b].ValueOrigins =>
          v \in DOMAIN out[block].ValueOrigins
    BY <1>10 DEF SaysLess
  <2>6. v \in DOMAIN out[block].ValueOrigins => v \in DOMAIN abs.ValueOrigins
    BY <1>9 DEF SaysLess
  <2>7. v \in DOMAIN in[b].ValueOrigins => v \in DOMAIN out[d].ValueOrigins
    BY <2>1, <2>3, <2>5, <2>6 DEF SameOrigin
  <2> QED BY <2>1, <2>4, <2>7 DEF SameOrigin, d, v
<1>16. OriginsAgree'
  BY <1>1, <1>15 DEF OriginsAgree, SameOrigin
<1>17. ValuesAccounted'
  <2> SUFFICES ASSUME NEW x \in Positions(prog), Defines(InstructionAt(prog, x)), Usable(x)',
                      NEW v, v = InstructionAt(prog, x).val
               PROVE  ValueAccounted(v)'
    BY <1>1 DEF ValuesAccounted, ValueAccounted
  <2> DEFINE d == x[1]
  <2>1. d \in BlocksOf(prog) /\ x[2] \in 1..Len(prog.code[d])
    <3>1. PICK c \in BlocksOf(prog) : \E n \in DOMAIN prog.code[c] : x = <<c, n>>
      BY DEF Positions
    <3>2. PICK n \in DOMAIN prog.code[c] : x = <<c, n>>
      BY <3>1
    <3>3. prog.code[c] \in Seq(Instructions)
      BY <1>1, ProgramShape
    <3> QED BY <3>2, <3>3
  <2>2. b \in Behind(prog, d) /\ v \in CrossBlockValues(prog)
    <3>1. ~(at' > x[2])
      <4>1. x[2] \in Nat /\ 1 <= x[2]
        BY <2>1
      <4> QED BY <4>1
    <3> QED BY <1>1, <3>1 DEF Usable
  <2>3. (block = d \/ block \in Behind(prog, d)) /\ SameOrigin(out[d], in[b], v)
    BY <1>15, <2>2
  <2>4. Usable(x)
    <3>1. CASE block = d
      <4>1. x[2] <= Len(Code) /\ x[2] \in Nat
        BY <1>2, <2>1, <3>1
      <4>2. at > x[2]
        BY <1>1, <1>2, <4>1
      <4> QED BY <3>1, <4>2 DEF Usable
    <3>2. CASE block \in Behind(prog, d)
      BY <2>2, <3>2 DEF Usable
    <3> QED BY <2>3, <3>1, <3>2
  <2>5. v \in DOMAIN vals /\ ContentAccounted(killed, abs, v, vals[v])
    BY <2>4 DEF ReadsParts, ValuesAccounted, ValueAccounted
  <2>6. SameOrigin(out[d], abs, v)
    <3>1. CASE block = d
      <4>1. SameOrigin(abs, out[block], v)
        BY <1>4, <1>11, <2>2, PruneOrigins
      <4> QED BY <3>1, <4>1 DEF SameOrigin
    <3>2. CASE block \in Behind(prog, d)
      BY <3>2 DEF ReadsParts, OriginsAgree
    <3> QED BY <2>3, <3>1, <3>2
  <2> HIDE DEF d
  <2>7. SameOrigin(abs, in[b], v)
    BY <2>3, <2>6 DEF SameOrigin
  <2>8. ASSUME NEW bit \in Bits, vals[v][bit] # Other
        PROVE  Accounted(killed, abs', vals[v][bit]) \/ FromOrigin(abs', v, vals[v][bit])
    <3>1. Accounted(killed, abs, vals[v][bit]) \/ FromOrigin(abs, v, vals[v][bit])
      BY <2>5, <2>8 DEF ContentAccounted
    <3> QED BY <1>12, <2>7, <3>1 DEF FromOrigin, SameOrigin
  <2> QED BY <2>5, <2>8 DEF ValueAccounted, ContentAccounted
<1> QED BY <1>13, <1>14, <1>16, <1>17 DEF ReadsParts

LEMMA EndBlockReads ==
  ASSUME RunInv, ReadsInv, OriginKept, EndBlock, UNCHANGED vars
  PROVE  ReadsInv'
<1>1. /\ status = "running" /\ status' \in {"running", "returned"} /\ prog' = prog
      /\ ReadsParts /\ ValuesDefined /\ UNCHANGED <<regs, vals, mem, killed, reads>>
  BY DEF EndBlock, vars, ReadsInv
<1>2. ReadsParts'
  <2>1. CASE block \in prog.returns
    <3>1. UNCHANGED <<block, at, abs>> /\ out' = out
      BY <2>1 DEF EndBlock, vars
    <3> QED BY <1>1, <3>1 DEF ReadsParts, ReadsSeen, RegistersAccounted, SlotsAccounted,
       ValuesAccounted, OriginsAgree, Usable, ValueAccounted, ContentAccounted
  <2>2. CASE block \notin prog.returns
    <3>1. PICK b \in SuccsOf(prog, block) : block' = b /\ at' = 1 /\ abs' = in[b]
      BY <2>2 DEF EndBlock, Enter
    <3>2. at > Len(Code)
      BY DEF EndBlock
    <3> QED BY <1>1, <2>2, <3>1, <3>2, NextBlockReads
  <2> QED BY <2>1, <2>2
<1>3. ValuesDefined'
  BY <1>1 DEF ValuesDefined
<1> QED BY <1>1, <1>2, <1>3 DEF ReadsInv, ExitedRecorded, UnreadAtFirst

LEMMA StartReads ==
  ASSUME RunInv, ReadsInv, Start, UNCHANGED vars
  PROVE  ReadsInv'
<1>1. /\ prog \in Programs /\ prog' = prog /\ status = "idle" /\ status' = "running"
      /\ block' = EntryOf(prog) /\ at' = 1
      /\ UNCHANGED <<regs, vals, mem, killed, reads>>
      /\ \A r \in Registers, b \in Bits : regs[r][b] = <<r, b>>
      /\ reads = {} /\ \A k \in Slots, b \in Bits : mem[k][b] = Other
      /\ ValuesDefined
  BY DEF RunInv, SolverInv, TypeOK, vars, Start, Enter, Untouched, EntryValue, ReadsInv,
     UnreadAtFirst
<1>2. ASSUME NEW x \in Positions(prog)
      PROVE  ~Usable(x)' /\ EntryOf(prog) \notin Behind(prog, x[1])
  <2>1. PICK c \in BlocksOf(prog) : \E n \in DOMAIN prog.code[c] : x = <<c, n>>
    BY DEF Positions
  <2>2. PICK n \in DOMAIN prog.code[c] : x = <<c, n>>
    BY <2>1
  <2>3. prog.code[c] \in Seq(Instructions)
    BY <1>1, ProgramShape
  <2>4. x[2] \in Nat /\ x[2] >= 1
    BY <2>2, <2>3
  <2>5. ~(at' > x[2])
    BY <1>1, <2>4
  <2>6. EntryOf(prog) \notin Behind(prog, x[1])
    BY BehindFacts
  <2> QED BY <1>1, <2>5, <2>6 DEF Usable
<1>3. ReadsParts'
  <2>1. ReadsSeen' /\ RegistersAccounted' /\ SlotsAccounted'
    BY <1>1 DEF ReadsSeen, RegistersAccounted, SlotsAccounted
  <2>2. ValuesAccounted' /\ OriginsAgree'
    BY <1>1, <1>2 DEF ValuesAccounted, OriginsAgree
  <2> QED BY <2>1, <2>2 DEF ReadsParts
<1>4. ValuesDefined'
  BY <1>1 DEF ValuesDefined
<1> QED BY <1>1, <1>3, <1>4 DEF ReadsInv, ExitedRecorded, UnreadAtFirst

-----------------------------------------------------------------------------
(* The theorem.                                                              *)

RecordInv == RunInv /\ Ascending /\ OriginKept /\ ReadsInv

LEMMA InitRecordInv == RunInit => RecordInv
<1> SUFFICES ASSUME RunInit PROVE RecordInv
  OBVIOUS
<1>1. RunInv /\ Ascending /\ OriginKept
  BY InitRunInv, AscendingInit, OriginKeptInit DEF RunInit
<1>2. DOMAIN vals = {} /\ reads = {} /\ status = "idle"
      /\ \A k \in Slots, b \in Bits : mem[k][b] = Other
  BY DEF RunInit, EmptyMap, NoValue
<1> QED BY <1>1, <1>2 DEF RecordInv, ReadsInv, ValuesDefined, ExitedRecorded, UnreadAtFirst

LEMMA RecordInvNext ==
  ASSUME CollectEvidence, \A p \in Programs : ReadsVisible(p),
         RecordInv, [RunNext]_<<vars, runVars>>
  PROVE  RecordInv'
<1>1. /\ RunInv /\ Ascending /\ OriginKept /\ ReadsInv /\ SolverInv /\ prog \in Programs
      /\ status # "idle" => phase = "done"
  BY DEF RecordInv, RunInv, SolverInv, TypeOK
<1>2. [Next]_vars
  BY DEF RunNext, Analyse
<1>3. RunInv' /\ Ascending' /\ OriginKept' /\ prog' = prog
  BY <1>1, <1>2, RunInvNext, AscendingNext, OriginKeptNext, SolverPartNext
<1>4. CASE Execute /\ UNCHANGED vars
  <2>1. CASE Start
    BY <1>1, <1>3, <1>4, <2>1, StartReads DEF RecordInv
  <2>2. CASE RunInstruction
    BY <1>1, <1>3, <1>4, <2>2, InstructionReads DEF RecordInv
  <2>3. CASE EndBlock
    BY <1>1, <1>3, <1>4, <2>3, EndBlockReads DEF RecordInv
  <2> QED BY <1>4, <2>1, <2>2, <2>3 DEF Execute, RunInstruction
<1>5. CASE UNCHANGED runVars
  <2>1. ValuesDefined' /\ UnreadAtFirst'
    BY <1>1, <1>3, <1>5 DEF ReadsInv, ValuesDefined, UnreadAtFirst, runVars
  <2>2. CASE status = "idle"
    BY <1>3, <1>5, <2>1, <2>2 DEF RecordInv, ReadsInv, ExitedRecorded, runVars
  <2>3. CASE status # "idle"
    <3>1. UNCHANGED vars
      BY <1>1, <1>2, <2>3, DoneStays
    <3>2. ReadsParts => ReadsParts'
      BY <1>5, <3>1 DEF runVars, vars, ReadsParts, ReadsSeen, RegistersAccounted, SlotsAccounted,
         ValuesAccounted, OriginsAgree, Usable, ValueAccounted, ContentAccounted
    <3>3. ExitedRecorded => ExitedRecorded'
      BY <1>5, <3>1 DEF runVars, vars, ExitedRecorded, ReadsSeen
    <3> QED BY <1>1, <1>3, <1>5, <2>1, <3>2, <3>3 DEF RecordInv, ReadsInv, runVars
  <2> QED BY <2>2, <2>3
<1> QED BY <1>4, <1>5 DEF RunNext, Analyse

\* The effect keeps what a run that returns has read.
LEMMA ReturnReads ==
  ASSUME NEW returns \in SUBSET State, NEW noReturns \in SUBSET State, NEW s \in returns,
         s.Reachable, NEW r \in Registers, r \notin Unaffected
  PROVE  CellIn(s.Cells, r).ReadEntry
           \subseteq CellIn(EffectOf(returns, noReturns).Registers, r).ReadEntry
<1> DEFINE states == {ExitState(t) : t \in returns}
           exits == JoinStates(states)
           readCells == NoReturnReads(noReturns)
           withReads(q) ==
             [CellIn(exits.Cells, q) EXCEPT !.ReadEntry =
                @ \cup (IF q \in DOMAIN readCells THEN readCells[q].ReadEntry ELSE {})]
           cells == [q \in DOMAIN exits.Cells \cup DOMAIN readCells |-> withReads(q)]
<1>1. states \in SUBSET State /\ ExitState(s) \in states
  BY ExitStateType
<1>2. ExitState(s).Reachable /\ CellIn(ExitState(s).Cells, r) = CellIn(s.Cells, r)
  BY ExitStateKeeps
<1>3. SaysLess(ExitState(s), exits) /\ exits.Reachable
  <2> HIDE DEF states
  <2> QED BY <1>1, <1>2, JoinSaysLess
<1>4. exits \in State
  <2> HIDE DEF states
  <2> QED BY <1>1, JoinStatesType
<1>5. EffectOf(returns, noReturns) = [Registers |-> cells, NoReturn |-> FALSE]
  BY <1>3, Zenon DEF EffectOf
<1> HIDE DEF exits, readCells
<1>6. CellIn(exits.Cells, r) \in Cell
  BY <1>4, CellOf DEF CoveredCell
<1>7. CellIn(exits.Cells, r).ReadEntry \subseteq withReads(r).ReadEntry
  BY <1>6 DEF Cell
<1> HIDE DEF withReads
<1>8. CellIn(cells, r) = withReads(r) \/ CellIn(cells, r) = CellIn(exits.Cells, r)
  BY DEF CellIn
<1> HIDE DEF cells
<1>9. EffectOf(returns, noReturns).Registers = cells
  BY <1>5
<1> QED BY <1>2, <1>3, <1>7, <1>8, <1>9 DEF SaysLess

\* And what a run has read that leaves the program.
LEMMA NoReturnRecords ==
  ASSUME NEW returns \in SUBSET State, NEW noReturns \in SUBSET State, NEW s \in noReturns,
         NEW r \in Registers
  PROVE  CellIn(s.Cells, r).ReadEntry
           \subseteq CellIn(EffectOf(returns, noReturns).Registers, r).ReadEntry
<1> DEFINE exits == JoinStates({ExitState(t) : t \in returns})
           readCells == NoReturnReads(noReturns)
           withReads(q) ==
             [CellIn(exits.Cells, q) EXCEPT !.ReadEntry =
                @ \cup (IF q \in DOMAIN readCells THEN readCells[q].ReadEntry ELSE {})]
           cells == [q \in DOMAIN exits.Cells \cup DOMAIN readCells |-> withReads(q)]
           mine == CellIn(s.Cells, r).ReadEntry
<1>1. mine # {} => r \in DOMAIN readCells /\ mine \subseteq readCells[r].ReadEntry
  <2> DEFINE readIn(q) == UNION {CellIn(t.Cells, q).ReadEntry : t \in noReturns}
             cell(q) == [DefaultCell EXCEPT !.ReadEntry = readIn(q)]
  <2>1. readCells = [q \in {p \in Registers : readIn(p) # {}} |-> cell(q)]
    BY DEF NoReturnReads
  <2>2. cell(r).ReadEntry = readIn(r)
    BY DEF DefaultCell
  <2>3. mine \subseteq readIn(r)
    OBVIOUS
  <2> HIDE DEF readIn, cell, mine, readCells
  <2> QED BY <2>1, <2>2, <2>3
<1>2. CASE exits.Reachable
  <2>1. EffectOf(returns, noReturns) = [Registers |-> cells, NoReturn |-> FALSE]
    BY <1>2, Zenon DEF EffectOf
  <2>2. CellIn(exits.Cells, r) \in Cell
    <3>1. {ExitState(t) : t \in returns} \in SUBSET State
      BY ExitStateType
    <3>2. exits \in State
      BY <3>1, JoinStatesType
    <3> HIDE DEF exits
    <3> QED BY <3>2, CellOf DEF CoveredCell
  <2> HIDE DEF exits, readCells
  <2>3. r \in DOMAIN readCells => readCells[r].ReadEntry \subseteq withReads(r).ReadEntry
    BY <2>2 DEF Cell
  <2> HIDE DEF withReads
  <2>4. r \in DOMAIN readCells => CellIn(cells, r) = withReads(r)
    BY DEF CellIn
  <2> HIDE DEF cells, mine
  <2>5. EffectOf(returns, noReturns).Registers = cells
    BY <2>1
  <2> QED BY <1>1, <2>3, <2>4, <2>5 DEF mine
<1>3. CASE ~exits.Reachable
  <2>1. EffectOf(returns, noReturns) = [Registers |-> readCells, NoReturn |-> TRUE]
    BY <1>3, Zenon DEF EffectOf
  <2> HIDE DEF readCells, mine
  <2>2. EffectOf(returns, noReturns).Registers = readCells
    BY <2>1
  <2>3. r \in DOMAIN readCells => CellIn(readCells, r) = readCells[r]
    BY DEF CellIn
  <2> QED BY <1>1, <2>2, <2>3 DEF mine
<1> QED BY <1>2, <1>3

LEMMA ReadsRecorded == RecordInv => ReadsAtExitRecorded
<1> SUFFICES ASSUME RecordInv, status \in {"returned", "exited"},
                    NEW t \in reads, Interesting(t[1])
             PROVE  t[2] \in CellIn(effect.Registers, t[1]).ReadEntry
  BY DEF ReadsAtExitRecorded, Interesting
<1> DEFINE returns == {out[b] : b \in prog.returns}
           noReturns == {out[b] : b \in {c \in BlocksOf(prog) : out[c].EndsInNoReturn}}
           r == t[1]
<1>1. /\ prog \in Programs /\ out \in [BlocksOf(prog) -> State] /\ phase = "done"
      /\ SolverInv /\ SettledInv /\ InputsSettled /\ EffectIsOfExits /\ ReplayInv /\ ReadsInv
  BY DEF RecordInv, RunInv, SolverInv, TypeOK
<1>2. /\ returns \in SUBSET State /\ noReturns \in SUBSET State
      /\ effect = EffectOf(returns, noReturns)
  BY <1>1, ProgramShape DEF EffectIsOfExits
<1>3. r \in Registers /\ r \notin Unaffected
  BY DEF Interesting, Tracked
<1>4. ReadsSeen
  BY <1>1 DEF ReadsInv, ReadsParts, ExitedRecorded
<1>5. t[2] \in CellIn(abs.Cells, r).ReadEntry
  BY <1>4 DEF ReadsSeen, Seen
<1>6. CASE status = "returned"
  <2>1. /\ block \in BlocksOf(prog) /\ block \in prog.returns /\ abs.Reachable
        /\ at = Len(Code) + 1 /\ Visited(prog, block, in[block], at - 1, abs)
    BY <1>1, <1>6 DEF ReplayInv
  <2>2. Len(Code) \in Nat
    BY <1>1, <2>1, ProgramShape DEF Code
  <2>3. Visited(prog, block, in[block], Len(Code), abs)
    <3>1. at - 1 = Len(Code)
      BY <2>1, <2>2
    <3> QED BY <2>1, <3>1
  <2>4. SaysLess(abs, out[block]) /\ out[block].Reachable
    BY <1>1, <2>1, <2>3, ResultSaysLess
  <2>5. out[block] \in returns
    BY <2>1
  <2> HIDE DEF returns, noReturns, r
  <2>6. CellIn(out[block].Cells, r).ReadEntry \subseteq CellIn(effect.Registers, r).ReadEntry
    BY <1>2, <1>3, <2>4, <2>5, ReturnReads
  <2> QED BY <1>3, <1>5, <2>4, <2>6 DEF SaysLess, r
<1>7. CASE status = "exited"
  <2>1. out[block].Cells = abs.Cells /\ out[block] \in noReturns
    BY <1>1, <1>7 DEF ReadsInv, ExitedRecorded
  <2> HIDE DEF returns, noReturns, r
  <2>2. CellIn(out[block].Cells, r).ReadEntry \subseteq CellIn(effect.Registers, r).ReadEntry
    BY <1>2, <1>3, <2>1, NoReturnRecords
  <2> QED BY <1>5, <2>1, <2>2 DEF r
<1> QED BY <1>6, <1>7

(* collectExits: where a run ends, by a return or inside a call that does    *)
(* not return, the effect has every entry bit the run read before it was     *)
(* overwritten, in every run of every function whose reads the summary can   *)
(* see at all.                                                               *)
THEOREM ReadsProved ==
  ASSUME CollectEvidence, \A p \in Programs : ReadsVisible(p)
  PROVE  RunSpec => []ReadsAtExitRecorded
<1>1. RecordInv /\ [RunNext]_<<vars, runVars>> => RecordInv'
  BY RecordInvNext
<1> QED BY <1>1, InitRecordInv, ReadsRecorded, PTL DEF RunSpec
=============================================================================
