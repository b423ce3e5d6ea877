-------------------------- MODULE RegisterTransfer -------------------------
(***************************************************************************)
(* What one LLVM instruction does to the state of the bottom-up register   *)
(* analysis (Analyzer::transferInstruction and what it calls), and the     *)
(* join of the states of several predecessors.                             *)
(*                                                                         *)
(* An instruction is a record whose field "op" names the shape the code    *)
(* recognises:                                                             *)
(*   load    whole-register load            store   whole-register store   *)
(*   pread   partial-read helper call       pwrite  partial-write helper   *)
(*   reload  load from a fixed stack slot   spill   store to such a slot   *)
(*   use     anything else with an operand  call    an analysable call     *)
(* An operand is an SSA value (field "src") and whether a non-zero constant*)
(* is added to it (field "off"); adding is an instruction of its own, a    *)
(* "use" of the value.  Constants and computed values never have an origin.*)
(***************************************************************************)
EXTENDS RegisterLattice

CONSTANTS
  Slots,            \* fixed stack slots, already resolved to (base, offset)
  Values,           \* SSA values
  Ignored,          \* Options.IgnoredRegisters
  Unaffected,       \* ABI "unaffected" (callee-saved) registers
  StackPointer,     \* the ABI's stack pointer register
  AbiInputs,        \* registers that carry arguments in the ABI
  SegmentBases,     \* FS_OFFSET, GS_OFFSET
  UnknownReadsAbi   \* UnknownExternalInputPolicy = AbiInputs

ASSUME RegisterSetsAssumption ==
  /\ Ignored \subseteq Registers
  /\ Unaffected \subseteq Registers
  /\ AbiInputs \subseteq Registers
  /\ SegmentBases \subseteq Registers
  /\ UnknownReadsAbi \in BOOLEAN

-----------------------------------------------------------------------------
(* Origin bits: who defined a bit last.  A sparse map in the code; a bit    *)
(* without an entry is Entry, so a total map loses nothing.                 *)

OriginBits == [Entry : SUBSET Bits, Local : SUBSET Bits,
               FloatLocal : SUBSET Bits, CallClobber : SUBSET Bits]

DefaultOrigin ==
  [Entry |-> Bits, Local |-> {}, FloatLocal |-> {}, CallClobber |-> {}]

OriginKinds == {"Entry", "Local", "CallClobber", "Mixed"}

\* FloatLocal is left alone here: only a local write maintains it.
MarkOrigin(bits, mask, kind) ==
  [Entry       |-> (bits.Entry \ mask) \cup (IF kind = "Entry" THEN mask ELSE {}),
   Local       |-> (bits.Local \ mask) \cup (IF kind = "Local" THEN mask ELSE {}),
   FloatLocal  |-> bits.FloatLocal,
   CallClobber |-> (bits.CallClobber \ mask)
                     \cup (IF kind = "CallClobber" THEN mask ELSE {})]

MarkFloatWrite(bits, mask, isFloat) ==
  [bits EXCEPT !.FloatLocal = IF isFloat THEN @ \cup mask ELSE @ \ mask]

-----------------------------------------------------------------------------
(* The state at a program point.                                            *)

ValueOrigin == [Base : Registers, Mask : SUBSET Bits]

SlotOrigins == {"ForwardedEntry", "LocalDefinition"}

State ==
  [Reachable        : BOOLEAN,
   EndsInNoReturn   : BOOLEAN,
   Cells            : Sparse(Registers, CoveredCell),
   Origins          : [Registers -> OriginBits],
   StackSlots       : Sparse(Slots, Registers),
   StackSlotOrigins : Sparse(Slots, SlotOrigins),
   ValueOrigins     : Sparse(Values, ValueOrigin)]

InitialState(reachable) ==
  [Reachable        |-> reachable,
   EndsInNoReturn   |-> FALSE,
   Cells            |-> EmptyMap,
   Origins          |-> [r \in Registers |-> DefaultOrigin],
   StackSlots       |-> EmptyMap,
   StackSlotOrigins |-> EmptyMap,
   ValueOrigins     |-> EmptyMap]

SameSummaryLattice(s, t) ==
  /\ s.Reachable = t.Reachable
  /\ s.EndsInNoReturn = t.EndsInNoReturn
  /\ s.Cells = t.Cells

\* What several maps agree on.
Agreement(maps) ==
  LET common == {k \in UNION {DOMAIN m : m \in maps} :
                   \A m, n \in maps : k \in DOMAIN m /\ m[k] = n[k]}
  IN  [k \in common |-> (CHOOSE m \in maps : TRUE)[k]]

\* The join over a set of cells, bit by bit.
JoinCells(cells) ==
  [MayEntry    |-> UNION {c.MayEntry : c \in cells},
   MayNonEntry |-> UNION {c.MayNonEntry : c \in cells},
   ReadEntry   |-> UNION {c.ReadEntry : c \in cells}]

AgreedBits(states, reg) ==
  LET common(bitsOf(_)) == {b \in Bits : \A s \in states : b \in bitsOf(s.Origins[reg])}
      Entry(o) == o.Entry
      Local(o) == o.Local
      Float(o) == o.FloatLocal
      Clobber(o) == o.CallClobber
  IN  [Entry |-> common(Entry), Local |-> common(Local),
       FloatLocal |-> common(Float), CallClobber |-> common(Clobber)]

\* Bug: a predecessor that never touched the register has no say in its cell.
JoinTouchedStates(states) ==
  LET R == {s \in states : s.Reachable} IN
  IF R = {} THEN InitialState(FALSE)
  ELSE [Reachable        |-> TRUE,
        EndsInNoReturn   |-> FALSE,
        Cells            |-> [r \in UNION {DOMAIN s.Cells : s \in R} |->
                                JoinCells({s.Cells[r] : s \in {t \in R : r \in DOMAIN t.Cells}})],
        Origins          |-> [r \in Registers |-> AgreedBits(R, r)],
        StackSlots       |-> Agreement({s.StackSlots : s \in R}),
        StackSlotOrigins |-> Agreement({s.StackSlotOrigins : s \in R}),
        ValueOrigins     |-> Agreement({s.ValueOrigins : s \in R})]

(* joinState over all predecessors: unreachable ones do not take part, a    *)
(* register only some of them touched joins with "untouched", and facts     *)
(* about slots and values survive only where all agree.                     *)
JoinStates(states) ==
  LET R == {s \in states : s.Reachable} IN
  IF R = {} THEN InitialState(FALSE)
  ELSE [Reachable        |-> TRUE,
        EndsInNoReturn   |-> FALSE,
        Cells            |-> [r \in UNION {DOMAIN s.Cells : s \in R} |->
                                JoinCells({CellIn(s.Cells, r) : s \in R})],
        Origins          |-> [r \in Registers |-> AgreedBits(R, r)],
        StackSlots       |-> Agreement({s.StackSlots : s \in R}),
        StackSlotOrigins |-> Agreement({s.StackSlotOrigins : s \in R}),
        ValueOrigins     |-> Agreement({s.ValueOrigins : s \in R})]

FunctionEffect == [Registers : Sparse(Registers, CoveredCell), NoReturn : BOOLEAN]

(* What a call site knows of its callee: the shape of a trusted prototype,  *)
(* the summary of its body, or nothing.                                     *)
ShapeCallees ==
  [kind : {"shape"}, inputs : Sparse(Registers, SUBSET Bits), noReturn : BOOLEAN]
SummaryCallees == [kind : {"summary"}, effect : FunctionEffect]
ExternalCallees == [kind : {"external"}, noReturn : BOOLEAN]

Callees == ShapeCallees \cup SummaryCallees \cup ExternalCallees

NeverReturns(c) == IF c.kind = "summary" THEN c.effect.NoReturn ELSE c.noReturn

(* The instruction shapes, by how the code recognises them.                 *)
Operands == Values \cup {"const"}

RegisterLoads == [op : {"load"}, reg : Registers, val : Values, keep : BOOLEAN]
RegisterStores ==
  [op : {"store"}, reg : Registers, src : Operands, off : BOOLEAN,
   keep : BOOLEAN, float : BOOLEAN]
SlotLoads == [op : {"reload"}, slot : Slots, val : Values]
SlotStores == [op : {"spill"}, slot : Slots, src : Operands, off : BOOLEAN]
PartialReads ==
  [op : {"pread"}, reg : Registers, mask : SUBSET Bits, val : Values, dead : BOOLEAN]
PartialWrites ==
  [op : {"pwrite"}, reg : Registers, mask : SUBSET Bits, src : Operands,
   off : BOOLEAN, low32 : BOOLEAN, float : BOOLEAN]
OtherUses == [op : {"use"}, src : Operands, off : BOOLEAN]
AnalysableCalls == [op : {"call"}, callee : Callees]

Instructions ==
  UNION {RegisterLoads, RegisterStores, SlotLoads, SlotStores, PartialReads,
         PartialWrites, OtherUses, AnalysableCalls}

-----------------------------------------------------------------------------
(* Register reads and writes on a state.                                    *)

ReadRegister(s, reg, mask) ==
  IF mask = {} THEN s
  ELSE [s EXCEPT !.Cells = Put(@, reg, ReadCell(CellIn(@, reg), mask))]

WriteRegister(s, reg, mask) ==
  IF mask = {} THEN s
  ELSE [s EXCEPT !.Cells = Put(@, reg, WriteCell(CellIn(@, reg), mask))]

RestoreRegister(s, reg, mask) ==
  IF mask = {} THEN s
  ELSE [s EXCEPT !.Cells = Put(@, reg, RestoreCell(CellIn(@, reg), mask))]

SetRegisterOrigin(s, reg, mask, kind) ==
  [s EXCEPT !.Origins[reg] = MarkOrigin(@, mask, kind)]

SetOrigin(s, val, reg, mask) ==
  [s EXCEPT !.ValueOrigins = Put(@, val, [Base |-> reg, Mask |-> mask])]

DropOrigin(s, val) == [s EXCEPT !.ValueOrigins = Drop(@, val)]

\* entryValueOrigin finds the value, possibly under an added constant.
HasEntryOrigin(s, src) == src \in DOMAIN s.ValueOrigins

StoredKind(s, src) == IF HasEntryOrigin(s, src) THEN "Entry" ELSE "Local"

\* A value with an added constant was read by the addition, not here.
MarkEntryValueRead(s, src, off) ==
  IF HasEntryOrigin(s, src) /\ ~off
  THEN ReadRegister(s, s.ValueOrigins[src].Base, s.ValueOrigins[src].Mask)
  ELSE s

\* A store to a whole register or to part of it, seen by the origin bits.
DefineOrigin(s, reg, mask, kind, float) ==
  LET marked == SetRegisterOrigin(s, reg, mask, kind) IN
  IF kind = "Local"
  THEN [marked EXCEPT !.Origins[reg] = MarkFloatWrite(@, mask, float)]
  ELSE marked

CanTrackSaved(reg) == reg # StackPointer /\ reg \in Unaffected

-----------------------------------------------------------------------------
(* One operator per instruction shape.                                      *)

TransferLoad(i, s) ==
  LET cell == CellIn(s.Cells, i.reg)
      read == IF i.reg \notin Ignored /\ ~i.keep /\ ~PureEntry(cell)
              THEN ReadRegister(s, i.reg, Bits) ELSE s
  IN  IF ~PureEntry(cell) THEN DropOrigin(read, i.val)
      ELSE IF i.reg # StackPointer THEN SetOrigin(read, i.val, i.reg, Bits)
      ELSE read

TransferStore(i, s) ==
  LET restores == HasEntryOrigin(s, i.src) /\ ~i.off
                    /\ s.ValueOrigins[i.src].Base = i.reg
      read == MarkEntryValueRead(s, i.src, i.off)
  IN  IF i.reg \in Ignored THEN s
      ELSE IF i.keep
           THEN SetRegisterOrigin(WriteRegister(s, i.reg, Bits), i.reg, Bits, "Mixed")
      ELSE IF restores
           THEN SetRegisterOrigin(RestoreRegister(s, i.reg, s.ValueOrigins[i.src].Mask),
                                  i.reg, Bits, "Entry")
      ELSE DefineOrigin(WriteRegister(read, i.reg, Bits), i.reg, Bits,
                        StoredKind(read, i.src), i.float)

\* "adjust" holds the slots of stack-alignment pushes.
TransferReload(i, s, adjust) ==
  IF i.slot \in DOMAIN s.StackSlots \ adjust
  THEN SetOrigin(s, i.val, s.StackSlots[i.slot], Bits)
  ELSE DropOrigin(s, i.val)

\* Bug: a slot keeps its saved register when something else is stored there.
SpillKeepsSaved(i, s, adjust) ==
  LET kind == IF HasEntryOrigin(s, i.src) THEN "ForwardedEntry" ELSE "LocalDefinition"
      marked == [s EXCEPT !.StackSlotOrigins = Put(@, i.slot, kind)]
  IN  IF HasEntryOrigin(s, i.src) /\ CanTrackSaved(s.ValueOrigins[i.src].Base)
      THEN [marked EXCEPT !.StackSlots = Put(@, i.slot, s.ValueOrigins[i.src].Base)]
      ELSE MarkEntryValueRead(marked, i.src, i.off)

TransferSpill(i, s, adjust) ==
  LET saves == HasEntryOrigin(s, i.src) /\ ~i.off
                 /\ CanTrackSaved(s.ValueOrigins[i.src].Base)
      read == MarkEntryValueRead(s, i.src, i.off)
  IN  IF i.slot \in adjust
      THEN [s EXCEPT !.StackSlots = Drop(@, i.slot),
                     !.StackSlotOrigins = Drop(@, i.slot)]
      ELSE IF saves
      THEN [s EXCEPT !.StackSlots = Put(@, i.slot, s.ValueOrigins[i.src].Base),
                     !.StackSlotOrigins = Put(@, i.slot, "ForwardedEntry")]
      ELSE [read EXCEPT !.StackSlots = Drop(@, i.slot),
                        !.StackSlotOrigins =
                          Put(@, i.slot, IF HasEntryOrigin(s, i.src)
                                         THEN "ForwardedEntry" ELSE "LocalDefinition")]

\* "dead": the result feeds only frame slots nobody reads.
TransferPartialRead(i, s) ==
  LET pure == PureEntry(CellIn(s.Cells, i.reg))
      read == ReadRegister(s, i.reg, i.mask)
  IN  IF i.reg \in Ignored \/ i.dead THEN DropOrigin(s, i.val)
      ELSE IF pure THEN SetOrigin(read, i.val, i.reg, i.mask)
      ELSE DropOrigin(read, i.val)

\* "low32": writing E* clears the upper half of R*, the whole register is new.
TransferPartialWrite(i, s) ==
  LET read == MarkEntryValueRead(s, i.src, i.off)
      mask == IF i.low32 THEN Bits ELSE i.mask
  IN  IF i.reg \in Ignored THEN s
      ELSE DefineOrigin(WriteRegister(read, i.reg, mask), i.reg, mask,
                        StoredKind(read, i.src), i.float)

-----------------------------------------------------------------------------
(* Calls.  Every call consumes the stack-argument evidence; the saved-      *)
(* register slots survive it.                                               *)

\* Bug: the next call still sees the stack arguments of this one.
KeepStackArgEvidence(s) == s

ConsumeStackArgEvidence(s) == [s EXCEPT !.StackSlotOrigins = EmptyMap]

MarkNoReturnExit(s) == [s EXCEPT !.Reachable = FALSE, !.EndsInNoReturn = TRUE]

EndCall(s, noReturn) ==
  IF noReturn THEN MarkNoReturnExit(ConsumeStackArgEvidence(s))
  ELSE ConsumeStackArgEvidence(s)

\* The registers in "masks" (a sparse map) are read, all others left alone.
ReadInputs(s, masks) ==
  LET read == {r \in DOMAIN masks \ Ignored : masks[r] # {}} IN
  [s EXCEPT !.Cells = [r \in DOMAIN @ \cup read |->
     IF r \in read THEN ReadCell(CellIn(@, r), masks[r]) ELSE CellIn(@, r)]]

Clobbered == Registers \ (Ignored \cup Unaffected \cup SegmentBases)

AbiCallClobbers(s) ==
  [s EXCEPT
     !.Cells = [r \in DOMAIN @ \cup Clobbered |->
                  IF r \in Clobbered THEN WriteCell(CellIn(@, r), Bits) ELSE CellIn(@, r)],
     !.Origins = [r \in Registers |->
                  IF r \in Clobbered THEN MarkOrigin(@[r], Bits, "CallClobber") ELSE @[r]]]

AbiInputMasks == [r \in AbiInputs |-> Bits]

ExternalCallEffect(s, inputs) == AbiCallClobbers(ReadInputs(s, inputs))

UnknownExternalCallEffect(s) ==
  AbiCallClobbers(IF UnknownReadsAbi THEN ReadInputs(s, AbiInputMasks) ELSE s)

NoEffect == [Registers |-> EmptyMap, NoReturn |-> FALSE]

\* What the callee's summary says of a register decides the origin bits.
CallOrigin(bits, callee) ==
  IF callee.MayNonEntry = {} THEN bits
  ELSE MarkOrigin(bits, Bits, IF callee.MayEntry = {} THEN "CallClobber" ELSE "Mixed")

\* The registers whose summaries callers use.
VisibleRegisters == Registers \ (Ignored \cup Unaffected)

ApplyFunctionEffect(effect, s) ==
  [s EXCEPT
     !.Cells = [r \in DOMAIN @ \cup VisibleRegisters |->
                  IF r \in VisibleRegisters
                  THEN ThroughCall(CellIn(@, r), CellIn(effect.Registers, r))
                  ELSE CellIn(@, r)],
     !.Origins = [r \in Registers |->
                  IF r \in VisibleRegisters
                  THEN CallOrigin(@[r], CellIn(effect.Registers, r))
                  ELSE @[r]]]

(* transferCall: a prototype's shape first, then the body's summary when    *)
(* there is one, and otherwise the ABI's worst case.                        *)
TransferCall(c, s) ==
  CASE c.kind = "shape"    -> EndCall(ExternalCallEffect(s, c.inputs), c.noReturn)
    [] c.kind = "summary"  -> EndCall(ApplyFunctionEffect(c.effect, s), c.effect.NoReturn)
    [] c.kind = "external" -> EndCall(UnknownExternalCallEffect(s), c.noReturn)

-----------------------------------------------------------------------------
TransferInstruction(i, s, adjust) ==
  CASE i.op = "load"   -> TransferLoad(i, s)
    [] i.op = "store"  -> TransferStore(i, s)
    [] i.op = "reload" -> TransferReload(i, s, adjust)
    [] i.op = "spill"  -> TransferSpill(i, s, adjust)
    [] i.op = "pread"  -> TransferPartialRead(i, s)
    [] i.op = "pwrite" -> TransferPartialWrite(i, s)
    [] i.op = "use"    -> MarkEntryValueRead(s, i.src, i.off)
    [] i.op = "call"   -> TransferCall(i.callee, s)

-----------------------------------------------------------------------------
(* Function exits.                                                          *)

\* A callee-saved register whose entry value still sits in a slot counts as
\* restored at a return, whether or not the reload was recognised.
ExitState(s) ==
  LET saved == {s.StackSlots[k] : k \in DOMAIN s.StackSlots}
      back  == {r \in Unaffected \ (Ignored \cup {StackPointer}) :
                  r \in saved /\ CellIn(s.Cells, r).MayNonEntry # {}}
  IN  [s EXCEPT !.Cells = [r \in DOMAIN @ |->
         IF r \in back THEN RestoreCell(@[r], Bits) ELSE @[r]]]

\* The entry reads of states that end in a call that does not return.
NoReturnReads(states) ==
  LET readIn(r) == UNION {CellIn(s.Cells, r).ReadEntry : s \in states} IN
  [r \in {q \in Registers : readIn(q) # {}} |->
     [DefaultCell EXCEPT !.ReadEntry = readIn(r)]]

\* Bug: what a run reads before it leaves through a call that does not return
\* is lost when other runs return.
EffectOfReturns(returns, noReturns) ==
  LET exits == JoinStates({ExitState(s) : s \in returns}) IN
  IF exits.Reachable THEN [Registers |-> exits.Cells, NoReturn |-> FALSE]
  ELSE [Registers |-> NoReturnReads(noReturns), NoReturn |-> noReturns # {}]

(* The effect of a function from the states at the end of its return blocks *)
(* and of the blocks that end in a no-return call.                          *)
EffectOf(returns, noReturns) ==
  LET exits == JoinStates({ExitState(s) : s \in returns})
      reads == NoReturnReads(noReturns)
      withReads(r) ==
        [CellIn(exits.Cells, r) EXCEPT !.ReadEntry =
           @ \cup (IF r \in DOMAIN reads THEN reads[r].ReadEntry ELSE {})]
  IN  IF exits.Reachable
      THEN [Registers |-> [r \in DOMAIN exits.Cells \cup DOMAIN reads |-> withReads(r)],
            NoReturn |-> FALSE]
      ELSE IF noReturns # {} THEN [Registers |-> reads, NoReturn |-> TRUE]
      ELSE NoEffect
=============================================================================
