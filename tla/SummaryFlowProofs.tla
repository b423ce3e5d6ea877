------------------------- MODULE SummaryFlowProofs -------------------------
(***************************************************************************)
(* The summary solver keeps its types for every function, every register   *)
(* file and every set of options; in particular every cell it ever holds   *)
(* or publishes is covered: of each bit it is known that it may be the     *)
(* entry value or that it may not.  TypeOK is inductive as it stands.  The *)
(* lemmas follow the layers of the model: maps, cells, states,             *)
(* instructions, the join of states, and the solver.                       *)
(*                                                                         *)
(* The finished solver holds a solution, it implements the abstract        *)
(* worklist, and the results of a block only ever lose information.        *)
(***************************************************************************)
EXTENDS SummaryFlow, SequenceTheorems, WellFoundedInduction, TLAPS

-----------------------------------------------------------------------------
(* Sparse maps.                                                             *)

LEMMA SparseFacts ==
  ASSUME NEW S, NEW T, NEW map \in Sparse(S, T)
  PROVE  /\ DOMAIN map \subseteq S
         /\ map = [k \in DOMAIN map |-> map[k]]
         /\ \A k \in DOMAIN map : map[k] \in T
BY DEF Sparse

LEMMA SparseIntro ==
  ASSUME NEW S, NEW T, NEW D \in SUBSET S, NEW map \in [D -> T]
  PROVE  map \in Sparse(S, T)
BY DEF Sparse

LEMMA EmptySparse == \A S, T : EmptyMap \in Sparse(S, T)
<1> TAKE S, T
<1>1. EmptyMap \in [{} -> T]
  BY DEF EmptyMap
<1> QED BY <1>1, SparseIntro

LEMMA PutSparse ==
  ASSUME NEW S, NEW T, NEW map \in Sparse(S, T), NEW key \in S, NEW value \in T
  PROVE  Put(map, key, value) \in Sparse(S, T)
<1>1. DOMAIN map \cup {key} \in SUBSET S
  BY SparseFacts
<1>2. Put(map, key, value) \in [DOMAIN map \cup {key} -> T]
  BY SparseFacts DEF Put
<1> QED BY <1>1, <1>2, SparseIntro

LEMMA DropSparse ==
  ASSUME NEW S, NEW T, NEW map \in Sparse(S, T), NEW key
  PROVE  Drop(map, key) \in Sparse(S, T)
<1>1. DOMAIN map \ {key} \in SUBSET S
  BY SparseFacts
<1>2. Drop(map, key) \in [DOMAIN map \ {key} -> T]
  BY SparseFacts DEF Drop
<1> QED BY <1>1, <1>2, SparseIntro

-----------------------------------------------------------------------------
(* Cells.                                                                   *)

LEMMA DefaultCellCovered == DefaultCell \in CoveredCell
BY DEF DefaultCell, CoveredCell, Cell, Covered

LEMMA CellInCovered ==
  ASSUME NEW cells \in Sparse(Registers, CoveredCell), NEW r
  PROVE  CellIn(cells, r) \in CoveredCell
BY SparseFacts, DefaultCellCovered DEF CellIn

LEMMA ReadCellCovered ==
  ASSUME NEW c \in CoveredCell, NEW mask
  PROVE  ReadCell(c, mask) \in CoveredCell
BY DEF ReadCell, CoveredCell, Cell, Covered

LEMMA WriteCellCovered ==
  ASSUME NEW c \in CoveredCell, NEW mask \in SUBSET Bits
  PROVE  WriteCell(c, mask) \in CoveredCell
BY DEF WriteCell, CoveredCell, Cell, Covered

LEMMA RestoreCellCovered ==
  ASSUME NEW c \in CoveredCell, NEW mask \in SUBSET Bits
  PROVE  RestoreCell(c, mask) \in CoveredCell
BY DEF RestoreCell, CoveredCell, Cell, Covered

(* A bit the callee leaves alone has the caller's origin, and the caller's  *)
(* cell is covered; a bit it may redefine is MayNonEntry.                   *)
LEMMA ThroughCallCovered ==
  ASSUME NEW pre \in CoveredCell, NEW callee \in CoveredCell
  PROVE  ThroughCall(pre, callee) \in CoveredCell
BY DEF ThroughCall, CoveredCell, Cell, Covered

LEMMA JoinCellsCovered ==
  ASSUME NEW cells \in SUBSET CoveredCell, cells # {}
  PROVE  JoinCells(cells) \in CoveredCell
<1>1. JoinCells(cells) \in Cell
  BY DEF JoinCells, CoveredCell, Cell
<1>2. PICK c \in cells : TRUE
  OBVIOUS
<1>3. c.MayEntry \cup c.MayNonEntry = Bits
  BY DEF CoveredCell, Covered
<1>4. c.MayEntry \subseteq JoinCells(cells).MayEntry
        /\ c.MayNonEntry \subseteq JoinCells(cells).MayNonEntry
  BY DEF JoinCells
<1>5. JoinCells(cells).MayEntry \subseteq Bits /\ JoinCells(cells).MayNonEntry \subseteq Bits
  BY <1>1 DEF Cell
<1> QED BY <1>1, <1>3, <1>4, <1>5 DEF CoveredCell, Covered

-----------------------------------------------------------------------------
(* States.                                                                  *)

LEMMA InitialStateType == \A reachable \in BOOLEAN : InitialState(reachable) \in State
<1>1. DefaultOrigin \in OriginBits
  BY DEF DefaultOrigin, OriginBits
<1> QED BY <1>1, EmptySparse DEF InitialState, State

LEMMA MarkOriginType ==
  ASSUME NEW bits \in OriginBits, NEW mask \in SUBSET Bits, NEW kind
  PROVE  MarkOrigin(bits, mask, kind) \in OriginBits
BY DEF MarkOrigin, OriginBits

LEMMA MarkFloatWriteType ==
  ASSUME NEW bits \in OriginBits, NEW mask \in SUBSET Bits, NEW float
  PROVE  MarkFloatWrite(bits, mask, float) \in OriginBits
BY DEF MarkFloatWrite, OriginBits

(* Replacing one part of a state by another of its type gives a state.      *)
LEMMA WithCells ==
  ASSUME NEW s \in State, NEW cells \in Sparse(Registers, CoveredCell)
  PROVE  [s EXCEPT !.Cells = cells] \in State
BY DEF State

LEMMA WithOrigins ==
  ASSUME NEW s \in State, NEW origins \in [Registers -> OriginBits]
  PROVE  [s EXCEPT !.Origins = origins] \in State
BY DEF State

LEMMA WithValueOrigins ==
  ASSUME NEW s \in State, NEW origins \in Sparse(Values, ValueOrigin)
  PROVE  [s EXCEPT !.ValueOrigins = origins] \in State
BY DEF State

LEMMA WithSlots ==
  ASSUME NEW s \in State, NEW slots \in Sparse(Slots, Registers),
         NEW origins \in Sparse(Slots, SlotOrigins)
  PROVE  [s EXCEPT !.StackSlots = slots, !.StackSlotOrigins = origins] \in State
BY DEF State

LEMMA ReadRegisterType ==
  ASSUME NEW s \in State, NEW reg \in Registers, NEW mask
  PROVE  ReadRegister(s, reg, mask) \in State
<1>1. s.Cells \in Sparse(Registers, CoveredCell)
  BY DEF State
<1>2. Put(s.Cells, reg, ReadCell(CellIn(s.Cells, reg), mask)) \in Sparse(Registers, CoveredCell)
  BY <1>1, CellInCovered, ReadCellCovered, PutSparse
<1> QED BY <1>2, WithCells DEF ReadRegister

LEMMA WriteRegisterType ==
  ASSUME NEW s \in State, NEW reg \in Registers, NEW mask \in SUBSET Bits
  PROVE  WriteRegister(s, reg, mask) \in State
<1>1. s.Cells \in Sparse(Registers, CoveredCell)
  BY DEF State
<1>2. Put(s.Cells, reg, WriteCell(CellIn(s.Cells, reg), mask)) \in Sparse(Registers, CoveredCell)
  BY <1>1, CellInCovered, WriteCellCovered, PutSparse
<1> QED BY <1>2, WithCells DEF WriteRegister

LEMMA RestoreRegisterType ==
  ASSUME NEW s \in State, NEW reg \in Registers, NEW mask \in SUBSET Bits
  PROVE  RestoreRegister(s, reg, mask) \in State
<1>1. s.Cells \in Sparse(Registers, CoveredCell)
  BY DEF State
<1>2. Put(s.Cells, reg, RestoreCell(CellIn(s.Cells, reg), mask)) \in Sparse(Registers, CoveredCell)
  BY <1>1, CellInCovered, RestoreCellCovered, PutSparse
<1> QED BY <1>2, WithCells DEF RestoreRegister

LEMMA SetRegisterOriginType ==
  ASSUME NEW s \in State, NEW reg \in Registers, NEW mask \in SUBSET Bits, NEW kind
  PROVE  SetRegisterOrigin(s, reg, mask, kind) \in State
<1>1. s.Origins \in [Registers -> OriginBits]
  BY DEF State
<1>2. [s.Origins EXCEPT ![reg] = MarkOrigin(s.Origins[reg], mask, kind)]
        \in [Registers -> OriginBits]
  BY <1>1, MarkOriginType
<1> QED BY <1>2, WithOrigins DEF SetRegisterOrigin

LEMMA DefineOriginType ==
  ASSUME NEW s \in State, NEW reg \in Registers, NEW mask \in SUBSET Bits, NEW kind, NEW float
  PROVE  DefineOrigin(s, reg, mask, kind, float) \in State
<1> DEFINE marked == SetRegisterOrigin(s, reg, mask, kind)
<1>1. marked \in State
  BY SetRegisterOriginType
<1>2. marked.Origins \in [Registers -> OriginBits]
  BY <1>1 DEF State
<1>3. [marked.Origins EXCEPT ![reg] = MarkFloatWrite(marked.Origins[reg], mask, float)]
        \in [Registers -> OriginBits]
  BY <1>2, MarkFloatWriteType
<1>4. [marked EXCEPT !.Origins =
         [marked.Origins EXCEPT ![reg] = MarkFloatWrite(marked.Origins[reg], mask, float)]]
        \in State
  BY <1>1, <1>3, WithOrigins
<1> QED BY <1>1, <1>4 DEF DefineOrigin

LEMMA SetOriginType ==
  ASSUME NEW s \in State, NEW val \in Values, NEW reg \in Registers, NEW mask \in SUBSET Bits
  PROVE  SetOrigin(s, val, reg, mask) \in State
<1>1. s.ValueOrigins \in Sparse(Values, ValueOrigin)
  BY DEF State
<1>2. [Base |-> reg, Mask |-> mask] \in ValueOrigin
  BY DEF ValueOrigin
<1>3. Put(s.ValueOrigins, val, [Base |-> reg, Mask |-> mask]) \in Sparse(Values, ValueOrigin)
  BY <1>1, <1>2, PutSparse
<1> QED BY <1>3, WithValueOrigins DEF SetOrigin

LEMMA DropOriginType ==
  ASSUME NEW s \in State, NEW val
  PROVE  DropOrigin(s, val) \in State
<1>1. s.ValueOrigins \in Sparse(Values, ValueOrigin)
  BY DEF State
<1>2. Drop(s.ValueOrigins, val) \in Sparse(Values, ValueOrigin)
  BY <1>1, DropSparse
<1> QED BY <1>2, WithValueOrigins DEF DropOrigin

(* A recognised origin names a register and bits of it.                     *)
LEMMA OriginOfValue ==
  ASSUME NEW s \in State, NEW src, HasEntryOrigin(s, src)
  PROVE  s.ValueOrigins[src].Base \in Registers /\ s.ValueOrigins[src].Mask \in SUBSET Bits
<1>1. s.ValueOrigins \in Sparse(Values, ValueOrigin)
  BY DEF State
<1>2. s.ValueOrigins[src] \in ValueOrigin
  BY <1>1, SparseFacts DEF HasEntryOrigin
<1> QED BY <1>2 DEF ValueOrigin

LEMMA MarkEntryValueReadType ==
  ASSUME NEW s \in State, NEW src, NEW off
  PROVE  MarkEntryValueRead(s, src, off) \in State
BY OriginOfValue, ReadRegisterType DEF MarkEntryValueRead

-----------------------------------------------------------------------------
(* Instructions other than calls.                                           *)

LEMMA TransferLoadType ==
  ASSUME NEW s \in State, NEW i, i.reg \in Registers, i.val \in Values
  PROVE  TransferLoad(i, s) \in State
<1> DEFINE read == IF i.reg \notin Ignored /\ ~i.keep /\ ~PureEntry(CellIn(s.Cells, i.reg))
                   THEN ReadRegister(s, i.reg, Bits) ELSE s
<1>1. read \in State
  BY ReadRegisterType
<1>2. DropOrigin(read, i.val) \in State /\ SetOrigin(read, i.val, i.reg, Bits) \in State
  BY <1>1, DropOriginType, SetOriginType
<1> QED BY <1>1, <1>2 DEF TransferLoad

LEMMA TransferStoreType ==
  ASSUME NEW s \in State, NEW i, i.reg \in Registers
  PROVE  TransferStore(i, s) \in State
<1> DEFINE read == MarkEntryValueRead(s, i.src, i.off)
           mixed == WriteRegister(s, i.reg, Bits)
           written == WriteRegister(read, i.reg, Bits)
           restored == RestoreRegister(s, i.reg, s.ValueOrigins[i.src].Mask)
<1>1. read \in State /\ mixed \in State
  BY MarkEntryValueReadType, WriteRegisterType
<1>2. written \in State
  BY <1>1, WriteRegisterType
<1>3. HasEntryOrigin(s, i.src) => restored \in State
  BY OriginOfValue, RestoreRegisterType
<1>4. SetRegisterOrigin(mixed, i.reg, Bits, "Mixed") \in State
  BY <1>1, SetRegisterOriginType
<1>5. DefineOrigin(written, i.reg, Bits, StoredKind(read, i.src), i.float) \in State
  BY <1>2, DefineOriginType
<1>6. HasEntryOrigin(s, i.src) => SetRegisterOrigin(restored, i.reg, Bits, "Entry") \in State
  BY <1>3, SetRegisterOriginType
<1> QED BY <1>4, <1>5, <1>6 DEF TransferStore

LEMMA TransferReloadType ==
  ASSUME NEW s \in State, NEW i, i.val \in Values, NEW adjust
  PROVE  TransferReload(i, s, adjust) \in State
<1>1. s.StackSlots \in Sparse(Slots, Registers)
  BY DEF State
<1>2. i.slot \in DOMAIN s.StackSlots => s.StackSlots[i.slot] \in Registers
  BY <1>1, SparseFacts
<1> QED BY <1>2, SetOriginType, DropOriginType DEF TransferReload

LEMMA TransferSpillType ==
  ASSUME NEW s \in State, NEW i, i.slot \in Slots, NEW adjust
  PROVE  TransferSpill(i, s, adjust) \in State
<1> DEFINE read == MarkEntryValueRead(s, i.src, i.off)
           origin == IF HasEntryOrigin(s, i.src) THEN "ForwardedEntry" ELSE "LocalDefinition"
<1>1. read \in State
  BY MarkEntryValueReadType
<1>2. /\ s.StackSlots \in Sparse(Slots, Registers)
      /\ s.StackSlotOrigins \in Sparse(Slots, SlotOrigins)
      /\ read.StackSlots \in Sparse(Slots, Registers)
      /\ read.StackSlotOrigins \in Sparse(Slots, SlotOrigins)
  BY <1>1 DEF State
<1>3. origin \in SlotOrigins /\ "ForwardedEntry" \in SlotOrigins
  BY DEF SlotOrigins
<1>4. /\ Drop(s.StackSlots, i.slot) \in Sparse(Slots, Registers)
      /\ Drop(s.StackSlotOrigins, i.slot) \in Sparse(Slots, SlotOrigins)
      /\ Drop(read.StackSlots, i.slot) \in Sparse(Slots, Registers)
  BY <1>2, DropSparse
<1>5. /\ Put(s.StackSlotOrigins, i.slot, "ForwardedEntry") \in Sparse(Slots, SlotOrigins)
      /\ Put(read.StackSlotOrigins, i.slot, origin) \in Sparse(Slots, SlotOrigins)
  BY <1>2, <1>3, PutSparse
<1>6. HasEntryOrigin(s, i.src) =>
        Put(s.StackSlots, i.slot, s.ValueOrigins[i.src].Base) \in Sparse(Slots, Registers)
  BY <1>2, OriginOfValue, PutSparse
<1>7. [s EXCEPT !.StackSlots = Drop(s.StackSlots, i.slot),
                !.StackSlotOrigins = Drop(s.StackSlotOrigins, i.slot)] \in State
  BY <1>4, WithSlots
<1>8. HasEntryOrigin(s, i.src) =>
        [s EXCEPT !.StackSlots = Put(s.StackSlots, i.slot, s.ValueOrigins[i.src].Base),
                  !.StackSlotOrigins = Put(s.StackSlotOrigins, i.slot, "ForwardedEntry")]
          \in State
  BY <1>5, <1>6, WithSlots
<1>9. [read EXCEPT !.StackSlots = Drop(read.StackSlots, i.slot),
                   !.StackSlotOrigins = Put(read.StackSlotOrigins, i.slot, origin)] \in State
  BY <1>1, <1>4, <1>5, WithSlots
<1> QED BY <1>7, <1>8, <1>9 DEF TransferSpill

LEMMA TransferPartialReadType ==
  ASSUME NEW s \in State, NEW i, i.reg \in Registers, i.val \in Values, i.mask \in SUBSET Bits
  PROVE  TransferPartialRead(i, s) \in State
<1> DEFINE read == ReadRegister(s, i.reg, i.mask)
<1>1. read \in State
  BY ReadRegisterType
<1> QED BY <1>1, SetOriginType, DropOriginType DEF TransferPartialRead

LEMMA TransferPartialWriteType ==
  ASSUME NEW s \in State, NEW i, i.reg \in Registers, i.mask \in SUBSET Bits
  PROVE  TransferPartialWrite(i, s) \in State
<1> DEFINE read == MarkEntryValueRead(s, i.src, i.off)
           mask == IF i.low32 THEN Bits ELSE i.mask
<1>1. read \in State /\ mask \in SUBSET Bits
  BY MarkEntryValueReadType
<1>2. WriteRegister(read, i.reg, mask) \in State
  BY <1>1, WriteRegisterType
<1>3. DefineOrigin(WriteRegister(read, i.reg, mask), i.reg, mask,
                   StoredKind(read, i.src), i.float) \in State
  BY <1>1, <1>2, DefineOriginType
<1> QED BY <1>3 DEF TransferPartialWrite

-----------------------------------------------------------------------------
(* Calls.                                                                   *)

\* A map of cells made from another, register by register, has covered cells.
LEMMA CellMap ==
  ASSUME NEW D \in SUBSET Registers, NEW cells, DOMAIN cells = D,
         cells = [r \in D |-> cells[r]], \A r \in D : cells[r] \in CoveredCell
  PROVE  cells \in Sparse(Registers, CoveredCell)
BY SparseIntro

LEMMA ReadInputsType ==
  ASSUME NEW s \in State, NEW masks, DOMAIN masks \subseteq Registers
  PROVE  ReadInputs(s, masks) \in State
<1> DEFINE read == {r \in DOMAIN masks \ Ignored : masks[r] # {}}
           cells == [r \in DOMAIN s.Cells \cup read |->
                       IF r \in read THEN ReadCell(CellIn(s.Cells, r), masks[r])
                       ELSE CellIn(s.Cells, r)]
<1>1. s.Cells \in Sparse(Registers, CoveredCell)
  BY DEF State
<1>2. DOMAIN s.Cells \cup read \in SUBSET Registers
  BY <1>1, SparseFacts
<1>3. \A r \in DOMAIN s.Cells \cup read : cells[r] \in CoveredCell
  BY <1>1, CellInCovered, ReadCellCovered
<1>4. cells \in Sparse(Registers, CoveredCell)
  BY <1>2, <1>3, CellMap
<1> QED BY <1>4, WithCells DEF ReadInputs

LEMMA AbiCallClobbersType ==
  ASSUME NEW s \in State
  PROVE  AbiCallClobbers(s) \in State
<1> DEFINE cells == [r \in DOMAIN s.Cells \cup Clobbered |->
                       IF r \in Clobbered THEN WriteCell(CellIn(s.Cells, r), Bits)
                       ELSE CellIn(s.Cells, r)]
           origins == [r \in Registers |->
                         IF r \in Clobbered THEN MarkOrigin(s.Origins[r], Bits, "CallClobber")
                         ELSE s.Origins[r]]
<1>1. s.Cells \in Sparse(Registers, CoveredCell) /\ s.Origins \in [Registers -> OriginBits]
  BY DEF State
<1>2. DOMAIN s.Cells \cup Clobbered \in SUBSET Registers
  BY <1>1, SparseFacts DEF Clobbered
<1>3. \A r \in DOMAIN s.Cells \cup Clobbered : cells[r] \in CoveredCell
  BY <1>1, CellInCovered, WriteCellCovered
<1>4. cells \in Sparse(Registers, CoveredCell)
  BY <1>2, <1>3, CellMap
<1>5. origins \in [Registers -> OriginBits]
  BY <1>1, MarkOriginType
<1>6. [[s EXCEPT !.Cells = cells] EXCEPT !.Origins = origins] \in State
  BY <1>4, <1>5, WithCells, WithOrigins
<1>7. [[s EXCEPT !.Cells = cells] EXCEPT !.Origins = origins] = AbiCallClobbers(s)
  BY DEF AbiCallClobbers, State
<1> QED BY <1>6, <1>7

LEMMA ApplyFunctionEffectType ==
  ASSUME NEW s \in State, NEW told \in FunctionEffect
  PROVE  ApplyFunctionEffect(told, s) \in State
<1> DEFINE visible == VisibleRegisters
           callee(r) == CellIn(told.Registers, r)
           cells == [r \in DOMAIN s.Cells \cup visible |->
                       IF r \in visible THEN ThroughCall(CellIn(s.Cells, r), callee(r))
                       ELSE CellIn(s.Cells, r)]
           origins == [r \in Registers |->
                         IF r \in visible THEN CallOrigin(s.Origins[r], callee(r))
                         ELSE s.Origins[r]]
<1>1. /\ s.Cells \in Sparse(Registers, CoveredCell)
      /\ s.Origins \in [Registers -> OriginBits]
      /\ told.Registers \in Sparse(Registers, CoveredCell)
  BY DEF State, FunctionEffect
<1>2. DOMAIN s.Cells \cup visible \in SUBSET Registers
  BY <1>1, SparseFacts DEF VisibleRegisters
<1>3. \A r \in DOMAIN s.Cells \cup visible : cells[r] \in CoveredCell
  BY <1>1, CellInCovered, ThroughCallCovered
<1>4. cells \in Sparse(Registers, CoveredCell)
  BY <1>2, <1>3, CellMap
<1>5. origins \in [Registers -> OriginBits]
  BY <1>1, MarkOriginType DEF CallOrigin
<1>6. [[s EXCEPT !.Cells = cells] EXCEPT !.Origins = origins] \in State
  BY <1>4, <1>5, WithCells, WithOrigins
<1>7. [[s EXCEPT !.Cells = cells] EXCEPT !.Origins = origins] = ApplyFunctionEffect(told, s)
  BY DEF ApplyFunctionEffect, State
<1> QED BY <1>6, <1>7

LEMMA EndCallType ==
  ASSUME NEW s \in State, NEW noReturn
  PROVE  EndCall(s, noReturn) \in State
BY EmptySparse DEF EndCall, ConsumeStackArgEvidence, MarkNoReturnExit, State

LEMMA TransferCallType ==
  ASSUME NEW s \in State, NEW c \in Callees
  PROVE  TransferCall(c, s) \in State
<1>1. CASE c.kind = "shape"
  <2>1. DOMAIN c.inputs \subseteq Registers
    BY <1>1, SparseFacts DEF Callees, ShapeCallees, SummaryCallees, ExternalCallees
  <2>2. ExternalCallEffect(s, c.inputs) \in State
    BY <2>1, ReadInputsType, AbiCallClobbersType DEF ExternalCallEffect
  <2> QED BY <1>1, <2>2, EndCallType DEF TransferCall
<1>2. CASE c.kind = "summary"
  <2>1. c.effect \in FunctionEffect
    BY <1>2 DEF Callees, ShapeCallees, SummaryCallees, ExternalCallees
  <2>2. ApplyFunctionEffect(c.effect, s) \in State
    BY <2>1, ApplyFunctionEffectType
  <2> QED BY <1>2, <2>2, EndCallType DEF TransferCall
<1>3. CASE c.kind = "external"
  <2>1. DOMAIN AbiInputMasks \subseteq Registers
    BY RegisterSetsAssumption DEF AbiInputMasks
  <2>2. UnknownExternalCallEffect(s) \in State
    BY <2>1, ReadInputsType, AbiCallClobbersType DEF UnknownExternalCallEffect
  <2> QED BY <1>3, <2>2, EndCallType DEF TransferCall
<1> QED BY <1>1, <1>2, <1>3 DEF Callees, ShapeCallees, SummaryCallees, ExternalCallees

(* Every instruction takes a state to a state: cells stay covered.          *)
THEOREM TransferInstructionType ==
  ASSUME NEW s \in State, NEW i \in Instructions, NEW adjust
  PROVE  TransferInstruction(i, s, adjust) \in State
<1> USE DEF Instructions, RegisterLoads, RegisterStores, SlotLoads, SlotStores,
            PartialReads, PartialWrites, OtherUses, AnalysableCalls
<1>1. CASE i.op = "load"
  <2>1. i.reg \in Registers /\ i.val \in Values
    BY <1>1
  <2> QED BY <1>1, <2>1, TransferLoadType DEF TransferInstruction
<1>2. CASE i.op = "store"
  <2>1. i.reg \in Registers
    BY <1>2
  <2> QED BY <1>2, <2>1, TransferStoreType DEF TransferInstruction
<1>3. CASE i.op = "reload"
  <2>1. i.val \in Values
    BY <1>3
  <2> QED BY <1>3, <2>1, TransferReloadType DEF TransferInstruction
<1>4. CASE i.op = "spill"
  <2>1. i.slot \in Slots
    BY <1>4
  <2> QED BY <1>4, <2>1, TransferSpillType DEF TransferInstruction
<1>5. CASE i.op = "pread"
  <2>1. i.reg \in Registers /\ i.val \in Values /\ i.mask \in SUBSET Bits
    BY <1>5
  <2> QED BY <1>5, <2>1, TransferPartialReadType DEF TransferInstruction
<1>6. CASE i.op = "pwrite"
  <2>1. i.reg \in Registers /\ i.mask \in SUBSET Bits
    BY <1>6
  <2> QED BY <1>6, <2>1, TransferPartialWriteType DEF TransferInstruction
<1>7. CASE i.op = "use"
  BY <1>7, MarkEntryValueReadType DEF TransferInstruction
<1>8. CASE i.op = "call"
  <2>1. i.callee \in Callees
    BY <1>8
  <2> QED BY <1>8, <2>1, TransferCallType DEF TransferInstruction
<1>9. i.op \in {"load", "store", "reload", "spill", "pread", "pwrite", "use", "call"}
  OBVIOUS
<1> QED BY <1>1, <1>2, <1>3, <1>4, <1>5, <1>6, <1>7, <1>8, <1>9

-----------------------------------------------------------------------------
(* The join of states.                                                      *)

LEMMA AgreementSparse ==
  ASSUME NEW S, NEW T, NEW maps \in SUBSET Sparse(S, T), maps # {}
  PROVE  Agreement(maps) \in Sparse(S, T)
<1> DEFINE common == {k \in UNION {DOMAIN m : m \in maps} :
                        \A m, n \in maps : k \in DOMAIN m /\ m[k] = n[k]}
           some == CHOOSE m \in maps : TRUE
<1>1. some \in maps
  OBVIOUS
<1>2. \A k \in common : k \in DOMAIN some
  BY <1>1
<1>3. DOMAIN some \subseteq S /\ \A k \in DOMAIN some : some[k] \in T
  BY <1>1, SparseFacts
<1>4. common \in SUBSET S
  BY <1>2, <1>3
<1>5. [k \in common |-> some[k]] \in [common -> T]
  BY <1>2, <1>3
<1>6. Agreement(maps) = [k \in common |-> some[k]]
  BY Zenon DEF Agreement
<1> QED BY <1>4, <1>5, <1>6, SparseIntro

LEMMA AgreedBitsType ==
  ASSUME NEW states, NEW reg
  PROVE  AgreedBits(states, reg) \in OriginBits
BY DEF AgreedBits, OriginBits

LEMMA JoinStatesType ==
  ASSUME NEW states \in SUBSET State
  PROVE  JoinStates(states) \in State
<1> DEFINE R == {s \in states : s.Reachable}
           touched == UNION {DOMAIN s.Cells : s \in R}
           joined(r) == JoinCells({CellIn(s.Cells, r) : s \in R})
           cells == [r \in touched |-> joined(r)]
<1>1. CASE R = {}
  BY <1>1, InitialStateType DEF JoinStates
<1>2. CASE R # {}
  <2>1. \A s \in R : /\ s.Cells \in Sparse(Registers, CoveredCell)
                     /\ s.StackSlots \in Sparse(Slots, Registers)
                     /\ s.StackSlotOrigins \in Sparse(Slots, SlotOrigins)
                     /\ s.ValueOrigins \in Sparse(Values, ValueOrigin)
    BY DEF State
  <2>2. \A r : joined(r) \in CoveredCell
    <3> TAKE r
    <3>1. {CellIn(s.Cells, r) : s \in R} \in SUBSET CoveredCell
      BY <2>1, CellInCovered
    <3>2. {CellIn(s.Cells, r) : s \in R} # {}
      BY <1>2
    <3> HIDE DEF R
    <3> QED BY <3>1, <3>2, JoinCellsCovered
  <2>3. touched \in SUBSET Registers
    BY <2>1, SparseFacts
  <2>4. cells \in Sparse(Registers, CoveredCell)
    <3> HIDE DEF touched, joined
    <3> QED BY <2>2, <2>3, SparseIntro
  <2>5. [r \in Registers |-> AgreedBits(R, r)] \in [Registers -> OriginBits]
    BY AgreedBitsType
  <2>6. Agreement({s.StackSlots : s \in R}) \in Sparse(Slots, Registers)
    <3>1. {s.StackSlots : s \in R} \in SUBSET Sparse(Slots, Registers)
      BY <2>1
    <3>2. {s.StackSlots : s \in R} # {}
      BY <1>2
    <3> QED BY <3>1, <3>2, AgreementSparse
  <2>7. Agreement({s.StackSlotOrigins : s \in R}) \in Sparse(Slots, SlotOrigins)
    <3>1. {s.StackSlotOrigins : s \in R} \in SUBSET Sparse(Slots, SlotOrigins)
      BY <2>1
    <3>2. {s.StackSlotOrigins : s \in R} # {}
      BY <1>2
    <3> QED BY <3>1, <3>2, AgreementSparse
  <2>8. Agreement({s.ValueOrigins : s \in R}) \in Sparse(Values, ValueOrigin)
    <3>1. {s.ValueOrigins : s \in R} \in SUBSET Sparse(Values, ValueOrigin)
      BY <2>1
    <3>2. {s.ValueOrigins : s \in R} # {}
      BY <1>2
    <3> QED BY <3>1, <3>2, AgreementSparse
  <2>9. JoinStates(states) =
          [Reachable |-> TRUE, EndsInNoReturn |-> FALSE, Cells |-> cells,
           Origins |-> [r \in Registers |-> AgreedBits(R, r)],
           StackSlots |-> Agreement({s.StackSlots : s \in R}),
           StackSlotOrigins |-> Agreement({s.StackSlotOrigins : s \in R}),
           ValueOrigins |-> Agreement({s.ValueOrigins : s \in R})]
    BY <1>2, Zenon DEF JoinStates
  <2> HIDE DEF R, cells
  <2> QED BY <2>4, <2>5, <2>6, <2>7, <2>8, <2>9 DEF State
<1> QED BY <1>1, <1>2

-----------------------------------------------------------------------------
(* The exits.                                                               *)

LEMMA ExitStateType ==
  ASSUME NEW s \in State
  PROVE  ExitState(s) \in State
<1> DEFINE saved == {s.StackSlots[k] : k \in DOMAIN s.StackSlots}
           back == {r \in Unaffected \ (Ignored \cup {StackPointer}) :
                      r \in saved /\ CellIn(s.Cells, r).MayNonEntry # {}}
           cells == [r \in DOMAIN s.Cells |->
                       IF r \in back THEN RestoreCell(s.Cells[r], Bits) ELSE s.Cells[r]]
<1>1. s.Cells \in Sparse(Registers, CoveredCell)
  BY DEF State
<1>2. DOMAIN s.Cells \in SUBSET Registers
  BY <1>1, SparseFacts
<1>3. \A r \in DOMAIN s.Cells : s.Cells[r] \in CoveredCell
  BY <1>1, SparseFacts
<1>4. \A r \in DOMAIN s.Cells : RestoreCell(s.Cells[r], Bits) \in CoveredCell
  BY <1>3, RestoreCellCovered
<1>5. cells \in Sparse(Registers, CoveredCell)
  BY <1>2, <1>3, <1>4, CellMap
<1>6. ExitState(s) = [s EXCEPT !.Cells = cells]
  BY DEF ExitState
<1> HIDE DEF cells
<1> QED BY <1>5, <1>6, WithCells

LEMMA NoReturnReadsType ==
  ASSUME NEW states \in SUBSET State
  PROVE  NoReturnReads(states) \in Sparse(Registers, CoveredCell)
<1> DEFINE readIn(r) == UNION {CellIn(s.Cells, r).ReadEntry : s \in states}
           D == {q \in Registers : readIn(q) # {}}
           cells == [r \in D |-> [DefaultCell EXCEPT !.ReadEntry = readIn(r)]]
<1>1. \A s \in states : \A r : CellIn(s.Cells, r).ReadEntry \subseteq Bits
  BY CellInCovered DEF State, CoveredCell, Cell
<1>2. \A r : readIn(r) \in SUBSET Bits
  BY <1>1
<1> HIDE DEF readIn
<1>3. \A r : [DefaultCell EXCEPT !.ReadEntry = readIn(r)] \in CoveredCell
  BY <1>2 DEF DefaultCell, CoveredCell, Cell, Covered
<1>4. cells \in Sparse(Registers, CoveredCell)
  BY <1>3, CellMap
<1>5. NoReturnReads(states) = cells
  BY Zenon DEF NoReturnReads, readIn
<1> QED BY <1>4, <1>5

LEMMA EffectOfType ==
  ASSUME NEW returns \in SUBSET State, NEW noReturns \in SUBSET State
  PROVE  EffectOf(returns, noReturns) \in FunctionEffect
<1> DEFINE exits == JoinStates({ExitState(s) : s \in returns})
           reads == NoReturnReads(noReturns)
           withReads(r) ==
             [CellIn(exits.Cells, r) EXCEPT !.ReadEntry =
                @ \cup (IF r \in DOMAIN reads THEN reads[r].ReadEntry ELSE {})]
           cells == [r \in DOMAIN exits.Cells \cup DOMAIN reads |-> withReads(r)]
<1>1. exits \in State
  <2>1. {ExitState(s) : s \in returns} \in SUBSET State
    BY ExitStateType
  <2> QED BY <2>1, JoinStatesType
<1>2. reads \in Sparse(Registers, CoveredCell)
  BY NoReturnReadsType
<1> HIDE DEF exits, reads
<1>3. exits.Cells \in Sparse(Registers, CoveredCell)
  BY <1>1 DEF State
<1>4. \A r : CellIn(exits.Cells, r) \in CoveredCell
  BY <1>3, CellInCovered
<1>5. \A r \in DOMAIN reads : reads[r].ReadEntry \subseteq Bits
  BY <1>2, SparseFacts DEF CoveredCell, Cell
<1>6. \A r : withReads(r) \in CoveredCell
  BY <1>4, <1>5 DEF CoveredCell, Cell, Covered
<1>7. DOMAIN exits.Cells \cup DOMAIN reads \in SUBSET Registers
  BY <1>2, <1>3, SparseFacts
<1>8. cells \in Sparse(Registers, CoveredCell)
  BY <1>6, <1>7, CellMap
<1>9. EffectOf(returns, noReturns) =
        IF exits.Reachable THEN [Registers |-> cells, NoReturn |-> FALSE]
        ELSE IF noReturns # {} THEN [Registers |-> reads, NoReturn |-> TRUE]
        ELSE NoEffect
  BY Zenon DEF EffectOf, exits, reads
<1>10. NoEffect \in FunctionEffect
  BY EmptySparse DEF NoEffect, FunctionEffect
<1> HIDE DEF cells
<1> QED BY <1>2, <1>8, <1>9, <1>10 DEF FunctionEffect

-----------------------------------------------------------------------------
(* The solver's steps.                                                      *)

LEMMA ProgramShape ==
  ASSUME NEW p \in Programs
  PROVE  /\ p.order \in Seq(BlocksOf(p)) /\ p.order # <<>>
         /\ EntryOf(p) \in BlocksOf(p)
         /\ \A b \in BlocksOf(p) : /\ p.succ[b] \in Seq(BlocksOf(p))
                                  /\ p.code[b] \in Seq(Instructions)
         /\ p.returns \subseteq BlocksOf(p)
         /\ NoBlock \notin BlocksOf(p)
<1>1. IsProgram(p)
  BY ProgramsAssumption
<1>2. BlocksOf(p) = {p.order[n] : n \in DOMAIN p.order}
  BY DEF BlocksOf, SeqSet
<1> HIDE DEF BlocksOf
<1>3. p.order \in Seq(BlocksOf(p)) /\ p.order # <<>>
  BY <1>1, <1>2 DEF IsProgram
<1>4. Head(p.order) \in BlocksOf(p)
  BY <1>3
<1> QED BY <1>1, <1>2, <1>3, <1>4 DEF IsProgram, EntryOf, NoBlock

LEMMA PruneBlockLocalType ==
  ASSUME NEW p, NEW b, NEW s \in State
  PROVE  PruneBlockLocal(p, b, s) \in State
<1> DEFINE kept == DOMAIN s.ValueOrigins \ (DefinedIn(p, b) \ CrossBlockValues(p))
           origins == [v \in kept |-> s.ValueOrigins[v]]
<1>1. s.ValueOrigins \in Sparse(Values, ValueOrigin)
  BY DEF State
<1>2. kept \in SUBSET Values /\ \A v \in kept : s.ValueOrigins[v] \in ValueOrigin
  BY <1>1, SparseFacts
<1> HIDE DEF kept
<1>3. origins \in Sparse(Values, ValueOrigin)
  BY <1>2, SparseIntro
<1>4. PruneBlockLocal(p, b, s) = [s EXCEPT !.ValueOrigins = origins]
  BY DEF PruneBlockLocal, kept
<1> HIDE DEF origins
<1> QED BY <1>3, <1>4, WithValueOrigins

LEMMA EntryInputType ==
  ASSUME NEW p, NEW b, NEW results \in [BlocksOf(p) -> State]
  PROVE  EntryInput(p, b, results) \in State
<1>1. {results[q] : q \in PredsOf(p, b)} \in SUBSET State
  BY DEF PredsOf
<1> QED BY <1>1, JoinStatesType, InitialStateType DEF EntryInput

LEMMA InitTypeOK == Init => TypeOK
<1> SUFFICES ASSUME Init PROVE TypeOK
  OBVIOUS
<1>1. prog \in Programs /\ worklist \in Seq(BlocksOf(prog))
  BY ProgramShape DEF Init
<1>2. in \in [BlocksOf(prog) -> State] /\ out \in [BlocksOf(prog) -> State]
  BY InitialStateType DEF Init
<1>3. pending \in Seq(BlocksOf(prog)) /\ current \in BlocksOf(prog) \cup {NoBlock}
  BY DEF Init
<1>4. state \in State /\ effect \in FunctionEffect
  BY InitialStateType, EmptySparse DEF Init, NoEffect, FunctionEffect
<1>5. pc \in Nat /\ pc >= 1
  BY DEF Init
<1>6. phase \in {"solve", "done"}
  BY DEF Init
<1> QED BY <1>1, <1>2, <1>3, <1>4, <1>5, <1>6, Zenon DEF TypeOK

LEMMA PopBlockType == TypeOK /\ PopBlock => TypeOK'
<1> SUFFICES ASSUME TypeOK, PopBlock PROVE TypeOK'
  OBVIOUS
<1> DEFINE b == Head(worklist)
<1>1. b \in BlocksOf(prog) /\ Tail(worklist) \in Seq(BlocksOf(prog))
  BY DEF TypeOK, PopBlock
<1>2. EntryInput(prog, b, out) \in State
  BY EntryInputType DEF TypeOK
<1>3. in' \in [BlocksOf(prog) -> State]
  BY <1>1, <1>2 DEF TypeOK, PopBlock
<1> QED BY <1>1, <1>2, <1>3 DEF TypeOK, PopBlock

LEMMA TransferNextType == TypeOK /\ TransferNext => TypeOK'
<1> SUFFICES ASSUME TypeOK, TransferNext PROVE TypeOK'
  OBVIOUS
<1>1. current \in BlocksOf(prog) /\ prog \in Programs /\ pc \in Nat /\ pc >= 1
  BY DEF TypeOK, TransferNext
<1>2. prog.code[current] \in Seq(Instructions)
  BY <1>1, ProgramShape
<1>3. prog.code[current][pc] \in Instructions
  BY <1>1, <1>2 DEF TransferNext
<1>4. state' \in State
  <2>1. state \in State
    BY DEF TypeOK
  <2>2. TransferInstruction(prog.code[current][pc], state, prog.adjust) \in State
    BY <1>3, <2>1, TransferInstructionType
  <2> QED BY <2>2 DEF TransferNext
<1> QED BY <1>1, <1>4 DEF TypeOK, TransferNext

LEMMA StoreResultType == TypeOK /\ StoreResult => TypeOK'
<1> SUFFICES ASSUME TypeOK, StoreResult PROVE TypeOK'
  OBVIOUS
<1> DEFINE result == IF in[current].Reachable
                     THEN PruneBlockLocal(prog, current, state) ELSE state
<1>1. current \in BlocksOf(prog) /\ prog \in Programs
  BY DEF TypeOK, StoreResult
<1>2. result \in State
  BY PruneBlockLocalType DEF TypeOK
<1>3. out' = [out EXCEPT ![current] = result]
  BY DEF StoreResult
<1> HIDE DEF result
<1>4. out' \in [BlocksOf(prog) -> State]
  BY <1>2, <1>3 DEF TypeOK
<1>5. pending' = <<>> \/ pending' = prog.succ[current]
  BY DEF StoreResult
<1>6. pending' \in Seq(BlocksOf(prog))
  <2>1. prog.succ[current] \in Seq(BlocksOf(prog))
    BY <1>1, ProgramShape
  <2> QED BY <1>5, <2>1, EmptySeq
<1>7. state' \in State
  BY InitialStateType DEF StoreResult
<1>8. pc' \in Nat /\ pc' >= 1
  BY DEF StoreResult
<1>9. current' \in BlocksOf(prog) \cup {NoBlock}
  BY DEF StoreResult
<1>10. UNCHANGED <<prog, worklist, in, effect, phase>>
  BY DEF StoreResult
<1> QED BY <1>4, <1>6, <1>7, <1>8, <1>9, <1>10 DEF TypeOK

LEMMA EnqueueNextType == TypeOK /\ EnqueueNext => TypeOK'
<1> SUFFICES ASSUME TypeOK, EnqueueNext PROVE TypeOK'
  OBVIOUS
<1>1. Head(pending) \in BlocksOf(prog) /\ Tail(pending) \in Seq(BlocksOf(prog))
  BY DEF TypeOK, EnqueueNext
<1>2. worklist' \in Seq(BlocksOf(prog))
  BY <1>1 DEF TypeOK, EnqueueNext
<1> QED BY <1>1, <1>2 DEF TypeOK, EnqueueNext

LEMMA CollectExitsType == TypeOK /\ CollectExits => TypeOK'
<1> SUFFICES ASSUME TypeOK, CollectExits PROVE TypeOK'
  OBVIOUS
<1> DEFINE returns == {out[b] : b \in prog.returns}
           noReturns == {out[b] : b \in {c \in BlocksOf(prog) : out[c].EndsInNoReturn}}
<1>1. returns \in SUBSET State /\ noReturns \in SUBSET State
  BY ProgramShape DEF TypeOK
<1>2. effect' = EffectOf(returns, noReturns)
  BY DEF CollectExits
<1> HIDE DEF returns, noReturns
<1>3. effect' \in FunctionEffect
  BY <1>1, <1>2, EffectOfType
<1> QED BY <1>3 DEF TypeOK, CollectExits

(* Whatever the function, the registers and the options, everything the     *)
(* solver holds has its type; every register cell of every block result and *)
(* of the published effect accounts for each of its bits.                   *)
THEOREM SummaryTypes == Spec => []TypeOK
<1>1. TypeOK /\ [Next]_vars => TypeOK'
  <2> SUFFICES ASSUME TypeOK, [Next]_vars PROVE TypeOK'
    OBVIOUS
  <2>1. CASE PopBlock BY <2>1, PopBlockType
  <2>2. CASE TransferNext BY <2>2, TransferNextType
  <2>3. CASE StoreResult BY <2>3, StoreResultType
  <2>4. CASE EnqueueNext BY <2>4, EnqueueNextType
  <2>5. CASE CollectExits BY <2>5, CollectExitsType
  <2>6. CASE UNCHANGED vars BY <2>6 DEF TypeOK, vars
  <2> QED BY <2>1, <2>2, <2>3, <2>4, <2>5, <2>6 DEF Next
<1> QED BY <1>1, InitTypeOK, PTL DEF Spec

-----------------------------------------------------------------------------
(* What a visit computes.  AfterEach is a recursive definition: any sequence *)
(* of states that starts at s and goes on one instruction at a time is its   *)
(* value, since two such sequences cannot have a first difference.           *)

\* The state sequence t follows the block b of p from s.
Follows(p, b, s, t) ==
  t = [n \in 0..Len(p.code[b]) |->
         IF n = 0 THEN s
         ELSE IF t[n-1].Reachable
              THEN TransferInstruction(p.code[b][n], t[n-1], p.adjust)
              ELSE t[n-1]]

LEMMA LeastNumber ==
  ASSUME NEW T, T \subseteq Nat, T # {}
  PROVE  \E x \in T : \A y \in T : x <= y
<1> DEFINE less == {pair \in Nat \X Nat : pair[1] < pair[2]}
<1>1. IsWellFoundedOn(less, Nat)
  BY NatLessThanWellFounded DEF OpToRel
<1> HIDE DEF less
<1>2. PICK x \in T : \A y \in T : <<y, x>> \notin less
  BY <1>1, WFMin, Zenon
<1>3. \A y \in T : y \in Nat /\ <<y, x>> \in Nat \X Nat
  OBVIOUS
<1>4. \A y \in T : ~(y < x)
  BY <1>2, <1>3 DEF less
<1> QED BY <1>3, <1>4

LEMMA FollowsUnique ==
  ASSUME NEW p, NEW b, NEW s, NEW t, NEW u, Len(p.code[b]) \in Nat,
         Follows(p, b, s, t), Follows(p, b, s, u)
  PROVE  t = u
<1> DEFINE D == 0..Len(p.code[b])
           next(x, n) == IF x[n-1].Reachable
                         THEN TransferInstruction(p.code[b][n], x[n-1], p.adjust)
                         ELSE x[n-1]
           differ == {n \in D : t[n] # u[n]}
<1>1. /\ t = [n \in D |-> IF n = 0 THEN s ELSE next(t, n)]
      /\ u = [n \in D |-> IF n = 0 THEN s ELSE next(u, n)]
  BY DEF Follows
<1>2. \A n \in D : /\ t[n] = IF n = 0 THEN s ELSE next(t, n)
                   /\ u[n] = IF n = 0 THEN s ELSE next(u, n)
  <2> HIDE DEF D, next
  <2> QED BY <1>1, Zenon
<1>3. ASSUME differ # {} PROVE FALSE
  <2>1. differ \subseteq Nat
    OBVIOUS
  <2>2. PICK n \in differ : \A m \in differ : n <= m
    <3> HIDE DEF differ
    <3> QED BY <1>3, <2>1, LeastNumber
  <2>3. n \in D /\ t[n] # u[n]
    OBVIOUS
  <2>4. n # 0
    BY <1>2, <2>3
  <2>5. n - 1 \in D /\ n - 1 < n
    BY <2>3, <2>4
  <2>6. t[n-1] = u[n-1]
    BY <2>2, <2>5
  <2>7. next(t, n) = next(u, n)
    BY <2>6, Zenon
  <2> HIDE DEF D, next
  <2> QED BY <1>2, <2>3, <2>4, <2>7
<1>4. \A n \in D : t[n] = u[n]
  BY <1>3
<1> HIDE DEF D, next
<1> QED BY <1>1, <1>4, Zenon

LEMMA AfterEachIs ==
  ASSUME NEW p, NEW b, NEW s, NEW t, Len(p.code[b]) \in Nat, Follows(p, b, s, t)
  PROVE  AfterEach(p, b, s) = t
<1>1. AfterEach(p, b, s) = CHOOSE u : Follows(p, b, s, u)
  BY Zenon DEF AfterEach, Follows
<1>2. Follows(p, b, s, AfterEach(p, b, s))
  BY <1>1, Zenon
<1> QED BY <1>2, FollowsUnique

-----------------------------------------------------------------------------
(* The deque as a set.                                                      *)

LEMMA HeadAndTail ==
  ASSUME NEW S, NEW q \in Seq(S), q # <<>>
  PROVE  /\ Head(q) \in S /\ Tail(q) \in Seq(S)
         /\ SeqSet(q) = {Head(q)} \cup SeqSet(Tail(q))
         /\ NoneTwice(q) => NoneTwice(Tail(q)) /\ Head(q) \notin SeqSet(Tail(q))
<1>1. Head(q) \in S /\ Tail(q) \in Seq(S) /\ Head(q) = q[1]
  OBVIOUS
<1>2. Len(q) \in Nat /\ Len(q) > 0 /\ DOMAIN q = 1..Len(q)
  OBVIOUS
<1>3. DOMAIN Tail(q) = 1..(Len(q)-1) /\ \A n \in 1..(Len(q)-1) : Tail(q)[n] = q[n+1]
  BY <1>2
<1>4. SeqSet(q) = {Head(q)} \cup SeqSet(Tail(q))
  <2>1. ASSUME NEW n \in DOMAIN q PROVE q[n] \in {Head(q)} \cup SeqSet(Tail(q))
    <3>1. CASE n = 1 BY <3>1, <1>1
    <3>2. CASE n # 1
      <4>1. n - 1 \in DOMAIN Tail(q) /\ Tail(q)[n-1] = q[n]
        BY <3>2, <1>2, <1>3
      <4> QED BY <4>1 DEF SeqSet
    <3> QED BY <3>1, <3>2
  <2>2. ASSUME NEW n \in DOMAIN Tail(q) PROVE Tail(q)[n] \in SeqSet(q)
    <3>1. n + 1 \in DOMAIN q /\ Tail(q)[n] = q[n+1]
      BY <1>2, <1>3
    <3> QED BY <3>1 DEF SeqSet
  <2>3. Head(q) \in SeqSet(q)
    BY <1>1, <1>2 DEF SeqSet
  <2> QED BY <2>1, <2>2, <2>3 DEF SeqSet
<1>5. ASSUME NoneTwice(q) PROVE NoneTwice(Tail(q)) /\ Head(q) \notin SeqSet(Tail(q))
  <2>1. \A n \in DOMAIN Tail(q) : n + 1 \in DOMAIN q /\ n + 1 # 1 /\ Tail(q)[n] = q[n+1]
    BY <1>2, <1>3
  <2>2. NoneTwice(Tail(q))
    BY <2>1, <1>3, <1>5 DEF NoneTwice
  <2>3. 1 \in DOMAIN q
    BY <1>2
  <2>4. Head(q) \notin SeqSet(Tail(q))
    BY <2>1, <2>3, <1>1, <1>5 DEF NoneTwice, SeqSet
  <2> QED BY <2>2, <2>4
<1> QED BY <1>1, <1>4, <1>5

LEMMA Appended ==
  ASSUME NEW S, NEW q \in Seq(S), NEW x \in S
  PROVE  /\ SeqSet(Append(q, x)) = SeqSet(q) \cup {x}
         /\ NoneTwice(q) /\ x \notin SeqSet(q) => NoneTwice(Append(q, x))
<1>1. Len(q) \in Nat /\ DOMAIN q = 1..Len(q) /\ DOMAIN Append(q, x) = 1..(Len(q)+1)
  OBVIOUS
<1>2. Append(q, x)[Len(q)+1] = x /\ \A n \in DOMAIN q : Append(q, x)[n] = q[n]
  BY <1>1
<1>3. DOMAIN Append(q, x) = DOMAIN q \cup {Len(q)+1}
  BY <1>1
<1>4. SeqSet(Append(q, x)) = SeqSet(q) \cup {x}
  BY <1>2, <1>3 DEF SeqSet
<1>5. NoneTwice(q) /\ x \notin SeqSet(q) => NoneTwice(Append(q, x))
  BY <1>2, <1>3 DEF SeqSet, NoneTwice
<1> QED BY <1>4, <1>5

LEMMA SetOfEmpty == SeqSet(<<>>) = {}
BY DEF SeqSet

-----------------------------------------------------------------------------
(* The inductive invariant.  During a visit the states so far follow the    *)
(* block from its input, and the input is still what the predecessors'      *)
(* results make it, since nothing else is stored meanwhile; the block in    *)
(* work is not in the deque, and the deque holds no block twice.            *)

Visited(p, b, s, n, last) ==
  \E t \in [0..n -> State] :
    /\ t[0] = s /\ t[n] = last
    /\ \A m \in 1..n : /\ t[m-1].Reachable
                       /\ t[m] = TransferInstruction(p.code[b][m], t[m-1], p.adjust)

VisitInv ==
  current # NoBlock =>
    /\ pending = <<>>
    /\ current \notin SeqSet(worklist)
    /\ in[current] = EntryInput(prog, current, out)
    /\ pc - 1 <= Len(prog.code[current])
    /\ Visited(prog, current, in[current], pc - 1, state)

DoneInv == phase = "done" => worklist = <<>> /\ pending = <<>> /\ current = NoBlock

SolverInv ==
  /\ TypeOK
  /\ NoneTwice(worklist)
  /\ VisitInv
  /\ DoneInv

Waiting == SeqSet(worklist) \cup SeqSet(pending) \cup ({current} \ {NoBlock})

BlockResult(b) == TransferBlock(prog, b, EntryInput(prog, b, out))

\* One more instruction.
LEMMA VisitedNext ==
  ASSUME NEW p, NEW b, NEW s, NEW n \in Nat, NEW last \in State, last.Reachable,
         Visited(p, b, s, n, last),
         TransferInstruction(p.code[b][n+1], last, p.adjust) \in State
  PROVE  Visited(p, b, s, n + 1, TransferInstruction(p.code[b][n+1], last, p.adjust))
<1> DEFINE new == TransferInstruction(p.code[b][n+1], last, p.adjust)
<1>1. PICK t \in [0..n -> State] :
        /\ t[0] = s /\ t[n] = last
        /\ \A m \in 1..n : /\ t[m-1].Reachable
                           /\ t[m] = TransferInstruction(p.code[b][m], t[m-1], p.adjust)
  BY DEF Visited
<1> DEFINE u == [m \in 0..(n+1) |-> IF m = n + 1 THEN new ELSE t[m]]
<1> HIDE DEF new
<1>2. u \in [0..(n+1) -> State]
  BY DEF new
<1>3. u[n+1] = new /\ \A m \in 0..n : u[m] = t[m]
  OBVIOUS
<1> HIDE DEF u
<1>4. u[0] = s
  BY <1>1, <1>3
<1>5. ASSUME NEW m \in 1..(n+1)
      PROVE  /\ u[m-1].Reachable
             /\ u[m] = TransferInstruction(p.code[b][m], u[m-1], p.adjust)
  <2>1. CASE m = n + 1
    <3>1. u[m-1] = last
      BY <2>1, <1>1, <1>3
    <3> QED BY <2>1, <3>1, <1>3 DEF new
  <2>2. CASE m # n + 1
    <3>1. m \in 1..n /\ m - 1 \in 0..n /\ m \in 0..n
      BY <2>2
    <3>2. u[m] = t[m] /\ u[m-1] = t[m-1]
      BY <3>1, <1>3
    <3> QED BY <3>1, <3>2, <1>1
  <2> QED BY <2>1, <2>2
<1> QED BY <1>2, <1>3, <1>4, <1>5 DEF Visited, new

\* The result of a visit is that of the block as a whole, also when the state
\* became unreachable before its end.
LEMMA VisitComputesBlock ==
  ASSUME NEW p, NEW b, NEW s, NEW n \in Nat, NEW last,
         Len(p.code[b]) \in Nat, n <= Len(p.code[b]), Visited(p, b, s, n, last),
         ~last.Reachable \/ n = Len(p.code[b])
  PROVE  TransferBlock(p, b, s) = IF s.Reachable THEN PruneBlockLocal(p, b, last) ELSE last
<1>1. PICK t \in [0..n -> State] :
        /\ t[0] = s /\ t[n] = last
        /\ \A m \in 1..n : /\ t[m-1].Reachable
                           /\ t[m] = TransferInstruction(p.code[b][m], t[m-1], p.adjust)
  BY DEF Visited
<1> DEFINE N == Len(p.code[b])
           u == [m \in 0..N |-> IF m <= n THEN t[m] ELSE last]
<1>2. DOMAIN u = 0..N /\ \A m \in 0..N : u[m] = IF m <= n THEN t[m] ELSE last
  OBVIOUS
<1>3. ASSUME NEW m \in 0..N
      PROVE  u[m] = IF m = 0 THEN s
                    ELSE IF u[m-1].Reachable
                         THEN TransferInstruction(p.code[b][m], u[m-1], p.adjust)
                         ELSE u[m-1]
  <2> HIDE DEF u
  <2>1. CASE m = 0
    BY <2>1, <1>1, <1>2
  <2>2. CASE m # 0 /\ m <= n
    <3>1. m \in 1..n /\ m - 1 \in 0..N /\ m - 1 <= n
      BY <2>2
    <3>2. u[m] = t[m] /\ u[m-1] = t[m-1]
      BY <3>1, <2>2, <1>2
    <3> QED BY <2>2, <3>1, <3>2, <1>1
  <2>3. CASE m # 0 /\ ~(m <= n)
    <3>1. m - 1 \in 0..N /\ n <= m - 1 /\ n < N
      BY <2>3
    <3>2. ~last.Reachable
      BY <3>1
    <3>3. u[m] = last
      BY <2>3, <1>2
    <3>4. u[m-1] = last
      <4>1. CASE m - 1 = n BY <4>1, <3>1, <1>1, <1>2
      <4>2. CASE m - 1 # n
        <5>1. ~(m - 1 <= n)
          BY <4>2, <3>1
        <5> QED BY <5>1, <3>1, <1>2
      <4> QED BY <4>1, <4>2
    <3> QED BY <2>3, <3>2, <3>3, <3>4
  <2> QED BY <2>1, <2>2, <2>3
<1>4. Follows(p, b, s, u)
  <2> DEFINE e(m) == IF m = 0 THEN s
                     ELSE IF u[m-1].Reachable
                          THEN TransferInstruction(p.code[b][m], u[m-1], p.adjust)
                          ELSE u[m-1]
  <2>1. u = [m \in 0..N |-> u[m]]
    OBVIOUS
  <2>2. \A m \in 0..N : u[m] = e(m)
    BY <1>3
  <2> HIDE DEF u, e
  <2>3. u = [m \in 0..N |-> e(m)]
    BY <2>1, <2>2, Zenon
  <2> QED BY <2>3, Zenon DEF Follows, e
<1>5. AfterEach(p, b, s) = u
  <2> HIDE DEF u
  <2> QED BY <1>4, AfterEachIs
<1>6. u[N] = last
  <2>1. CASE n = N BY <2>1, <1>1, <1>2
  <2>2. CASE n # N
    <3>1. N \in 0..N /\ ~(N <= n)
      BY <2>2
    <3> QED BY <3>1, <1>2
  <2> QED BY <2>1, <2>2
<1>7. ~s.Reachable => last = s
  <2> SUFFICES ASSUME ~s.Reachable PROVE last = s
    OBVIOUS
  <2>1. n = 0
    <3>1. ASSUME n # 0 PROVE FALSE
      <4>1. 1 \in 1..n
        BY <3>1
      <4>2. t[1-1].Reachable
        BY <4>1, <1>1
      <4> QED BY <4>2, <1>1
    <3> QED BY <3>1
  <2> QED BY <2>1, <1>1
<1> HIDE DEF u
<1> QED BY <1>5, <1>6, <1>7 DEF TransferBlock

LEMMA InitSolverInv == Init => SolverInv
<1> SUFFICES ASSUME Init PROVE SolverInv
  OBVIOUS
<1>1. IsProgram(prog)
  BY ProgramsAssumption DEF Init
<1> QED BY <1>1, InitTypeOK DEF Init, SolverInv, VisitInv, DoneInv, IsProgram

LEMMA PopBlockInv ==
  ASSUME SolverInv, PopBlock
  PROVE  SolverInv' /\ Waiting' = Waiting
<1> DEFINE b == Head(worklist)
           s == EntryInput(prog, b, out)
<1>1. TypeOK'
  BY PopBlockType DEF SolverInv
<1>2. worklist \in Seq(BlocksOf(prog)) /\ worklist # <<>> /\ NoneTwice(worklist)
      /\ prog \in Programs /\ in \in [BlocksOf(prog) -> State]
  BY DEF SolverInv, TypeOK, PopBlock
<1>3. /\ b \in BlocksOf(prog)
      /\ SeqSet(worklist) = {b} \cup SeqSet(Tail(worklist))
      /\ NoneTwice(Tail(worklist)) /\ b \notin SeqSet(Tail(worklist))
  BY <1>2, HeadAndTail
<1>4. /\ current' = b /\ worklist' = Tail(worklist) /\ in' = [in EXCEPT ![b] = s]
      /\ state' = s /\ pc' = 1 /\ prog' = prog /\ out' = out
      /\ pending = <<>> /\ pending' = <<>> /\ current = NoBlock
      /\ phase = "solve" /\ phase' = "solve"
  BY DEF PopBlock
<1>5. b # NoBlock
  BY <1>2, <1>3, ProgramShape
<1>6. s \in State
  BY EntryInputType DEF SolverInv, TypeOK
<1> HIDE DEF b, s
<1>7. in'[b] = s
  BY <1>2, <1>3, <1>4
<1>8. Visited(prog, b, s, 0, s)
  <2> DEFINE t == [m \in 0..0 |-> s]
  <2>1. t \in [0..0 -> State] /\ t[0] = s
    BY <1>6
  <2>2. 1..0 = {}
    OBVIOUS
  <2> HIDE DEF t
  <2> QED BY <2>1, <2>2 DEF Visited
<1>9. VisitInv'
  <2>1. Len(prog.code[b]) \in Nat
    BY <1>2, <1>3, ProgramShape
  <2>2. s = EntryInput(prog, b, out)
    BY DEF s
  <2> QED BY <1>3, <1>4, <1>7, <1>8, <2>1, <2>2 DEF VisitInv
<1>10. DoneInv'
  BY <1>4 DEF DoneInv
<1>11. Waiting' = Waiting
  BY <1>3, <1>4, <1>5 DEF Waiting
<1> QED BY <1>1, <1>3, <1>4, <1>9, <1>10, <1>11 DEF SolverInv

LEMMA TransferNextInv ==
  ASSUME SolverInv, TransferNext
  PROVE  SolverInv' /\ Waiting' = Waiting
<1>1. TypeOK'
  BY TransferNextType DEF SolverInv
<1>2. /\ current # NoBlock /\ state.Reachable /\ pc <= Len(prog.code[current])
      /\ state' = TransferInstruction(prog.code[current][pc], state, prog.adjust)
      /\ pc' = pc + 1
      /\ UNCHANGED <<prog, worklist, in, out, pending, current, effect, phase>>
  BY DEF TransferNext
<1>3. pc \in Nat /\ pc >= 1 /\ state \in State /\ state' \in State
  BY <1>1 DEF SolverInv, TypeOK
<1>4. pc - 1 \in Nat /\ pc = (pc - 1) + 1 /\ pc' - 1 = (pc - 1) + 1
  BY <1>2, <1>3
<1>5. Visited(prog, current, in[current], pc - 1, state)
  BY <1>2 DEF SolverInv, VisitInv
<1>6. Visited(prog, current, in[current], (pc - 1) + 1, state')
  BY <1>2, <1>3, <1>4, <1>5, VisitedNext
<1>7. VisitInv'
  BY <1>2, <1>3, <1>4, <1>6 DEF SolverInv, VisitInv
<1> QED BY <1>1, <1>2, <1>7 DEF SolverInv, DoneInv, Waiting

LEMMA StoreResultInv ==
  ASSUME SolverInv, StoreResult
  PROVE  /\ SolverInv'
         /\ current \in Waiting /\ current \in BlocksOf(prog)
         /\ out' = [out EXCEPT ![current] = BlockResult(current)]
         /\ Waiting' = (Waiting \ {current})
              \cup (IF SameResult(out[current], BlockResult(current)) THEN {}
                    ELSE SuccsOf(prog, current))
         /\ prog' = prog
<1> DEFINE result == IF in[current].Reachable
                     THEN PruneBlockLocal(prog, current, state) ELSE state
<1>1. TypeOK'
  BY StoreResultType DEF SolverInv
<1>2. /\ current # NoBlock /\ (~state.Reachable \/ pc > Len(prog.code[current]))
      /\ out' = [out EXCEPT ![current] = result]
      /\ pending' = IF SameResult(out[current], result) THEN <<>> ELSE prog.succ[current]
      /\ current' = NoBlock
      /\ UNCHANGED <<prog, worklist, in, effect, phase>>
  BY DEF StoreResult
<1>3. current \in BlocksOf(prog) /\ prog \in Programs /\ pc \in Nat /\ pc >= 1
  BY <1>2 DEF SolverInv, TypeOK
<1>4. Len(prog.code[current]) \in Nat
  BY <1>3, ProgramShape
<1>5. /\ pending = <<>> /\ current \notin SeqSet(worklist)
      /\ in[current] = EntryInput(prog, current, out)
      /\ pc - 1 <= Len(prog.code[current])
      /\ Visited(prog, current, in[current], pc - 1, state)
  BY <1>2 DEF SolverInv, VisitInv
<1>6. result = BlockResult(current)
  <2>1. pc - 1 \in Nat /\ (~state.Reachable \/ pc - 1 = Len(prog.code[current]))
    BY <1>2, <1>3, <1>4, <1>5
  <2>2. TransferBlock(prog, current, in[current]) = result
    BY <1>4, <1>5, <2>1, VisitComputesBlock
  <2> QED BY <1>5, <2>2 DEF BlockResult
<1> HIDE DEF result
<1>7. Waiting = SeqSet(worklist) \cup {current}
  BY <1>2, <1>5, SetOfEmpty DEF Waiting
<1>8. Waiting' = SeqSet(worklist) \cup SeqSet(pending')
  BY <1>2 DEF Waiting
<1>9. SeqSet(pending') = IF SameResult(out[current], result) THEN {} ELSE SuccsOf(prog, current)
  BY <1>2, SetOfEmpty DEF SuccsOf
<1>10. phase = "solve" /\ VisitInv' /\ DoneInv'
  BY <1>2 DEF SolverInv, TypeOK, VisitInv, DoneInv
<1>11. SolverInv'
  BY <1>1, <1>2, <1>10 DEF SolverInv
<1>12. current \in Waiting
  BY <1>7
<1>13. Waiting' = (Waiting \ {current})
              \cup (IF SameResult(out[current], BlockResult(current)) THEN {}
                    ELSE SuccsOf(prog, current))
  BY <1>5, <1>6, <1>7, <1>8, <1>9
<1> QED BY <1>2, <1>3, <1>6, <1>11, <1>12, <1>13

LEMMA EnqueueNextInv ==
  ASSUME SolverInv, EnqueueNext
  PROVE  SolverInv' /\ Waiting' = Waiting
<1> DEFINE b == Head(pending)
<1>1. TypeOK'
  BY EnqueueNextType DEF SolverInv
<1>2. /\ pending # <<>> /\ pending' = Tail(pending)
      /\ worklist' = IF b \in SeqSet(worklist) THEN worklist ELSE Append(worklist, b)
      /\ UNCHANGED <<prog, in, out, current, pc, state, effect, phase>>
  BY DEF EnqueueNext
<1>3. /\ worklist \in Seq(BlocksOf(prog)) /\ pending \in Seq(BlocksOf(prog))
      /\ NoneTwice(worklist) /\ current = NoBlock /\ phase # "done"
  BY <1>2 DEF SolverInv, TypeOK, VisitInv, DoneInv
<1>4. b \in BlocksOf(prog) /\ SeqSet(pending) = {b} \cup SeqSet(Tail(pending))
  BY <1>2, <1>3, HeadAndTail
<1> HIDE DEF b
<1>5. SeqSet(worklist') = SeqSet(worklist) \cup {b} /\ NoneTwice(worklist')
  <2>1. CASE b \in SeqSet(worklist)
    BY <2>1, <1>2, <1>3
  <2>2. CASE b \notin SeqSet(worklist)
    BY <2>2, <1>2, <1>3, <1>4, Appended
  <2> QED BY <2>1, <2>2
<1>6. Waiting' = Waiting
  BY <1>2, <1>4, <1>5 DEF Waiting
<1>7. VisitInv' /\ DoneInv'
  BY <1>2, <1>3 DEF VisitInv, DoneInv
<1> QED BY <1>1, <1>5, <1>6, <1>7 DEF SolverInv

LEMMA CollectExitsInv ==
  ASSUME SolverInv, CollectExits
  PROVE  SolverInv' /\ Waiting' = Waiting
<1>1. TypeOK'
  BY CollectExitsType DEF SolverInv
<1>2. /\ current = NoBlock /\ pending = <<>> /\ worklist = <<>>
      /\ UNCHANGED <<prog, worklist, in, out, pending, current, pc, state>>
  BY DEF CollectExits
<1> QED BY <1>1, <1>2 DEF SolverInv, VisitInv, DoneInv, Waiting

\* Only the end of a visit changes results or the set of waiting blocks.
LEMMA SolverSteps ==
  ASSUME SolverInv, [Next]_vars
  PROVE  /\ SolverInv'
         /\ \/ StoreResult
            \/ Waiting' = Waiting /\ out' = out /\ prog' = prog
<1>1. CASE PopBlock BY <1>1, PopBlockInv DEF PopBlock
<1>2. CASE TransferNext BY <1>2, TransferNextInv DEF TransferNext
<1>3. CASE StoreResult BY <1>3, StoreResultInv
<1>4. CASE EnqueueNext BY <1>4, EnqueueNextInv DEF EnqueueNext
<1>5. CASE CollectExits BY <1>5, CollectExitsInv DEF CollectExits
<1>6. CASE UNCHANGED vars
  BY <1>6 DEF vars, SolverInv, TypeOK, VisitInv, DoneInv, Waiting
<1> QED BY <1>1, <1>2, <1>3, <1>4, <1>5, <1>6 DEF Next

LEMMA SolverInvariant == Spec => []SolverInv
<1>1. SolverInv /\ [Next]_vars => SolverInv'
  BY SolverSteps
<1> QED BY <1>1, InitSolverInv, PTL DEF Spec

-----------------------------------------------------------------------------
(* With callsite evidence collected the change test is equality, and a block *)
(* that is not waiting agrees with its predecessors.                         *)

SettledInv ==
  \A b \in BlocksOf(prog) \ Waiting : out[b] = BlockResult(b)

LEMMA SettledNext ==
  ASSUME CollectEvidence, SolverInv, SettledInv, [Next]_vars
  PROVE  SettledInv'
<1>1. CASE StoreResult
  <2> DEFINE c == current
  <2>1. /\ c \in BlocksOf(prog) /\ prog' = prog
        /\ out' = [out EXCEPT ![c] = BlockResult(c)]
        /\ Waiting' = (Waiting \ {c})
             \cup (IF SameResult(out[c], BlockResult(c)) THEN {} ELSE SuccsOf(prog, c))
    BY <1>1, StoreResultInv
  <2>2. out \in [BlocksOf(prog) -> State]
    BY DEF SolverInv, TypeOK
  <2>3. CASE out[c] = BlockResult(c)
    <3>1. out' = out
      BY <2>1, <2>2, <2>3
    <3>2. \A b \in BlocksOf(prog) \ Waiting' : b = c \/ b \notin Waiting
      BY <2>1
    <3> QED BY <2>1, <2>3, <3>1, <3>2 DEF SettledInv, BlockResult
  <2>4. CASE out[c] # BlockResult(c)
    <3>1. Waiting' = (Waiting \ {c}) \cup SuccsOf(prog, c)
      BY <2>1, <2>4 DEF SameResult
    <3>2. ASSUME NEW b \in BlocksOf(prog), b \notin Waiting' PROVE out'[b] = BlockResult(b)'
      <4>1. c \notin PredsOf(prog, b)
        BY <3>1, <3>2 DEF PredsOf
      <4>2. {out'[q] : q \in PredsOf(prog, b)} = {out[q] : q \in PredsOf(prog, b)}
        BY <2>1, <2>2, <4>1 DEF PredsOf
      <4>3. EntryInput(prog, b, out') = EntryInput(prog, b, out)
        BY <4>2 DEF EntryInput
      <4>4. BlockResult(b)' = BlockResult(b)
        BY <2>1, <4>3 DEF BlockResult
      <4>5. out'[b] = BlockResult(b)
        BY <2>1, <2>2, <3>1, <3>2 DEF SettledInv
      <4> QED BY <4>4, <4>5
    <3> QED BY <2>1, <3>2 DEF SettledInv
  <2> QED BY <2>3, <2>4
<1>2. CASE Waiting' = Waiting /\ out' = out /\ prog' = prog
  BY <1>2 DEF SettledInv, BlockResult
<1> QED BY <1>1, <1>2, SolverSteps

(* solveFunction, with callsite evidence collected as the pipeline does:     *)
(* when it is done, the result of every block is what its instructions make  *)
(* of its predecessors' results, for every function and register file.       *)
THEOREM SummaryFixpoint ==
  ASSUME CollectEvidence
  PROVE  Spec => []ResultsAreFixpoint
<1>1. Init => SettledInv
  BY SetOfEmpty DEF Init, SettledInv, Waiting, BlocksOf
<1>2. SolverInv /\ SettledInv /\ [Next]_vars => SettledInv'
  BY SettledNext
<1>3. SolverInv /\ SettledInv => ResultsAreFixpoint
  BY SetOfEmpty DEF SolverInv, SettledInv, DoneInv, Waiting, ResultsAreFixpoint, BlockResult
<1> QED BY <1>1, <1>2, <1>3, SolverInvariant, PTL DEF Spec

-----------------------------------------------------------------------------
(* The solver implements the worklist of ChaoticIteration.                   *)

LEMMA AbstractResult ==
  ASSUME NEW b \in BlocksOf(prog)
  PROVE  FlowSolver!Result(b, out) = BlockResult(b)
<1> DEFINE restricted == [q \in FlowSolver!Preds(prog, b) |-> out[q]]
<1>1. FlowSolver!Preds(prog, b) = PredsOf(prog, b)
  BY DEF FlowSolver!Preds, PredsOf
<1>2. {restricted[q] : q \in PredsOf(prog, b)} = {out[q] : q \in PredsOf(prog, b)}
  BY <1>1
<1> HIDE DEF restricted
<1>3. EntryInput(prog, b, restricted) = EntryInput(prog, b, out)
  BY <1>2 DEF EntryInput
<1> QED BY <1>3 DEF FlowSolver!Result, FlowSolver!InputOf, restricted, BlockResult

(* Whatever the function, the block order, the options: a visit of the       *)
(* solver, spread over many steps, is one visit of the abstract worklist,    *)
(* and everything else is invisible to it.                                   *)
THEOREM SolverIsChaotic == Spec => SolvesChaotically
<1>1. Init => FlowSolver!Init
  BY SetOfEmpty DEF Init, FlowSolver!Init, BlocksOf
<1>2. SolverInv /\ [Next]_vars => [FlowSolver!Next]_(FlowSolver!vars)
  <2> SUFFICES ASSUME SolverInv, [Next]_vars PROVE [FlowSolver!Next]_(FlowSolver!vars)
    OBVIOUS
  <2>1. CASE StoreResult
    <3>1. /\ current \in Waiting /\ current \in BlocksOf(prog) /\ prog' = prog
          /\ out' = [out EXCEPT ![current] = BlockResult(current)]
          /\ Waiting' = (Waiting \ {current})
               \cup (IF SameResult(out[current], BlockResult(current)) THEN {}
                     ELSE SuccsOf(prog, current))
      BY <2>1, StoreResultInv
    <3>2. FlowSolver!Result(current, out) = BlockResult(current)
      BY <3>1, AbstractResult
    <3>3. FlowSolver!Visit(current)
      BY <3>1, <3>2 DEF FlowSolver!Visit, Waiting
    <3> QED BY <3>1, <3>3 DEF FlowSolver!Next, Waiting
  <2>2. CASE Waiting' = Waiting /\ out' = out /\ prog' = prog
    BY <2>2 DEF FlowSolver!vars, Waiting
  <2> QED BY <2>1, <2>2, SolverSteps
<1> QED BY <1>1, <1>2, SolverInvariant, PTL DEF Spec, SolvesChaotically

-----------------------------------------------------------------------------
(* States that say the same, and states that say less.                      *)

\* t differs from s in recorded reads at most.
SameFacts(s, t) ==
  /\ t.Reachable = s.Reachable
  /\ t.Origins = s.Origins
  /\ t.StackSlots = s.StackSlots
  /\ t.StackSlotOrigins = s.StackSlotOrigins
  /\ t.ValueOrigins = s.ValueOrigins
  /\ \A r : /\ CellIn(t.Cells, r).MayEntry = CellIn(s.Cells, r).MayEntry
            /\ CellIn(t.Cells, r).MayNonEntry = CellIn(s.Cells, r).MayNonEntry

\* t claims nothing that s does not claim.
SaysLess(s, t) ==
  /\ \A r \in Registers :
       /\ CellIn(s.Cells, r).MayEntry \subseteq CellIn(t.Cells, r).MayEntry
       /\ CellIn(s.Cells, r).MayNonEntry \subseteq CellIn(t.Cells, r).MayNonEntry
       /\ CellIn(s.Cells, r).ReadEntry \subseteq CellIn(t.Cells, r).ReadEntry
       /\ t.Origins[r].Local \subseteq s.Origins[r].Local
       /\ t.Origins[r].FloatLocal \subseteq s.Origins[r].FloatLocal
       /\ t.Origins[r].CallClobber \subseteq s.Origins[r].CallClobber
  /\ \A k \in DOMAIN t.StackSlots : k \in DOMAIN s.StackSlots /\ t.StackSlots[k] = s.StackSlots[k]
  /\ DOMAIN t.StackSlotOrigins \subseteq DOMAIN s.StackSlotOrigins
  /\ \A v \in DOMAIN t.ValueOrigins :
       v \in DOMAIN s.ValueOrigins /\ t.ValueOrigins[v] = s.ValueOrigins[v]

LEMMA CellInPut ==
  ASSUME NEW cells, NEW reg, NEW c, NEW r
  PROVE  CellIn(Put(cells, reg, c), r) = IF r = reg THEN c ELSE CellIn(cells, r)
BY DEF CellIn, Put

LEMMA CellOf ==
  ASSUME NEW s \in State, NEW r
  PROVE  CellIn(s.Cells, r) \in CoveredCell
BY CellInCovered DEF State

\* A register read changes what is recorded as read and nothing else.
LEMMA ReadRegisterSame ==
  ASSUME NEW s \in State, NEW reg, NEW mask
  PROVE  SameFacts(s, ReadRegister(s, reg, mask))
<1> DEFINE cell == ReadCell(CellIn(s.Cells, reg), mask)
           t == [s EXCEPT !.Cells = Put(s.Cells, reg, cell)]
<1>1. /\ cell.MayEntry = CellIn(s.Cells, reg).MayEntry
      /\ cell.MayNonEntry = CellIn(s.Cells, reg).MayNonEntry
  BY CellOf DEF ReadCell, CoveredCell, Cell
<1>2. t.Cells = Put(s.Cells, reg, cell)
  BY DEF State
<1>3. SameFacts(s, t)
  <2> HIDE DEF cell
  <2>1. \A r : CellIn(t.Cells, r) = IF r = reg THEN cell ELSE CellIn(s.Cells, r)
    BY <1>2, CellInPut
  <2>2. /\ t.Reachable = s.Reachable /\ t.Origins = s.Origins /\ t.StackSlots = s.StackSlots
        /\ t.StackSlotOrigins = s.StackSlotOrigins /\ t.ValueOrigins = s.ValueOrigins
    BY DEF State
  <2> HIDE DEF t
  <2> QED BY <1>1, <2>1, <2>2 DEF SameFacts
<1>4. SameFacts(s, s)
  BY DEF SameFacts
<1> QED BY <1>3, <1>4 DEF ReadRegister

LEMMA MarkReadSame ==
  ASSUME NEW s \in State, NEW src, NEW off
  PROVE  SameFacts(s, MarkEntryValueRead(s, src, off))
<1>1. SameFacts(s, s)
  BY DEF SameFacts
<1> QED BY <1>1, ReadRegisterSame DEF MarkEntryValueRead

LEMMA AgreementOf ==
  ASSUME NEW maps, NEW m \in maps, NEW k \in DOMAIN Agreement(maps)
  PROVE  k \in DOMAIN m /\ Agreement(maps)[k] = m[k]
<1> DEFINE common == {j \in UNION {DOMAIN n : n \in maps} :
                        \A n, o \in maps : j \in DOMAIN n /\ n[j] = o[j]}
           some == CHOOSE n \in maps : TRUE
<1>1. some \in maps
  OBVIOUS
<1>2. Agreement(maps) = [j \in common |-> some[j]]
  BY Zenon DEF Agreement
<1>3. k \in common
  BY <1>2
<1>4. k \in DOMAIN m /\ some[k] = m[k]
  BY <1>1, <1>3
<1> HIDE DEF common, some
<1> QED BY <1>2, <1>3, <1>4

\* A join says nothing that one of the reachable joined states does not say.
LEMMA JoinSaysLess ==
  ASSUME NEW states \in SUBSET State, NEW s \in states, s.Reachable
  PROVE  SaysLess(s, JoinStates(states)) /\ JoinStates(states).Reachable
<1> DEFINE R == {u \in states : u.Reachable}
           touched == UNION {DOMAIN u.Cells : u \in R}
           joined(r) == JoinCells({CellIn(u.Cells, r) : u \in R})
           cells == [r \in touched |-> joined(r)]
           origins == [r \in Registers |-> AgreedBits(R, r)]
           t == JoinStates(states)
<1>1. s \in R /\ R # {}
  OBVIOUS
<1>2. t = [Reachable |-> TRUE, EndsInNoReturn |-> FALSE, Cells |-> cells, Origins |-> origins,
           StackSlots |-> Agreement({u.StackSlots : u \in R}),
           StackSlotOrigins |-> Agreement({u.StackSlotOrigins : u \in R}),
           ValueOrigins |-> Agreement({u.ValueOrigins : u \in R})]
  BY <1>1, Zenon DEF JoinStates
<1>3. /\ t.Cells = cells /\ t.Origins = origins /\ t.Reachable
      /\ t.StackSlots = Agreement({u.StackSlots : u \in R})
      /\ t.StackSlotOrigins = Agreement({u.StackSlotOrigins : u \in R})
      /\ t.ValueOrigins = Agreement({u.ValueOrigins : u \in R})
  <2> HIDE DEF t, cells, origins, R
  <2> QED BY <1>2
<1>4. ASSUME NEW r \in Registers
      PROVE  /\ CellIn(s.Cells, r).MayEntry \subseteq CellIn(t.Cells, r).MayEntry
             /\ CellIn(s.Cells, r).MayNonEntry \subseteq CellIn(t.Cells, r).MayNonEntry
             /\ CellIn(s.Cells, r).ReadEntry \subseteq CellIn(t.Cells, r).ReadEntry
  <2>1. CASE r \in touched
    <3>1. CellIn(t.Cells, r) = joined(r)
      BY <1>3, <2>1 DEF CellIn
    <3>2. CellIn(s.Cells, r) \in {CellIn(u.Cells, r) : u \in R}
      BY <1>1
    <3> HIDE DEF t, R
    <3> QED BY <3>1, <3>2 DEF JoinCells
  <2>2. CASE r \notin touched
    <3>1. r \notin DOMAIN s.Cells /\ r \notin DOMAIN t.Cells
      BY <1>1, <1>3, <2>2
    <3> QED BY <3>1 DEF CellIn
  <2> QED BY <2>1, <2>2
<1>5. ASSUME NEW r \in Registers
      PROVE  /\ t.Origins[r].Local \subseteq s.Origins[r].Local
             /\ t.Origins[r].FloatLocal \subseteq s.Origins[r].FloatLocal
             /\ t.Origins[r].CallClobber \subseteq s.Origins[r].CallClobber
  <2>1. t.Origins[r] = AgreedBits(R, r)
    BY <1>3
  <2> HIDE DEF t, R
  <2> QED BY <1>1, <2>1 DEF AgreedBits
<1>6. /\ s.StackSlots \in {u.StackSlots : u \in R}
      /\ s.StackSlotOrigins \in {u.StackSlotOrigins : u \in R}
      /\ s.ValueOrigins \in {u.ValueOrigins : u \in R}
  BY <1>1
<1> HIDE DEF t, R
<1>7. ASSUME NEW k \in DOMAIN t.StackSlots
      PROVE  k \in DOMAIN s.StackSlots /\ t.StackSlots[k] = s.StackSlots[k]
  <2> DEFINE maps == {u.StackSlots : u \in R}
  <2>1. s.StackSlots \in maps /\ t.StackSlots = Agreement(maps)
    BY <1>3, <1>6
  <2> HIDE DEF maps
  <2> QED BY <2>1, <1>7, AgreementOf
<1>8. DOMAIN t.StackSlotOrigins \subseteq DOMAIN s.StackSlotOrigins
  BY <1>3, <1>6, AgreementOf
<1>9. ASSUME NEW v \in DOMAIN t.ValueOrigins
      PROVE  v \in DOMAIN s.ValueOrigins /\ t.ValueOrigins[v] = s.ValueOrigins[v]
  <2> DEFINE maps == {u.ValueOrigins : u \in R}
  <2>1. s.ValueOrigins \in maps /\ t.ValueOrigins = Agreement(maps)
    BY <1>3, <1>6
  <2> HIDE DEF maps
  <2> QED BY <2>1, <1>9, AgreementOf
<1> QED BY <1>3, <1>4, <1>5, <1>7, <1>8, <1>9 DEF SaysLess, t

LEMMA LoadFacts ==
  ASSUME NEW s \in State, NEW i, i.reg \in Registers
  PROVE  LET t == TransferLoad(i, s)
             pure == PureEntry(CellIn(s.Cells, i.reg)) IN
         /\ \A r : /\ CellIn(t.Cells, r).MayEntry = CellIn(s.Cells, r).MayEntry
                   /\ CellIn(t.Cells, r).MayNonEntry = CellIn(s.Cells, r).MayNonEntry
         /\ t.Reachable = s.Reachable /\ t.Origins = s.Origins
         /\ t.StackSlots = s.StackSlots /\ t.StackSlotOrigins = s.StackSlotOrigins
         /\ ~pure => t.ValueOrigins = Drop(s.ValueOrigins, i.val)
         /\ pure /\ i.reg # StackPointer =>
              t.ValueOrigins = Put(s.ValueOrigins, i.val, [Base |-> i.reg, Mask |-> Bits])
         /\ pure /\ i.reg = StackPointer => t.ValueOrigins = s.ValueOrigins
<1> DEFINE pure == PureEntry(CellIn(s.Cells, i.reg))
           read == IF i.reg \notin Ignored /\ ~i.keep /\ ~pure
                   THEN ReadRegister(s, i.reg, Bits) ELSE s
           t == TransferLoad(i, s)
<1>1. SameFacts(s, read) /\ read \in State
  <2>1. SameFacts(s, s)
    BY DEF SameFacts
  <2>2. SameFacts(s, ReadRegister(s, i.reg, Bits)) /\ ReadRegister(s, i.reg, Bits) \in State
    BY ReadRegisterSame, ReadRegisterType
  <2> HIDE DEF pure
  <2> QED BY <2>1, <2>2
<1>2. t = IF ~pure THEN DropOrigin(read, i.val)
          ELSE IF i.reg # StackPointer THEN SetOrigin(read, i.val, i.reg, Bits)
          ELSE read
  BY Zenon DEF TransferLoad
<1> HIDE DEF pure, read, t
<1>3. CASE ~pure BY <1>1, <1>2, <1>3 DEF SameFacts, DropOrigin, State, t, pure
<1>4. CASE pure /\ i.reg # StackPointer BY <1>1, <1>2, <1>4 DEF SameFacts, SetOrigin, State, t, pure
<1>5. CASE pure /\ i.reg = StackPointer BY <1>1, <1>2, <1>5 DEF SameFacts, t, pure
<1> QED BY <1>3, <1>4, <1>5

LEMMA WriteRegisterFacts ==
  ASSUME NEW s \in State, NEW reg, NEW mask
  PROVE  LET t == WriteRegister(s, reg, mask) IN
         /\ t.Reachable = s.Reachable /\ t.Origins = s.Origins /\ t.StackSlots = s.StackSlots
         /\ t.StackSlotOrigins = s.StackSlotOrigins /\ t.ValueOrigins = s.ValueOrigins
         /\ \A r : r # reg => CellIn(t.Cells, r) = CellIn(s.Cells, r)
         /\ CellIn(t.Cells, reg).MayEntry = CellIn(s.Cells, reg).MayEntry \ mask
         /\ CellIn(t.Cells, reg).MayNonEntry = CellIn(s.Cells, reg).MayNonEntry \cup mask
         /\ \A r : CellIn(t.Cells, r).ReadEntry = CellIn(s.Cells, r).ReadEntry
<1> DEFINE cell == WriteCell(CellIn(s.Cells, reg), mask)
           cells == Put(s.Cells, reg, cell)
           t == [s EXCEPT !.Cells = cells]
<1>1. /\ cell.MayEntry = CellIn(s.Cells, reg).MayEntry \ mask
      /\ cell.MayNonEntry = CellIn(s.Cells, reg).MayNonEntry \cup mask
      /\ cell.ReadEntry = CellIn(s.Cells, reg).ReadEntry
  BY CellOf DEF WriteCell, CoveredCell, Cell
<1> HIDE DEF cell
<1>2. \A r : CellIn(cells, r) = IF r = reg THEN cell ELSE CellIn(s.Cells, r)
  BY CellInPut
<1> HIDE DEF cells
<1>3. /\ t.Cells = cells /\ t.Reachable = s.Reachable /\ t.Origins = s.Origins
      /\ t.StackSlots = s.StackSlots /\ t.StackSlotOrigins = s.StackSlotOrigins
      /\ t.ValueOrigins = s.ValueOrigins
  BY DEF State
<1>4. WriteRegister(s, reg, mask) = IF mask = {} THEN s ELSE t
  BY DEF WriteRegister, cell, cells
<1> HIDE DEF t
<1> QED BY <1>1, <1>2, <1>3, <1>4

LEMMA RestoreRegisterFacts ==
  ASSUME NEW s \in State, NEW reg, NEW mask
  PROVE  LET t == RestoreRegister(s, reg, mask) IN
         /\ t.Reachable = s.Reachable /\ t.Origins = s.Origins /\ t.StackSlots = s.StackSlots
         /\ t.StackSlotOrigins = s.StackSlotOrigins /\ t.ValueOrigins = s.ValueOrigins
         /\ \A r : r # reg => CellIn(t.Cells, r) = CellIn(s.Cells, r)
         /\ CellIn(t.Cells, reg).MayEntry = CellIn(s.Cells, reg).MayEntry \cup mask
         /\ CellIn(t.Cells, reg).MayNonEntry = CellIn(s.Cells, reg).MayNonEntry \ mask
         /\ \A r : CellIn(t.Cells, r).ReadEntry = CellIn(s.Cells, r).ReadEntry
<1> DEFINE cell == RestoreCell(CellIn(s.Cells, reg), mask)
           cells == Put(s.Cells, reg, cell)
           t == [s EXCEPT !.Cells = cells]
<1>1. /\ cell.MayEntry = CellIn(s.Cells, reg).MayEntry \cup mask
      /\ cell.MayNonEntry = CellIn(s.Cells, reg).MayNonEntry \ mask
      /\ cell.ReadEntry = CellIn(s.Cells, reg).ReadEntry
  BY CellOf DEF RestoreCell, CoveredCell, Cell
<1> HIDE DEF cell
<1>2. \A r : CellIn(cells, r) = IF r = reg THEN cell ELSE CellIn(s.Cells, r)
  BY CellInPut
<1> HIDE DEF cells
<1>3. /\ t.Cells = cells /\ t.Reachable = s.Reachable /\ t.Origins = s.Origins
      /\ t.StackSlots = s.StackSlots /\ t.StackSlotOrigins = s.StackSlotOrigins
      /\ t.ValueOrigins = s.ValueOrigins
  BY DEF State
<1>4. RestoreRegister(s, reg, mask) = IF mask = {} THEN s ELSE t
  BY DEF RestoreRegister, cell, cells
<1> HIDE DEF t
<1> QED BY <1>1, <1>2, <1>3, <1>4

\* t differs from s in the origin bits of one register at most.
OnlyOriginOf(s, t, reg) ==
  /\ t.Reachable = s.Reachable /\ t.Cells = s.Cells /\ t.StackSlots = s.StackSlots
  /\ t.StackSlotOrigins = s.StackSlotOrigins /\ t.ValueOrigins = s.ValueOrigins
  /\ \A r \in Registers : r # reg => t.Origins[r] = s.Origins[r]

\* What the function's own write to the bits of a mask makes of origin bits.
OriginWritten(old, new, mask, kind, float) ==
  /\ new.Local \subseteq old.Local \cup mask
  /\ new.FloatLocal \subseteq old.FloatLocal \cup mask
  /\ new.CallClobber = old.CallClobber \ mask
  /\ kind # "Local" => new.Local \cap mask = {}
  /\ kind = "Local" /\ float # TRUE => new.FloatLocal \cap mask = {}

LEMMA DefineOriginFacts ==
  ASSUME NEW s \in State, NEW reg \in Registers, NEW mask \in SUBSET Bits,
         NEW kind, kind # "CallClobber", NEW float
  PROVE  /\ OnlyOriginOf(s, DefineOrigin(s, reg, mask, kind, float), reg)
         /\ OriginWritten(s.Origins[reg], DefineOrigin(s, reg, mask, kind, float).Origins[reg],
                          mask, kind, float)
<1> DEFINE marked == SetRegisterOrigin(s, reg, mask, kind)
           floated == [marked EXCEPT !.Origins[reg] = MarkFloatWrite(@, mask, float)]
<1>1. marked \in State
  BY SetRegisterOriginType
<1>2. /\ marked.Reachable = s.Reachable /\ marked.Cells = s.Cells
      /\ marked.StackSlots = s.StackSlots
      /\ marked.StackSlotOrigins = s.StackSlotOrigins /\ marked.ValueOrigins = s.ValueOrigins
      /\ marked.Origins = [s.Origins EXCEPT ![reg] = MarkOrigin(@, mask, kind)]
  BY DEF SetRegisterOrigin, State
<1>3. s.Origins \in [Registers -> OriginBits]
  BY DEF State
<1>4. DefineOrigin(s, reg, mask, kind, float) = IF kind = "Local" THEN floated ELSE marked
  BY DEF DefineOrigin
<1> HIDE DEF marked
<1>5. marked.Origins \in [Registers -> OriginBits]
  BY <1>1 DEF State
<1>6. /\ floated.Reachable = s.Reachable /\ floated.Cells = s.Cells
      /\ floated.StackSlots = s.StackSlots
      /\ floated.StackSlotOrigins = s.StackSlotOrigins /\ floated.ValueOrigins = s.ValueOrigins
      /\ floated.Origins = [marked.Origins EXCEPT ![reg] = MarkFloatWrite(@, mask, float)]
  BY <1>1, <1>2 DEF State
<1> HIDE DEF floated
<1> DEFINE m == MarkOrigin(s.Origins[reg], mask, kind)
           f == MarkFloatWrite(m, mask, float)
<1>7. /\ m.Local = (s.Origins[reg].Local \ mask) \cup (IF kind = "Local" THEN mask ELSE {})
      /\ m.CallClobber = s.Origins[reg].CallClobber \ mask
      /\ m.FloatLocal = s.Origins[reg].FloatLocal
      /\ m \in OriginBits
  <2>1. m \in OriginBits
    BY <1>3, MarkOriginType
  <2> QED BY <2>1 DEF MarkOrigin
<1> HIDE DEF m
<1>8. /\ f.Local = m.Local /\ f.CallClobber = m.CallClobber
      /\ f.FloatLocal = IF float THEN m.FloatLocal \cup mask ELSE m.FloatLocal \ mask
  BY <1>7 DEF MarkFloatWrite, OriginBits
<1> HIDE DEF f
<1>9. /\ \A r \in Registers : r # reg => marked.Origins[r] = s.Origins[r]
      /\ marked.Origins[reg] = m
  BY <1>2, <1>3 DEF m
<1>10. /\ \A r \in Registers : r # reg => floated.Origins[r] = s.Origins[r]
       /\ floated.Origins[reg] = f
  BY <1>5, <1>6, <1>9 DEF f
<1>11. ASSUME kind = "Local"
       PROVE  OnlyOriginOf(s, floated, reg) /\ OriginWritten(s.Origins[reg], f, mask, kind, float)
  BY <1>6, <1>7, <1>8, <1>10, <1>11 DEF OnlyOriginOf, OriginWritten
<1>12. ASSUME kind # "Local"
       PROVE  OnlyOriginOf(s, marked, reg) /\ OriginWritten(s.Origins[reg], m, mask, kind, float)
  BY <1>2, <1>7, <1>9, <1>12 DEF OnlyOriginOf, OriginWritten
<1> QED BY <1>4, <1>9, <1>10, <1>11, <1>12

LEMMA SpillFacts ==
  ASSUME NEW s \in State, NEW i, NEW adjust
  PROVE  LET t == TransferSpill(i, s, adjust)
             saves == /\ HasEntryOrigin(s, i.src) /\ ~i.off
                      /\ CanTrackSaved(s.ValueOrigins[i.src].Base) IN
         /\ \A r : /\ CellIn(t.Cells, r).MayEntry = CellIn(s.Cells, r).MayEntry
                   /\ CellIn(t.Cells, r).MayNonEntry = CellIn(s.Cells, r).MayNonEntry
         /\ t.Reachable = s.Reachable /\ t.Origins = s.Origins /\ t.ValueOrigins = s.ValueOrigins
         /\ t.StackSlots = IF i.slot \notin adjust /\ saves
                           THEN Put(s.StackSlots, i.slot, s.ValueOrigins[i.src].Base)
                           ELSE Drop(s.StackSlots, i.slot)
         /\ DOMAIN t.StackSlotOrigins \subseteq DOMAIN s.StackSlotOrigins \cup {i.slot}
<1> DEFINE t == TransferSpill(i, s, adjust)
           saves == /\ HasEntryOrigin(s, i.src) /\ ~i.off
                    /\ CanTrackSaved(s.ValueOrigins[i.src].Base)
           read == MarkEntryValueRead(s, i.src, i.off)
           kind == IF HasEntryOrigin(s, i.src) THEN "ForwardedEntry" ELSE "LocalDefinition"
           base == s.ValueOrigins[i.src].Base
<1>1. read \in State /\ SameFacts(s, read)
  BY MarkEntryValueReadType, MarkReadSame
<1>2. t = IF i.slot \in adjust
          THEN [s EXCEPT !.StackSlots = Drop(@, i.slot), !.StackSlotOrigins = Drop(@, i.slot)]
          ELSE IF saves
          THEN [s EXCEPT !.StackSlots = Put(@, i.slot, base),
                         !.StackSlotOrigins = Put(@, i.slot, "ForwardedEntry")]
          ELSE [read EXCEPT !.StackSlots = Drop(@, i.slot),
                            !.StackSlotOrigins = Put(@, i.slot, kind)]
  BY DEF TransferSpill
<1> HIDE DEF t, saves, read, kind, base
<1>3. CASE i.slot \in adjust
  <2>1. /\ t.Cells = s.Cells /\ t.Reachable = s.Reachable /\ t.Origins = s.Origins
        /\ t.ValueOrigins = s.ValueOrigins /\ t.StackSlots = Drop(s.StackSlots, i.slot)
        /\ t.StackSlotOrigins = Drop(s.StackSlotOrigins, i.slot)
    BY <1>2, <1>3 DEF State
  <2> QED BY <1>3, <2>1 DEF Drop, t
<1>4. CASE i.slot \notin adjust /\ saves
  <2>1. /\ t.Cells = s.Cells /\ t.Reachable = s.Reachable /\ t.Origins = s.Origins
        /\ t.ValueOrigins = s.ValueOrigins /\ t.StackSlots = Put(s.StackSlots, i.slot, base)
        /\ t.StackSlotOrigins = Put(s.StackSlotOrigins, i.slot, "ForwardedEntry")
    BY <1>2, <1>4 DEF State
  <2>2. DOMAIN t.StackSlotOrigins \subseteq DOMAIN s.StackSlotOrigins \cup {i.slot}
    BY <2>1 DEF Put
  <2> QED BY <1>4, <2>1, <2>2 DEF t, saves, base
<1>5. CASE i.slot \notin adjust /\ ~saves
  <2>1. /\ t.Cells = read.Cells /\ t.Reachable = read.Reachable /\ t.Origins = read.Origins
        /\ t.ValueOrigins = read.ValueOrigins /\ t.StackSlots = Drop(read.StackSlots, i.slot)
        /\ t.StackSlotOrigins = Put(read.StackSlotOrigins, i.slot, kind)
    BY <1>1, <1>2, <1>5 DEF State
  <2>2. DOMAIN t.StackSlotOrigins \subseteq DOMAIN s.StackSlotOrigins \cup {i.slot}
    BY <1>1, <2>1 DEF Put, SameFacts
  <2> QED BY <1>1, <1>5, <2>1, <2>2 DEF t, saves, SameFacts
<1> QED BY <1>3, <1>4, <1>5

LEMMA ReadInputsSame ==
  ASSUME NEW s \in State, NEW masks
  PROVE  SameFacts(s, ReadInputs(s, masks))
<1> DEFINE read == {r \in DOMAIN masks \ Ignored : masks[r] # {}}
           cell(r) == ReadCell(CellIn(s.Cells, r), masks[r])
           cells == [r \in DOMAIN s.Cells \cup read |->
                       IF r \in read THEN cell(r) ELSE CellIn(s.Cells, r)]
           t == [s EXCEPT !.Cells = cells]
<1>1. ReadInputs(s, masks) = t
  BY DEF ReadInputs
<1>2. \A r : /\ cell(r).MayEntry = CellIn(s.Cells, r).MayEntry
             /\ cell(r).MayNonEntry = CellIn(s.Cells, r).MayNonEntry
  BY CellOf DEF ReadCell, CoveredCell, Cell
<1> HIDE DEF cell, read
<1>3. \A r : CellIn(cells, r) = IF r \in read THEN cell(r) ELSE CellIn(s.Cells, r)
  BY DEF CellIn
<1> HIDE DEF cells
<1>4. /\ t.Cells = cells /\ t.Reachable = s.Reachable /\ t.Origins = s.Origins
      /\ t.StackSlots = s.StackSlots /\ t.StackSlotOrigins = s.StackSlotOrigins
      /\ t.ValueOrigins = s.ValueOrigins
  BY DEF State
<1> HIDE DEF t
<1> QED BY <1>1, <1>2, <1>3, <1>4 DEF SameFacts

\* What a call makes of the registers that it may overwrite.
Overwritable(c) == IF c.kind = "summary" THEN VisibleRegisters ELSE Clobbered

CellAfterCall(c, r, cell) ==
  IF c.kind = "summary" THEN ThroughCall(cell, CellIn(c.effect.Registers, r))
  ELSE WriteCell(cell, Bits)

OriginAfterCall(c, r, bits) ==
  IF c.kind = "summary" THEN CallOrigin(bits, CellIn(c.effect.Registers, r))
  ELSE MarkOrigin(bits, Bits, "CallClobber")

AfterCall(c, s, t) ==
  /\ t.StackSlots = s.StackSlots /\ t.ValueOrigins = s.ValueOrigins
  /\ \A r \in Registers :
       IF r \in Overwritable(c)
       THEN /\ \E cell \in CoveredCell :
                 /\ cell.MayEntry = CellIn(s.Cells, r).MayEntry
                 /\ cell.MayNonEntry = CellIn(s.Cells, r).MayNonEntry
                 /\ CellIn(t.Cells, r) = CellAfterCall(c, r, cell)
            /\ t.Origins[r] = OriginAfterCall(c, r, s.Origins[r])
       ELSE /\ CellIn(t.Cells, r).MayEntry = CellIn(s.Cells, r).MayEntry
            /\ CellIn(t.Cells, r).MayNonEntry = CellIn(s.Cells, r).MayNonEntry
            /\ t.Origins[r] = s.Origins[r]

LEMMA AbiCallFacts ==
  ASSUME NEW c, c.kind # "summary", NEW s \in State, NEW u \in State, SameFacts(s, u)
  PROVE  /\ AfterCall(c, s, AbiCallClobbers(u))
         /\ AbiCallClobbers(u).Reachable = s.Reachable
<1> DEFINE cell(r) == WriteCell(CellIn(u.Cells, r), Bits)
           cells == [r \in DOMAIN u.Cells \cup Clobbered |->
                       IF r \in Clobbered THEN cell(r) ELSE CellIn(u.Cells, r)]
           origins == [r \in Registers |->
                         IF r \in Clobbered THEN MarkOrigin(u.Origins[r], Bits, "CallClobber")
                         ELSE u.Origins[r]]
           t == [u EXCEPT !.Cells = cells, !.Origins = origins]
<1>1. AbiCallClobbers(u) = t
  BY DEF AbiCallClobbers
<1> HIDE DEF cell
<1>2. \A r : CellIn(cells, r) = IF r \in Clobbered THEN cell(r) ELSE CellIn(u.Cells, r)
  BY DEF CellIn
<1> HIDE DEF cells
<1>3. \A r \in Registers : origins[r] = IF r \in Clobbered
                                         THEN MarkOrigin(u.Origins[r], Bits, "CallClobber")
                                         ELSE u.Origins[r]
  OBVIOUS
<1> HIDE DEF origins
<1>4. /\ t.Cells = cells /\ t.Reachable = u.Reachable /\ t.Origins = origins
      /\ t.StackSlots = u.StackSlots /\ t.ValueOrigins = u.ValueOrigins
  BY DEF State
<1> HIDE DEF t
<1>5. Overwritable(c) = Clobbered
  BY DEF Overwritable
<1>6. ASSUME NEW r \in Registers
      PROVE  IF r \in Overwritable(c)
             THEN /\ \E cl \in CoveredCell :
                       /\ cl.MayEntry = CellIn(s.Cells, r).MayEntry
                       /\ cl.MayNonEntry = CellIn(s.Cells, r).MayNonEntry
                       /\ CellIn(t.Cells, r) = CellAfterCall(c, r, cl)
                  /\ t.Origins[r] = OriginAfterCall(c, r, s.Origins[r])
             ELSE /\ CellIn(t.Cells, r).MayEntry = CellIn(s.Cells, r).MayEntry
                  /\ CellIn(t.Cells, r).MayNonEntry = CellIn(s.Cells, r).MayNonEntry
                  /\ t.Origins[r] = s.Origins[r]
  <2>1. CASE r \in Clobbered
    <3>1. CellIn(t.Cells, r) = CellAfterCall(c, r, CellIn(u.Cells, r))
      BY <1>2, <1>4, <2>1 DEF CellAfterCall, cell
    <3>2. t.Origins[r] = OriginAfterCall(c, r, s.Origins[r])
      BY <1>3, <1>4, <2>1 DEF OriginAfterCall, SameFacts
    <3>3. CellIn(u.Cells, r) \in CoveredCell
      BY CellOf
    <3> QED BY <1>5, <2>1, <3>1, <3>2, <3>3 DEF SameFacts
  <2>2. CASE r \notin Clobbered
    BY <1>2, <1>3, <1>4, <1>5, <2>2 DEF SameFacts
  <2> QED BY <2>1, <2>2
<1> QED BY <1>1, <1>4, <1>6 DEF AfterCall, SameFacts

LEMMA SummaryCallFacts ==
  ASSUME NEW c, c.kind = "summary", NEW s \in State
  PROVE  /\ AfterCall(c, s, ApplyFunctionEffect(c.effect, s))
         /\ ApplyFunctionEffect(c.effect, s).Reachable = s.Reachable
<1> DEFINE callee(r) == CellIn(c.effect.Registers, r)
           cells == [r \in DOMAIN s.Cells \cup VisibleRegisters |->
                       IF r \in VisibleRegisters THEN ThroughCall(CellIn(s.Cells, r), callee(r))
                       ELSE CellIn(s.Cells, r)]
           origins == [r \in Registers |->
                         IF r \in VisibleRegisters THEN CallOrigin(s.Origins[r], callee(r))
                         ELSE s.Origins[r]]
           t == [s EXCEPT !.Cells = cells, !.Origins = origins]
<1>1. ApplyFunctionEffect(c.effect, s) = t
  BY DEF ApplyFunctionEffect, VisibleRegisters
<1> HIDE DEF callee
<1>2. \A r : CellIn(cells, r) = IF r \in VisibleRegisters
                                THEN ThroughCall(CellIn(s.Cells, r), callee(r))
                                ELSE CellIn(s.Cells, r)
  BY DEF CellIn
<1> HIDE DEF cells
<1>3. \A r \in Registers : origins[r] = IF r \in VisibleRegisters
                                         THEN CallOrigin(s.Origins[r], callee(r))
                                         ELSE s.Origins[r]
  OBVIOUS
<1> HIDE DEF origins
<1>4. /\ t.Cells = cells /\ t.Reachable = s.Reachable /\ t.Origins = origins
      /\ t.StackSlots = s.StackSlots /\ t.ValueOrigins = s.ValueOrigins
  BY DEF State
<1> HIDE DEF t
<1>5. Overwritable(c) = VisibleRegisters
  BY DEF Overwritable
<1>6. ASSUME NEW r \in Registers
      PROVE  IF r \in Overwritable(c)
             THEN /\ \E cl \in CoveredCell :
                       /\ cl.MayEntry = CellIn(s.Cells, r).MayEntry
                       /\ cl.MayNonEntry = CellIn(s.Cells, r).MayNonEntry
                       /\ CellIn(t.Cells, r) = CellAfterCall(c, r, cl)
                  /\ t.Origins[r] = OriginAfterCall(c, r, s.Origins[r])
             ELSE /\ CellIn(t.Cells, r).MayEntry = CellIn(s.Cells, r).MayEntry
                  /\ CellIn(t.Cells, r).MayNonEntry = CellIn(s.Cells, r).MayNonEntry
                  /\ t.Origins[r] = s.Origins[r]
  <2>1. CASE r \in VisibleRegisters
    <3>1. CellIn(t.Cells, r) = CellAfterCall(c, r, CellIn(s.Cells, r))
      BY <1>2, <1>4, <2>1 DEF CellAfterCall, callee
    <3>2. t.Origins[r] = OriginAfterCall(c, r, s.Origins[r])
      BY <1>3, <1>4, <2>1 DEF OriginAfterCall, callee
    <3>3. CellIn(s.Cells, r) \in CoveredCell
      BY CellOf
    <3> QED BY <1>5, <2>1, <3>1, <3>2, <3>3
  <2>2. CASE r \notin VisibleRegisters
    BY <1>2, <1>3, <1>4, <1>5, <2>2
  <2> QED BY <2>1, <2>2
<1> QED BY <1>1, <1>4, <1>6 DEF AfterCall

LEMMA EndCallFacts ==
  ASSUME NEW u \in State, NEW noReturn
  PROVE  LET t == EndCall(u, noReturn) IN
         /\ t.Cells = u.Cells /\ t.Origins = u.Origins /\ t.StackSlots = u.StackSlots
         /\ t.ValueOrigins = u.ValueOrigins /\ t.StackSlotOrigins = EmptyMap
         /\ t.Reachable = IF noReturn THEN FALSE ELSE u.Reachable
<1> DEFINE v == ConsumeStackArgEvidence(u)
           t == EndCall(u, noReturn)
<1>1. /\ v.Cells = u.Cells /\ v.Origins = u.Origins /\ v.StackSlots = u.StackSlots
      /\ v.ValueOrigins = u.ValueOrigins /\ v.StackSlotOrigins = EmptyMap
      /\ v.Reachable = u.Reachable
      /\ v \in [Reachable : {v.Reachable}, EndsInNoReturn : {v.EndsInNoReturn}, Cells : {v.Cells},
                Origins : {v.Origins}, StackSlots : {v.StackSlots},
                StackSlotOrigins : {v.StackSlotOrigins}, ValueOrigins : {v.ValueOrigins}]
  BY DEF ConsumeStackArgEvidence, State
<1>2. t = IF noReturn THEN [v EXCEPT !.Reachable = FALSE, !.EndsInNoReturn = TRUE] ELSE v
  BY DEF EndCall, MarkNoReturnExit
<1> HIDE DEF v, t
<1>3. CASE noReturn
  BY <1>1, <1>2, <1>3 DEF t
<1>4. CASE ~noReturn
  BY <1>1, <1>2, <1>4 DEF t
<1> QED BY <1>3, <1>4

LEMMA TransferCallFacts ==
  ASSUME NEW c \in Callees, NEW s \in State
  PROVE  /\ AfterCall(c, s, TransferCall(c, s))
         /\ DOMAIN TransferCall(c, s).StackSlotOrigins = {}
         /\ TransferCall(c, s).Reachable = IF NeverReturns(c) THEN FALSE ELSE s.Reachable
<1> DEFINE t == TransferCall(c, s)
<1>1. ASSUME NEW u \in State, NEW noReturn, t = EndCall(u, noReturn), AfterCall(c, s, u),
             u.Reachable = s.Reachable, noReturn = NeverReturns(c)
      PROVE  /\ AfterCall(c, s, t) /\ DOMAIN t.StackSlotOrigins = {}
             /\ t.Reachable = IF NeverReturns(c) THEN FALSE ELSE s.Reachable
  <2>1. /\ t.Cells = u.Cells /\ t.Origins = u.Origins /\ t.StackSlots = u.StackSlots
        /\ t.ValueOrigins = u.ValueOrigins /\ DOMAIN t.StackSlotOrigins = {}
        /\ t.Reachable = IF noReturn THEN FALSE ELSE u.Reachable
    <3>1. t = EndCall(u, noReturn)
      BY <1>1
    <3>2. DOMAIN EmptyMap = {}
      BY DEF EmptyMap
    <3> HIDE DEF t
    <3> QED BY <3>1, <3>2, EndCallFacts
  <2> HIDE DEF t
  <2>2. \A r \in Registers : CellIn(t.Cells, r) = CellIn(u.Cells, r) /\ t.Origins[r] = u.Origins[r]
    BY <2>1
  <2>3. t.StackSlots = u.StackSlots /\ t.ValueOrigins = u.ValueOrigins
    BY <2>1
  <2>4. AfterCall(c, s, u)
    BY <1>1
  <2>5. AfterCall(c, s, t)
    BY <2>2, <2>3, <2>4, Zenon DEF AfterCall
  <2> QED BY <1>1, <2>1, <2>5
<1>2. SameFacts(s, s)
  BY DEF SameFacts
<1>3. CASE c.kind = "shape"
  <2>1. DOMAIN c.inputs \subseteq Registers
    BY <1>3, SparseFacts DEF Callees, ShapeCallees, SummaryCallees, ExternalCallees
  <2> DEFINE read == ReadInputs(s, c.inputs)
             u == AbiCallClobbers(read)
  <2>2. read \in State /\ SameFacts(s, read)
    BY <2>1, ReadInputsType, ReadInputsSame
  <2> HIDE DEF read
  <2>3. u \in State /\ AfterCall(c, s, u) /\ u.Reachable = s.Reachable
    BY <1>3, <2>2, AbiCallFacts, AbiCallClobbersType
  <2>4. t = EndCall(u, c.noReturn) /\ c.noReturn = NeverReturns(c)
    BY <1>3 DEF TransferCall, ExternalCallEffect, NeverReturns, read
  <2> HIDE DEF t, u
  <2> QED BY <1>1, <2>3, <2>4 DEF t
<1>4. CASE c.kind = "external"
  <2> DEFINE read == IF UnknownReadsAbi THEN ReadInputs(s, AbiInputMasks) ELSE s
             u == AbiCallClobbers(read)
  <2>1. DOMAIN AbiInputMasks \subseteq Registers
    BY RegisterSetsAssumption DEF AbiInputMasks
  <2>2. /\ ReadInputs(s, AbiInputMasks) \in State
        /\ SameFacts(s, ReadInputs(s, AbiInputMasks))
    BY <2>1, ReadInputsType, ReadInputsSame
  <2>3. read \in State /\ SameFacts(s, read)
    BY <1>2, <2>2
  <2> HIDE DEF read
  <2>4. u \in State /\ AfterCall(c, s, u) /\ u.Reachable = s.Reachable
    BY <1>4, <2>3, AbiCallFacts, AbiCallClobbersType
  <2>5. t = EndCall(u, c.noReturn) /\ c.noReturn = NeverReturns(c)
    BY <1>4 DEF TransferCall, UnknownExternalCallEffect, NeverReturns, read
  <2> HIDE DEF t, u
  <2> QED BY <1>1, <2>4, <2>5 DEF t
<1>5. CASE c.kind = "summary"
  <2> DEFINE u == ApplyFunctionEffect(c.effect, s)
  <2>1. c.effect \in FunctionEffect
    BY <1>5 DEF Callees, ShapeCallees, SummaryCallees, ExternalCallees
  <2>2. u \in State /\ AfterCall(c, s, u) /\ u.Reachable = s.Reachable
    BY <1>5, <2>1, SummaryCallFacts, ApplyFunctionEffectType
  <2>3. t = EndCall(u, c.effect.NoReturn) /\ c.effect.NoReturn = NeverReturns(c)
    BY <1>5 DEF TransferCall, NeverReturns
  <2> HIDE DEF t, u
  <2> QED BY <1>1, <2>2, <2>3 DEF t
<1> QED BY <1>3, <1>4, <1>5 DEF Callees, ShapeCallees, SummaryCallees, ExternalCallees

-----------------------------------------------------------------------------
(* Results only lose information: from inputs that claim less, a block makes *)
(* a result that claims less.  MayEntry and the recorded reads take no part: *)
(* a restored entry value makes MayEntry larger, and more is read of it.     *)

\* The map n is part of the map m.
PartOf(n, m) == \A k \in DOMAIN n : k \in DOMAIN m /\ n[k] = m[k]

\* What t claims, s claims too, when s is reached at all.
Weakens(s, t) ==
  s.Reachable =>
    /\ t.Reachable
    /\ \A r : CellIn(s.Cells, r).MayNonEntry \subseteq CellIn(t.Cells, r).MayNonEntry
    /\ PartOf(t.StackSlots, s.StackSlots)
    /\ PartOf(t.ValueOrigins, s.ValueOrigins)

LEMMA PartOfPutDrop ==
  ASSUME NEW n, NEW m, PartOf(n, m), NEW k, NEW x
  PROVE  /\ PartOf(Put(n, k, x), Put(m, k, x))
         /\ PartOf(Drop(n, k), Drop(m, k))
         /\ PartOf(Drop(n, k), Put(m, k, x))
         /\ PartOf(Drop(n, k), m)
BY DEF PartOf, Put, Drop

LEMMA WeakensTransitive ==
  ASSUME NEW s, NEW t, NEW u, Weakens(s, t), Weakens(t, u)
  PROVE  Weakens(s, u)
BY DEF Weakens, PartOf

LEMMA PureMeansUntouched ==
  ASSUME NEW s \in State, NEW r
  PROVE  PureEntry(CellIn(s.Cells, r)) <=> CellIn(s.Cells, r).MayNonEntry = {}
BY CellOf DEF PureEntry, CoveredCell, Covered, Cell

LEMMA WeakensLoad ==
  ASSUME NEW s \in State, NEW t \in State, NEW i, i.reg \in Registers,
         s.Reachable, Weakens(s, t)
  PROVE  Weakens(TransferLoad(i, s), TransferLoad(i, t))
<1> DEFINE x == TransferLoad(i, s)
           y == TransferLoad(i, t)
           pureS == PureEntry(CellIn(s.Cells, i.reg))
           pureT == PureEntry(CellIn(t.Cells, i.reg))
           origin == [Base |-> i.reg, Mask |-> Bits]
<1>1. pureT => pureS
  BY PureMeansUntouched DEF Weakens
<1> HIDE DEF pureS, pureT
<1>2. /\ \A r : CellIn(x.Cells, r).MayNonEntry = CellIn(s.Cells, r).MayNonEntry
      /\ x.Reachable = s.Reachable /\ x.StackSlots = s.StackSlots
      /\ ~pureS => x.ValueOrigins = Drop(s.ValueOrigins, i.val)
      /\ pureS /\ i.reg # StackPointer => x.ValueOrigins = Put(s.ValueOrigins, i.val, origin)
      /\ pureS /\ i.reg = StackPointer => x.ValueOrigins = s.ValueOrigins
  BY LoadFacts DEF pureS
<1>3. /\ \A r : CellIn(y.Cells, r).MayNonEntry = CellIn(t.Cells, r).MayNonEntry
      /\ y.Reachable = t.Reachable /\ y.StackSlots = t.StackSlots
      /\ ~pureT => y.ValueOrigins = Drop(t.ValueOrigins, i.val)
      /\ pureT /\ i.reg # StackPointer => y.ValueOrigins = Put(t.ValueOrigins, i.val, origin)
      /\ pureT /\ i.reg = StackPointer => y.ValueOrigins = t.ValueOrigins
  BY LoadFacts DEF pureT
<1> HIDE DEF x, y, origin
<1>4. PartOf(y.ValueOrigins, x.ValueOrigins)
  <2>1. PartOf(t.ValueOrigins, s.ValueOrigins)
    BY DEF Weakens
  <2>2. CASE ~pureT
    BY <1>2, <1>3, <2>1, <2>2, PartOfPutDrop
  <2>3. CASE pureT /\ i.reg # StackPointer
    BY <1>1, <1>2, <1>3, <2>1, <2>3, PartOfPutDrop
  <2>4. CASE pureT /\ i.reg = StackPointer
    BY <1>1, <1>2, <1>3, <2>1, <2>4
  <2> QED BY <2>2, <2>3, <2>4
<1> QED BY <1>2, <1>3, <1>4 DEF Weakens, x, y

\* What is recorded as read in s is in t.
MoreRead(s, t) == \A r : CellIn(s.Cells, r).ReadEntry \subseteq CellIn(t.Cells, r).ReadEntry

\* From s to t, the bits of a register that may be its entry value are read.
RecordsRead(s, t, reg, mask) ==
  CellIn(s.Cells, reg).MayEntry \cap mask \subseteq CellIn(t.Cells, reg).ReadEntry

LEMMA ReadRegisterReads ==
  ASSUME NEW s \in State, NEW reg, NEW mask
  PROVE  /\ MoreRead(s, ReadRegister(s, reg, mask))
         /\ RecordsRead(s, ReadRegister(s, reg, mask), reg, mask)
<1> DEFINE cell == ReadCell(CellIn(s.Cells, reg), mask)
           t == [s EXCEPT !.Cells = Put(s.Cells, reg, cell)]
<1>1. cell.ReadEntry = CellIn(s.Cells, reg).ReadEntry
                         \cup (CellIn(s.Cells, reg).MayEntry \cap mask)
  BY CellOf DEF ReadCell, CoveredCell, Cell
<1> HIDE DEF cell
<1>2. t.Cells = Put(s.Cells, reg, cell)
  BY DEF State
<1> HIDE DEF t
<1>3. \A r : CellIn(t.Cells, r) = IF r = reg THEN cell ELSE CellIn(s.Cells, r)
  BY <1>2, CellInPut
<1>4. MoreRead(s, t) /\ RecordsRead(s, t, reg, mask)
  BY <1>1, <1>3 DEF MoreRead, RecordsRead
<1>5. mask = {} => MoreRead(s, s) /\ RecordsRead(s, s, reg, mask)
  BY DEF MoreRead, RecordsRead
<1> QED BY <1>4, <1>5 DEF ReadRegister, t, cell

\* A value with an origin is read as the register it comes from.
LEMMA MarkReadReads ==
  ASSUME NEW s \in State, NEW src, NEW off
  PROVE  LET t == MarkEntryValueRead(s, src, off) IN
         /\ MoreRead(s, t)
         /\ HasEntryOrigin(s, src) /\ ~off =>
              RecordsRead(s, t, s.ValueOrigins[src].Base, s.ValueOrigins[src].Mask)
<1>1. MoreRead(s, s)
  BY DEF MoreRead
<1> QED BY <1>1, ReadRegisterReads DEF MarkEntryValueRead

LEMMA LoadReads ==
  ASSUME NEW s \in State, NEW i, i.reg \in Registers
  PROVE  LET t == TransferLoad(i, s) IN
         /\ MoreRead(s, t)
         /\ i.reg \notin Ignored /\ ~i.keep /\ ~PureEntry(CellIn(s.Cells, i.reg)) =>
              RecordsRead(s, t, i.reg, Bits)
<1> DEFINE counts == i.reg \notin Ignored /\ ~i.keep /\ ~PureEntry(CellIn(s.Cells, i.reg))
           read == IF counts THEN ReadRegister(s, i.reg, Bits) ELSE s
           t == TransferLoad(i, s)
<1>1. MoreRead(s, read) /\ (counts => RecordsRead(s, read, i.reg, Bits))
  <2>1. MoreRead(s, s)
    BY DEF MoreRead
  <2> HIDE DEF counts
  <2> QED BY <2>1, ReadRegisterReads
<1>2. read \in State
  BY ReadRegisterType
<1>3. t = IF ~PureEntry(CellIn(s.Cells, i.reg)) THEN DropOrigin(read, i.val)
          ELSE IF i.reg # StackPointer THEN SetOrigin(read, i.val, i.reg, Bits)
          ELSE read
  BY Zenon DEF TransferLoad
<1> HIDE DEF read, t, counts
<1>4. t.Cells = read.Cells
  BY <1>2, <1>3 DEF SetOrigin, DropOrigin, State
<1> QED BY <1>1, <1>4 DEF MoreRead, RecordsRead, t, counts

LEMMA ReloadFacts ==
  ASSUME NEW s \in State, NEW i, NEW adjust
  PROVE  LET t == TransferReload(i, s, adjust) IN
         /\ t.Cells = s.Cells /\ t.Reachable = s.Reachable /\ t.StackSlots = s.StackSlots
         /\ t.ValueOrigins = IF i.slot \in DOMAIN s.StackSlots /\ i.slot \notin adjust
                             THEN Put(s.ValueOrigins, i.val,
                                      [Base |-> s.StackSlots[i.slot], Mask |-> Bits])
                             ELSE Drop(s.ValueOrigins, i.val)
<1>1. CASE i.slot \in DOMAIN s.StackSlots /\ i.slot \notin adjust
  BY <1>1 DEF TransferReload, SetOrigin, State
<1>2. CASE ~(i.slot \in DOMAIN s.StackSlots /\ i.slot \notin adjust)
  BY <1>2 DEF TransferReload, DropOrigin, State
<1> QED BY <1>1, <1>2

LEMMA WeakensReload ==
  ASSUME NEW s \in State, NEW t \in State, NEW i, NEW adjust, s.Reachable, Weakens(s, t)
  PROVE  Weakens(TransferReload(i, s, adjust), TransferReload(i, t, adjust))
<1> DEFINE x == TransferReload(i, s, adjust)
           y == TransferReload(i, t, adjust)
           homeS == i.slot \in DOMAIN s.StackSlots /\ i.slot \notin adjust
           homeT == i.slot \in DOMAIN t.StackSlots /\ i.slot \notin adjust
           origin == [Base |-> s.StackSlots[i.slot], Mask |-> Bits]
<1>1. homeT => homeS /\ t.StackSlots[i.slot] = s.StackSlots[i.slot]
  BY DEF Weakens, PartOf
<1>2. /\ x.Cells = s.Cells /\ x.Reachable = s.Reachable /\ x.StackSlots = s.StackSlots
      /\ x.ValueOrigins = IF homeS THEN Put(s.ValueOrigins, i.val, origin)
                          ELSE Drop(s.ValueOrigins, i.val)
  BY ReloadFacts
<1>3. /\ y.Cells = t.Cells /\ y.Reachable = t.Reachable /\ y.StackSlots = t.StackSlots
      /\ y.ValueOrigins = IF homeT
                          THEN Put(t.ValueOrigins, i.val,
                                   [Base |-> t.StackSlots[i.slot], Mask |-> Bits])
                          ELSE Drop(t.ValueOrigins, i.val)
  BY ReloadFacts
<1> HIDE DEF x, y, homeS, homeT, origin
<1>4. PartOf(y.ValueOrigins, x.ValueOrigins)
  <2>1. PartOf(t.ValueOrigins, s.ValueOrigins)
    BY DEF Weakens
  <2>2. homeT => y.ValueOrigins = Put(t.ValueOrigins, i.val, origin)
    BY <1>1, <1>3 DEF origin
  <2> QED BY <1>1, <1>2, <1>3, <2>1, <2>2, PartOfPutDrop
<1> QED BY <1>2, <1>3, <1>4 DEF Weakens, x, y

LEMMA PartialReadFacts ==
  ASSUME NEW s \in State, NEW i, i.reg \in Registers
  PROVE  LET t == TransferPartialRead(i, s)
             tracks == i.reg \notin Ignored /\ ~i.dead IN
         /\ \A r : CellIn(t.Cells, r).MayNonEntry = CellIn(s.Cells, r).MayNonEntry
         /\ t.Reachable = s.Reachable /\ t.StackSlots = s.StackSlots
         /\ t.ValueOrigins = IF tracks /\ PureEntry(CellIn(s.Cells, i.reg))
                             THEN Put(s.ValueOrigins, i.val, [Base |-> i.reg, Mask |-> i.mask])
                             ELSE Drop(s.ValueOrigins, i.val)
         /\ MoreRead(s, t)
         /\ tracks => RecordsRead(s, t, i.reg, i.mask)
<1> DEFINE t == TransferPartialRead(i, s)
           tracks == i.reg \notin Ignored /\ ~i.dead
           pure == PureEntry(CellIn(s.Cells, i.reg))
           origin == [Base |-> i.reg, Mask |-> i.mask]
           read == IF tracks THEN ReadRegister(s, i.reg, i.mask) ELSE s
<1>1. /\ SameFacts(s, read) /\ read \in State /\ MoreRead(s, read)
      /\ tracks => RecordsRead(s, read, i.reg, i.mask)
  <2>1. SameFacts(s, s) /\ MoreRead(s, s)
    BY DEF SameFacts, MoreRead
  <2>2. /\ SameFacts(s, ReadRegister(s, i.reg, i.mask))
        /\ ReadRegister(s, i.reg, i.mask) \in State
        /\ MoreRead(s, ReadRegister(s, i.reg, i.mask))
        /\ RecordsRead(s, ReadRegister(s, i.reg, i.mask), i.reg, i.mask)
    BY ReadRegisterSame, ReadRegisterType, ReadRegisterReads
  <2> HIDE DEF tracks
  <2> QED BY <2>1, <2>2
<1>2. t = IF tracks /\ pure THEN SetOrigin(read, i.val, i.reg, i.mask)
          ELSE DropOrigin(read, i.val)
  BY DEF TransferPartialRead
<1> HIDE DEF t, tracks, pure, read
<1>3. /\ t.Cells = read.Cells /\ t.Reachable = read.Reachable /\ t.StackSlots = read.StackSlots
      /\ t.ValueOrigins = IF tracks /\ pure THEN Put(read.ValueOrigins, i.val, origin)
                          ELSE Drop(read.ValueOrigins, i.val)
  <2>1. CASE tracks /\ pure
    BY <1>1, <1>2, <2>1 DEF SetOrigin, State
  <2>2. CASE ~(tracks /\ pure)
    BY <1>1, <1>2, <2>2 DEF DropOrigin, State
  <2> QED BY <2>1, <2>2
<1> HIDE DEF origin
<1> QED BY <1>1, <1>3 DEF SameFacts, MoreRead, RecordsRead, t, tracks, pure, origin

LEMMA WeakensPartialRead ==
  ASSUME NEW s \in State, NEW t \in State, NEW i, i.reg \in Registers,
         s.Reachable, Weakens(s, t)
  PROVE  Weakens(TransferPartialRead(i, s), TransferPartialRead(i, t))
<1> DEFINE x == TransferPartialRead(i, s)
           y == TransferPartialRead(i, t)
           tracks == i.reg \notin Ignored /\ ~i.dead
           pureS == PureEntry(CellIn(s.Cells, i.reg))
           pureT == PureEntry(CellIn(t.Cells, i.reg))
           origin == [Base |-> i.reg, Mask |-> i.mask]
<1>1. pureT => pureS
  BY PureMeansUntouched DEF Weakens
<1>2. /\ \A r : CellIn(x.Cells, r).MayNonEntry = CellIn(s.Cells, r).MayNonEntry
      /\ x.Reachable = s.Reachable /\ x.StackSlots = s.StackSlots
      /\ x.ValueOrigins = IF tracks /\ pureS THEN Put(s.ValueOrigins, i.val, origin)
                          ELSE Drop(s.ValueOrigins, i.val)
  BY PartialReadFacts
<1>3. /\ \A r : CellIn(y.Cells, r).MayNonEntry = CellIn(t.Cells, r).MayNonEntry
      /\ y.Reachable = t.Reachable /\ y.StackSlots = t.StackSlots
      /\ y.ValueOrigins = IF tracks /\ pureT THEN Put(t.ValueOrigins, i.val, origin)
                          ELSE Drop(t.ValueOrigins, i.val)
  BY PartialReadFacts
<1> HIDE DEF x, y, tracks, pureS, pureT, origin
<1>4. PartOf(y.ValueOrigins, x.ValueOrigins)
  <2>1. PartOf(t.ValueOrigins, s.ValueOrigins)
    BY DEF Weakens
  <2> QED BY <1>1, <1>2, <1>3, <2>1, PartOfPutDrop
<1> QED BY <1>2, <1>3, <1>4 DEF Weakens, x, y

\* A written register is no entry value any more, and the value was read.
LEMMA WrittenFacts ==
  ASSUME NEW s \in State, NEW reg \in Registers, NEW mask \in SUBSET Bits, NEW src, NEW off,
         NEW float
  PROVE  LET read == MarkEntryValueRead(s, src, off)
             t == DefineOrigin(WriteRegister(read, reg, mask), reg, mask,
                               StoredKind(read, src), float) IN
         /\ t.Reachable = s.Reachable /\ t.StackSlots = s.StackSlots
         /\ t.ValueOrigins = s.ValueOrigins
         /\ \A r : r # reg => CellIn(t.Cells, r).MayNonEntry = CellIn(s.Cells, r).MayNonEntry
         /\ CellIn(t.Cells, reg).MayNonEntry = CellIn(s.Cells, reg).MayNonEntry \cup mask
         /\ MoreRead(s, t)
         /\ HasEntryOrigin(s, src) /\ ~off =>
              RecordsRead(s, t, s.ValueOrigins[src].Base, s.ValueOrigins[src].Mask)
<1> DEFINE read == MarkEntryValueRead(s, src, off)
           w == WriteRegister(read, reg, mask)
           kind == StoredKind(read, src)
           t == DefineOrigin(w, reg, mask, kind, float)
<1>1. /\ read \in State /\ SameFacts(s, read) /\ MoreRead(s, read)
      /\ HasEntryOrigin(s, src) /\ ~off =>
           RecordsRead(s, read, s.ValueOrigins[src].Base, s.ValueOrigins[src].Mask)
  BY MarkEntryValueReadType, MarkReadSame, MarkReadReads
<1>2. kind # "CallClobber"
  BY DEF StoredKind
<1> HIDE DEF read, kind
<1>3. w \in State
  BY <1>1, WriteRegisterType
<1>4. /\ w.Reachable = read.Reachable /\ w.StackSlots = read.StackSlots
      /\ w.ValueOrigins = read.ValueOrigins
      /\ \A r : r # reg => CellIn(w.Cells, r) = CellIn(read.Cells, r)
      /\ CellIn(w.Cells, reg).MayNonEntry = CellIn(read.Cells, reg).MayNonEntry \cup mask
      /\ \A r : CellIn(w.Cells, r).ReadEntry = CellIn(read.Cells, r).ReadEntry
  BY <1>1, WriteRegisterFacts
<1> HIDE DEF w
<1>5. OnlyOriginOf(w, t, reg)
  BY <1>2, <1>3, DefineOriginFacts
<1> HIDE DEF t
<1>6. t.Cells = w.Cells /\ t.Reachable = w.Reachable /\ t.StackSlots = w.StackSlots
      /\ t.ValueOrigins = w.ValueOrigins
  BY <1>5 DEF OnlyOriginOf
<1>7. \A r : CellIn(t.Cells, r).ReadEntry = CellIn(read.Cells, r).ReadEntry
  BY <1>4, <1>6
<1>8. /\ \A r : r # reg => CellIn(t.Cells, r).MayNonEntry = CellIn(s.Cells, r).MayNonEntry
      /\ CellIn(t.Cells, reg).MayNonEntry = CellIn(s.Cells, reg).MayNonEntry \cup mask
  BY <1>1, <1>4, <1>6 DEF SameFacts
<1>9. t.Reachable = s.Reachable /\ t.StackSlots = s.StackSlots /\ t.ValueOrigins = s.ValueOrigins
  BY <1>1, <1>4, <1>6 DEF SameFacts
<1>10. /\ MoreRead(s, t)
       /\ HasEntryOrigin(s, src) /\ ~off =>
            RecordsRead(s, t, s.ValueOrigins[src].Base, s.ValueOrigins[src].Mask)
  BY <1>1, <1>7 DEF MoreRead, RecordsRead
<1> QED BY <1>8, <1>9, <1>10 DEF t, w, kind, read

LEMMA StoreFacts ==
  ASSUME NEW s \in State, NEW i, i.reg \in Registers
  PROVE  LET t == TransferStore(i, s)
             restores == HasEntryOrigin(s, i.src) /\ ~i.off /\ s.ValueOrigins[i.src].Base = i.reg
             old == CellIn(s.Cells, i.reg).MayNonEntry IN
         /\ t.Reachable = s.Reachable /\ t.StackSlots = s.StackSlots
         /\ t.ValueOrigins = s.ValueOrigins
         /\ \A r : r # i.reg => CellIn(t.Cells, r).MayNonEntry = CellIn(s.Cells, r).MayNonEntry
         /\ CellIn(t.Cells, i.reg).MayNonEntry =
              IF i.reg \in Ignored THEN old
              ELSE IF ~i.keep /\ restores THEN old \ s.ValueOrigins[i.src].Mask
              ELSE old \cup Bits
         /\ MoreRead(s, t)
         /\ i.reg \notin Ignored /\ ~i.keep /\ HasEntryOrigin(s, i.src) /\ ~i.off /\ ~restores =>
              RecordsRead(s, t, s.ValueOrigins[i.src].Base, s.ValueOrigins[i.src].Mask)
<1> DEFINE restores == HasEntryOrigin(s, i.src) /\ ~i.off
                         /\ s.ValueOrigins[i.src].Base = i.reg
           mask == s.ValueOrigins[i.src].Mask
           read == MarkEntryValueRead(s, i.src, i.off)
           t == TransferStore(i, s)
<1>1. t = IF i.reg \in Ignored THEN s
          ELSE IF i.keep THEN DefineOrigin(WriteRegister(s, i.reg, Bits), i.reg, Bits, "Mixed", FALSE)
          ELSE IF restores
          THEN DefineOrigin(RestoreRegister(s, i.reg, mask), i.reg, Bits, "Entry", FALSE)
          ELSE DefineOrigin(WriteRegister(read, i.reg, Bits), i.reg, Bits,
                            StoredKind(read, i.src), i.float)
  BY DEF TransferStore, DefineOrigin
<1> HIDE DEF t
<1>2. CASE i.reg \in Ignored
  BY <1>1, <1>2 DEF MoreRead, t
<1>3. CASE i.reg \notin Ignored /\ i.keep
  <2> DEFINE w == WriteRegister(s, i.reg, Bits)
  <2>1. /\ w \in State
        /\ w.Reachable = s.Reachable /\ w.StackSlots = s.StackSlots
        /\ w.ValueOrigins = s.ValueOrigins
        /\ \A r : r # i.reg => CellIn(w.Cells, r) = CellIn(s.Cells, r)
        /\ CellIn(w.Cells, i.reg).MayNonEntry = CellIn(s.Cells, i.reg).MayNonEntry \cup Bits
        /\ \A r : CellIn(w.Cells, r).ReadEntry = CellIn(s.Cells, r).ReadEntry
    BY WriteRegisterFacts, WriteRegisterType, SMTT(30)
  <2>2. t = DefineOrigin(w, i.reg, Bits, "Mixed", FALSE)
    BY <1>1, <1>3
  <2> HIDE DEF w
  <2>3. OnlyOriginOf(w, t, i.reg)
    BY <2>1, <2>2, DefineOriginFacts
  <2> QED BY <1>3, <2>1, <2>3 DEF OnlyOriginOf, MoreRead, t
<1>4. CASE i.reg \notin Ignored /\ ~i.keep /\ restores
  <2> DEFINE w == RestoreRegister(s, i.reg, mask)
  <2>1. mask \in SUBSET Bits
    BY <1>4, OriginOfValue DEF HasEntryOrigin
  <2>2. /\ w \in State
        /\ w.Reachable = s.Reachable /\ w.StackSlots = s.StackSlots
        /\ w.ValueOrigins = s.ValueOrigins
        /\ \A r : r # i.reg => CellIn(w.Cells, r) = CellIn(s.Cells, r)
        /\ CellIn(w.Cells, i.reg).MayNonEntry = CellIn(s.Cells, i.reg).MayNonEntry \ mask
        /\ \A r : CellIn(w.Cells, r).ReadEntry = CellIn(s.Cells, r).ReadEntry
    BY <2>1, RestoreRegisterFacts, RestoreRegisterType, SMTT(30)
  <2>3. t = DefineOrigin(w, i.reg, Bits, "Entry", FALSE)
    BY <1>1, <1>4
  <2> HIDE DEF w
  <2>4. OnlyOriginOf(w, t, i.reg)
    BY <2>2, <2>3, DefineOriginFacts
  <2> HIDE DEF mask
  <2> QED BY <1>4, <2>2, <2>4 DEF OnlyOriginOf, MoreRead, t, mask
<1>5. CASE i.reg \notin Ignored /\ ~i.keep /\ ~restores
  <2> DEFINE reg == i.reg
             src == i.src
             off == i.off
             float == i.float
             w == DefineOrigin(WriteRegister(MarkEntryValueRead(s, src, off), reg, Bits), reg, Bits,
                               StoredKind(MarkEntryValueRead(s, src, off), src), float)
  <2>1. t = w
    BY <1>1, <1>5
  <2>2. reg \in Registers /\ Bits \in SUBSET Bits
    OBVIOUS
  <2>3. /\ w.Reachable = s.Reachable /\ w.StackSlots = s.StackSlots
        /\ w.ValueOrigins = s.ValueOrigins
        /\ \A r : r # reg => CellIn(w.Cells, r).MayNonEntry = CellIn(s.Cells, r).MayNonEntry
        /\ CellIn(w.Cells, reg).MayNonEntry = CellIn(s.Cells, reg).MayNonEntry \cup Bits
        /\ MoreRead(s, w)
        /\ HasEntryOrigin(s, src) /\ ~off =>
             RecordsRead(s, w, s.ValueOrigins[src].Base, s.ValueOrigins[src].Mask)
    <3> HIDE DEF reg, src, off, float
    <3> QED BY <2>2, WrittenFacts
  <2> HIDE DEF restores, w
  <2> QED BY <1>5, <2>1, <2>3 DEF t, restores
<1> QED BY <1>2, <1>3, <1>4, <1>5

LEMMA WeakensStore ==
  ASSUME NEW s \in State, NEW t \in State, NEW i, i.reg \in Registers,
         s.Reachable, Weakens(s, t)
  PROVE  Weakens(TransferStore(i, s), TransferStore(i, t))
<1> DEFINE x == TransferStore(i, s)
           y == TransferStore(i, t)
           backS == HasEntryOrigin(s, i.src) /\ ~i.off /\ s.ValueOrigins[i.src].Base = i.reg
           backT == HasEntryOrigin(t, i.src) /\ ~i.off /\ t.ValueOrigins[i.src].Base = i.reg
           maskS == s.ValueOrigins[i.src].Mask
           maskT == t.ValueOrigins[i.src].Mask
           oldS == CellIn(s.Cells, i.reg).MayNonEntry
           oldT == CellIn(t.Cells, i.reg).MayNonEntry
<1>1. backT => backS /\ maskT = maskS
  BY DEF Weakens, PartOf, HasEntryOrigin
<1>2. oldS \subseteq Bits /\ oldT \subseteq Bits /\ oldS \subseteq oldT
  BY CellOf DEF CoveredCell, Cell, Weakens
<1>3. /\ x.Reachable = s.Reachable /\ x.StackSlots = s.StackSlots
      /\ x.ValueOrigins = s.ValueOrigins
      /\ \A r : r # i.reg => CellIn(x.Cells, r).MayNonEntry = CellIn(s.Cells, r).MayNonEntry
      /\ CellIn(x.Cells, i.reg).MayNonEntry =
           IF i.reg \in Ignored THEN oldS
           ELSE IF ~i.keep /\ backS THEN oldS \ maskS ELSE oldS \cup Bits
  BY StoreFacts
<1>4. /\ y.Reachable = t.Reachable /\ y.StackSlots = t.StackSlots
      /\ y.ValueOrigins = t.ValueOrigins
      /\ \A r : r # i.reg => CellIn(y.Cells, r).MayNonEntry = CellIn(t.Cells, r).MayNonEntry
      /\ CellIn(y.Cells, i.reg).MayNonEntry =
           IF i.reg \in Ignored THEN oldT
           ELSE IF ~i.keep /\ backT THEN oldT \ maskT ELSE oldT \cup Bits
  BY StoreFacts
<1> HIDE DEF x, y, backS, backT, maskS, maskT
<1>5. CellIn(x.Cells, i.reg).MayNonEntry \subseteq CellIn(y.Cells, i.reg).MayNonEntry
  <2> HIDE DEF oldS, oldT
  <2> QED BY <1>1, <1>2, <1>3, <1>4
<1>6. \A r : CellIn(s.Cells, r).MayNonEntry \subseteq CellIn(t.Cells, r).MayNonEntry
  BY DEF Weakens
<1>7. \A r : CellIn(x.Cells, r).MayNonEntry \subseteq CellIn(y.Cells, r).MayNonEntry
  BY <1>3, <1>4, <1>5, <1>6
<1> QED BY <1>3, <1>4, <1>7 DEF Weakens, x, y

LEMMA PartialWriteFacts ==
  ASSUME NEW s \in State, NEW i, i.reg \in Registers, i.mask \in SUBSET Bits
  PROVE  LET t == TransferPartialWrite(i, s)
             mask == IF i.reg \in Ignored THEN {} ELSE IF i.low32 THEN Bits ELSE i.mask IN
         /\ t.Reachable = s.Reachable /\ t.StackSlots = s.StackSlots
         /\ t.ValueOrigins = s.ValueOrigins
         /\ \A r : r # i.reg => CellIn(t.Cells, r).MayNonEntry = CellIn(s.Cells, r).MayNonEntry
         /\ CellIn(t.Cells, i.reg).MayNonEntry = CellIn(s.Cells, i.reg).MayNonEntry \cup mask
         /\ MoreRead(s, t)
         /\ i.reg \notin Ignored /\ HasEntryOrigin(s, i.src) /\ ~i.off =>
              RecordsRead(s, t, s.ValueOrigins[i.src].Base, s.ValueOrigins[i.src].Mask)
<1> DEFINE reg == i.reg
           src == i.src
           off == i.off
           float == i.float
           mask == IF i.low32 THEN Bits ELSE i.mask
           w == DefineOrigin(WriteRegister(MarkEntryValueRead(s, src, off), reg, mask), reg, mask,
                             StoredKind(MarkEntryValueRead(s, src, off), src), float)
           t == TransferPartialWrite(i, s)
<1>1. t = IF reg \in Ignored THEN s ELSE w
  BY DEF TransferPartialWrite
<1>2. reg \in Registers /\ mask \in SUBSET Bits
  OBVIOUS
<1>3. /\ w.Reachable = s.Reachable /\ w.StackSlots = s.StackSlots
      /\ w.ValueOrigins = s.ValueOrigins
      /\ \A r : r # reg => CellIn(w.Cells, r).MayNonEntry = CellIn(s.Cells, r).MayNonEntry
      /\ CellIn(w.Cells, reg).MayNonEntry = CellIn(s.Cells, reg).MayNonEntry \cup mask
      /\ MoreRead(s, w)
      /\ HasEntryOrigin(s, src) /\ ~off =>
           RecordsRead(s, w, s.ValueOrigins[src].Base, s.ValueOrigins[src].Mask)
  <2> HIDE DEF reg, src, off, float, mask
  <2> QED BY <1>2, WrittenFacts
<1>4. MoreRead(s, s)
  BY DEF MoreRead
<1> HIDE DEF w, t
<1>5. CASE reg \in Ignored
  BY <1>1, <1>4, <1>5 DEF t
<1>6. CASE reg \notin Ignored
  BY <1>1, <1>3, <1>6 DEF t
<1> QED BY <1>5, <1>6

LEMMA WeakensPartialWrite ==
  ASSUME NEW s \in State, NEW t \in State, NEW i, i.reg \in Registers, i.mask \in SUBSET Bits,
         s.Reachable, Weakens(s, t)
  PROVE  Weakens(TransferPartialWrite(i, s), TransferPartialWrite(i, t))
<1> DEFINE x == TransferPartialWrite(i, s)
           y == TransferPartialWrite(i, t)
           mask == IF i.reg \in Ignored THEN {} ELSE IF i.low32 THEN Bits ELSE i.mask
<1>1. /\ x.Reachable = s.Reachable /\ x.StackSlots = s.StackSlots
      /\ x.ValueOrigins = s.ValueOrigins
      /\ \A r : r # i.reg => CellIn(x.Cells, r).MayNonEntry = CellIn(s.Cells, r).MayNonEntry
      /\ CellIn(x.Cells, i.reg).MayNonEntry = CellIn(s.Cells, i.reg).MayNonEntry \cup mask
  BY PartialWriteFacts, ZenonT(40)
<1>2. /\ y.Reachable = t.Reachable /\ y.StackSlots = t.StackSlots
      /\ y.ValueOrigins = t.ValueOrigins
      /\ \A r : r # i.reg => CellIn(y.Cells, r).MayNonEntry = CellIn(t.Cells, r).MayNonEntry
      /\ CellIn(y.Cells, i.reg).MayNonEntry = CellIn(t.Cells, i.reg).MayNonEntry \cup mask
  BY PartialWriteFacts, SMTT(30)
<1> HIDE DEF x, y, mask
<1>3. \A r : CellIn(s.Cells, r).MayNonEntry \subseteq CellIn(t.Cells, r).MayNonEntry
  BY DEF Weakens
<1>4. \A r : CellIn(x.Cells, r).MayNonEntry \subseteq CellIn(y.Cells, r).MayNonEntry
  BY <1>1, <1>2, <1>3
<1> QED BY <1>1, <1>2, <1>4 DEF Weakens, x, y

LEMMA SpillKeeps ==
  ASSUME NEW s \in State, NEW i, NEW adjust
  PROVE  LET t == TransferSpill(i, s, adjust) IN
         /\ \A r : CellIn(t.Cells, r).MayNonEntry = CellIn(s.Cells, r).MayNonEntry
         /\ t.Reachable = s.Reachable /\ t.ValueOrigins = s.ValueOrigins
BY SpillFacts

Saves(s, i, adjust) ==
  /\ i.slot \notin adjust /\ HasEntryOrigin(s, i.src) /\ ~i.off
  /\ CanTrackSaved(s.ValueOrigins[i.src].Base)

LEMMA SpillSlots ==
  ASSUME NEW s \in State, NEW i, NEW adjust
  PROVE  TransferSpill(i, s, adjust).StackSlots =
           IF Saves(s, i, adjust) THEN Put(s.StackSlots, i.slot, s.ValueOrigins[i.src].Base)
           ELSE Drop(s.StackSlots, i.slot)
BY SpillFacts DEF Saves

\* Parking a callee-saved register in a slot is no read of it.
LEMMA SpillReads ==
  ASSUME NEW s \in State, NEW i, NEW adjust
  PROVE  LET t == TransferSpill(i, s, adjust) IN
         /\ MoreRead(s, t)
         /\ i.slot \notin adjust /\ HasEntryOrigin(s, i.src) /\ ~i.off /\ ~Saves(s, i, adjust) =>
              RecordsRead(s, t, s.ValueOrigins[i.src].Base, s.ValueOrigins[i.src].Mask)
<1> DEFINE t == TransferSpill(i, s, adjust)
           saves == /\ HasEntryOrigin(s, i.src) /\ ~i.off
                    /\ CanTrackSaved(s.ValueOrigins[i.src].Base)
           read == MarkEntryValueRead(s, i.src, i.off)
           kind == IF HasEntryOrigin(s, i.src) THEN "ForwardedEntry" ELSE "LocalDefinition"
           base == s.ValueOrigins[i.src].Base
<1>1. /\ read \in State /\ MoreRead(s, read) /\ MoreRead(s, s)
      /\ HasEntryOrigin(s, i.src) /\ ~i.off =>
           RecordsRead(s, read, s.ValueOrigins[i.src].Base, s.ValueOrigins[i.src].Mask)
  BY MarkEntryValueReadType, MarkReadReads DEF MoreRead
<1>2. t = IF i.slot \in adjust
          THEN [s EXCEPT !.StackSlots = Drop(@, i.slot), !.StackSlotOrigins = Drop(@, i.slot)]
          ELSE IF saves
          THEN [s EXCEPT !.StackSlots = Put(@, i.slot, base),
                         !.StackSlotOrigins = Put(@, i.slot, "ForwardedEntry")]
          ELSE [read EXCEPT !.StackSlots = Drop(@, i.slot),
                            !.StackSlotOrigins = Put(@, i.slot, kind)]
  BY DEF TransferSpill
<1> HIDE DEF t, saves, read, kind, base
<1>3. t.Cells = IF i.slot \in adjust \/ saves THEN s.Cells ELSE read.Cells
  BY <1>1, <1>2 DEF State
<1> QED BY <1>1, <1>3 DEF MoreRead, RecordsRead, t, saves, Saves

LEMMA WeakensSpill ==
  ASSUME NEW s \in State, NEW t \in State, NEW i, NEW adjust, s.Reachable, Weakens(s, t)
  PROVE  Weakens(TransferSpill(i, s, adjust), TransferSpill(i, t, adjust))
<1> DEFINE x == TransferSpill(i, s, adjust)
           y == TransferSpill(i, t, adjust)
           base == s.ValueOrigins[i.src].Base
<1>1. Saves(t, i, adjust) => Saves(s, i, adjust) /\ t.ValueOrigins[i.src].Base = base
  BY DEF Weakens, PartOf, HasEntryOrigin, Saves
<1>2. /\ \A r : CellIn(x.Cells, r).MayNonEntry = CellIn(s.Cells, r).MayNonEntry
      /\ x.Reachable = s.Reachable /\ x.ValueOrigins = s.ValueOrigins
  BY SpillKeeps
<1>3. x.StackSlots = IF Saves(s, i, adjust) THEN Put(s.StackSlots, i.slot, base)
                     ELSE Drop(s.StackSlots, i.slot)
  BY SpillSlots
<1>4. /\ \A r : CellIn(y.Cells, r).MayNonEntry = CellIn(t.Cells, r).MayNonEntry
      /\ y.Reachable = t.Reachable /\ y.ValueOrigins = t.ValueOrigins
  BY SpillKeeps
<1>5. y.StackSlots = IF Saves(t, i, adjust)
                     THEN Put(t.StackSlots, i.slot, t.ValueOrigins[i.src].Base)
                     ELSE Drop(t.StackSlots, i.slot)
  BY SpillSlots
<1> HIDE DEF x, y, base
<1>6. PartOf(y.StackSlots, x.StackSlots)
  <2>1. PartOf(t.StackSlots, s.StackSlots)
    BY DEF Weakens
  <2> QED BY <1>1, <1>3, <1>5, <2>1, PartOfPutDrop
<1> QED BY <1>2, <1>4, <1>6 DEF Weakens, x, y

LEMMA WeakensSame ==
  ASSUME NEW s, NEW t, Weakens(s, t), NEW x, NEW y, SameFacts(s, x), SameFacts(t, y)
  PROVE  Weakens(x, y)
BY DEF Weakens, SameFacts

LEMMA WeakensUse ==
  ASSUME NEW s \in State, NEW t \in State, NEW src, NEW off, Weakens(s, t)
  PROVE  Weakens(MarkEntryValueRead(s, src, off), MarkEntryValueRead(t, src, off))
BY MarkReadSame, WeakensSame

LEMMA NoCellElsewhere ==
  ASSUME NEW s \in State, NEW r, r \notin Registers
  PROVE  CellIn(s.Cells, r) = DefaultCell
<1>1. s.Cells \in Sparse(Registers, CoveredCell)
  BY DEF State
<1>2. r \notin DOMAIN s.Cells
  BY <1>1, SparseFacts
<1> QED BY <1>2 DEF CellIn

LEMMA WeakensCellAfterCall ==
  ASSUME NEW c, NEW r, NEW x \in CoveredCell, NEW y \in CoveredCell,
         x.MayNonEntry \subseteq y.MayNonEntry
  PROVE  CellAfterCall(c, r, x).MayNonEntry \subseteq CellAfterCall(c, r, y).MayNonEntry
<1>1. CASE c.kind = "summary"
  <2> DEFINE callee == CellIn(c.effect.Registers, r)
  <2>1. /\ CellAfterCall(c, r, x) = ThroughCall(x, callee)
        /\ CellAfterCall(c, r, y) = ThroughCall(y, callee)
    BY <1>1 DEF CellAfterCall
  <2> HIDE DEF callee
  <2> QED BY <2>1 DEF ThroughCall
<1>2. CASE c.kind # "summary"
  <2>1. /\ CellAfterCall(c, r, x) = WriteCell(x, Bits)
        /\ CellAfterCall(c, r, y) = WriteCell(y, Bits)
    BY <1>2 DEF CellAfterCall
  <2>2. /\ WriteCell(x, Bits).MayNonEntry = x.MayNonEntry \cup Bits
        /\ WriteCell(y, Bits).MayNonEntry = y.MayNonEntry \cup Bits
    BY DEF WriteCell, CoveredCell, Cell
  <2> QED BY <2>1, <2>2
<1> QED BY <1>1, <1>2

LEMMA WeakensCall ==
  ASSUME NEW s \in State, NEW t \in State, NEW c \in Callees, s.Reachable, Weakens(s, t)
  PROVE  Weakens(TransferCall(c, s), TransferCall(c, t))
<1> DEFINE x == TransferCall(c, s)
           y == TransferCall(c, t)
<1>1. AfterCall(c, s, x) /\ x.Reachable = (IF NeverReturns(c) THEN FALSE ELSE s.Reachable)
  BY TransferCallFacts
<1>2. AfterCall(c, t, y) /\ y.Reachable = (IF NeverReturns(c) THEN FALSE ELSE t.Reachable)
  BY TransferCallFacts
<1>3. x \in State /\ y \in State
  BY TransferCallType
<1> HIDE DEF x, y
<1>4. ASSUME NEW r PROVE CellIn(x.Cells, r).MayNonEntry \subseteq CellIn(y.Cells, r).MayNonEntry
  <2>1. CellIn(s.Cells, r).MayNonEntry \subseteq CellIn(t.Cells, r).MayNonEntry
    BY DEF Weakens
  <2>2. CASE r \notin Registers
    BY <1>3, <2>2, NoCellElsewhere
  <2>3. CASE r \in Registers /\ r \notin Overwritable(c)
    BY <1>1, <1>2, <2>1, <2>3 DEF AfterCall
  <2>4. CASE r \in Registers /\ r \in Overwritable(c)
    <3>1. PICK before \in CoveredCell :
            /\ before.MayNonEntry = CellIn(s.Cells, r).MayNonEntry
            /\ CellIn(x.Cells, r) = CellAfterCall(c, r, before)
      BY <1>1, <2>4 DEF AfterCall
    <3>2. PICK other \in CoveredCell :
            /\ other.MayNonEntry = CellIn(t.Cells, r).MayNonEntry
            /\ CellIn(y.Cells, r) = CellAfterCall(c, r, other)
      BY <1>2, <2>4 DEF AfterCall
    <3> QED BY <2>1, <3>1, <3>2, WeakensCellAfterCall
  <2> QED BY <2>2, <2>3, <2>4
<1>5. /\ x.StackSlots = s.StackSlots /\ x.ValueOrigins = s.ValueOrigins
      /\ y.StackSlots = t.StackSlots /\ y.ValueOrigins = t.ValueOrigins
  BY <1>1, <1>2 DEF AfterCall
<1> QED BY <1>1, <1>2, <1>4, <1>5 DEF Weakens, x, y

\* No instruction makes more of a state that claims less.
LEMMA WeakensInstruction ==
  ASSUME NEW s \in State, NEW t \in State, NEW i \in Instructions, NEW adjust,
         s.Reachable, Weakens(s, t)
  PROVE  Weakens(TransferInstruction(i, s, adjust), TransferInstruction(i, t, adjust))
<1>1. /\ i.op \in {"load", "store", "reload", "spill", "pread", "pwrite", "use", "call"}
      /\ i.op \in {"load", "store", "pread", "pwrite"} => i.reg \in Registers
      /\ i.op = "pwrite" => i.mask \in SUBSET Bits
      /\ i.op = "call" => i.callee \in Callees
  BY DEF Instructions, RegisterLoads, RegisterStores, SlotLoads, SlotStores,
     PartialReads, PartialWrites, OtherUses, AnalysableCalls
<1>2. CASE i.op = "load"
  BY <1>1, <1>2, WeakensLoad DEF TransferInstruction
<1>3. CASE i.op = "store"
  BY <1>1, <1>3, WeakensStore DEF TransferInstruction
<1>4. CASE i.op = "reload"
  BY <1>4, WeakensReload DEF TransferInstruction
<1>5. CASE i.op = "spill"
  BY <1>5, WeakensSpill DEF TransferInstruction
<1>6. CASE i.op = "pread"
  BY <1>1, <1>6, WeakensPartialRead DEF TransferInstruction
<1>7. CASE i.op = "pwrite"
  BY <1>1, <1>7, WeakensPartialWrite DEF TransferInstruction
<1>8. CASE i.op = "use"
  BY <1>8, WeakensUse DEF TransferInstruction
<1>9. CASE i.op = "call"
  BY <1>1, <1>9, WeakensCall DEF TransferInstruction
<1> QED BY <1>1, <1>2, <1>3, <1>4, <1>5, <1>6, <1>7, <1>8, <1>9

LEMMA PruneFacts ==
  ASSUME NEW p, NEW b, NEW s \in State
  PROVE  LET t == PruneBlockLocal(p, b, s)
             gone == DefinedIn(p, b) \ CrossBlockValues(p) IN
         /\ t.Cells = s.Cells /\ t.Reachable = s.Reachable /\ t.StackSlots = s.StackSlots
         /\ t.EndsInNoReturn = s.EndsInNoReturn
         /\ t.ValueOrigins = [v \in DOMAIN s.ValueOrigins \ gone |-> s.ValueOrigins[v]]
<1> DEFINE gone == DefinedIn(p, b) \ CrossBlockValues(p)
           kept == DOMAIN s.ValueOrigins \ gone
           origins == [v \in kept |-> s.ValueOrigins[v]]
           t == [s EXCEPT !.ValueOrigins = origins]
<1>1. PruneBlockLocal(p, b, s) = t
  BY DEF PruneBlockLocal
<1>2. /\ t.Cells = s.Cells /\ t.Reachable = s.Reachable /\ t.StackSlots = s.StackSlots
      /\ t.EndsInNoReturn = s.EndsInNoReturn /\ t.ValueOrigins = origins
  BY DEF State
<1> HIDE DEF t, gone
<1> QED BY <1>1, <1>2 DEF gone

LEMMA WeakensPrune ==
  ASSUME NEW p, NEW b, NEW s \in State, NEW t \in State, Weakens(s, t)
  PROVE  Weakens(PruneBlockLocal(p, b, s), PruneBlockLocal(p, b, t))
<1> DEFINE gone == DefinedIn(p, b) \ CrossBlockValues(p)
           x == PruneBlockLocal(p, b, s)
           y == PruneBlockLocal(p, b, t)
<1>1. /\ x.Cells = s.Cells /\ x.Reachable = s.Reachable /\ x.StackSlots = s.StackSlots
      /\ x.ValueOrigins = [v \in DOMAIN s.ValueOrigins \ gone |-> s.ValueOrigins[v]]
  BY PruneFacts
<1>2. /\ y.Cells = t.Cells /\ y.Reachable = t.Reachable /\ y.StackSlots = t.StackSlots
      /\ y.ValueOrigins = [v \in DOMAIN t.ValueOrigins \ gone |-> t.ValueOrigins[v]]
  BY PruneFacts
<1> HIDE DEF x, y, gone
<1>3. ASSUME s.Reachable PROVE PartOf(y.ValueOrigins, x.ValueOrigins)
  BY <1>1, <1>2, <1>3 DEF Weakens, PartOf
<1> QED BY <1>1, <1>2, <1>3 DEF Weakens, x, y

\* What all joined maps have in common is in the agreement.
LEMMA AgreementHas ==
  ASSUME NEW maps, maps # {}, NEW k, NEW x, \A m \in maps : k \in DOMAIN m /\ m[k] = x
  PROVE  k \in DOMAIN Agreement(maps) /\ Agreement(maps)[k] = x
<1> DEFINE common == {j \in UNION {DOMAIN n : n \in maps} :
                        \A n, o \in maps : j \in DOMAIN n /\ n[j] = o[j]}
           some == CHOOSE n \in maps : TRUE
<1>1. some \in maps
  OBVIOUS
<1>2. Agreement(maps) = [j \in common |-> some[j]]
  BY Zenon DEF Agreement
<1>3. k \in common
  BY <1>1
<1>4. some[k] = x
  BY <1>1
<1> HIDE DEF common, some
<1> QED BY <1>2, <1>3, <1>4

LEMMA JoinFacts ==
  ASSUME NEW states \in SUBSET State
  PROVE  LET R == {u \in states : u.Reachable}
             t == JoinStates(states) IN
         /\ t.Reachable = (R # {})
         /\ ~t.EndsInNoReturn
         /\ R # {} => /\ t.StackSlots = Agreement({u.StackSlots : u \in R})
                      /\ t.ValueOrigins = Agreement({u.ValueOrigins : u \in R})
                      /\ \A r : CellIn(t.Cells, r).MayNonEntry
                                  \subseteq UNION {CellIn(u.Cells, r).MayNonEntry : u \in R}
<1> DEFINE R == {u \in states : u.Reachable}
           touched == UNION {DOMAIN u.Cells : u \in R}
           joined(r) == JoinCells({CellIn(u.Cells, r) : u \in R})
           cells == [r \in touched |-> joined(r)]
           origins == [r \in Registers |-> AgreedBits(R, r)]
           t == JoinStates(states)
<1>1. CASE R = {}
  BY <1>1 DEF JoinStates, InitialState
<1>2. CASE R # {}
  <2>1. t = [Reachable |-> TRUE, EndsInNoReturn |-> FALSE, Cells |-> cells, Origins |-> origins,
             StackSlots |-> Agreement({u.StackSlots : u \in R}),
             StackSlotOrigins |-> Agreement({u.StackSlotOrigins : u \in R}),
             ValueOrigins |-> Agreement({u.ValueOrigins : u \in R})]
    BY <1>2, Zenon DEF JoinStates
  <2>2. /\ t.Cells = cells /\ t.Reachable /\ ~t.EndsInNoReturn
        /\ t.StackSlots = Agreement({u.StackSlots : u \in R})
        /\ t.ValueOrigins = Agreement({u.ValueOrigins : u \in R})
    <3> HIDE DEF t, cells, origins, R
    <3> QED BY <2>1
  <2>3. ASSUME NEW r
        PROVE  CellIn(t.Cells, r).MayNonEntry
                 \subseteq UNION {CellIn(u.Cells, r).MayNonEntry : u \in R}
    <3>1. CASE r \in touched
      <4>1. CellIn(t.Cells, r) = joined(r)
        BY <2>2, <3>1 DEF CellIn
      <4>2. joined(r).MayNonEntry
              = UNION {c.MayNonEntry : c \in {CellIn(u.Cells, r) : u \in R}}
        <5> HIDE DEF R
        <5> QED BY DEF JoinCells
      <4> HIDE DEF R, t, joined
      <4> QED BY <4>1, <4>2
    <3>2. CASE r \notin touched
      <4>1. CellIn(t.Cells, r) = DefaultCell
        BY <2>2, <3>2 DEF CellIn
      <4> HIDE DEF t, R
      <4> QED BY <4>1 DEF DefaultCell
    <3> QED BY <3>1, <3>2
  <2> HIDE DEF t, R
  <2> QED BY <1>2, <2>2, <2>3 DEF t, R
<1> QED BY <1>1, <1>2

LEMMA WeakensJoin ==
  ASSUME NEW F \in SUBSET State, NEW G \in SUBSET State, \A u \in F : \E w \in G : Weakens(u, w)
  PROVE  Weakens(JoinStates(F), JoinStates(G))
<1> DEFINE x == JoinStates(F)
           y == JoinStates(G)
           R == {u \in F : u.Reachable}
<1>3. /\ x.Reachable = (R # {})
      /\ R # {} => /\ x.StackSlots = Agreement({u.StackSlots : u \in R})
                   /\ x.ValueOrigins = Agreement({u.ValueOrigins : u \in R})
                   /\ \A r : CellIn(x.Cells, r).MayNonEntry
                               \subseteq UNION {CellIn(u.Cells, r).MayNonEntry : u \in R}
  BY JoinFacts
<1> SUFFICES ASSUME R # {} PROVE Weakens(x, y)
  BY <1>3 DEF Weakens
<1>4. y \in State
  BY JoinStatesType
<1> HIDE DEF x, y
<1>5. ASSUME NEW u \in R
      PROVE  \E w \in G : w.Reachable /\ SaysLess(w, y) /\ y.Reachable /\ w \in State /\ Weakens(u, w)
  <2>1. u \in F /\ u.Reachable
    OBVIOUS
  <2>2. PICK w \in G : Weakens(u, w)
    BY <2>1
  <2>3. w.Reachable /\ w \in State
    BY <2>1, <2>2 DEF Weakens
  <2>4. SaysLess(w, y) /\ y.Reachable
    BY <2>3, JoinSaysLess DEF y
  <2> QED BY <2>2, <2>3, <2>4
<1>6. y.Reachable
  BY <1>5
<1>7. ASSUME NEW r PROVE CellIn(x.Cells, r).MayNonEntry \subseteq CellIn(y.Cells, r).MayNonEntry
  <2>1. CASE r \in Registers
    <3>1. ASSUME NEW u \in R
          PROVE  CellIn(u.Cells, r).MayNonEntry \subseteq CellIn(y.Cells, r).MayNonEntry
      <4>1. u.Reachable
        OBVIOUS
      <4> HIDE DEF R
      <4> QED BY <1>5, <2>1, <4>1 DEF Weakens, SaysLess
    <3> HIDE DEF R
    <3> QED BY <1>3, <3>1
  <2>2. CASE r \notin Registers
    <3>1. CellIn(y.Cells, r) = DefaultCell
      BY <1>4, <2>2, NoCellElsewhere
    <3>2. \A u \in R : CellIn(u.Cells, r) = DefaultCell
      BY <2>2, NoCellElsewhere
    <3> HIDE DEF R
    <3> QED BY <1>3, <3>1, <3>2
  <2> QED BY <2>1, <2>2
<1>8. ASSUME NEW k \in DOMAIN y.StackSlots
      PROVE  k \in DOMAIN x.StackSlots /\ y.StackSlots[k] = x.StackSlots[k]
  <2> DEFINE maps == {u.StackSlots : u \in R}
             value == y.StackSlots[k]
  <2> HIDE DEF value
  <2>1. ASSUME NEW u \in R PROVE k \in DOMAIN u.StackSlots /\ u.StackSlots[k] = value
    <3>1. u.Reachable
      OBVIOUS
    <3> HIDE DEF R
    <3> QED BY <1>5, <1>8, <3>1 DEF Weakens, SaysLess, PartOf, value
  <2>2. maps # {} /\ \A m \in maps : k \in DOMAIN m /\ m[k] = value
    <3> HIDE DEF R
    <3> QED BY <2>1
  <2>3. x.StackSlots = Agreement(maps)
    BY <1>3
  <2> HIDE DEF maps, R
  <2>4. k \in DOMAIN Agreement(maps) /\ Agreement(maps)[k] = value
    BY <2>2, AgreementHas
  <2> QED BY <2>3, <2>4 DEF value
<1>9. ASSUME NEW v \in DOMAIN y.ValueOrigins
      PROVE  v \in DOMAIN x.ValueOrigins /\ y.ValueOrigins[v] = x.ValueOrigins[v]
  <2> DEFINE maps == {u.ValueOrigins : u \in R}
             value == y.ValueOrigins[v]
  <2> HIDE DEF value
  <2>1. ASSUME NEW u \in R PROVE v \in DOMAIN u.ValueOrigins /\ u.ValueOrigins[v] = value
    <3>1. u.Reachable
      OBVIOUS
    <3> HIDE DEF R
    <3> QED BY <1>5, <1>9, <3>1 DEF Weakens, SaysLess, PartOf, value
  <2>2. maps # {} /\ \A m \in maps : v \in DOMAIN m /\ m[v] = value
    <3> HIDE DEF R
    <3> QED BY <2>1
  <2>3. x.ValueOrigins = Agreement(maps)
    BY <1>3
  <2> HIDE DEF maps, R
  <2>4. v \in DOMAIN Agreement(maps) /\ Agreement(maps)[v] = value
    BY <2>2, AgreementHas
  <2> QED BY <2>3, <2>4 DEF value
<1> HIDE DEF R
<1> QED BY <1>6, <1>7, <1>8, <1>9 DEF Weakens, PartOf

-----------------------------------------------------------------------------
(* A block as a sequence of states.                                          *)

\* The instructions of a block one by one, from any state.
LEMMA BlockStates ==
  ASSUME NEW p \in Programs, NEW b \in BlocksOf(p), NEW s \in State
  PROVE  LET t == AfterEach(p, b, s)
             N == Len(p.code[b]) IN
         /\ N \in Nat /\ t \in [0..N -> State] /\ t[0] = s
         /\ \A n \in 1..N : t[n] = IF t[n-1].Reachable
                                   THEN TransferInstruction(p.code[b][n], t[n-1], p.adjust)
                                   ELSE t[n-1]
<1> DEFINE N == Len(p.code[b])
           next(n, x) == IF x.Reachable THEN TransferInstruction(p.code[b][n], x, p.adjust) ELSE x
           Goes(n, t) == /\ t \in [0..n -> State] /\ t[0] = s
                         /\ \A m \in 1..n : t[m] = next(m, t[m-1])
           stuck == {n \in 0..N : ~\E t : Goes(n, t)}
<1>1. N \in Nat /\ \A n \in 1..N : p.code[b][n] \in Instructions
  <2>1. p.code[b] \in Seq(Instructions)
    BY ProgramShape
  <2> QED BY <2>1
<1>2. ASSUME NEW n \in 1..N, NEW x \in State PROVE next(n, x) \in State
  BY <1>1, TransferInstructionType
<1> HIDE DEF next
<1>3. ASSUME stuck # {} PROVE FALSE
  <2>1. stuck \subseteq Nat
    BY <1>1
  <2>2. PICK n \in stuck : \A m \in stuck : n <= m
    <3> HIDE DEF stuck
    <3> QED BY <1>3, <2>1, LeastNumber
  <2>3. n \in 0..N /\ ~\E t : Goes(n, t)
    OBVIOUS
  <2>4. n # 0
    <3> SUFFICES ASSUME n = 0 PROVE FALSE
      OBVIOUS
    <3> DEFINE t == [m \in 0..0 |-> s]
    <3>1. t \in [0..0 -> State] /\ t[0] = s /\ 1..0 = {}
      OBVIOUS
    <3> HIDE DEF t
    <3>2. Goes(0, t)
      BY <3>1
    <3> QED BY <2>3, <3>2
  <2>5. n - 1 \in 0..N /\ n - 1 < n /\ n \in 1..N /\ n \in Nat
    BY <1>1, <2>3, <2>4
  <2>6. n - 1 \notin stuck
    <3>1. ~(n <= n - 1)
      BY <1>1, <2>5
    <3> HIDE DEF stuck
    <3> QED BY <2>2, <3>1, Zenon
  <2>7. PICK t : Goes(n - 1, t)
    BY <2>5, <2>6
  <2> DEFINE u == [m \in 0..n |-> IF m = n THEN next(n, t[n-1]) ELSE t[m]]
  <2>8. t[n-1] \in State
    BY <2>5, <2>7
  <2>9. u \in [0..n -> State]
    <3>1. next(n, t[n-1]) \in State
      BY <1>2, <2>5, <2>8
    <3>2. \A m \in 0..n : m # n => t[m] \in State
      BY <2>5, <2>7
    <3> QED BY <3>1, <3>2
  <2>10. u[n] = next(n, t[n-1]) /\ \A m \in 0..n : m # n => u[m] = t[m]
    BY <2>5
  <2> HIDE DEF u
  <2>11. u[0] = s
    BY <2>5, <2>7, <2>10
  <2>12. ASSUME NEW m \in 1..n PROVE u[m] = next(m, u[m-1])
    <3>1. m - 1 \in 0..n /\ m - 1 # n /\ m \in 0..n
      BY <2>5
    <3>2. u[m-1] = t[m-1]
      BY <2>10, <3>1
    <3>3. CASE m = n
      BY <2>10, <3>2, <3>3
    <3>4. CASE m # n
      <4>1. m \in 1..(n-1) /\ u[m] = t[m]
        BY <2>5, <2>10, <3>1, <3>4
      <4> QED BY <2>7, <3>2, <4>1
    <3> QED BY <3>3, <3>4
  <2>13. Goes(n, u)
    BY <2>9, <2>11, <2>12
  <2> QED BY <2>3, <2>13
<1>4. PICK t : Goes(N, t)
  <2>1. N \in 0..N
    BY <1>1
  <2> QED BY <1>3, <2>1
<1>5. Follows(p, b, s, t)
  <2> DEFINE e(n) == IF n = 0 THEN s
                     ELSE IF t[n-1].Reachable
                          THEN TransferInstruction(p.code[b][n], t[n-1], p.adjust)
                          ELSE t[n-1]
  <2>1. t = [n \in 0..N |-> t[n]]
    BY <1>4
  <2>2. \A n \in 0..N : t[n] = e(n)
    <3> SUFFICES ASSUME NEW n \in 0..N PROVE t[n] = e(n)
      OBVIOUS
    <3>1. CASE n = 0
      BY <1>4, <3>1
    <3>2. CASE n # 0
      <4>1. n \in 1..N
        BY <1>1, <3>2
      <4> QED BY <1>4, <3>2, <4>1 DEF next
    <3> QED BY <3>1, <3>2
  <2> HIDE DEF N, e
  <2>3. t = [n \in 0..N |-> e(n)]
    BY <2>1, <2>2, Zenon
  <2> QED BY <2>3, Zenon DEF Follows, e, N
<1>6. AfterEach(p, b, s) = t
  BY <1>1, <1>5, AfterEachIs
<1> HIDE DEF N
<1> QED BY <1>1, <1>4, <1>6 DEF next, N

\* A block makes less of a state that claims less.
LEMMA WeakensBlock ==
  ASSUME NEW p \in Programs, NEW b \in BlocksOf(p), NEW s \in State, NEW t \in State, Weakens(s, t)
  PROVE  Weakens(TransferBlock(p, b, s), TransferBlock(p, b, t))
<1> DEFINE N == Len(p.code[b])
           x == AfterEach(p, b, s)
           y == AfterEach(p, b, t)
           next(n, u) == TransferInstruction(p.code[b][n], u, p.adjust)
           worse == {n \in 0..N : ~Weakens(x[n], y[n])}
<1>1. /\ N \in Nat /\ x \in [0..N -> State] /\ x[0] = s
      /\ \A n \in 1..N : x[n] = IF x[n-1].Reachable THEN next(n, x[n-1]) ELSE x[n-1]
  BY BlockStates
<1>2. /\ y \in [0..N -> State] /\ y[0] = t
      /\ \A n \in 1..N : y[n] = IF y[n-1].Reachable THEN next(n, y[n-1]) ELSE y[n-1]
  BY BlockStates
<1>3. \A n \in 1..N : p.code[b][n] \in Instructions
  <2>1. p.code[b] \in Seq(Instructions)
    BY ProgramShape
  <2> QED BY <2>1
<1> HIDE DEF x, y
<1>4. ASSUME worse # {} PROVE FALSE
  <2>1. worse \subseteq Nat
    BY <1>1
  <2>2. PICK n \in worse : \A m \in worse : n <= m
    <3> HIDE DEF worse
    <3> QED BY <1>4, <2>1, LeastNumber
  <2>3. n \in 0..N /\ ~Weakens(x[n], y[n])
    OBVIOUS
  <2>4. n # 0
    BY <1>1, <1>2, <2>3
  <2>5. n - 1 \in 0..N /\ n - 1 < n /\ n \in 1..N
    BY <1>1, <2>3, <2>4
  <2>6. n - 1 \notin worse
    <3>1. ~(n <= n - 1)
      BY <1>1, <2>5
    <3> HIDE DEF worse
    <3> QED BY <2>2, <3>1, Zenon
  <2>7. Weakens(x[n-1], y[n-1])
    BY <2>5, <2>6
  <2>8. x[n-1] \in State /\ y[n-1] \in State
    BY <1>1, <1>2, <2>5
  <2>9. CASE ~x[n-1].Reachable
    <3>1. x[n] = x[n-1]
      BY <1>1, <2>5, <2>9
    <3> QED BY <2>3, <2>9, <3>1 DEF Weakens
  <2>10. CASE x[n-1].Reachable
    <3>1. y[n-1].Reachable
      BY <2>7, <2>10 DEF Weakens
    <3>2. x[n] = next(n, x[n-1]) /\ y[n] = next(n, y[n-1])
      BY <1>1, <1>2, <2>5, <2>10, <3>1
    <3>3. Weakens(next(n, x[n-1]), next(n, y[n-1]))
      BY <1>3, <2>5, <2>7, <2>8, <2>10, WeakensInstruction
    <3> QED BY <2>3, <3>2, <3>3
  <2> QED BY <2>9, <2>10
<1>5. N \in 0..N
  BY <1>1
<1>6. Weakens(x[N], y[N]) /\ x[N] \in State /\ y[N] \in State
  BY <1>1, <1>2, <1>4, <1>5
<1>7. Weakens(PruneBlockLocal(p, b, x[N]), PruneBlockLocal(p, b, y[N]))
  BY <1>6, WeakensPrune
<1>8. CASE ~s.Reachable
  BY <1>8 DEF TransferBlock, Weakens
<1>9. CASE s.Reachable
  <2>1. t.Reachable
    BY <1>9 DEF Weakens
  <2> QED BY <1>7, <1>9, <2>1 DEF TransferBlock, x, y
<1> QED BY <1>8, <1>9

LEMMA TransferBlockType ==
  ASSUME NEW p \in Programs, NEW b \in BlocksOf(p), NEW s \in State
  PROVE  TransferBlock(p, b, s) \in State
<1> DEFINE N == Len(p.code[b])
           x == AfterEach(p, b, s)
<1>1. N \in Nat /\ x \in [0..N -> State]
  BY BlockStates
<1>2. x[N] \in State
  BY <1>1
<1> HIDE DEF N, x
<1> QED BY <1>2, PruneBlockLocalType DEF TransferBlock, N, x

-----------------------------------------------------------------------------
(* The results of the solver only lose information.                          *)

LEMMA WeakensInput ==
  ASSUME NEW p, NEW b, NEW f, NEW g,
         \A q \in BlocksOf(p) : f[q] \in State /\ g[q] \in State /\ Weakens(f[q], g[q])
  PROVE  Weakens(EntryInput(p, b, f), EntryInput(p, b, g))
<1>1. CASE b = EntryOf(p)
  BY <1>1 DEF EntryInput, Weakens, PartOf
<1>2. CASE b # EntryOf(p)
  <2> DEFINE F == {f[q] : q \in PredsOf(p, b)}
             G == {g[q] : q \in PredsOf(p, b)}
  <2>1. /\ F \in SUBSET State /\ G \in SUBSET State
        /\ \A u \in F : \E w \in G : Weakens(u, w)
    BY DEF PredsOf
  <2>2. Weakens(JoinStates(F), JoinStates(G))
    <3> HIDE DEF F, G
    <3> QED BY <2>1, WeakensJoin
  <2> QED BY <1>2, <2>2 DEF EntryInput
<1> QED BY <1>1, <1>2

\* What a visit stores claims no more than what was stored before.
Ascending == \A b \in BlocksOf(prog) : Weakens(out[b], BlockResult(b))

OnlyWeaker == \A b \in BlocksOf(prog) : Weakens(out[b], out'[b])

LEMMA AscendingInit == Init => Ascending
BY DEF Init, Ascending, Weakens, InitialState

LEMMA AscendingNext ==
  ASSUME SolverInv, Ascending, [Next]_vars
  PROVE  Ascending' /\ OnlyWeaker
<1>1. CASE StoreResult
  <2>1. /\ current \in BlocksOf(prog) /\ prog' = prog
        /\ out' = [out EXCEPT ![current] = BlockResult(current)]
    BY <1>1, StoreResultInv
  <2>2. /\ out \in [BlocksOf(prog) -> State] /\ prog \in Programs
    BY DEF SolverInv, TypeOK
  <2>3. EntryInput(prog, current, out) \in State
    BY <2>1, EntryInputType DEF SolverInv, TypeOK
  <2>4. BlockResult(current) \in State
    BY <2>1, <2>2, <2>3, TransferBlockType DEF BlockResult
  <2>5. ASSUME NEW b \in BlocksOf(prog)
        PROVE  out[b] \in State /\ out'[b] \in State /\ Weakens(out[b], out'[b])
    <3>1. CASE b = current
      <4>1. out'[b] = BlockResult(b)
        BY <2>1, <2>2, <3>1
      <4> QED BY <2>2, <2>4, <3>1, <4>1 DEF Ascending
    <3>2. CASE b # current
      <4>1. out'[b] = out[b]
        BY <2>1, <2>2, <3>2
      <4>2. Weakens(out[b], out[b])
        BY DEF Weakens, PartOf
      <4> QED BY <2>2, <4>1, <4>2
    <3> QED BY <3>1, <3>2
  <2>6. ASSUME NEW b \in BlocksOf(prog) PROVE Weakens(out'[b], BlockResult(b)')
    <3> DEFINE x == EntryInput(prog, b, out)
               y == EntryInput(prog, b, out')
    <3>1. Weakens(x, y)
      BY <2>5, WeakensInput
    <3>2. x \in State
      BY EntryInputType DEF SolverInv, TypeOK
    <3>3. y \in State
      <4>1. {out'[q] : q \in PredsOf(prog, b)} \in SUBSET State
        BY <2>5 DEF PredsOf
      <4> QED BY <4>1, JoinStatesType, InitialStateType DEF EntryInput
    <3>4. Weakens(TransferBlock(prog, b, x), TransferBlock(prog, b, y))
      <4> HIDE DEF x, y
      <4> QED BY <2>2, <3>1, <3>2, <3>3, WeakensBlock
    <3>5. BlockResult(b) = TransferBlock(prog, b, x) /\ BlockResult(b)' = TransferBlock(prog, b, y)
      BY <2>1 DEF BlockResult
    <3>6. out'[b] = BlockResult(b) \/ out'[b] = out[b]
      BY <2>1, <2>2
    <3>7. Weakens(out'[b], BlockResult(b))
      <4>1. Weakens(BlockResult(b), BlockResult(b))
        BY DEF Weakens, PartOf
      <4> QED BY <3>6, <4>1 DEF Ascending
    <3> HIDE DEF x, y
    <3> QED BY <3>4, <3>5, <3>7, WeakensTransitive
  <2> QED BY <2>1, <2>5, <2>6 DEF Ascending, OnlyWeaker
<1>2. CASE Waiting' = Waiting /\ out' = out /\ prog' = prog
  <2>1. OnlyWeaker
    BY <1>2 DEF OnlyWeaker, Weakens, PartOf
  <2>2. \A b : BlockResult(b)' = BlockResult(b)
    BY <1>2 DEF BlockResult
  <2> QED BY <1>2, <2>1, <2>2 DEF Ascending
<1> QED BY <1>1, <1>2, SolverSteps

(* solveFunction: whatever the function and the order of visits, a new       *)
(* result of a block never claims more than the one it replaces: a bit that  *)
(* may be something else stays so, a slot's register and a value's origin    *)
(* are forgotten and never found again, a reached block stays reached.       *)
THEOREM ResultsWeaken == Spec => [][OnlyWeaker]_vars
<1>1. SolverInv /\ Ascending /\ [Next]_vars => Ascending' /\ OnlyWeaker
  BY AscendingNext
<1> QED BY <1>1, AscendingInit, SolverInvariant, PTL DEF Spec
=============================================================================
