------------------------- MODULE SummaryDemandProofs -----------------------
(***************************************************************************)
(* The top-down demands: types of everything the worklist holds; what a    *)
(* call site makes of its callee's ExitDemand, which is nothing; and that  *)
(* the worklist ends with the least demands that agree with each other.    *)
(***************************************************************************)
EXTENDS SummaryDemand, SequenceTheorems, TLAPS

-----------------------------------------------------------------------------
(* Demands.                                                                 *)

LEMMA NoDemandType == NoDemand \in Demand
BY DEF NoDemand, Demand

LEMMA AddDemandType ==
  ASSUME NEW d \in Demand, NEW r, NEW mask
  PROVE  AddDemand(d, r, mask) \in Demand
BY DEF AddDemand, Demand

LEMMA EraseDemandType ==
  ASSUME NEW d \in Demand, NEW r, NEW mask
  PROVE  EraseDemand(d, r, mask) \in Demand
BY DEF EraseDemand, Demand

LEMMA MergeDemandType ==
  ASSUME NEW d \in Demand, NEW e \in Demand
  PROVE  MergeDemand(d, e) \in Demand
BY DEF MergeDemand, Demand

LEMMA SurvivingDemandType ==
  ASSUME NEW effect, NEW live \in Demand
  PROVE  SurvivingDemand(effect, live) \in Demand
BY DEF SurvivingDemand, Demand

LEMMA ReturnDemandType ==
  ASSUME NEW effect, NEW live \in Demand
  PROVE  ReturnDemand(effect, live) \in Demand
BY DEF ReturnDemand, Demand

LEMMA CellInCovered ==
  ASSUME NEW cells \in Sparse(Registers, CoveredCell), NEW r
  PROVE  CellIn(cells, r) \in CoveredCell
<1>1. DefaultCell \in CoveredCell
  BY DEF DefaultCell, CoveredCell, Cell, Covered
<1>2. \A k \in DOMAIN cells : cells[k] \in CoveredCell
  BY DEF Sparse
<1> QED BY <1>1, <1>2 DEF CellIn

LEMMA EntryNeedsType ==
  ASSUME NEW m, IsDemandModule(m), NEW g \in FunctionsOf(m), NEW live \in Demand, NEW exits
  PROVE  EntryNeeds(m, g, live, exits) \in Demand
<1>1. m.effects[g].Registers \in Sparse(Registers, CoveredCell)
  BY DEF IsDemandModule, FunctionEffect
<1>2. \A r \in Registers : CellIn(m.effects[g].Registers, r).ReadEntry \in SUBSET Bits
  BY <1>1, CellInCovered DEF CoveredCell, Cell
<1>3. \A r \in Registers : ReturnEntry(m, g, live, exits, r) \in SUBSET Bits
  BY DEF ReturnEntry, Demand
<1> QED BY <1>2, <1>3 DEF EntryNeeds, Demand

LEMMA BeforeBodyCallType ==
  ASSUME NEW m, IsDemandModule(m), NEW g \in FunctionsOf(m), NEW live \in Demand, NEW exits
  PROVE  BeforeBodyCall(m, g, live, exits) \in Demand
<1> DEFINE survives == SurvivingDemand(m.effects[g], live)
<1>1. survives \in Demand
  BY SurvivingDemandType
<1> HIDE DEF survives
<1>2. MergeDemand(survives, EntryNeeds(m, g, survives, exits)) \in Demand
  BY <1>1, EntryNeedsType, MergeDemandType
<1> QED BY <1>2, NoDemandType DEF BeforeBodyCall, survives

LEMMA BeforeOtherCallType ==
  ASSUME NEW c, NEW live \in Demand
  PROVE  BeforeOtherCall(c, live) \in Demand
<1> DEFINE unclobbered == [r \in Registers |-> IF r \in Clobbered THEN {} ELSE live[r]]
           after == IF c.noReturn THEN NoDemand ELSE unclobbered
           inputs == IF c.kind = "shape" THEN c.inputs
                     ELSE IF UnknownReadsAbi THEN AbiInputMasks ELSE EmptyMap
<1>1. after \in Demand
  BY NoDemandType DEF Demand
<1>2. BeforeOtherCall(c, live) =
        [r \in Registers |->
           after[r] \cup (IF r \in DOMAIN inputs \ Ignored THEN inputs[r] \cap Bits ELSE {})]
  BY Zenon DEF BeforeOtherCall
<1> HIDE DEF after, inputs
<1> QED BY <1>1, <1>2 DEF Demand

LEMMA BeforeInstructionType ==
  ASSUME NEW m, IsDemandModule(m), NEW live \in Demand, NEW exits, NEW i,
         i.op = "call" /\ i.callee.kind = "body" => i.callee.name \in FunctionsOf(m)
  PROVE  BeforeInstruction(m, i, live, exits) \in Demand
<1>1. CASE i.op = "pread"
  BY <1>1, AddDemandType DEF BeforeInstruction
<1>2. CASE i.op = "load"
  BY <1>2, AddDemandType DEF BeforeInstruction
<1>3. CASE i.op = "pwrite"
  BY <1>3, EraseDemandType DEF BeforeInstruction
<1>4. CASE i.op = "store"
  BY <1>4, EraseDemandType DEF BeforeInstruction
<1>5. CASE i.op = "call" /\ i.callee.kind = "body"
  BY <1>5, BeforeBodyCallType DEF BeforeInstruction
<1>6. CASE i.op = "call" /\ i.callee.kind # "body"
  BY <1>6, BeforeOtherCallType DEF BeforeInstruction
<1>7. CASE i.op \notin {"pread", "load", "pwrite", "store", "call"}
  BY <1>7 DEF BeforeInstruction
<1> QED BY <1>1, <1>2, <1>3, <1>4, <1>5, <1>6, <1>7

LEMMA LiveAfterBlockType ==
  ASSUME NEW m, IsDemandModule(m), NEW f \in FunctionsOf(m), NEW b \in BlockSet(m, f),
         NEW ins \in [BlockSet(m, f) -> Demand], NEW exits \in [FunctionsOf(m) -> Demand]
  PROVE  LiveAfterBlock(m, f, b, ins, exits) \in Demand
<1>1. \A s \in ToSet(m.flow[f].succ[b]) : ins[s] \in Demand
  BY DEF IsDemandModule
<1>2. \A r \in Registers : UNION {ins[s][r] : s \in ToSet(m.flow[f].succ[b])} \in SUBSET Bits
  BY <1>1 DEF Demand
<1>3. \A r \in Registers : exits[f][r] \in SUBSET Bits
  BY DEF Demand
<1> QED BY <1>2, <1>3 DEF LiveAfterBlock, Demand

(* The call-site rule does not depend on the callee's ExitDemand: the bits  *)
(* it contributes ("callee passes through" and "live after the call") are   *)
(* live before the call already.  Waking the callers of a function whose    *)
(* ExitDemand grew, as runTopDownDemand does, therefore changes no demand.  *)
THEOREM CallIgnoresExitDemand ==
  ASSUME NEW m, IsDemandModule(m), NEW g \in FunctionsOf(m), NEW live \in Demand,
         NEW exits, NEW others
  PROVE  BeforeBodyCall(m, g, live, exits) = BeforeBodyCall(m, g, live, others)
<1> DEFINE survives == SurvivingDemand(m.effects[g], live)
<1>1. survives \in Demand
  BY SurvivingDemandType
<1> HIDE DEF survives
<1>2. ASSUME NEW x, NEW r \in Registers
      PROVE  survives[r] \cup EntryNeeds(m, g, survives, x)[r]
               = survives[r] \cup (IF r \in Ignored THEN {}
                                   ELSE CellIn(m.effects[g].Registers, r).ReadEntry)
  <2>1. ReturnEntry(m, g, survives, x, r) \subseteq survives[r]
      BY DEF ReturnEntry
  <2> QED BY <2>1 DEF EntryNeeds
<1>3. MergeDemand(survives, EntryNeeds(m, g, survives, exits))
        = MergeDemand(survives, EntryNeeds(m, g, survives, others))
  BY <1>2 DEF MergeDemand
<1> QED BY <1>3, Zenon DEF BeforeBodyCall, survives

-----------------------------------------------------------------------------
(* Types.                                                                   *)

LEMMA WithAskedType ==
  ASSUME NEW m, IsDemandModule(m), NEW i, NEW live \in Demand,
         NEW adds \in [FunctionsOf(m) -> Demand]
  PROVE  WithAsked(m, i, live, adds) \in [FunctionsOf(m) -> Demand]
<1> DEFINE g == i.callee.name
           asked == ReturnDemand(m.effects[g], live)
<1>1. asked \in Demand
  BY ReturnDemandType
<1>2. WithAsked(m, i, live, adds) = adds
        \/ WithAsked(m, i, live, adds) = [adds EXCEPT ![g] = MergeDemand(adds[g], asked)]
  BY DEF WithAsked
<1> HIDE DEF asked, g
<1>3. \A h \in FunctionsOf(m) : MergeDemand(adds[h], asked) \in Demand
  BY <1>1, MergeDemandType
<1> QED BY <1>2, <1>3

\* The blocks of a function, by position.
LEMMA BlockShape ==
  ASSUME NEW m, IsDemandModule(m), NEW f \in FunctionsOf(m)
  PROVE  /\ m.flow[f].order \in Seq(BlockSet(m, f)) /\ m.flow[f].order # <<>>
         /\ Len(m.flow[f].order) \in Nat
         /\ \A n \in 1..Len(m.flow[f].order) : m.flow[f].order[n] \in BlockSet(m, f)
         /\ Head(m.flow[f].order) \in BlockSet(m, f)
<1>1. m.flow[f].order \in Seq(BlockSet(m, f)) /\ m.flow[f].order # <<>>
  BY Zenon DEF IsDemandModule
<1> QED BY <1>1

\* The code of a block, by position.
LEMMA CodeShape ==
  ASSUME NEW m, IsDemandModule(m), NEW f \in FunctionsOf(m), NEW b \in BlockSet(m, f)
  PROVE  /\ Len(m.flow[f].code[b]) \in Nat
         /\ \A n \in 1..Len(m.flow[f].code[b]) :
              LET i == m.flow[f].code[b][n] IN
              i.op = "call" /\ i.callee.kind = "body" => i.callee.name \in FunctionsOf(m)
<1>1. m.flow[f].code[b] \in Seq(ToSet(m.flow[f].code[b]))
  BY Zenon DEF IsDemandModule
<1>2. \A i \in ToSet(m.flow[f].code[b]) :
        i.op = "call" /\ i.callee.kind = "body" => i.callee.name \in FunctionsOf(m)
  BY Zenon DEF IsDemandModule
<1> DEFINE code == m.flow[f].code[b]
<1>3. code \in Seq(ToSet(code))
  BY <1>1
<1> HIDE DEF code
<1>4. Len(code) \in Nat /\ \A n \in 1..Len(code) : code[n] \in ToSet(code)
  BY <1>3
<1> QED BY <1>2, <1>4 DEF code

LEMMA EnqueueType ==
  ASSUME NEW S, NEW queue \in Seq(S), NEW f \in S,
         \A i, j \in DOMAIN queue : queue[i] = queue[j] => i = j
  PROVE  /\ Enqueue(queue, f) \in Seq(S)
         /\ \A i, j \in DOMAIN Enqueue(queue, f) :
              Enqueue(queue, f)[i] = Enqueue(queue, f)[j] => i = j
<1>1. CASE f \in ToSet(queue)
  BY <1>1 DEF Enqueue
<1>2. CASE f \notin ToSet(queue)
  <2>1. Enqueue(queue, f) = Append(queue, f)
    BY <1>2 DEF Enqueue
  <2>2. \A i \in DOMAIN queue : queue[i] # f
    BY <1>2 DEF ToSet
  <2> QED BY <2>1, <2>2
<1> QED BY <1>1, <1>2

DemandInv == module \in DemandModules /\ DemandTypeOK

LEMMA DemandInitType == DemandInit => DemandInv
<1> SUFFICES ASSUME DemandInit PROVE DemandInv
  OBVIOUS
<1>1. module \in DemandModules /\ IsDemandModule(module)
  BY DemandModulesAssumption DEF DemandInit
<1>2. QueuesOK
  BY <1>1 DEF DemandInit, QueuesOK, IsDemandModule
<1>3. VisitOK
  BY DEF DemandInit, VisitOK
<1>4. SeedAbiReturns \in Demand
  BY DEF SeedAbiReturns, Demand
<1>5. DemandsOK
  BY <1>4, NoDemandType DEF DemandInit, DemandsOK, NoAdditions
<1> QED BY <1>1, <1>2, <1>3, <1>5 DEF DemandInv, DemandTypeOK

\* Entering the n-th block of a function keeps the visit within its code.
LEMMA EnterBlockType ==
  ASSUME NEW f \in FunctionsOf(module), IsDemandModule(module), NEW n \in Nat,
         n <= Len(module.flow[f].order), NEW ins \in [BlockSet(module, f) -> Demand],
         exitDemand \in [FunctionsOf(module) -> Demand], EnterBlock(f, n, ins)
  PROVE  /\ liveNow' \in Demand /\ blockNo' = n /\ pc' \in Nat
         /\ n > 0 => pc' <= Len(module.flow[f].code[module.flow[f].order[n]])
<1>1. CASE n = 0
  BY <1>1, NoDemandType DEF EnterBlock
<1>2. CASE n > 0
  <2> DEFINE b == module.flow[f].order[n]
  <2>1. b \in BlockSet(module, f)
    BY <1>2, BlockShape
  <2>2. liveNow' = LiveAfterBlock(module, f, b, ins, exitDemand) /\ blockNo' = n
          /\ pc' = Len(module.flow[f].code[b])
    BY <1>2 DEF EnterBlock
  <2>3. Len(module.flow[f].code[b]) \in Nat
    BY <2>1, CodeShape
  <2>4. liveNow' \in Demand
    BY <2>1, <2>2, LiveAfterBlockType
  <2> QED BY <2>2, <2>3, <2>4
<1> QED BY <1>1, <1>2

LEMMA StartFunctionType == DemandInv /\ StartFunction => DemandInv'
<1> SUFFICES ASSUME DemandInv, StartFunction PROVE DemandInv'
  OBVIOUS
<1> DEFINE f == Head(todo)
<1>1. module' = module /\ module \in DemandModules /\ IsDemandModule(module)
  BY DemandModulesAssumption DEF DemandInv, StartFunction
<1>2. todo \in Seq(FunctionsOf(module)) /\ todo # <<>>
  BY DEF DemandInv, DemandTypeOK, QueuesOK, StartFunction
<1>3. f \in FunctionsOf(module)
  BY <1>2
<1>4. QueuesOK'
  BY <1>1, <1>2 DEF DemandInv, DemandTypeOK, QueuesOK, StartFunction
<1>5. /\ liveIn' \in [BlockSet(module, f) -> Demand]
      /\ liveOut' \in [BlockSet(module, f) -> Demand]
  BY NoDemandType DEF StartFunction
<1>6. /\ liveNow' \in Demand /\ blockNo' = Len(module.flow[f].order) /\ pc' \in Nat
      /\ blockNo' > 0 => pc' <= Len(module.flow[f].code[module.flow[f].order[blockNo']])
  <2>1. Len(module.flow[f].order) \in Nat
    BY <1>1, <1>3, BlockShape
  <2>2. EnterBlock(f, Len(module.flow[f].order), liveIn')
    BY DEF StartFunction
  <2>3. exitDemand \in [FunctionsOf(module) -> Demand]
    BY DEF DemandInv, DemandTypeOK, DemandsOK
  <2> DEFINE n == Len(module.flow[f].order)
  <2>4. n \in Nat /\ n <= Len(module.flow[f].order) /\ EnterBlock(f, n, liveIn')
    BY <2>1, <2>2
  <2> HIDE DEF f, n
  <2>5. /\ liveNow' \in Demand /\ blockNo' = n /\ pc' \in Nat
        /\ n > 0 => pc' <= Len(module.flow[f].code[module.flow[f].order[n]])
    BY <1>1, <1>3, <1>5, <2>3, <2>4, EnterBlockType
  <2> QED BY <2>5 DEF n
<1>7. VisitOK'
  <2>1. function' = f /\ again' = FALSE
    BY DEF StartFunction
  <2>2. Len(module.flow[f].order) \in Nat
    BY <1>1, <1>3, BlockShape
  <2> HIDE DEF f
  <2>3. blockNo' \in Nat /\ blockNo' <= Len(module.flow[f].order)
    BY <1>6, <2>2
  <2> QED BY <1>1, <1>3, <1>5, <1>6, <2>1, <2>3 DEF VisitOK, ThisBlock
<1>8. DemandsOK'
  BY <1>1, <1>6, NoDemandType
  DEF DemandInv, DemandTypeOK, DemandsOK, StartFunction, NoAdditions
<1> QED BY <1>1, <1>4, <1>7, <1>8 DEF DemandInv, DemandTypeOK

\* The block being visited, when there is one.
LEMMA ThisBlockType ==
  ASSUME DemandInv, Visiting
  PROVE  /\ IsDemandModule(module) /\ function \in FunctionsOf(module)
         /\ ThisBlock \in BlockSet(module, function)
<1>1. IsDemandModule(module) /\ function \in FunctionsOf(module)
  BY DemandModulesAssumption DEF DemandInv, DemandTypeOK, VisitOK, Visiting
<1>2. blockNo \in 1..Len(module.flow[function].order)
  BY DEF DemandInv, DemandTypeOK, VisitOK, Visiting
<1> QED BY <1>1, <1>2, BlockShape DEF ThisBlock

LEMMA StepBackType == DemandInv /\ StepBack => DemandInv'
<1> SUFFICES ASSUME DemandInv, StepBack PROVE DemandInv'
  OBVIOUS
<1> DEFINE i == module.flow[function].code[ThisBlock][pc]
<1>1. IsDemandModule(module) /\ function \in FunctionsOf(module)
        /\ ThisBlock \in BlockSet(module, function)
  BY ThisBlockType DEF StepBack
<1>2. pc \in 1..Len(module.flow[function].code[ThisBlock])
  BY DEF DemandInv, DemandTypeOK, VisitOK, StepBack, Visiting
<1>4. i.op = "call" /\ i.callee.kind = "body" => i.callee.name \in FunctionsOf(module)
  BY <1>1, <1>2, CodeShape
<1>5. liveNow' = BeforeInstruction(module, i, liveNow, exitDemand)
        /\ additions' = WithAsked(module, i, liveNow, additions)
  BY DEF StepBack
<1> HIDE DEF i
<1>6. liveNow' \in Demand
  BY <1>1, <1>4, <1>5, BeforeInstructionType DEF DemandInv, DemandTypeOK, DemandsOK
<1>7. additions' \in [FunctionsOf(module) -> Demand]
  BY <1>1, <1>5, WithAskedType DEF DemandInv, DemandTypeOK, DemandsOK
<1>8. module' = module /\ exitDemand' = exitDemand /\ entryDemand' = entryDemand
  BY DEF StepBack
<1>9. DemandsOK'
  BY <1>6, <1>7, <1>8 DEF DemandInv, DemandTypeOK, DemandsOK
<1>10. VisitOK'
  <2>1. /\ UNCHANGED <<module, function, blockNo, liveIn, liveOut, again>>
        /\ pc' = pc - 1
    BY DEF StepBack
  <2>2. Len(module.flow[function].code[ThisBlock]) \in Nat
    BY <1>1, CodeShape
  <2>3. pc' \in Nat /\ pc' <= Len(module.flow[function].code[ThisBlock])
    BY <1>2, <2>1, <2>2
  <2>4. ThisBlock' = ThisBlock
    BY <2>1 DEF ThisBlock
  <2> QED BY <2>1, <2>3, <2>4 DEF DemandInv, DemandTypeOK, VisitOK
<1>11. QueuesOK'
  BY <1>8 DEF DemandInv, DemandTypeOK, QueuesOK, StepBack
<1> QED BY <1>8, <1>9, <1>10, <1>11 DEF DemandInv, DemandTypeOK

LEMMA LeaveBlockType == DemandInv /\ LeaveBlock => DemandInv'
<1> SUFFICES ASSUME DemandInv, LeaveBlock PROVE DemandInv'
  OBVIOUS
<1> DEFINE after == LiveAfterBlock(module, function, ThisBlock, liveIn, exitDemand)
<1>1. IsDemandModule(module) /\ function \in FunctionsOf(module)
        /\ ThisBlock \in BlockSet(module, function)
  BY ThisBlockType DEF LeaveBlock
<1>2. /\ liveIn \in [BlockSet(module, function) -> Demand]
      /\ liveOut \in [BlockSet(module, function) -> Demand]
      /\ blockNo \in 1..Len(module.flow[function].order)
      /\ exitDemand \in [FunctionsOf(module) -> Demand] /\ liveNow \in Demand
  BY DEF DemandInv, DemandTypeOK, VisitOK, DemandsOK, LeaveBlock, Visiting
<1>3. after \in Demand
  BY <1>1, <1>2, LiveAfterBlockType
<1>4. /\ liveOut' = [liveOut EXCEPT ![ThisBlock] = after]
      /\ liveIn' = [liveIn EXCEPT ![ThisBlock] = liveNow]
      /\ again' = (again \/ liveOut[ThisBlock] # after \/ liveIn[ThisBlock] # liveNow)
      /\ EnterBlock(function, blockNo - 1, liveIn')
  BY DEF LeaveBlock
<1> HIDE DEF after
<1>5. /\ liveIn' \in [BlockSet(module, function) -> Demand]
      /\ liveOut' \in [BlockSet(module, function) -> Demand]
  BY <1>2, <1>3, <1>4
<1>6. again' \in BOOLEAN
  BY <1>4
<1>7. /\ liveNow' \in Demand /\ blockNo' = blockNo - 1 /\ pc' \in Nat
      /\ blockNo - 1 > 0 =>
           pc' <= Len(module.flow[function].code[module.flow[function].order[blockNo - 1]])
  <2>1. Len(module.flow[function].order) \in Nat
    BY <1>1, BlockShape
  <2>2. blockNo - 1 \in Nat /\ blockNo - 1 <= Len(module.flow[function].order)
    BY <1>2, <2>1
  <2>3. EnterBlock(function, blockNo - 1, liveIn')
    BY <1>4
  <2> QED BY <1>1, <1>2, <1>5, <2>2, <2>3, EnterBlockType
<1>8. UNCHANGED <<module, todo, function, additions, merging, waking, exitDemand, entryDemand>>
  BY DEF LeaveBlock
<1>9. blockNo' \in Nat /\ blockNo' <= Len(module.flow[function].order)
  <2>1. Len(module.flow[function].order) \in Nat
    BY <1>1, BlockShape
  <2> QED BY <1>2, <1>7, <2>1
<1>10. VisitOK'
  BY <1>1, <1>5, <1>6, <1>7, <1>8, <1>9 DEF VisitOK, ThisBlock
<1>11. DemandsOK'
  BY <1>7, <1>8 DEF DemandInv, DemandTypeOK, DemandsOK
<1>12. QueuesOK'
  BY <1>8 DEF DemandInv, DemandTypeOK, QueuesOK
<1> QED BY <1>8, <1>10, <1>11, <1>12 DEF DemandInv, DemandTypeOK

LEMMA RepeatRoundType == DemandInv /\ RepeatRound => DemandInv'
<1> SUFFICES ASSUME DemandInv, RepeatRound PROVE DemandInv'
  OBVIOUS
<1>1. IsDemandModule(module) /\ function \in FunctionsOf(module)
  BY DemandModulesAssumption DEF DemandInv, DemandTypeOK, VisitOK, RepeatRound
<1>2. /\ liveIn \in [BlockSet(module, function) -> Demand]
      /\ exitDemand \in [FunctionsOf(module) -> Demand]
  BY DEF DemandInv, DemandTypeOK, VisitOK, DemandsOK, RepeatRound
<1>3. Len(module.flow[function].order) \in Nat
  BY <1>1, BlockShape
<1>4. EnterBlock(function, Len(module.flow[function].order), liveIn)
  BY DEF RepeatRound
<1>5. /\ liveNow' \in Demand /\ blockNo' = Len(module.flow[function].order) /\ pc' \in Nat
      /\ blockNo' > 0 => pc' <= Len(module.flow[function].code[module.flow[function].order[blockNo']])
  <2> DEFINE n == Len(module.flow[function].order)
  <2>1. n \in Nat /\ n <= Len(module.flow[function].order) /\ EnterBlock(function, n, liveIn)
    BY <1>3, <1>4
  <2> HIDE DEF n
  <2>2. /\ liveNow' \in Demand /\ blockNo' = n /\ pc' \in Nat
        /\ n > 0 => pc' <= Len(module.flow[function].code[module.flow[function].order[n]])
    BY <1>1, <1>2, <2>1, EnterBlockType
  <2> QED BY <2>2 DEF n
<1>6. UNCHANGED <<module, todo, function, liveIn, liveOut, additions, merging, waking,
                  exitDemand, entryDemand>>
  BY DEF RepeatRound
<1>7. VisitOK'
  <2>1. again' \in BOOLEAN
    BY DEF RepeatRound
  <2>2. /\ liveIn \in [BlockSet(module, function) -> Demand]
        /\ liveOut \in [BlockSet(module, function) -> Demand]
    BY DEF DemandInv, DemandTypeOK, VisitOK, RepeatRound
  <2>3. blockNo' \in Nat /\ blockNo' <= Len(module.flow[function].order)
    BY <1>3, <1>5
  <2> QED BY <1>1, <1>5, <1>6, <2>1, <2>2, <2>3 DEF VisitOK, ThisBlock
<1>8. DemandsOK' /\ QueuesOK'
  BY <1>5, <1>6 DEF DemandInv, DemandTypeOK, DemandsOK, QueuesOK
<1> QED BY <1>6, <1>7, <1>8 DEF DemandInv, DemandTypeOK

LEMMA FinishFunctionType == DemandInv /\ FinishFunction => DemandInv'
<1> SUFFICES ASSUME DemandInv, FinishFunction PROVE DemandInv'
  OBVIOUS
<1>1. IsDemandModule(module) /\ function \in FunctionsOf(module)
  BY DemandModulesAssumption DEF DemandInv, DemandTypeOK, VisitOK, FinishFunction
<1>2. Head(module.flow[function].order) \in BlockSet(module, function)
  BY <1>1, BlockShape
<1>3. liveIn[Head(module.flow[function].order)] \in Demand
  BY <1>2 DEF DemandInv, DemandTypeOK, VisitOK, FinishFunction
<1>4. DemandsOK'
  BY <1>3 DEF DemandInv, DemandTypeOK, DemandsOK, FinishFunction
<1>5. QueuesOK'
  BY DEF DemandInv, DemandTypeOK, QueuesOK, FinishFunction
<1>6. VisitOK'
  BY DEF DemandInv, DemandTypeOK, VisitOK, FinishFunction
<1> QED BY <1>4, <1>5, <1>6 DEF DemandInv, DemandTypeOK, FinishFunction

LEMMA MergeAdditionType == DemandInv /\ MergeAddition => DemandInv'
<1> SUFFICES ASSUME DemandInv, MergeAddition PROVE DemandInv'
  OBVIOUS
<1>1. PICK g \in merging :
        /\ merging' = merging \ {g}
        /\ exitDemand' = [exitDemand EXCEPT ![g] = MergeDemand(exitDemand[g], additions[g])]
        /\ todo' = todo \/ todo' = Enqueue(todo, g)
        /\ waking' = CallersOf(module, g) \/ waking' = {}
        /\ UNCHANGED <<module, function, blockNo, pc, liveNow, liveIn, liveOut, again,
                       additions, entryDemand>>
  BY DEF MergeAddition
<1>2. g \in FunctionsOf(module)
  BY DEF DemandInv, DemandTypeOK, QueuesOK
<1>3. exitDemand' \in [FunctionsOf(module) -> Demand]
  BY <1>1, <1>2, MergeDemandType DEF DemandInv, DemandTypeOK, DemandsOK
<1>4. DemandsOK'
  BY <1>1, <1>3 DEF DemandInv, DemandTypeOK, DemandsOK
<1>5. waking' \subseteq FunctionsOf(module)
  BY <1>1 DEF CallersOf
<1>6. QueuesOK'
  BY <1>1, <1>2, <1>5, EnqueueType DEF DemandInv, DemandTypeOK, QueuesOK
<1>7. VisitOK'
  BY <1>1 DEF DemandInv, DemandTypeOK, VisitOK, ThisBlock
<1> QED BY <1>1, <1>4, <1>6, <1>7 DEF DemandInv, DemandTypeOK

LEMMA WakeCallerType == DemandInv /\ WakeCaller => DemandInv'
<1> SUFFICES ASSUME DemandInv, WakeCaller PROVE DemandInv'
  OBVIOUS
<1>1. PICK f \in waking :
        /\ todo' = Enqueue(todo, f) /\ waking' = waking \ {f}
        /\ UNCHANGED <<module, function, blockNo, pc, liveNow, liveIn, liveOut, again,
                       additions, merging, exitDemand, entryDemand>>
  BY DEF WakeCaller
<1>2. QueuesOK'
  BY <1>1, EnqueueType DEF DemandInv, DemandTypeOK, QueuesOK
<1>3. VisitOK' /\ DemandsOK'
  BY <1>1 DEF DemandInv, DemandTypeOK, VisitOK, DemandsOK, ThisBlock
<1> QED BY <1>1, <1>2, <1>3 DEF DemandInv, DemandTypeOK

(* Whatever the module and its effects, the worklist holds functions of the *)
(* module, each at most once, a visit stays within the blocks and the code  *)
(* of its function, and every demand asks for bits its register has.        *)
THEOREM DemandTypes == DemandSpec => []DemandTypeOK
<1>1. DemandInv /\ [DemandNext]_demandVars => DemandInv'
  <2> SUFFICES ASSUME DemandInv, [DemandNext]_demandVars PROVE DemandInv'
    OBVIOUS
  <2>1. CASE StartFunction BY <2>1, StartFunctionType
  <2>2. CASE StepBack BY <2>2, StepBackType
  <2>3. CASE LeaveBlock BY <2>3, LeaveBlockType
  <2>4. CASE RepeatRound BY <2>4, RepeatRoundType
  <2>5. CASE FinishFunction BY <2>5, FinishFunctionType
  <2>6. CASE MergeAddition BY <2>6, MergeAdditionType
  <2>7. CASE WakeCaller BY <2>7, WakeCallerType
  <2>8. CASE UNCHANGED demandVars
    BY <2>8 DEF demandVars, DemandInv, DemandTypeOK, QueuesOK, VisitOK, DemandsOK, ThisBlock
  <2> QED BY <2>1, <2>2, <2>3, <2>4, <2>5, <2>6, <2>7, <2>8 DEF DemandNext
<1>2. DemandInv => DemandTypeOK
  BY DEF DemandInv
<1> QED BY <1>1, <1>2, DemandInitType, PTL DEF DemandSpec

-----------------------------------------------------------------------------
(* Demands that agree with each other.  A solution of a module gives every  *)
(* position of every block a demand, and every function an ExitDemand.      *)

AtMost(d, e) == \A r \in Registers : d[r] \subseteq e[r]

\* l is the walk of liveBeforeBlock over block b, back to position n; what it
\* asks of the callees on the way is in "asked".
Walked(m, f, b, n, l, ins, exits, asked) ==
  LET code == m.flow[f].code[b] IN
  /\ l \in [n .. Len(code) + 1 -> Demand]
  /\ l[Len(code) + 1] = LiveAfterBlock(m, f, b, ins, exits)
  /\ \A k \in n .. Len(code) :
       /\ l[k] = BeforeInstruction(m, code[k], l[k + 1], exits)
       /\ code[k].op = "call" /\ code[k].callee.kind = "body" =>
            LET g == code[k].callee.name IN
            ~m.effects[g].NoReturn => AtMost(ReturnDemand(m.effects[g], l[k + 1]), asked[g])

\* Some walk back to position n arrives there with demand d.
WalkedTo(m, f, b, n, d, ins, exits, asked) ==
  \E l : Walked(m, f, b, n, l, ins, exits, asked) /\ l[n] = d

SolvesFunction(m, f, l, exits, asked) ==
  \A b \in BlockSet(m, f) :
    Walked(m, f, b, 1, l[b], [c \in BlockSet(m, f) |-> l[c][1]], exits, asked)

EntryOf(m, f, l) == l[Head(m.flow[f].order)][1]

IsSolution(m, live, exits) ==
  /\ exits \in [FunctionsOf(m) -> Demand]
  /\ \A f \in FunctionsOf(m) :
       /\ CallersOf(m, f) = {} => AtMost(SeedAbiReturns, exits[f])
       /\ SolvesFunction(m, f, live[f], exits, exits)

\* The worklist ends with a solution, and with the least.
DemandsAreLeastSolution ==
  DemandDone =>
    /\ \E live : /\ IsSolution(module, live, exitDemand)
                 /\ \A f \in FunctionsOf(module) : entryDemand[f] = EntryOf(module, f, live[f])
    /\ \A live, exits :
         IsSolution(module, live, exits) =>
           \A f \in FunctionsOf(module) :
             /\ AtMost(exitDemand[f], exits[f])
             /\ AtMost(entryDemand[f], EntryOf(module, f, live[f]))

-----------------------------------------------------------------------------
(* Walks.                                                                   *)

LEMMA MergeIsLeast ==
  ASSUME NEW d \in Demand, NEW e \in Demand
  PROVE  /\ AtMost(d, MergeDemand(d, e)) /\ AtMost(e, MergeDemand(d, e))
         /\ \A u : AtMost(d, u) /\ AtMost(e, u) => AtMost(MergeDemand(d, e), u)
BY DEF AtMost, MergeDemand

\* No instruction reads an ExitDemand.
LEMMA BeforeIgnoresExits ==
  ASSUME NEW m, IsDemandModule(m), NEW live \in Demand, NEW exits, NEW others, NEW i,
         i.op = "call" /\ i.callee.kind = "body" => i.callee.name \in FunctionsOf(m)
  PROVE  BeforeInstruction(m, i, live, exits) = BeforeInstruction(m, i, live, others)
<1>1. CASE i.op = "call" /\ i.callee.kind = "body"
  <2>1. BeforeBodyCall(m, i.callee.name, live, exits) = BeforeBodyCall(m, i.callee.name, live, others)
    BY <1>1, CallIgnoresExitDemand
  <2> QED BY <1>1, <2>1 DEF BeforeInstruction
<1>2. CASE ~ (i.op = "call" /\ i.callee.kind = "body")
  BY <1>2 DEF BeforeInstruction
<1> QED BY <1>1, <1>2

\* A walk depends on the function's own ExitDemand only.
LEMMA WalkIgnoresOthers ==
  ASSUME NEW m, IsDemandModule(m), NEW f \in FunctionsOf(m), NEW b \in BlockSet(m, f),
         NEW n \in Nat \ {0}, NEW l, NEW ins, NEW exits, NEW others, NEW asked,
         exits[f] = others[f], Walked(m, f, b, n, l, ins, exits, asked)
  PROVE  Walked(m, f, b, n, l, ins, others, asked)
<1> DEFINE code == m.flow[f].code[b]
<1>1. /\ Len(code) \in Nat
      /\ \A k \in 1 .. Len(code) :
           code[k].op = "call" /\ code[k].callee.kind = "body" => code[k].callee.name \in FunctionsOf(m)
  BY CodeShape
<1>2. LiveAfterBlock(m, f, b, ins, exits) = LiveAfterBlock(m, f, b, ins, others)
  BY DEF LiveAfterBlock
<1>3. l \in [n .. Len(code) + 1 -> Demand]
  BY DEF Walked
<1>4. ASSUME NEW k \in n .. Len(code)
      PROVE  BeforeInstruction(m, code[k], l[k + 1], exits) = BeforeInstruction(m, code[k], l[k + 1], others)
  <2>1. k \in 1 .. Len(code) /\ k + 1 \in n .. Len(code) + 1
    BY <1>1
  <2>2. l[k + 1] \in Demand
    BY <1>3, <2>1
  <2> DEFINE i == code[k]  d == l[k + 1]
  <2>3. i.op = "call" /\ i.callee.kind = "body" => i.callee.name \in FunctionsOf(m)
    BY <1>1, <2>1
  <2>4. d \in Demand
    BY <2>2
  <2> HIDE DEF i, d
  <2>5. BeforeInstruction(m, i, d, exits) = BeforeInstruction(m, i, d, others)
    BY <2>3, <2>4, BeforeIgnoresExits
  <2> QED BY <2>5 DEF i, d
<1> QED BY <1>2, <1>3, <1>4 DEF Walked

LEMMA WalkAsksLess ==
  ASSUME NEW m, NEW f, NEW b, NEW n, NEW l, NEW ins, NEW exits, NEW asked, NEW more,
         Walked(m, f, b, n, l, ins, exits, asked),
         IsDemandModule(m), f \in FunctionsOf(m), b \in BlockSet(m, f), n \in Nat \ {0},
         \A g \in FunctionsOf(m) : AtMost(asked[g], more[g])
  PROVE  Walked(m, f, b, n, l, ins, exits, more)
<1> DEFINE code == m.flow[f].code[b]
<1>1. /\ Len(code) \in Nat
      /\ \A k \in 1 .. Len(code) :
           code[k].op = "call" /\ code[k].callee.kind = "body" => code[k].callee.name \in FunctionsOf(m)
  BY CodeShape
<1>2. ASSUME NEW k \in n .. Len(code), code[k].op = "call" /\ code[k].callee.kind = "body",
             ~m.effects[code[k].callee.name].NoReturn
      PROVE  AtMost(ReturnDemand(m.effects[code[k].callee.name], l[k + 1]), more[code[k].callee.name])
  <2>1. code[k].callee.name \in FunctionsOf(m)
    <3> HIDE DEF code
    <3>1. k \in 1 .. Len(code)
      BY <1>1
    <3> QED BY <1>1, <1>2, <3>1
  <2>2. AtMost(ReturnDemand(m.effects[code[k].callee.name], l[k + 1]), asked[code[k].callee.name])
    BY <1>2 DEF Walked
  <2>3. AtMost(asked[code[k].callee.name], more[code[k].callee.name])
    BY <2>1
  <2> QED BY <2>2, <2>3 DEF AtMost
<1> QED BY <1>2 DEF Walked

\* At the end of a block.
LEMMA WalkStarts ==
  ASSUME NEW m, IsDemandModule(m), NEW f \in FunctionsOf(m), NEW b \in BlockSet(m, f),
         NEW ins \in [BlockSet(m, f) -> Demand], NEW exits \in [FunctionsOf(m) -> Demand], NEW asked
  PROVE  WalkedTo(m, f, b, Len(m.flow[f].code[b]) + 1, LiveAfterBlock(m, f, b, ins, exits),
                  ins, exits, asked)
<1> DEFINE len == Len(m.flow[f].code[b])
           after == LiveAfterBlock(m, f, b, ins, exits)
           l == [k \in {len + 1} |-> after]
<1>1. len \in Nat
  BY CodeShape
<1>2. after \in Demand
  BY LiveAfterBlockType
<1> HIDE DEF after, len
<1>3. len + 1 .. len + 1 = {len + 1} /\ len + 1 .. len = {}
  BY <1>1
<1>4. l \in [len + 1 .. len + 1 -> Demand] /\ l[len + 1] = after
  BY <1>2, <1>3
<1> HIDE DEF l
<1>5. Walked(m, f, b, len + 1, l, ins, exits, asked)
  BY <1>3, <1>4 DEF Walked, after, len
<1> QED BY <1>4, <1>5 DEF WalkedTo, after, len

\* The positions of a block of len instructions from n on.
LEMMA Positions ==
  ASSUME NEW len \in Nat, NEW n \in 1 .. len
  PROVE  /\ n \in Nat /\ n <= len /\ n + 1 \in n + 1 .. len + 1 /\ len + 1 \in n + 1 .. len + 1
         /\ n \in n .. len + 1 /\ n \notin n + 1 .. len + 1
         /\ n + 1 .. len + 1 \subseteq n .. len + 1 /\ n + 1 .. len \subseteq n + 1 .. len + 1
         /\ \A k \in n .. len + 1 : k # n => k \in n + 1 .. len + 1
         /\ \A k \in n .. len : (k = n \/ k \in n + 1 .. len) /\ k + 1 \in n + 1 .. len + 1
  OBVIOUS

\* A function with one more position in front.
LEMMA InFront ==
  ASSUME NEW S, NEW T, NEW n \in S, n \notin T, T \subseteq S, \A k \in S : k # n => k \in T,
         NEW D, NEW l \in [T -> D], NEW d \in D
  PROVE  LET q == [k \in S |-> IF k = n THEN d ELSE l[k]] IN
         q \in [S -> D] /\ q[n] = d /\ \A k \in T : q[k] = l[k]
  OBVIOUS

\* One instruction further back.
LEMMA WalkGoesOn ==
  ASSUME NEW m, IsDemandModule(m), NEW f \in FunctionsOf(m), NEW b \in BlockSet(m, f),
         NEW n \in 1 .. Len(m.flow[f].code[b]), NEW ins, NEW exits,
         NEW adds \in [FunctionsOf(m) -> Demand],
         NEW live, WalkedTo(m, f, b, n + 1, live, ins, exits, adds),
         NEW d, d = BeforeInstruction(m, m.flow[f].code[b][n], live, exits),
         NEW more, more = WithAsked(m, m.flow[f].code[b][n], live, adds)
  PROVE  /\ WalkedTo(m, f, b, n, d, ins, exits, more)
         /\ \A g \in FunctionsOf(m) : AtMost(adds[g], more[g])
<1> DEFINE code == m.flow[f].code[b]
           len == Len(code)
           i == code[n]
<1>0. PICK l : Walked(m, f, b, n + 1, l, ins, exits, adds) /\ l[n + 1] = live
  BY DEF WalkedTo
<1> DEFINE q == [k \in n .. len + 1 |-> IF k = n THEN d ELSE l[k]]
<1>1. /\ len \in Nat
      /\ i.op = "call" /\ i.callee.kind = "body" => i.callee.name \in FunctionsOf(m)
  BY CodeShape
<1>2. l \in [n + 1 .. len + 1 -> Demand]
  BY <1>0, Zenon DEF Walked
<1>3. n \in 1 .. len
  OBVIOUS
<1>4. d = BeforeInstruction(m, i, l[n + 1], exits) /\ more = WithAsked(m, i, l[n + 1], adds)
  BY <1>0
<1> HIDE DEF len
<1>5. /\ n \in Nat /\ n <= len /\ n + 1 \in n + 1 .. len + 1 /\ len + 1 \in n + 1 .. len + 1
      /\ n \in n .. len + 1 /\ n \notin n + 1 .. len + 1
      /\ n + 1 .. len + 1 \subseteq n .. len + 1 /\ n + 1 .. len \subseteq n + 1 .. len + 1
      /\ \A k \in n .. len + 1 : k # n => k \in n + 1 .. len + 1
      /\ \A k \in n .. len : (k = n \/ k \in n + 1 .. len) /\ k + 1 \in n + 1 .. len + 1
  BY <1>1, <1>3, Positions
<1>6. l[n + 1] \in Demand
  BY <1>2, <1>5
<1>7. d \in Demand
  <2> DEFINE e == l[n + 1]
  <2>1. e \in Demand /\ d = BeforeInstruction(m, i, e, exits)
    BY <1>6, <1>4
  <2> HIDE DEF e, i
  <2> QED BY <1>1, <2>1, BeforeInstructionType
<1>8. /\ \A g \in FunctionsOf(m) : AtMost(adds[g], more[g])
      /\ i.op = "call" /\ i.callee.kind = "body" /\ ~m.effects[i.callee.name].NoReturn =>
           AtMost(ReturnDemand(m.effects[i.callee.name], l[n + 1]), more[i.callee.name])
  <2> DEFINE g == i.callee.name
             asked == ReturnDemand(m.effects[g], l[n + 1])
  <2>1. CASE i.op = "call" /\ i.callee.kind = "body" /\ ~m.effects[g].NoReturn
    <3>1. g \in FunctionsOf(m) /\ adds[g] \in Demand /\ asked \in Demand
      BY <1>1, <1>6, <2>1, ReturnDemandType
    <3>2. more = [adds EXCEPT ![g] = MergeDemand(adds[g], asked)]
      BY <1>4, <2>1 DEF WithAsked
    <3> HIDE DEF asked, g, i
    <3>3. AtMost(adds[g], MergeDemand(adds[g], asked)) /\ AtMost(asked, MergeDemand(adds[g], asked))
      BY <3>1, MergeIsLeast
    <3>4. \A h : AtMost(adds[h], adds[h])
      BY DEF AtMost
    <3>5. more[g] = MergeDemand(adds[g], asked) /\ \A h \in FunctionsOf(m) \ {g} : more[h] = adds[h]
      BY <3>1, <3>2
    <3> QED BY <3>1, <3>3, <3>4, <3>5 DEF asked, g
  <2>2. CASE ~ (i.op = "call" /\ i.callee.kind = "body" /\ ~m.effects[g].NoReturn)
    <3>1. more = adds
      BY <1>4, <2>2 DEF WithAsked
    <3>2. \A h : AtMost(adds[h], adds[h])
      BY DEF AtMost
    <3> QED BY <2>2, <3>1, <3>2
  <2> QED BY <2>1, <2>2
<1>9. Walked(m, f, b, n + 1, l, ins, exits, more)
  <2>1. n + 1 \in Nat \ {0}
    BY <1>5
  <2>2. \A g \in FunctionsOf(m) : AtMost(adds[g], more[g])
    BY <1>8
  <2> DEFINE k == n + 1
  <2> HIDE DEF i, k
  <2>3. k \in Nat \ {0} /\ Walked(m, f, b, k, l, ins, exits, adds)
    BY <1>0, <2>1 DEF k
  <2>4. Walked(m, f, b, k, l, ins, exits, more)
    BY <2>2, <2>3, WalkAsksLess
  <2> QED BY <2>4 DEF k
<1>10. q \in [n .. len + 1 -> Demand] /\ q[n] = d /\ \A k \in n + 1 .. len + 1 : q[k] = l[k]
  <2> DEFINE S == n .. len + 1  T == n + 1 .. len + 1
  <2>1. /\ n \in S /\ n \notin T /\ T \subseteq S /\ \A k \in S : k # n => k \in T
        /\ l \in [T -> Demand] /\ d \in Demand
        /\ q = [k \in S |-> IF k = n THEN d ELSE l[k]]
    BY <1>2, <1>5, <1>7
  <2> HIDE DEF S, T, q
  <2>2. q \in [S -> Demand] /\ q[n] = d /\ \A k \in T : q[k] = l[k]
    BY <2>1, InFront
  <2> QED BY <2>2 DEF S, T
<1> HIDE DEF q
<1>11. ASSUME NEW k \in n .. len
      PROVE  (k = n \/ k \in n + 1 .. len) /\ q[k + 1] = l[k + 1]
  BY <1>5, <1>10
<1>12. Walked(m, f, b, n, q, ins, exits, more)
  <2>1. q[len + 1] = LiveAfterBlock(m, f, b, ins, exits)
    <3>1. l[len + 1] = LiveAfterBlock(m, f, b, ins, exits)
      BY <1>9, Zenon DEF Walked, len
    <3> QED BY <1>5, <1>10, <3>1
  <2>2. ASSUME NEW k \in n .. len
        PROVE  /\ q[k] = BeforeInstruction(m, code[k], q[k + 1], exits)
               /\ code[k].op = "call" /\ code[k].callee.kind = "body" =>
                    (~m.effects[code[k].callee.name].NoReturn =>
                       AtMost(ReturnDemand(m.effects[code[k].callee.name], q[k + 1]), more[code[k].callee.name]))
    <3>1. CASE k = n
      <4>1. q[k] = d /\ q[k + 1] = l[k + 1] /\ code[k] = i
        BY <1>10, <1>11, <3>1
      <4> HIDE DEF i
      <4>2. /\ q[k] = BeforeInstruction(m, i, q[k + 1], exits)
            /\ i.op = "call" /\ i.callee.kind = "body" =>
                 (~m.effects[i.callee.name].NoReturn =>
                    AtMost(ReturnDemand(m.effects[i.callee.name], q[k + 1]), more[i.callee.name]))
        <5>1. q[k + 1] = l[n + 1]
          BY <3>1, <4>1
        <5> QED BY <1>8, <1>4, <4>1, <5>1
      <4> QED BY <4>1, <4>2
    <3>2. CASE k \in n + 1 .. len
      <4>1. /\ l[k] = BeforeInstruction(m, code[k], l[k + 1], exits)
            /\ code[k].op = "call" /\ code[k].callee.kind = "body" =>
                 (~m.effects[code[k].callee.name].NoReturn =>
                    AtMost(ReturnDemand(m.effects[code[k].callee.name], l[k + 1]), more[code[k].callee.name]))
        BY <1>9, <3>2 DEF Walked, len
      <4>2. q[k] = l[k] /\ q[k + 1] = l[k + 1]
        BY <1>5, <1>10, <1>11, <3>2
      <4> QED BY <4>1, <4>2
    <3> QED BY <1>11, <3>1, <3>2
  <2> QED BY <1>10, <2>1, <2>2 DEF Walked, len
<1> QED BY <1>8, <1>10, <1>12 DEF WalkedTo

-----------------------------------------------------------------------------
(* The worklist ends with a solution.                                       *)

\* What the calls analysed so far were promised of their callees' ExitDemand.
Promised ==
  [g \in FunctionsOf(module) |->
     IF g \in merging THEN MergeDemand(exitDemand[g], additions[g]) ELSE exitDemand[g]]

AloneWhileVisiting == function # NoFunction => merging = {} /\ waking = {}

SeedsAsked ==
  \A f \in FunctionsOf(module) : CallersOf(module, f) = {} => AtMost(SeedAbiReturns, exitDemand[f])

Settles(f) ==
  \E l : /\ SolvesFunction(module, f, l, exitDemand, Promised)
         /\ entryDemand[f] = EntryOf(module, f, l)

\* What is not to be visited again agrees with the demands there are.
SettledUnlessTodo ==
  \A f \in FunctionsOf(module) : f \notin ToSet(todo) /\ f # function => Settles(f)

\* In a round that changed nothing so far, the blocks gone over agree with
\* the demands at the starts; and the walk of the present one is under way.
RoundSoFar ==
  function # NoFunction =>
    /\ ~again =>
         \A k \in blockNo + 1 .. Len(module.flow[function].order) :
           LET b == module.flow[function].order[k] IN
           WalkedTo(module, function, b, 1, liveIn[b], liveIn, exitDemand, additions)
    /\ blockNo > 0 =>
         WalkedTo(module, function, ThisBlock, pc + 1, liveNow, liveIn, exitDemand, additions)

SolvingInv == AloneWhileVisiting /\ SeedsAsked /\ SettledUnlessTodo /\ RoundSoFar

LEMMA DemandFacts ==
  ASSUME DemandInv
  PROVE  /\ IsDemandModule(module) /\ NoFunction \notin FunctionsOf(module)
         /\ exitDemand \in [FunctionsOf(module) -> Demand]
         /\ additions \in [FunctionsOf(module) -> Demand]
         /\ todo \in Seq(FunctionsOf(module))
         /\ merging \subseteq FunctionsOf(module)
         /\ \A f \in FunctionsOf(module) : AtMost(exitDemand[f], Promised[f])
<1>1. IsDemandModule(module)
  BY DemandModulesAssumption DEF DemandInv
<1>2. NoFunction \notin FunctionsOf(module)
  BY <1>1 DEF IsDemandModule
<1>3. /\ exitDemand \in [FunctionsOf(module) -> Demand]
      /\ additions \in [FunctionsOf(module) -> Demand]
      /\ todo \in Seq(FunctionsOf(module)) /\ merging \subseteq FunctionsOf(module)
  BY DEF DemandInv, DemandTypeOK, DemandsOK, QueuesOK
<1>4. ASSUME NEW f \in FunctionsOf(module) PROVE AtMost(exitDemand[f], Promised[f])
  <2>1. exitDemand[f] \in Demand /\ additions[f] \in Demand
    BY <1>3
  <2>2. AtMost(exitDemand[f], MergeDemand(exitDemand[f], additions[f]))
    BY <2>1, MergeIsLeast
  <2>3. AtMost(exitDemand[f], exitDemand[f])
    BY DEF AtMost
  <2> QED BY <2>2, <2>3 DEF Promised
<1> QED BY <1>1, <1>2, <1>3, <1>4

LEMMA SolutionKept ==
  ASSUME NEW m, IsDemandModule(m), NEW f \in FunctionsOf(m), NEW l, NEW exits, NEW others,
         NEW asked, NEW more, SolvesFunction(m, f, l, exits, asked), exits[f] = others[f],
         \A g \in FunctionsOf(m) : AtMost(asked[g], more[g])
  PROVE  SolvesFunction(m, f, l, others, more)
<1> SUFFICES ASSUME NEW b \in BlockSet(m, f)
             PROVE  Walked(m, f, b, 1, l[b], [c \in BlockSet(m, f) |-> l[c][1]], others, more)
  BY DEF SolvesFunction
<1> DEFINE ins == [c \in BlockSet(m, f) |-> l[c][1]]
<1>1. Walked(m, f, b, 1, l[b], ins, exits, asked)
  BY DEF SolvesFunction
<1> HIDE DEF ins
<1>2. Walked(m, f, b, 1, l[b], ins, others, asked)
  BY <1>1, WalkIgnoresOthers
<1>3. Walked(m, f, b, 1, l[b], ins, others, more)
  BY <1>2, WalkAsksLess
<1> QED BY <1>3 DEF ins

\* A step that leaves f's demands alone and keeps the promises.
LEMMA SettlesKept ==
  ASSUME DemandInv, module' = module, NEW f \in FunctionsOf(module), Settles(f),
         exitDemand'[f] = exitDemand[f], entryDemand'[f] = entryDemand[f],
         \A g \in FunctionsOf(module) : AtMost(Promised[g], Promised'[g])
  PROVE  Settles(f)'
<1>1. PICK l : SolvesFunction(module, f, l, exitDemand, Promised) /\ entryDemand[f] = EntryOf(module, f, l)
  BY DEF Settles
<1>2. IsDemandModule(module)
  BY DemandFacts
<1>3. SolvesFunction(module, f, l, exitDemand', Promised')
  <2> DEFINE e == exitDemand'  p == Promised'  q == Promised
  <2>1. SolvesFunction(module, f, l, exitDemand, q)
    BY <1>1
  <2>2. exitDemand[f] = e[f] /\ \A g \in FunctionsOf(module) : AtMost(q[g], p[g])
    OBVIOUS
  <2> HIDE DEF e, p, q
  <2>3. SolvesFunction(module, f, l, e, p)
    BY <1>2, <2>1, <2>2, SolutionKept
  <2> QED BY <2>3 DEF e, p
<1>4. entryDemand'[f] = EntryOf(module', f, l)
  BY <1>1
<1> QED BY <1>3, <1>4 DEF Settles

\* The walk of a block that is entered begins.
LEMMA EnterStarts ==
  ASSUME NEW f \in FunctionsOf(module), IsDemandModule(module), NEW n \in Nat \ {0},
         n <= Len(module.flow[f].order), NEW ins \in [BlockSet(module, f) -> Demand],
         exitDemand \in [FunctionsOf(module) -> Demand], EnterBlock(f, n, ins), NEW asked
  PROVE  WalkedTo(module, f, module.flow[f].order[n], pc' + 1, liveNow', ins, exitDemand, asked)
<1> DEFINE b == module.flow[f].order[n]
<1>1. b \in BlockSet(module, f)
  BY BlockShape
<1>2. liveNow' = LiveAfterBlock(module, f, b, ins, exitDemand) /\ pc' = Len(module.flow[f].code[b])
  BY DEF EnterBlock
<1> HIDE DEF b
<1>3. WalkedTo(module, f, b, Len(module.flow[f].code[b]) + 1,
               LiveAfterBlock(module, f, b, ins, exitDemand), ins, exitDemand, asked)
  BY <1>1, WalkStarts
<1> QED BY <1>2, <1>3 DEF b

LEMMA SolvingStarts == DemandInit => SolvingInv
<1> SUFFICES ASSUME DemandInit PROVE SolvingInv
  OBVIOUS
<1>1. SeedsAsked
  BY DEF DemandInit, SeedsAsked, AtMost
<1>2. SettledUnlessTodo
  BY DEF DemandInit, SettledUnlessTodo, FunctionsOf
<1> QED BY <1>1, <1>2 DEF SolvingInv, DemandInit, AloneWhileVisiting, RoundSoFar

LEMMA StartSolves == DemandInv /\ SolvingInv /\ StartFunction => SolvingInv'
<1> SUFFICES ASSUME DemandInv, SolvingInv, StartFunction PROVE SolvingInv'
  OBVIOUS
<1> DEFINE h == Head(todo)
           len == Len(module.flow[h].order)
<1>1. /\ module' = module /\ merging = {} /\ waking = {} /\ function = NoFunction
      /\ UNCHANGED <<merging, waking, exitDemand, entryDemand>>
      /\ todo # <<>> /\ todo' = Tail(todo) /\ function' = h /\ again' = FALSE
      /\ liveIn' = [b \in BlockSet(module, h) |-> NoDemand]
      /\ EnterBlock(h, len, liveIn') /\ blockNo' = len
  BY DEF StartFunction, Idle, EnterBlock
<1>2. /\ IsDemandModule(module) /\ NoFunction \notin FunctionsOf(module)
      /\ exitDemand \in [FunctionsOf(module) -> Demand] /\ todo \in Seq(FunctionsOf(module))
  BY DemandFacts
<1>3. h \in FunctionsOf(module) /\ ToSet(todo) \subseteq {h} \cup ToSet(Tail(todo))
  <2>1. h \in FunctionsOf(module)
    BY <1>1, <1>2
  <2>2. ASSUME NEW n \in DOMAIN todo, n # 1 PROVE n - 1 \in DOMAIN Tail(todo) /\ Tail(todo)[n - 1] = todo[n]
    BY <1>1, <1>2, <2>2
  <2>3. todo[1] = h
    OBVIOUS
  <2> HIDE DEF h
  <2> QED BY <2>1, <2>2, <2>3 DEF ToSet
<1>4. \A g \in FunctionsOf(module) : AtMost(Promised[g], Promised'[g])
  BY <1>1 DEF Promised, AtMost
<1>5. AloneWhileVisiting' /\ SeedsAsked'
  BY <1>1 DEF SolvingInv, AloneWhileVisiting, SeedsAsked
<1> HIDE DEF h
<1>6. SettledUnlessTodo'
  <2> SUFFICES ASSUME NEW f \in FunctionsOf(module), f \notin ToSet(todo'), f # function'
               PROVE  Settles(f)'
    BY <1>1 DEF SettledUnlessTodo
  <2>1. f \notin ToSet(todo) /\ f # function
    BY <1>1, <1>2, <1>3
  <2>2. Settles(f)
    BY <2>1 DEF SolvingInv, SettledUnlessTodo
  <2> QED BY <1>1, <1>4, <2>2, SettlesKept
<1>7. RoundSoFar'
  <2>1. /\ len \in Nat
        /\ liveIn' \in [BlockSet(module, h) -> Demand]
    BY <1>1, <1>2, <1>3, BlockShape, NoDemandType
  <2>2. blockNo' + 1 .. Len(module.flow[h].order) = {}
    BY <1>1, <2>1
  <2>3. blockNo' > 0 =>
          WalkedTo(module, h, module.flow[h].order[len], pc' + 1, liveNow', liveIn', exitDemand, additions')
    <3> SUFFICES ASSUME blockNo' > 0
                 PROVE  WalkedTo(module, h, module.flow[h].order[len], pc' + 1, liveNow', liveIn', exitDemand,
                                 additions')
      OBVIOUS
    <3> DEFINE n == len  ins == liveIn'  asked == additions'
    <3>1. n \in Nat \ {0} /\ n <= Len(module.flow[h].order) /\ EnterBlock(h, n, ins)
          /\ ins \in [BlockSet(module, h) -> Demand]
      BY <1>1, <2>1
    <3> HIDE DEF n, ins, asked
    <3>2. WalkedTo(module, h, module.flow[h].order[n], pc' + 1, liveNow', ins, exitDemand, asked)
      BY <1>2, <1>3, <3>1, EnterStarts
    <3> QED BY <3>2 DEF n, ins, asked
  <2>4. ThisBlock' = module.flow[h].order[len]
    BY <1>1 DEF ThisBlock
  <2> QED BY <1>1, <2>2, <2>3, <2>4 DEF RoundSoFar
<1> QED BY <1>5, <1>6, <1>7 DEF SolvingInv

\* While a function is visited nothing else changes.
LEMMA VisitKeeps ==
  ASSUME DemandInv, SolvingInv, function # NoFunction,
         UNCHANGED <<module, todo, function, merging, waking, exitDemand, entryDemand>>
  PROVE  AloneWhileVisiting' /\ SeedsAsked' /\ SettledUnlessTodo'
<1>1. merging = {} /\ merging' = {}
  BY DEF SolvingInv, AloneWhileVisiting
<1>2. \A g \in FunctionsOf(module) : AtMost(Promised[g], Promised'[g])
  BY <1>1 DEF Promised, AtMost
<1>3. AloneWhileVisiting' /\ SeedsAsked'
  BY DEF SolvingInv, AloneWhileVisiting, SeedsAsked
<1>4. SettledUnlessTodo'
  <2> SUFFICES ASSUME NEW f \in FunctionsOf(module), f \notin ToSet(todo), f # function
               PROVE  Settles(f)'
    BY DEF SettledUnlessTodo
  <2>1. Settles(f)
    BY DEF SolvingInv, SettledUnlessTodo
  <2> QED BY <1>2, <2>1, SettlesKept
<1> QED BY <1>3, <1>4

LEMMA StepBackSolves == DemandInv /\ SolvingInv /\ StepBack => SolvingInv'
<1> SUFFICES ASSUME DemandInv, SolvingInv, StepBack PROVE SolvingInv'
  OBVIOUS
<1> DEFINE i == module.flow[function].code[ThisBlock][pc]
<1>1. /\ Visiting /\ pc > 0 /\ pc' = pc - 1 /\ function # NoFunction /\ blockNo > 0
      /\ liveNow' = BeforeInstruction(module, i, liveNow, exitDemand)
      /\ additions' = WithAsked(module, i, liveNow, additions)
      /\ UNCHANGED <<module, todo, function, blockNo, liveIn, liveOut, again, merging,
                     waking, exitDemand, entryDemand>>
  BY DEF StepBack, Visiting
<1>2. /\ IsDemandModule(module) /\ function \in FunctionsOf(module)
      /\ ThisBlock \in BlockSet(module, function) /\ ThisBlock' = ThisBlock
  BY <1>1, ThisBlockType DEF ThisBlock
<1>3. additions \in [FunctionsOf(module) -> Demand]
  BY DemandFacts
<1>4. pc \in 1 .. Len(module.flow[function].code[ThisBlock]) /\ pc - 1 + 1 = pc
  BY <1>1 DEF DemandInv, DemandTypeOK, VisitOK
<1>5. WalkedTo(module, function, ThisBlock, pc + 1, liveNow, liveIn, exitDemand, additions)
  BY <1>1 DEF SolvingInv, RoundSoFar
<1>6. /\ WalkedTo(module, function, ThisBlock, pc, liveNow', liveIn, exitDemand, additions')
      /\ \A g \in FunctionsOf(module) : AtMost(additions[g], additions'[g])
  <2> DEFINE d == liveNow'  more == additions'
  <2>1. /\ d = BeforeInstruction(module, i, liveNow, exitDemand)
        /\ more = WithAsked(module, i, liveNow, additions)
    BY <1>1
  <2> HIDE DEF d, more
  <2>2. /\ WalkedTo(module, function, ThisBlock, pc, d, liveIn, exitDemand, more)
        /\ \A g \in FunctionsOf(module) : AtMost(additions[g], more[g])
    BY <1>2, <1>3, <1>4, <1>5, <2>1, WalkGoesOn
  <2> QED BY <2>2 DEF d, more
<1> DEFINE order == module.flow[function].order
<1>7. ASSUME ~again, NEW k \in blockNo + 1 .. Len(order)
      PROVE  WalkedTo(module, function, order[k], 1, liveIn[order[k]], liveIn, exitDemand, additions')
  <2>1. PICK q : /\ Walked(module, function, order[k], 1, q, liveIn, exitDemand, additions)
                 /\ q[1] = liveIn[order[k]]
    <3>1. WalkedTo(module, function, order[k], 1, liveIn[order[k]], liveIn, exitDemand, additions)
      BY <1>1, <1>7 DEF SolvingInv, RoundSoFar
    <3> HIDE DEF order
    <3> QED BY <3>1 DEF WalkedTo
  <2>2. order[k] \in BlockSet(module, function)
    <3>1. Len(order) \in Nat /\ blockNo \in Nat
      BY <1>2, BlockShape DEF DemandInv, DemandTypeOK, VisitOK
    <3>2. k \in 1 .. Len(order)
      BY <3>1
    <3> QED BY <1>2, <3>2, BlockShape
  <2> DEFINE b == order[k]  more == additions'
  <2>3. b \in BlockSet(module, function) /\ Walked(module, function, b, 1, q, liveIn, exitDemand, additions)
        /\ \A g \in FunctionsOf(module) : AtMost(additions[g], more[g])
    BY <1>6, <2>1, <2>2
  <2> HIDE DEF b, more
  <2>4. Walked(module, function, b, 1, q, liveIn, exitDemand, more)
    BY <1>2, <2>3, WalkAsksLess
  <2> HIDE DEF order
  <2> QED BY <2>1, <2>4 DEF WalkedTo, b, more
<1> HIDE DEF order
<1>8. RoundSoFar'
  <2>1. /\ module' = module /\ function' = function /\ exitDemand' = exitDemand /\ liveIn' = liveIn
        /\ again' = again /\ blockNo' = blockNo /\ pc' + 1 = pc /\ module'.flow[function'].order = order
    BY <1>1, <1>4 DEF order
  <2>2. ASSUME ~again', NEW k \in blockNo' + 1 .. Len(module'.flow[function'].order)
        PROVE  WalkedTo(module', function', module'.flow[function'].order[k], 1,
                        liveIn'[module'.flow[function'].order[k]], liveIn', exitDemand', additions')
    BY <1>7, <2>1, <2>2
  <2>3. WalkedTo(module', function', ThisBlock', pc' + 1, liveNow', liveIn', exitDemand', additions')
    BY <1>2, <1>6, <2>1
  <2> QED BY <2>2, <2>3, Zenon DEF RoundSoFar
<1> QED BY <1>1, <1>8, VisitKeeps DEF SolvingInv

LEMMA LeaveBlockSolves == DemandInv /\ SolvingInv /\ LeaveBlock => SolvingInv'
<1> SUFFICES ASSUME DemandInv, SolvingInv, LeaveBlock PROVE SolvingInv'
  OBVIOUS
<1> DEFINE order == module.flow[function].order
<1>1. /\ Visiting /\ pc = 0 /\ function # NoFunction /\ blockNo > 0
      /\ liveIn' = [liveIn EXCEPT ![ThisBlock] = liveNow]
      /\ ~again' => ~again /\ liveIn[ThisBlock] = liveNow
      /\ EnterBlock(function, blockNo - 1, liveIn') /\ blockNo' = blockNo - 1
      /\ UNCHANGED <<module, todo, function, additions, merging, waking, exitDemand, entryDemand>>
  BY DEF LeaveBlock, Visiting, EnterBlock
<1>2. /\ IsDemandModule(module) /\ function \in FunctionsOf(module)
      /\ ThisBlock \in BlockSet(module, function)
  BY <1>1, ThisBlockType
<1>3. /\ exitDemand \in [FunctionsOf(module) -> Demand] /\ liveNow \in Demand
      /\ liveIn \in [BlockSet(module, function) -> Demand]
      /\ blockNo \in Nat /\ blockNo <= Len(order)
  BY <1>1 DEF DemandInv, DemandTypeOK, DemandsOK, VisitOK
<1>4. liveIn' \in [BlockSet(module, function) -> Demand]
  BY <1>1, <1>2, <1>3
<1>5. Len(order) \in Nat
  BY <1>2, BlockShape
<1>6. WalkedTo(module, function, ThisBlock, 1, liveNow, liveIn, exitDemand, additions)
  <2>1. pc + 1 = 1
    BY <1>1
  <2> QED BY <1>1, <2>1 DEF SolvingInv, RoundSoFar
<1>7. ASSUME ~again', NEW k \in blockNo' + 1 .. Len(order)
      PROVE  WalkedTo(module, function, order[k], 1, liveIn'[order[k]], liveIn', exitDemand, additions')
  <2>1. ~again /\ liveIn' = liveIn /\ additions' = additions
    BY <1>1, <1>3, <1>7
  <2>2. k = blockNo \/ k \in blockNo + 1 .. Len(order)
    BY <1>1, <1>3, <1>5
  <2>3. CASE k = blockNo
    <3>1. order[k] = ThisBlock
      BY <2>3 DEF ThisBlock
    <3>2. liveIn[ThisBlock] = liveNow
      BY <1>1, <1>7
    <3> HIDE DEF order
    <3> QED BY <1>6, <2>1, <3>1, <3>2
  <2>4. CASE k \in blockNo + 1 .. Len(order)
    <3>1. WalkedTo(module, function, order[k], 1, liveIn[order[k]], liveIn, exitDemand, additions)
      BY <1>1, <2>1, <2>4 DEF SolvingInv, RoundSoFar
    <3> HIDE DEF order
    <3> QED BY <2>1, <3>1
  <2> QED BY <2>2, <2>3, <2>4
<1>8. ASSUME blockNo' > 0
      PROVE  WalkedTo(module, function, order[blockNo'], pc' + 1, liveNow', liveIn', exitDemand, additions')
  <2> DEFINE n == blockNo'  ins == liveIn'  asked == additions'
  <2>1. n \in Nat \ {0} /\ n <= Len(order) /\ EnterBlock(function, n, ins)
        /\ ins \in [BlockSet(module, function) -> Demand]
    BY <1>1, <1>3, <1>4, <1>5, <1>8
  <2> HIDE DEF n, ins, asked
  <2>2. WalkedTo(module, function, module.flow[function].order[n], pc' + 1, liveNow', ins, exitDemand, asked)
    BY <1>2, <1>3, <2>1, EnterStarts
  <2> QED BY <2>2 DEF n, ins, asked
<1>9. ThisBlock' = order[blockNo']
  BY <1>1 DEF ThisBlock
<1> HIDE DEF order
<1>10. RoundSoFar'
  <2>1. /\ module' = module /\ function' = function /\ exitDemand' = exitDemand
        /\ module'.flow[function'].order = order
    BY <1>1 DEF order
  <2>2. ASSUME ~again', NEW k \in blockNo' + 1 .. Len(module'.flow[function'].order)
        PROVE  WalkedTo(module', function', module'.flow[function'].order[k], 1,
                        liveIn'[module'.flow[function'].order[k]], liveIn', exitDemand', additions')
    BY <1>7, <2>1, <2>2
  <2>3. ASSUME blockNo' > 0
        PROVE  WalkedTo(module', function', ThisBlock', pc' + 1, liveNow', liveIn', exitDemand', additions')
    BY <1>8, <1>9, <2>1, <2>3
  <2> QED BY <2>2, <2>3, Zenon DEF RoundSoFar
<1> QED BY <1>1, <1>10, VisitKeeps DEF SolvingInv

LEMMA RepeatSolves == DemandInv /\ SolvingInv /\ RepeatRound => SolvingInv'
<1> SUFFICES ASSUME DemandInv, SolvingInv, RepeatRound PROVE SolvingInv'
  OBVIOUS
<1> DEFINE order == module.flow[function].order
           len == Len(order)
<1>1. /\ function # NoFunction /\ EnterBlock(function, len, liveIn) /\ blockNo' = len
      /\ UNCHANGED <<module, todo, function, liveIn, additions, merging, waking, exitDemand, entryDemand>>
  BY DEF RepeatRound, EnterBlock
<1>2. /\ IsDemandModule(module) /\ function \in FunctionsOf(module)
      /\ exitDemand \in [FunctionsOf(module) -> Demand]
      /\ liveIn \in [BlockSet(module, function) -> Demand]
  BY <1>1, DemandFacts DEF DemandInv, DemandTypeOK, VisitOK
<1>3. len \in Nat
  BY <1>2, BlockShape
<1>4. blockNo' + 1 .. Len(order) = {}
  BY <1>1, <1>3
<1>5. ASSUME len > 0
      PROVE  WalkedTo(module, function, order[len], pc' + 1, liveNow', liveIn, exitDemand, additions)
  <2> DEFINE n == len
  <2>1. n \in Nat \ {0} /\ n <= Len(order) /\ EnterBlock(function, n, liveIn)
    BY <1>1, <1>3, <1>5
  <2> HIDE DEF n
  <2>2. WalkedTo(module, function, module.flow[function].order[n], pc' + 1, liveNow', liveIn, exitDemand,
                 additions)
    BY <1>2, <2>1, EnterStarts
  <2> QED BY <2>2 DEF n
<1>6. ThisBlock' = order[len]
  BY <1>1 DEF ThisBlock
<1> HIDE DEF order
<1>7. RoundSoFar'
  BY <1>1, <1>4, <1>5, <1>6 DEF RoundSoFar, order
<1> QED BY <1>1, <1>7, VisitKeeps DEF SolvingInv

\* A round that changed nothing makes a solution of the function.
LEMMA FinishSolves == DemandInv /\ SolvingInv /\ FinishFunction => SolvingInv'
<1> SUFFICES ASSUME DemandInv, SolvingInv, FinishFunction PROVE SolvingInv'
  OBVIOUS
<1> DEFINE order == module.flow[function].order
           blocks == BlockSet(module, function)
<1>1. /\ function # NoFunction /\ blockNo = 0 /\ ~again
      /\ entryDemand' = [entryDemand EXCEPT ![function] = liveIn[Head(order)]]
      /\ merging' = {g \in FunctionsOf(module) : additions[g] # NoDemand}
      /\ function' = NoFunction
      /\ UNCHANGED <<module, todo, additions, waking, exitDemand>>
  BY DEF FinishFunction
<1>2. /\ IsDemandModule(module) /\ function \in FunctionsOf(module)
      /\ NoFunction \notin FunctionsOf(module)
      /\ exitDemand \in [FunctionsOf(module) -> Demand]
      /\ additions \in [FunctionsOf(module) -> Demand]
      /\ liveIn \in [blocks -> Demand]
      /\ entryDemand \in [FunctionsOf(module) -> Demand]
  BY <1>1, DemandFacts DEF DemandInv, DemandTypeOK, VisitOK, DemandsOK
<1>3. merging = {}
  BY <1>1 DEF SolvingInv, AloneWhileVisiting
<1>4. ASSUME NEW g \in FunctionsOf(module)
      PROVE  AtMost(Promised[g], Promised'[g]) /\ AtMost(additions[g], Promised'[g])
  <2>1. Promised[g] = exitDemand[g]
    BY <1>3 DEF Promised
  <2>2. Promised'[g] = IF g \in merging' THEN MergeDemand(exitDemand[g], additions[g]) ELSE exitDemand[g]
    BY <1>1 DEF Promised
  <2>3. g \in merging' <=> additions[g] # NoDemand
    BY <1>1
  <2>4. exitDemand[g] \in Demand /\ additions[g] \in Demand
    BY <1>2
  <2>5. /\ AtMost(exitDemand[g], MergeDemand(exitDemand[g], additions[g]))
        /\ AtMost(additions[g], MergeDemand(exitDemand[g], additions[g]))
    BY <2>4, MergeIsLeast
  <2>6. AtMost(exitDemand[g], exitDemand[g]) /\ AtMost(NoDemand, exitDemand[g])
    BY DEF AtMost, NoDemand
  <2> QED BY <2>1, <2>2, <2>3, <2>5, <2>6
<1>5. ASSUME NEW b \in blocks
      PROVE  \E l : Walked(module, function, b, 1, l, liveIn, exitDemand, additions) /\ l[1] = liveIn[b]
  <2>1. PICK k \in DOMAIN order : order[k] = b
    BY DEF BlockSet, ToSet
  <2>2. order \in Seq(blocks)
    BY <1>2, BlockShape
  <2> HIDE DEF order
  <2>3. k \in blockNo + 1 .. Len(order)
    BY <1>1, <2>2
  <2>4. WalkedTo(module, function, order[k], 1, liveIn[order[k]], liveIn, exitDemand, additions)
    BY <1>1, <2>3 DEF SolvingInv, RoundSoFar, order
  <2> QED BY <2>1, <2>4 DEF WalkedTo
<1>6. ASSUME NEW f, f = function PROVE Settles(f)'
  <2> DEFINE P(b, l) == Walked(module, function, b, 1, l, liveIn, exitDemand, additions) /\ l[1] = liveIn[b]
             l == [b \in blocks |-> CHOOSE q : P(b, q)]
             ins == [c \in blocks |-> l[c][1]]
             more == Promised'
  <2>1. ASSUME NEW b \in blocks PROVE P(b, l[b])
    <3>1. \E q : P(b, q)
      BY <1>5
    <3> HIDE DEF P
    <3> QED BY <3>1
  <2> HIDE DEF l
  <2>2. ins = liveIn
    BY <1>2, <2>1
  <2>3. \A g \in FunctionsOf(module) : AtMost(additions[g], more[g])
    BY <1>4
  <2> HIDE DEF more
  <2>4. ASSUME NEW b \in blocks PROVE Walked(module, function, b, 1, l[b], ins, exitDemand, more)
    <3> DEFINE q == l[b]
    <3>1. Walked(module, function, b, 1, q, ins, exitDemand, additions)
      BY <2>1, <2>2
    <3> HIDE DEF q, ins
    <3>2. Walked(module, function, b, 1, q, ins, exitDemand, more)
      BY <1>2, <2>3, <3>1, WalkAsksLess
    <3> QED BY <3>2 DEF q
  <2>5. SolvesFunction(module, function, l, exitDemand, more)
    BY <2>4 DEF SolvesFunction
  <2>6. liveIn[Head(order)] = EntryOf(module, function, l)
    <3>1. Head(order) \in blocks
      BY <1>2, BlockShape
    <3> HIDE DEF order
    <3>2. l[Head(order)][1] = liveIn[Head(order)]
      BY <2>1, <3>1
    <3> QED BY <3>2 DEF EntryOf, order
  <2>7. entryDemand'[function] = EntryOf(module, function, l)
    BY <1>1, <1>2, <2>6
  <2>8. SolvesFunction(module', f, l, exitDemand', Promised') /\ entryDemand'[f] = EntryOf(module', f, l)
    BY <1>1, <1>6, <2>5, <2>7 DEF more
  <2> QED BY <2>8 DEF Settles
<1>7. SettledUnlessTodo'
  <2> SUFFICES ASSUME NEW f \in FunctionsOf(module), f \notin ToSet(todo)
               PROVE  Settles(f)'
    BY <1>1 DEF SettledUnlessTodo
  <2>1. CASE f # function
    <3>1. Settles(f)
      BY <2>1 DEF SolvingInv, SettledUnlessTodo
    <3>2. entryDemand'[f] = entryDemand[f] /\ exitDemand'[f] = exitDemand[f]
      BY <1>1, <1>2, <2>1
    <3> QED BY <1>1, <1>4, <3>1, <3>2, SettlesKept
  <2> QED BY <1>6, <2>1
<1>8. AloneWhileVisiting' /\ SeedsAsked' /\ RoundSoFar'
  BY <1>1 DEF SolvingInv, AloneWhileVisiting, SeedsAsked, RoundSoFar
<1> QED BY <1>7, <1>8 DEF SolvingInv

LEMMA Enqueued ==
  ASSUME NEW S, NEW queue \in Seq(S), NEW f
  PROVE  f \in ToSet(Enqueue(queue, f)) /\ ToSet(queue) \subseteq ToSet(Enqueue(queue, f))
<1>1. CASE f \in ToSet(queue)
  BY <1>1 DEF Enqueue
<1>2. CASE f \notin ToSet(queue)
  <2>1. Enqueue(queue, f) = Append(queue, f)
    BY <1>2 DEF Enqueue
  <2>2. /\ DOMAIN Append(queue, f) = 1 .. Len(queue) + 1 /\ Append(queue, f)[Len(queue) + 1] = f
        /\ Len(queue) \in Nat /\ DOMAIN queue = 1 .. Len(queue)
        /\ \A n \in DOMAIN queue : n \in DOMAIN Append(queue, f) /\ Append(queue, f)[n] = queue[n]
    OBVIOUS
  <2>3. Len(queue) + 1 \in DOMAIN Append(queue, f)
    BY <2>2
  <2> QED BY <2>1, <2>2, <2>3 DEF ToSet
<1> QED BY <1>1, <1>2

\* A new ExitDemand makes its function a candidate again, and nobody else
\* depends on it.
LEMMA MergeSolves == DemandInv /\ SolvingInv /\ MergeAddition => SolvingInv'
<1> SUFFICES ASSUME DemandInv, SolvingInv, MergeAddition PROVE SolvingInv'
  OBVIOUS
<1>1. PICK g \in merging :
        LET merged == MergeDemand(exitDemand[g], additions[g]) IN
        /\ merging' = merging \ {g}
        /\ exitDemand' = [exitDemand EXCEPT ![g] = merged]
        /\ todo' = IF merged # exitDemand[g] THEN Enqueue(todo, g) ELSE todo
        /\ UNCHANGED <<module, function, additions, entryDemand>>
  BY DEF MergeAddition
<1>2. /\ IsDemandModule(module) /\ NoFunction \notin FunctionsOf(module)
      /\ exitDemand \in [FunctionsOf(module) -> Demand]
      /\ additions \in [FunctionsOf(module) -> Demand]
      /\ todo \in Seq(FunctionsOf(module)) /\ g \in FunctionsOf(module)
  BY <1>1, DemandFacts
<1>3. function = NoFunction
  BY <1>1 DEF SolvingInv, AloneWhileVisiting
<1>4. \A h \in FunctionsOf(module) : Promised'[h] = Promised[h]
  <2> TAKE h \in FunctionsOf(module)
  <2>1. CASE h = g
    BY <1>1, <1>2, <2>1 DEF Promised
  <2>2. CASE h # g
    BY <1>1, <1>2, <2>2 DEF Promised
  <2> QED BY <2>1, <2>2
<1>5. SettledUnlessTodo'
  <2> SUFFICES ASSUME NEW f \in FunctionsOf(module), f \notin ToSet(todo')
               PROVE  Settles(f)'
    BY <1>1 DEF SettledUnlessTodo
  <2>1. f \notin ToSet(todo) /\ exitDemand'[f] = exitDemand[f]
    <3>1. CASE MergeDemand(exitDemand[g], additions[g]) # exitDemand[g]
      <4>1. todo' = Enqueue(todo, g)
        BY <1>1, <3>1
      <4>2. g \in ToSet(todo') /\ ToSet(todo) \subseteq ToSet(todo')
        BY <1>2, <4>1, Enqueued
      <4> QED BY <1>1, <1>2, <4>2
    <3>2. CASE MergeDemand(exitDemand[g], additions[g]) = exitDemand[g]
      BY <1>1, <1>2, <3>2
    <3> QED BY <3>1, <3>2
  <2>2. Settles(f)
    BY <1>2, <1>3, <2>1 DEF SolvingInv, SettledUnlessTodo
  <2>3. \A h \in FunctionsOf(module) : AtMost(Promised[h], Promised'[h])
    BY <1>4 DEF AtMost
  <2> QED BY <1>1, <2>1, <2>2, <2>3, SettlesKept
<1>6. SeedsAsked'
  <2>1. exitDemand[g] \in Demand /\ additions[g] \in Demand
    BY <1>2
  <2>2. AtMost(exitDemand[g], exitDemand'[g])
    BY <1>1, <1>2, <2>1, MergeIsLeast
  <2>3. \A h \in FunctionsOf(module) : AtMost(exitDemand[h], exitDemand'[h])
    BY <1>1, <1>2, <2>2 DEF AtMost
  <2> QED BY <1>1, <2>3 DEF SolvingInv, SeedsAsked, AtMost
<1>7. AloneWhileVisiting' /\ RoundSoFar'
  BY <1>1, <1>3 DEF AloneWhileVisiting, RoundSoFar
<1> QED BY <1>5, <1>6, <1>7 DEF SolvingInv

LEMMA WakeSolves == DemandInv /\ SolvingInv /\ WakeCaller => SolvingInv'
<1> SUFFICES ASSUME DemandInv, SolvingInv, WakeCaller PROVE SolvingInv'
  OBVIOUS
<1>1. PICK g \in waking :
        /\ todo' = Enqueue(todo, g)
        /\ UNCHANGED <<module, function, additions, merging, exitDemand, entryDemand>>
  BY DEF WakeCaller
<1>2. function = NoFunction
  BY <1>1 DEF SolvingInv, AloneWhileVisiting
<1>3. todo \in Seq(FunctionsOf(module)) /\ NoFunction \notin FunctionsOf(module)
  BY DemandFacts
<1>4. ToSet(todo) \subseteq ToSet(todo')
  BY <1>1, <1>3, Enqueued
<1>5. SettledUnlessTodo'
  <2> SUFFICES ASSUME NEW f \in FunctionsOf(module), f \notin ToSet(todo')
               PROVE  Settles(f)'
    BY <1>1 DEF SettledUnlessTodo
  <2>1. Settles(f)
    BY <1>2, <1>3, <1>4 DEF SolvingInv, SettledUnlessTodo
  <2>2. \A h \in FunctionsOf(module) : AtMost(Promised[h], Promised'[h])
    BY <1>1 DEF Promised, AtMost
  <2> QED BY <1>1, <2>1, <2>2, SettlesKept
<1>6. AloneWhileVisiting' /\ RoundSoFar' /\ SeedsAsked'
  BY <1>1, <1>2 DEF SolvingInv, AloneWhileVisiting, RoundSoFar, SeedsAsked
<1> QED BY <1>5, <1>6 DEF SolvingInv

-----------------------------------------------------------------------------
(* No solution asks for less.                                               *)

LEMMA BodyCallGrows ==
  ASSUME NEW m, NEW g, NEW d \in Demand, NEW e \in Demand, AtMost(d, e), NEW exits
  PROVE  AtMost(BeforeBodyCall(m, g, d, exits), BeforeBodyCall(m, g, e, exits))
<1> DEFINE sd == SurvivingDemand(m.effects[g], d)
           se == SurvivingDemand(m.effects[g], e)
<1>1. AtMost(sd, se) /\ sd \in Demand /\ se \in Demand
  BY SurvivingDemandType DEF SurvivingDemand, AtMost
<1> HIDE DEF sd, se
<1>2. \A r : r \in Registers => ReturnEntry(m, g, sd, exits, r) \subseteq ReturnEntry(m, g, se, exits, r)
  BY <1>1 DEF ReturnEntry, AtMost
<1>3. AtMost(EntryNeeds(m, g, sd, exits), EntryNeeds(m, g, se, exits))
  BY <1>2 DEF EntryNeeds, AtMost
<1>4. AtMost(MergeDemand(sd, EntryNeeds(m, g, sd, exits)), MergeDemand(se, EntryNeeds(m, g, se, exits)))
  BY <1>1, <1>3 DEF MergeDemand, AtMost
<1>5. \A x : AtMost(x, x)
  BY DEF AtMost
<1> QED BY <1>4, <1>5 DEF BeforeBodyCall, sd, se

LEMMA OtherCallGrows ==
  ASSUME NEW c, NEW d \in Demand, NEW e \in Demand, AtMost(d, e)
  PROVE  AtMost(BeforeOtherCall(c, d), BeforeOtherCall(c, e))
<1> DEFINE inputs == IF c.kind = "shape" THEN c.inputs
                     ELSE IF UnknownReadsAbi THEN AbiInputMasks ELSE EmptyMap
           after(x) == IF c.noReturn THEN NoDemand
                       ELSE [r \in Registers |-> IF r \in Clobbered THEN {} ELSE x[r]]
           more(r) == IF r \in DOMAIN inputs \ Ignored THEN inputs[r] \cap Bits ELSE {}
           p == after(d)  q == after(e)
<1>1. /\ BeforeOtherCall(c, d) = [r \in Registers |-> p[r] \cup more(r)]
      /\ BeforeOtherCall(c, e) = [r \in Registers |-> q[r] \cup more(r)]
  BY Zenon DEF BeforeOtherCall
<1>2. \A r \in Registers : p[r] \subseteq q[r]
  BY DEF AtMost
<1> HIDE DEF p, q, more
<1>3. \A r \in Registers : BeforeOtherCall(c, d)[r] \subseteq BeforeOtherCall(c, e)[r]
  BY <1>1, <1>2
<1> QED BY <1>3 DEF AtMost

LEMMA BeforeGrows ==
  ASSUME NEW m, NEW i, NEW d \in Demand, NEW e \in Demand, AtMost(d, e), NEW exits
  PROVE  AtMost(BeforeInstruction(m, i, d, exits), BeforeInstruction(m, i, e, exits))
<1>1. \A r, mask : /\ AtMost(AddDemand(d, r, mask), AddDemand(e, r, mask))
                   /\ AtMost(EraseDemand(d, r, mask), EraseDemand(e, r, mask))
  BY DEF AddDemand, EraseDemand, AtMost, Demand
<1>2. CASE i.op = "call"
  <2>1. CASE i.callee.kind = "body"
    BY <1>2, <2>1, BodyCallGrows DEF BeforeInstruction
  <2>2. CASE i.callee.kind # "body"
    BY <1>2, <2>2, OtherCallGrows DEF BeforeInstruction
  <2> QED BY <2>1, <2>2
<1>3. CASE i.op \in {"pread", "load"}
  BY <1>1, <1>3 DEF BeforeInstruction
<1>4. CASE i.op \in {"pwrite", "store"}
  BY <1>1, <1>4 DEF BeforeInstruction
<1>5. CASE i.op \notin {"pread", "load", "pwrite", "store", "call"}
  BY <1>5 DEF BeforeInstruction
<1> QED BY <1>2, <1>3, <1>4, <1>5

LEMMA LiveAfterGrows ==
  ASSUME NEW m, IsDemandModule(m), NEW f \in FunctionsOf(m), NEW b \in BlockSet(m, f),
         NEW ins, NEW more, \A c \in BlockSet(m, f) : AtMost(ins[c], more[c]),
         NEW exits, NEW others, AtMost(exits[f], others[f])
  PROVE  AtMost(LiveAfterBlock(m, f, b, ins, exits), LiveAfterBlock(m, f, b, more, others))
<1>1. ToSet(m.flow[f].succ[b]) \subseteq BlockSet(m, f)
  BY DEF IsDemandModule
<1> SUFFICES ASSUME NEW r \in Registers
             PROVE  LiveAfterBlock(m, f, b, ins, exits)[r] \subseteq LiveAfterBlock(m, f, b, more, others)[r]
  BY DEF AtMost
<1> DEFINE S == ToSet(m.flow[f].succ[b])
<1>2. \A s \in S : ins[s][r] \subseteq more[s][r]
  BY <1>1 DEF AtMost
<1> HIDE DEF S
<1>3. UNION {ins[s][r] : s \in S} \subseteq UNION {more[s][r] : s \in S}
  BY <1>2
<1>4. exits[f][r] \subseteq others[f][r]
  BY DEF AtMost
<1> QED BY <1>3, <1>4 DEF LiveAfterBlock, S

\* Every position of a walk of a whole block: what the instruction makes of
\* the next, and asks of its callee.
StepsAgree(m, code, l, exits) ==
  \A n \in 1 .. Len(code) :
    /\ l[n] = BeforeInstruction(m, code[n], l[n + 1], exits)
    /\ l[n + 1] \in Demand
    /\ code[n].op = "call" /\ code[n].callee.kind = "body" =>
         /\ code[n].callee.name \in FunctionsOf(m)
         /\ ~m.effects[code[n].callee.name].NoReturn =>
              AtMost(ReturnDemand(m.effects[code[n].callee.name], l[n + 1]),
                     exits[code[n].callee.name])

LEMMA WholeWalk ==
  ASSUME NEW m, IsDemandModule(m), NEW f \in FunctionsOf(m), NEW b \in BlockSet(m, f),
         NEW l, NEW ins, NEW exits, Walked(m, f, b, 1, l, ins, exits, exits),
         NEW code, code = m.flow[f].code[b]
  PROVE  /\ l \in [1 .. Len(code) + 1 -> Demand] /\ Len(code) \in Nat
         /\ l[Len(code) + 1] = LiveAfterBlock(m, f, b, ins, exits)
         /\ StepsAgree(m, code, l, exits)
<1>1. /\ Len(code) \in Nat
      /\ \A n \in 1 .. Len(code) :
           code[n].op = "call" /\ code[n].callee.kind = "body" => code[n].callee.name \in FunctionsOf(m)
  BY CodeShape
<1>2. l \in [1 .. Len(code) + 1 -> Demand]
  BY Zenon DEF Walked
<1>3. \A n \in 1 .. Len(code) : n + 1 \in 1 .. Len(code) + 1
  BY <1>1
<1>4. \A n \in 1 .. Len(code) : l[n + 1] \in Demand
  BY <1>2, <1>3
<1>5. /\ l[Len(code) + 1] = LiveAfterBlock(m, f, b, ins, exits)
      /\ \A n \in 1 .. Len(code) :
           /\ l[n] = BeforeInstruction(m, code[n], l[n + 1], exits)
           /\ code[n].op = "call" /\ code[n].callee.kind = "body" =>
                (~m.effects[code[n].callee.name].NoReturn =>
                   AtMost(ReturnDemand(m.effects[code[n].callee.name], l[n + 1]),
                          exits[code[n].callee.name]))
  BY DEF Walked
<1> QED BY <1>1, <1>2, <1>4, <1>5 DEF StepsAgree

BelowSolution(live, exits) ==
  /\ \A f \in FunctionsOf(module) :
       /\ AtMost(exitDemand[f], exits[f]) /\ AtMost(additions[f], exits[f])
       /\ AtMost(entryDemand[f], EntryOf(module, f, live[f]))
  /\ function # NoFunction =>
       /\ \A b \in BlockSet(module, function) : AtMost(liveIn[b], live[function][b][1])
       /\ blockNo > 0 => AtMost(liveNow, live[function][ThisBlock][pc + 1])

BelowSolutions ==
  \A live, exits : IsSolution(module, live, exits) => BelowSolution(live, exits)

\* A block that is entered asks no more than a solution does at its end.
LEMMA EnterBelow ==
  ASSUME NEW f \in FunctionsOf(module), IsDemandModule(module), NEW n \in Nat \ {0},
         n <= Len(module.flow[f].order), NEW ins, EnterBlock(f, n, ins),
         NEW live, NEW exits, IsSolution(module, live, exits), AtMost(exitDemand[f], exits[f]),
         \A c \in BlockSet(module, f) : AtMost(ins[c], live[f][c][1])
  PROVE  AtMost(liveNow', live[f][module.flow[f].order[n]][pc' + 1])
<1> DEFINE b == module.flow[f].order[n]
           starts == [c \in BlockSet(module, f) |-> live[f][c][1]]
<1>1. b \in BlockSet(module, f)
  BY BlockShape
<1>2. liveNow' = LiveAfterBlock(module, f, b, ins, exitDemand) /\ pc' = Len(module.flow[f].code[b])
  BY DEF EnterBlock
<1>3. \A c \in BlockSet(module, f) : AtMost(ins[c], starts[c])
  OBVIOUS
<1> HIDE DEF b, starts
<1>4. AtMost(LiveAfterBlock(module, f, b, ins, exitDemand), LiveAfterBlock(module, f, b, starts, exits))
  BY <1>1, <1>3, LiveAfterGrows
<1>5. live[f][b][Len(module.flow[f].code[b]) + 1] = LiveAfterBlock(module, f, b, starts, exits)
  <2> DEFINE l == live[f][b]  code == module.flow[f].code[b]
  <2>1. Walked(module, f, b, 1, l, starts, exits, exits)
    BY <1>1 DEF IsSolution, SolvesFunction, starts
  <2>2. code = module.flow[f].code[b]
    OBVIOUS
  <2> HIDE DEF l, code
  <2>3. l[Len(code) + 1] = LiveAfterBlock(module, f, b, starts, exits)
    BY <1>1, <2>1, <2>2, WholeWalk
  <2> QED BY <2>3 DEF l, code
<1> QED BY <1>2, <1>4, <1>5 DEF b

LEMMA AtMostFollows ==
  ASSUME NEW d, NEW e, NEW u, AtMost(d, e), AtMost(e, u)
  PROVE  AtMost(d, u)
BY DEF AtMost

LEMMA BelowStarts == DemandInv /\ DemandInit => BelowSolutions
<1> SUFFICES ASSUME DemandInv, DemandInit, NEW live, NEW exits, IsSolution(module, live, exits)
             PROVE  BelowSolution(live, exits)
  BY DEF BelowSolutions
<1>1. ASSUME NEW d PROVE AtMost(NoDemand, d)
  BY DEF NoDemand, AtMost
<1>2. ASSUME NEW f \in FunctionsOf(module)
      PROVE  /\ AtMost(exitDemand[f], exits[f])
             /\ additions[f] = NoDemand /\ entryDemand[f] = NoDemand
  <2>1. exitDemand[f] = IF CallersOf(module, f) = {} THEN SeedAbiReturns ELSE NoDemand
    BY DEF DemandInit
  <2>2. CallersOf(module, f) = {} => AtMost(SeedAbiReturns, exits[f])
    BY DEF IsSolution
  <2> QED BY <1>1, <2>1, <2>2 DEF DemandInit, NoAdditions
<1> QED BY <1>1, <1>2 DEF BelowSolution, DemandInit

LEMMA StartBelow == DemandInv /\ BelowSolutions /\ StartFunction => BelowSolutions'
<1> SUFFICES ASSUME DemandInv, BelowSolutions, StartFunction, NEW live, NEW exits,
                    IsSolution(module, live, exits)
             PROVE  BelowSolution(live, exits)'
  BY DEF BelowSolutions, StartFunction
<1> DEFINE h == Head(todo)
           len == Len(module.flow[h].order)
<1>1. /\ todo # <<>> /\ function' = h
      /\ liveIn' = [b \in BlockSet(module, h) |-> NoDemand]
      /\ EnterBlock(h, len, liveIn') /\ blockNo' = len
      /\ additions' = NoAdditions(module)
      /\ UNCHANGED <<module, exitDemand, entryDemand>>
  BY DEF StartFunction, EnterBlock
<1>2. IsDemandModule(module) /\ todo \in Seq(FunctionsOf(module))
  BY DemandFacts
<1>3. h \in FunctionsOf(module)
  BY <1>1, <1>2
<1>4. BelowSolution(live, exits)
  BY DEF BelowSolutions
<1>5. ASSUME NEW d PROVE AtMost(NoDemand, d)
  BY DEF NoDemand, AtMost
<1> HIDE DEF h
<1>6. len \in Nat
  BY <1>2, <1>3, BlockShape
<1>7. blockNo' > 0 => AtMost(liveNow', live[h][module.flow[h].order[len]][pc' + 1])
  <2> SUFFICES ASSUME blockNo' > 0 PROVE AtMost(liveNow', live[h][module.flow[h].order[len]][pc' + 1])
    OBVIOUS
  <2> DEFINE n == len  ins == liveIn'
  <2>1. /\ n \in Nat \ {0} /\ n <= Len(module.flow[h].order) /\ EnterBlock(h, n, ins)
        /\ AtMost(exitDemand[h], exits[h])
        /\ \A c \in BlockSet(module, h) : AtMost(ins[c], live[h][c][1])
    BY <1>1, <1>3, <1>4, <1>5, <1>6 DEF BelowSolution
  <2> HIDE DEF n, ins
  <2>2. AtMost(liveNow', live[h][module.flow[h].order[n]][pc' + 1])
    BY <1>2, <1>3, <2>1, EnterBelow
  <2> QED BY <2>2 DEF n
<1>8. \A f \in FunctionsOf(module) : AtMost(additions'[f], exits[f])
  BY <1>1, <1>5 DEF NoAdditions
<1>9. ThisBlock' = module.flow[h].order[len]
  BY <1>1 DEF ThisBlock
<1> HIDE DEF len
<1> QED BY <1>1, <1>4, <1>5, <1>7, <1>8, <1>9 DEF BelowSolution

LEMMA StepBackBelow == DemandInv /\ BelowSolutions /\ StepBack => BelowSolutions'
<1> SUFFICES ASSUME DemandInv, BelowSolutions, StepBack, NEW live, NEW exits,
                    IsSolution(module, live, exits)
             PROVE  BelowSolution(live, exits)'
  BY DEF BelowSolutions, StepBack
<1> DEFINE code == module.flow[function].code[ThisBlock]
           i == code[pc]
           l == live[function][ThisBlock]
           ins == [c \in BlockSet(module, function) |-> live[function][c][1]]
           e == l[pc + 1]
           g == i.callee.name
<1>1. /\ Visiting /\ pc > 0 /\ pc' = pc - 1 /\ function # NoFunction /\ blockNo > 0
      /\ liveNow' = BeforeInstruction(module, i, liveNow, exitDemand)
      /\ additions' = WithAsked(module, i, liveNow, additions)
      /\ UNCHANGED <<module, function, blockNo, liveIn, exitDemand, entryDemand>>
  BY DEF StepBack, Visiting
<1>2. /\ IsDemandModule(module) /\ function \in FunctionsOf(module)
      /\ ThisBlock \in BlockSet(module, function) /\ ThisBlock' = ThisBlock
  BY <1>1, ThisBlockType DEF ThisBlock
<1>3. /\ additions \in [FunctionsOf(module) -> Demand] /\ liveNow \in Demand
      /\ pc \in 1 .. Len(code) /\ pc' + 1 = pc
  BY <1>1 DEF DemandInv, DemandTypeOK, VisitOK, DemandsOK
<1>4. BelowSolution(live, exits)
  BY DEF BelowSolutions
<1>5. AtMost(liveNow, e)
  BY <1>1, <1>4 DEF BelowSolution
<1>6. /\ l[pc] = BeforeInstruction(module, i, e, exits) /\ e \in Demand
      /\ i.op = "call" /\ i.callee.kind = "body" =>
           /\ g \in FunctionsOf(module)
           /\ ~module.effects[g].NoReturn => AtMost(ReturnDemand(module.effects[g], e), exits[g])
  <2>1. Walked(module, function, ThisBlock, 1, l, ins, exits, exits)
    BY <1>2 DEF IsSolution, SolvesFunction
  <2>2. code = module.flow[function].code[ThisBlock]
    OBVIOUS
  <2> HIDE DEF l, code, ins, i, e, g
  <2>3. StepsAgree(module, code, l, exits)
    BY <1>2, <2>1, <2>2, WholeWalk
  <2>4. i = code[pc] /\ e = l[pc + 1] /\ g = i.callee.name
    BY Zenon DEF i, e, g
  <2> QED BY <1>3, <2>3, <2>4 DEF StepsAgree
<1> HIDE DEF code, l, e, i
<1>7. AtMost(liveNow', l[pc' + 1])
  <2>1. AtMost(liveNow', BeforeInstruction(module, i, e, exitDemand))
    BY <1>1, <1>3, <1>5, <1>6, BeforeGrows
  <2>2. BeforeInstruction(module, i, e, exitDemand) = l[pc]
    BY <1>2, <1>6, BeforeIgnoresExits
  <2> QED BY <1>3, <2>1, <2>2
<1>8. ASSUME NEW f \in FunctionsOf(module) PROVE AtMost(additions'[f], exits[f])
  <2>1. AtMost(additions[f], exits[f])
    BY <1>4 DEF BelowSolution
  <2>2. CASE i.op = "call" /\ i.callee.kind = "body" /\ ~module.effects[g].NoReturn /\ f = g
    <3> DEFINE mine == additions[g]  asked == ReturnDemand(module.effects[g], liveNow)
    <3>1. additions'[f] = MergeDemand(mine, asked)
      BY <1>1, <1>3, <2>2 DEF WithAsked
    <3>2. AtMost(asked, ReturnDemand(module.effects[g], e))
      BY <1>5 DEF ReturnDemand, AtMost
    <3>3. mine \in Demand /\ asked \in Demand /\ AtMost(mine, exits[g])
      BY <1>3, <2>1, <2>2, ReturnDemandType
    <3> HIDE DEF mine, asked, g
    <3>4. AtMost(asked, exits[g])
      BY <1>6, <2>2, <3>2, AtMostFollows
    <3> QED BY <2>2, <3>1, <3>3, <3>4, MergeIsLeast
  <2>3. CASE ~ (i.op = "call" /\ i.callee.kind = "body" /\ ~module.effects[g].NoReturn /\ f = g)
    <3>1. additions'[f] = additions[f]
      BY <1>1, <1>3, <2>3 DEF WithAsked
    <3> QED BY <2>1, <3>1
  <2> QED BY <2>2, <2>3
<1>9. AtMost(liveNow', live[function'][ThisBlock'][pc' + 1])
  BY <1>1, <1>2, <1>7 DEF l
<1> QED BY <1>1, <1>4, <1>8, <1>9 DEF BelowSolution

LEMMA LeaveBlockBelow == DemandInv /\ BelowSolutions /\ LeaveBlock => BelowSolutions'
<1> SUFFICES ASSUME DemandInv, BelowSolutions, LeaveBlock, NEW live, NEW exits,
                    IsSolution(module, live, exits)
             PROVE  BelowSolution(live, exits)'
  BY DEF BelowSolutions, LeaveBlock
<1> DEFINE order == module.flow[function].order
<1>1. /\ Visiting /\ pc = 0 /\ pc + 1 = 1 /\ function # NoFunction /\ blockNo > 0
      /\ liveIn' = [liveIn EXCEPT ![ThisBlock] = liveNow]
      /\ EnterBlock(function, blockNo - 1, liveIn') /\ blockNo' = blockNo - 1
      /\ UNCHANGED <<module, function, additions, exitDemand, entryDemand>>
  BY DEF LeaveBlock, Visiting, EnterBlock
<1>2. IsDemandModule(module) /\ function \in FunctionsOf(module)
  BY <1>1, ThisBlockType
<1>3. /\ liveIn \in [BlockSet(module, function) -> Demand]
      /\ blockNo \in Nat /\ blockNo <= Len(order) /\ Len(order) \in Nat
  BY <1>1, <1>2, BlockShape DEF DemandInv, DemandTypeOK, VisitOK
<1>4. BelowSolution(live, exits)
  BY DEF BelowSolutions
<1>5. ASSUME NEW c \in BlockSet(module, function)
      PROVE  AtMost(liveIn'[c], live[function][c][1])
  <2>1. CASE c = ThisBlock
    <3>1. AtMost(liveNow, live[function][ThisBlock][1])
      BY <1>1, <1>4 DEF BelowSolution
    <3>2. liveIn'[c] = liveNow
      BY <1>1, <1>3, <2>1
    <3> QED BY <2>1, <3>1, <3>2
  <2>2. CASE c # ThisBlock
    <3>1. liveIn'[c] = liveIn[c]
      BY <1>1, <1>3, <2>2
    <3> QED BY <1>1, <1>4, <3>1 DEF BelowSolution
  <2> QED BY <2>1, <2>2
<1>6. blockNo' > 0 => AtMost(liveNow', live[function][order[blockNo']][pc' + 1])
  <2> SUFFICES ASSUME blockNo' > 0
               PROVE  AtMost(liveNow', live[function][order[blockNo']][pc' + 1])
    OBVIOUS
  <2> DEFINE n == blockNo'  ins == liveIn'
  <2>1. /\ n \in Nat \ {0} /\ n <= Len(order) /\ EnterBlock(function, n, ins)
        /\ AtMost(exitDemand[function], exits[function])
        /\ \A c \in BlockSet(module, function) : AtMost(ins[c], live[function][c][1])
    BY <1>1, <1>2, <1>3, <1>4, <1>5 DEF BelowSolution
  <2> HIDE DEF n, ins
  <2>2. AtMost(liveNow', live[function][module.flow[function].order[n]][pc' + 1])
    BY <1>2, <2>1, EnterBelow
  <2> QED BY <2>2 DEF n
<1>7. ThisBlock' = order[blockNo']
  BY <1>1 DEF ThisBlock
<1> HIDE DEF order
<1> QED BY <1>1, <1>4, <1>5, <1>6, <1>7 DEF BelowSolution

LEMMA RepeatBelow == DemandInv /\ BelowSolutions /\ RepeatRound => BelowSolutions'
<1> SUFFICES ASSUME DemandInv, BelowSolutions, RepeatRound, NEW live, NEW exits,
                    IsSolution(module, live, exits)
             PROVE  BelowSolution(live, exits)'
  BY DEF BelowSolutions, RepeatRound
<1> DEFINE order == module.flow[function].order
           len == Len(order)
<1>1. /\ function # NoFunction /\ EnterBlock(function, len, liveIn) /\ blockNo' = len
      /\ UNCHANGED <<module, function, liveIn, additions, exitDemand, entryDemand>>
  BY DEF RepeatRound, EnterBlock
<1>2. IsDemandModule(module) /\ function \in FunctionsOf(module)
  BY <1>1, DemandFacts DEF DemandInv, DemandTypeOK, VisitOK
<1>3. len \in Nat
  BY <1>2, BlockShape
<1>4. BelowSolution(live, exits)
  BY DEF BelowSolutions
<1>5. blockNo' > 0 => AtMost(liveNow', live[function][order[len]][pc' + 1])
  <2> SUFFICES ASSUME blockNo' > 0 PROVE AtMost(liveNow', live[function][order[len]][pc' + 1])
    OBVIOUS
  <2> DEFINE n == len
  <2>1. /\ n \in Nat \ {0} /\ n <= Len(module.flow[function].order) /\ EnterBlock(function, n, liveIn)
        /\ AtMost(exitDemand[function], exits[function])
        /\ \A c \in BlockSet(module, function) : AtMost(liveIn[c], live[function][c][1])
    BY <1>1, <1>2, <1>3, <1>4 DEF BelowSolution
  <2> HIDE DEF n
  <2>2. AtMost(liveNow', live[function][module.flow[function].order[n]][pc' + 1])
    BY <1>2, <2>1, EnterBelow
  <2> QED BY <2>2 DEF n
<1>6. ThisBlock' = order[len]
  BY <1>1 DEF ThisBlock
<1> HIDE DEF order, len
<1> QED BY <1>1, <1>4, <1>5, <1>6 DEF BelowSolution

LEMMA FinishBelow == DemandInv /\ BelowSolutions /\ FinishFunction => BelowSolutions'
<1> SUFFICES ASSUME DemandInv, BelowSolutions, FinishFunction, NEW live, NEW exits,
                    IsSolution(module, live, exits)
             PROVE  BelowSolution(live, exits)'
  BY DEF BelowSolutions, FinishFunction
<1> DEFINE head == Head(module.flow[function].order)
<1>1. /\ function # NoFunction /\ function' = NoFunction
      /\ entryDemand' = [entryDemand EXCEPT ![function] = liveIn[head]]
      /\ UNCHANGED <<module, additions, exitDemand>>
  BY DEF FinishFunction
<1>2. /\ IsDemandModule(module) /\ function \in FunctionsOf(module)
      /\ entryDemand \in [FunctionsOf(module) -> Demand]
  BY <1>1, DemandFacts DEF DemandInv, DemandTypeOK, VisitOK, DemandsOK
<1>3. head \in BlockSet(module, function)
  BY <1>2, BlockShape DEF BlockSet, ToSet
<1>4. BelowSolution(live, exits)
  BY DEF BelowSolutions
<1>5. AtMost(liveIn[head], EntryOf(module, function, live[function]))
  BY <1>1, <1>3, <1>4 DEF BelowSolution, EntryOf
<1>6. ASSUME NEW f \in FunctionsOf(module)
      PROVE  AtMost(entryDemand'[f], EntryOf(module, f, live[f]))
  <2>1. CASE f = function
    BY <1>1, <1>2, <1>5, <2>1
  <2>2. CASE f # function
    <3>1. entryDemand'[f] = entryDemand[f]
      BY <1>1, <1>2, <2>2
    <3> QED BY <1>4, <3>1 DEF BelowSolution
  <2> QED BY <2>1, <2>2
<1> QED BY <1>1, <1>4, <1>6 DEF BelowSolution

LEMMA MergeBelow == DemandInv /\ BelowSolutions /\ MergeAddition => BelowSolutions'
<1> SUFFICES ASSUME DemandInv, BelowSolutions, MergeAddition, NEW live, NEW exits,
                    IsSolution(module, live, exits)
             PROVE  BelowSolution(live, exits)'
  BY DEF BelowSolutions, MergeAddition
<1>1. PICK g \in merging :
        /\ exitDemand' = [exitDemand EXCEPT ![g] = MergeDemand(exitDemand[g], additions[g])]
        /\ UNCHANGED <<module, function, blockNo, pc, liveNow, liveIn, additions, entryDemand>>
  BY DEF MergeAddition
<1>2. /\ exitDemand \in [FunctionsOf(module) -> Demand] /\ g \in FunctionsOf(module)
      /\ additions \in [FunctionsOf(module) -> Demand]
  BY DemandFacts
<1>3. BelowSolution(live, exits)
  BY DEF BelowSolutions
<1>4. ASSUME NEW f \in FunctionsOf(module) PROVE AtMost(exitDemand'[f], exits[f])
  <2>1. AtMost(exitDemand[f], exits[f]) /\ AtMost(additions[f], exits[f])
    BY <1>3 DEF BelowSolution
  <2>2. CASE f = g
    <3>1. exitDemand[g] \in Demand /\ additions[g] \in Demand
      BY <1>2
    <3>2. AtMost(MergeDemand(exitDemand[g], additions[g]), exits[g])
      BY <2>1, <2>2, <3>1, MergeIsLeast
    <3> QED BY <1>1, <1>2, <2>2, <3>2
  <2>3. CASE f # g
    <3>1. exitDemand'[f] = exitDemand[f]
      BY <1>1, <1>2, <2>3
    <3> QED BY <2>1, <3>1
  <2> QED BY <2>2, <2>3
<1>5. ThisBlock' = ThisBlock
  BY <1>1 DEF ThisBlock
<1> QED BY <1>1, <1>3, <1>4, <1>5 DEF BelowSolution

LEMMA RestBelow ==
  ASSUME BelowSolutions,
         UNCHANGED <<module, function, blockNo, pc, liveNow, liveIn, additions, exitDemand, entryDemand>>
  PROVE  BelowSolutions'
BY DEF BelowSolutions, BelowSolution, ThisBlock

-----------------------------------------------------------------------------
(* When the deque is empty and nothing waits, every function settles, and   *)
(* what was promised is what is demanded.                                   *)
LEMMA DoneIsSolved == DemandInv /\ SolvingInv /\ BelowSolutions => DemandsAreLeastSolution
<1> SUFFICES ASSUME DemandInv, SolvingInv, BelowSolutions, DemandDone
             PROVE  /\ \E live : /\ IsSolution(module, live, exitDemand)
                                 /\ \A f \in FunctionsOf(module) :
                                      entryDemand[f] = EntryOf(module, f, live[f])
                    /\ \A live, exits :
                         IsSolution(module, live, exits) =>
                           \A f \in FunctionsOf(module) :
                             /\ AtMost(exitDemand[f], exits[f])
                             /\ AtMost(entryDemand[f], EntryOf(module, f, live[f]))
  BY DEF DemandsAreLeastSolution
<1>1. \A live, exits : IsSolution(module, live, exits) => BelowSolution(live, exits)
  BY DEF BelowSolutions
<1>2. /\ IsDemandModule(module) /\ NoFunction \notin FunctionsOf(module)
      /\ exitDemand \in [FunctionsOf(module) -> Demand]
  BY DemandFacts
<1>3. Promised = exitDemand
  BY <1>2 DEF DemandDone, Idle, Promised
<1>4. ASSUME NEW f \in FunctionsOf(module)
      PROVE  \E l : /\ SolvesFunction(module, f, l, exitDemand, exitDemand)
                    /\ entryDemand[f] = EntryOf(module, f, l)
  <2>1. f \notin ToSet(todo) /\ f # function
    BY <1>2 DEF DemandDone, Idle, ToSet
  <2>2. Settles(f)
    BY <2>1 DEF SolvingInv, SettledUnlessTodo
  <2> QED BY <1>3, <2>2 DEF Settles
<1> DEFINE Fits(f, l) == /\ SolvesFunction(module, f, l, exitDemand, exitDemand)
                         /\ entryDemand[f] = EntryOf(module, f, l)
           solution == [f \in FunctionsOf(module) |-> CHOOSE l : Fits(f, l)]
<1>5. \A f \in FunctionsOf(module) : Fits(f, solution[f])
  <2>1. \A f \in FunctionsOf(module) : \E l : Fits(f, l)
    BY <1>4
  <2> HIDE DEF Fits
  <2> QED BY <2>1
<1> HIDE DEF solution
<1>6. IsSolution(module, solution, exitDemand)
  BY <1>2, <1>5 DEF IsSolution, SolvingInv, SeedsAsked
<1>7. \E live : /\ IsSolution(module, live, exitDemand)
                /\ \A f \in FunctionsOf(module) : entryDemand[f] = EntryOf(module, f, live[f])
  BY <1>5, <1>6
<1> QED BY <1>1, <1>7 DEF BelowSolution

(* For every module and every order in which the deque is worked off        *)
(* (runTopDownDemand): when nothing is left to do, the demands of the        *)
(* functions agree with each other at every instruction and every call, and *)
(* no demands that agree ask for less.  A function is enqueued when its own *)
(* ExitDemand grows; what a callee's ExitDemand is changes nothing in its   *)
(* callers (CallIgnoresExitDemand), so nothing is left stale.               *)
THEOREM DemandsLeastProved == DemandSpec => []DemandsAreLeastSolution
<1> DEFINE Inv == DemandInv /\ SolvingInv /\ BelowSolutions
<1>1. DemandInit => Inv
  BY DemandInitType, SolvingStarts, BelowStarts
<1>2. Inv /\ [DemandNext]_demandVars => Inv'
  <2> SUFFICES ASSUME DemandInv, SolvingInv, BelowSolutions, [DemandNext]_demandVars PROVE Inv'
    OBVIOUS
  <2>1. CASE StartFunction BY <2>1, StartFunctionType, StartSolves, StartBelow
  <2>2. CASE StepBack BY <2>2, StepBackType, StepBackSolves, StepBackBelow
  <2>3. CASE LeaveBlock BY <2>3, LeaveBlockType, LeaveBlockSolves, LeaveBlockBelow
  <2>4. CASE RepeatRound BY <2>4, RepeatRoundType, RepeatSolves, RepeatBelow
  <2>5. CASE FinishFunction BY <2>5, FinishFunctionType, FinishSolves, FinishBelow
  <2>6. CASE MergeAddition BY <2>6, MergeAdditionType, MergeSolves, MergeBelow
  <2>7. CASE WakeCaller
    <3>1. BelowSolutions'
      BY <2>7, RestBelow DEF WakeCaller
    <3> QED BY <2>7, <3>1, WakeCallerType, WakeSolves
  <2>8. CASE UNCHANGED demandVars
    <3>1. DemandInv'
      BY <2>8 DEF demandVars, DemandInv, DemandTypeOK, QueuesOK, VisitOK, DemandsOK, ThisBlock
    <3>2. SolvingInv'
      BY <2>8 DEF demandVars, SolvingInv, AloneWhileVisiting, SeedsAsked, SettledUnlessTodo, Settles,
         Promised, RoundSoFar, ThisBlock
    <3>3. BelowSolutions'
      BY <2>8, RestBelow DEF demandVars
    <3> QED BY <3>1, <3>2, <3>3
  <2> QED BY <2>1, <2>2, <2>3, <2>4, <2>5, <2>6, <2>7, <2>8 DEF DemandNext
<1>3. Inv => DemandsAreLeastSolution
  BY DoneIsSolved
<1> QED BY <1>1, <1>2, <1>3, PTL DEF DemandSpec
=============================================================================
