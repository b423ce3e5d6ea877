---------------------------- MODULE SummaryDemand --------------------------
(***************************************************************************)
(* The top-down half of the register summary (Analyzer::runTopDownDemand): *)
(* which of the registers a function changes are observed after it returns *)
(* (ExitDemand), and which entry values those observations need            *)
(* (EntryDemand).  A worklist of functions; one visit is a backward        *)
(* liveness analysis of the function's blocks, whose calls add to the      *)
(* ExitDemand of their callees.                                            *)
(*                                                                         *)
(* A demand is a total map from registers to bits; the code's map has no   *)
(* entry for a register without demanded bits.  A module is a record:      *)
(*   order    the functions with a body, in module order                   *)
(*   flow     for each function its blocks in order, their successors,     *)
(*            code and which of them return                                *)
(*   effects  for each function the effect the bottom-up pass ended with   *)
(*   varargs  the functions marked as variadic                             *)
(* Instructions are RegisterTransfer's; a read has also "used", the bits   *)
(* of its result that matter (result bit 0 is register bit "offset"), and  *)
(* a call to a body is [kind |-> "body", name |-> function].               *)
(***************************************************************************)
EXTENDS RegisterTransfer, SequencesExt, Naturals

CONSTANTS
  DemandModules,    \* the modules that may be analysed
  ReturnRegisters,  \* the first of Abi.IntegerOutputOrder, if there is one
  ReturnBits,       \* its bits in Abi.OutputMasks
  FloatReturns      \* outputs of the ABI that are not integer outputs

VARIABLES
  module,       \* the module being analysed
  todo,         \* the deque of functions; inQueue is its content
  function,     \* the function being visited, or NoFunction
  blockNo,      \* its block to analyse next, counted down; 0 ends a round
  pc,           \* the instruction to go back over next, 0 at the block's start
  liveNow,      \* the demand after that instruction
  liveIn,       \* in
  liveOut,      \* out
  again,        \* whether this round changed anything
  additions,    \* what the calls of the function ask of its callees
  merging,      \* the callees whose additions are still to be merged
  waking,       \* the callers still to be enqueued, a set ordered by address
  exitDemand,   \* Demands[f].ExitDemand
  entryDemand   \* Demands[f].EntryDemand

demandVars == <<module, todo, function, blockNo, pc, liveNow, liveIn, liveOut, again,
                additions, merging, waking, exitDemand, entryDemand>>

Demand == [Registers -> SUBSET Bits]

NoDemand == [r \in Registers |-> {}]

NoFunction == "none"

AddDemand(demand, reg, mask) == [demand EXCEPT ![reg] = @ \cup (mask \cap Bits)]

EraseDemand(demand, reg, mask) == [demand EXCEPT ![reg] = @ \ mask]

MergeDemand(target, source) == [r \in Registers |-> target[r] \cup source[r]]

FunctionsOf(m) == ToSet(m.order)

BlockSet(m, f) == ToSet(m.flow[f].order)

\* The shape of a module.
IsDemandModule(m) ==
  /\ m.order \in Seq(FunctionsOf(m))
  /\ \A i, j \in DOMAIN m.order : m.order[i] = m.order[j] => i = j
  /\ NoFunction \notin FunctionsOf(m)
  /\ m.effects \in [FunctionsOf(m) -> FunctionEffect]
  /\ \A f \in FunctionsOf(m) :
       /\ m.flow[f].order \in Seq(BlockSet(m, f)) /\ m.flow[f].order # <<>>
       /\ \A b \in BlockSet(m, f) :
            /\ ToSet(m.flow[f].succ[b]) \subseteq BlockSet(m, f)
            /\ m.flow[f].code[b] \in Seq(ToSet(m.flow[f].code[b]))
            /\ \A i \in ToSet(m.flow[f].code[b]) :
                 i.op = "call" /\ i.callee.kind = "body" => i.callee.name \in FunctionsOf(m)

ASSUME DemandModulesAssumption == \A m \in DemandModules : IsDemandModule(m)

CallersOf(m, g) ==
  {f \in FunctionsOf(m) : \E b \in BlockSet(m, f) : \E i \in ToSet(m.flow[f].code[b]) :
     i.op = "call" /\ i.callee.kind = "body" /\ i.callee.name = g}

-----------------------------------------------------------------------------
(* One instruction, backwards.                                              *)

\* Bug: the bits of the result are taken for the bits of the register.
UnshiftedDemand(i) == i.used

\* Result bit 0 of a partial read is the register's bit "offset".
ReadDemand(i) == {bit + i.offset : bit \in i.used}

\* What a call asks its callee to return: the bits it may have changed.
ReturnDemand(effect, live) ==
  [r \in Registers |->
     IF r \in Ignored THEN {} ELSE CellIn(effect.Registers, r).MayNonEntry \cap live[r]]

\* What of the demand after the call the caller itself may have to provide.
SurvivingDemand(effect, live) ==
  [r \in Registers |->
     IF r \in Ignored THEN live[r] ELSE live[r] \cap CellIn(effect.Registers, r).MayEntry]

\* Bits that the callee may pass through or may replace, demanded of its exit
\* and live after the call.
ReturnEntry(m, g, live, exits, r) ==
  LET cell == CellIn(m.effects[g].Registers, r) IN
  IF r \in FloatReturns \/ g \in m.varargs THEN {}
  ELSE cell.MayEntry \cap cell.MayNonEntry \cap exits[g][r] \cap live[r]

EntryNeeds(m, g, live, exits) ==
  [r \in Registers |->
     IF r \in Ignored THEN {}
     ELSE CellIn(m.effects[g].Registers, r).ReadEntry \cup ReturnEntry(m, g, live, exits, r)]

\* Bug: what the callee reads at its entry is not asked of the caller.
BeforeBodyCallUnread(m, g, live, exits) ==
  IF m.effects[g].NoReturn THEN NoDemand ELSE SurvivingDemand(m.effects[g], live)

\* Before a call to a function with a body.
BeforeBodyCall(m, g, live, exits) ==
  LET survives == SurvivingDemand(m.effects[g], live) IN
  IF m.effects[g].NoReturn THEN NoDemand
  ELSE MergeDemand(survives, EntryNeeds(m, g, survives, exits))

\* Before any other call: the ABI's clobbers, no demand from after a call that
\* does not return, and the inputs of the shape or of the ABI.
BeforeOtherCall(c, live) ==
  LET unclobbered == [r \in Registers |-> IF r \in Clobbered THEN {} ELSE live[r]]
      after == IF c.noReturn THEN NoDemand ELSE unclobbered
      inputs == IF c.kind = "shape" THEN c.inputs
                ELSE IF UnknownReadsAbi THEN AbiInputMasks ELSE EmptyMap
  IN  [r \in Registers |->
         after[r] \cup (IF r \in DOMAIN inputs \ Ignored THEN inputs[r] \cap Bits ELSE {})]

\* A partial access does not ask whether the register is ignored.
BeforeInstruction(m, i, live, exits) ==
  CASE i.op = "pread" -> IF i.dead THEN live ELSE AddDemand(live, i.reg, ReadDemand(i))
    [] i.op = "load" -> IF i.reg \in Ignored THEN live ELSE AddDemand(live, i.reg, i.used)
    [] i.op = "pwrite" -> EraseDemand(live, i.reg, IF i.low32 THEN Bits ELSE i.mask)
    [] i.op = "store" -> IF i.reg \in Ignored THEN live ELSE EraseDemand(live, i.reg, Bits)
    [] i.op = "call" /\ i.callee.kind = "body" ->
         BeforeBodyCall(m, i.callee.name, live, exits)
    [] i.op = "call" /\ i.callee.kind # "body" -> BeforeOtherCall(i.callee, live)
    [] OTHER -> live

\* additions after the instruction: only a call to a body that returns asks.
WithAsked(m, i, live, adds) ==
  IF i.op = "call" /\ i.callee.kind = "body" /\ ~m.effects[i.callee.name].NoReturn
  THEN [adds EXCEPT ![i.callee.name] =
          MergeDemand(@, ReturnDemand(m.effects[i.callee.name], live))]
  ELSE adds

\* The demand at the end of a block.
LiveAfterBlock(m, f, b, ins, exits) ==
  [r \in Registers |->
     (UNION {ins[s][r] : s \in ToSet(m.flow[f].succ[b])})
       \cup (IF b \in m.flow[f].returns THEN exits[f][r] ELSE {})]

-----------------------------------------------------------------------------
SeedAbiReturns ==
  [r \in Registers |-> IF r \in ReturnRegisters THEN ReturnBits \cap Bits ELSE {}]

NoAdditions(m) == [g \in FunctionsOf(m) |-> NoDemand]

DemandInit ==
  /\ module \in DemandModules
  /\ todo = module.order
  /\ function = NoFunction
  /\ blockNo = 0 /\ pc = 0 /\ liveNow = NoDemand
  /\ liveIn = EmptyMap /\ liveOut = EmptyMap /\ again = FALSE
  /\ additions = NoAdditions(module) /\ merging = {} /\ waking = {}
  /\ exitDemand = [f \in FunctionsOf(module) |->
                     IF CallersOf(module, f) = {} THEN SeedAbiReturns ELSE NoDemand]
  /\ entryDemand = [f \in FunctionsOf(module) |-> NoDemand]

Idle == function = NoFunction /\ merging = {} /\ waking = {}

\* A block is entered at its end.
EnterBlock(f, n, ins) ==
  /\ blockNo' = n
  /\ pc' = IF n = 0 THEN 0 ELSE Len(module.flow[f].code[module.flow[f].order[n]])
  /\ liveNow' = IF n = 0 THEN NoDemand
                ELSE LiveAfterBlock(module, f, module.flow[f].order[n], ins, exitDemand)

StartFunction ==
  /\ Idle /\ todo # <<>>
  /\ function' = Head(todo)
  /\ todo' = Tail(todo)
  /\ liveIn' = [b \in BlockSet(module, Head(todo)) |-> NoDemand]
  /\ liveOut' = [b \in BlockSet(module, Head(todo)) |-> NoDemand]
  /\ EnterBlock(Head(todo), Len(module.flow[Head(todo)].order), liveIn')
  /\ again' = FALSE
  /\ additions' = NoAdditions(module)
  /\ UNCHANGED <<module, merging, waking, exitDemand, entryDemand>>

Visiting == function # NoFunction /\ blockNo > 0

ThisBlock == module.flow[function].order[blockNo]

StepBack ==
  /\ Visiting /\ pc > 0
  /\ LET i == module.flow[function].code[ThisBlock][pc] IN
       /\ liveNow' = BeforeInstruction(module, i, liveNow, exitDemand)
       /\ additions' = WithAsked(module, i, liveNow, additions)
  /\ pc' = pc - 1
  /\ UNCHANGED <<module, todo, function, blockNo, liveIn, liveOut, again, merging,
                 waking, exitDemand, entryDemand>>

LeaveBlock ==
  /\ Visiting /\ pc = 0
  /\ LET after == LiveAfterBlock(module, function, ThisBlock, liveIn, exitDemand) IN
       /\ liveOut' = [liveOut EXCEPT ![ThisBlock] = after]
       /\ liveIn' = [liveIn EXCEPT ![ThisBlock] = liveNow]
       /\ again' = (again \/ liveOut[ThisBlock] # after \/ liveIn[ThisBlock] # liveNow)
  /\ EnterBlock(function, blockNo - 1, liveIn')
  /\ UNCHANGED <<module, todo, function, additions, merging, waking, exitDemand, entryDemand>>

RepeatRound ==
  /\ function # NoFunction /\ blockNo = 0 /\ again
  /\ EnterBlock(function, Len(module.flow[function].order), liveIn)
  /\ again' = FALSE
  /\ UNCHANGED <<module, todo, function, liveIn, liveOut, additions, merging,
                 waking, exitDemand, entryDemand>>

FinishFunction ==
  /\ function # NoFunction /\ blockNo = 0 /\ ~again
  /\ entryDemand' = [entryDemand EXCEPT ![function] = liveIn[Head(module.flow[function].order)]]
  /\ merging' = {g \in FunctionsOf(module) : additions[g] # NoDemand}
  /\ function' = NoFunction
  /\ UNCHANGED <<module, todo, blockNo, pc, liveNow, liveIn, liveOut, again, additions,
                 waking, exitDemand>>

Enqueue(queue, f) == IF f \in ToSet(queue) THEN queue ELSE Append(queue, f)

\* Bug: a callee with a new demand is not analysed again.
MergeQuietly ==
  \E g \in merging :
    /\ waking = {}
    /\ merging' = merging \ {g}
    /\ exitDemand' = [exitDemand EXCEPT ![g] = MergeDemand(@, additions[g])]
    /\ UNCHANGED <<module, todo, function, blockNo, pc, liveNow, liveIn, liveOut, again,
                   additions, waking, entryDemand>>

\* The additions of one callee are merged (a map ordered by address); when
\* they are new, the callee is analysed again and its callers are woken.
MergeAddition ==
  \E g \in merging :
    LET merged == MergeDemand(exitDemand[g], additions[g])
        isNew == merged # exitDemand[g]
    IN  /\ waking = {}
        /\ merging' = merging \ {g}
        /\ exitDemand' = [exitDemand EXCEPT ![g] = merged]
        /\ todo' = IF isNew THEN Enqueue(todo, g) ELSE todo
        /\ waking' = IF isNew THEN CallersOf(module, g) ELSE {}
        /\ UNCHANGED <<module, function, blockNo, pc, liveNow, liveIn, liveOut, again,
                       additions, entryDemand>>

WakeCaller ==
  \E f \in waking :
    /\ todo' = Enqueue(todo, f)
    /\ waking' = waking \ {f}
    /\ UNCHANGED <<module, function, blockNo, pc, liveNow, liveIn, liveOut, again,
                   additions, merging, exitDemand, entryDemand>>

DemandNext ==
  \/ StartFunction \/ StepBack \/ LeaveBlock \/ RepeatRound \/ FinishFunction
  \/ MergeAddition \/ WakeCaller

DemandSpec == DemandInit /\ [][DemandNext]_demandVars /\ WF_demandVars(DemandNext)

DemandDone == Idle /\ todo = <<>>

(* Types, and: a function is in the deque at most once, as inQueue says.    *)
QueuesOK ==
  /\ todo \in Seq(FunctionsOf(module))
  /\ \A i, j \in DOMAIN todo : todo[i] = todo[j] => i = j
  /\ merging \subseteq FunctionsOf(module)
  /\ waking \subseteq FunctionsOf(module)

VisitOK ==
  /\ function \in FunctionsOf(module) \cup {NoFunction}
  /\ blockNo \in Nat /\ pc \in Nat
  /\ again \in BOOLEAN
  /\ function # NoFunction =>
       /\ blockNo <= Len(module.flow[function].order)
       /\ blockNo > 0 => pc <= Len(module.flow[function].code[ThisBlock])
       /\ liveIn \in [BlockSet(module, function) -> Demand]
       /\ liveOut \in [BlockSet(module, function) -> Demand]

DemandsOK ==
  /\ liveNow \in Demand
  /\ additions \in [FunctionsOf(module) -> Demand]
  /\ exitDemand \in [FunctionsOf(module) -> Demand]
  /\ entryDemand \in [FunctionsOf(module) -> Demand]

DemandTypeOK == QueuesOK /\ VisitOK /\ DemandsOK
=============================================================================
