--------------------------- MODULE SummaryPasses ---------------------------
(***************************************************************************)
(* The two passes of Analyzer::run over a module, one after the other: the *)
(* bottom-up pass computes the effects, and the top-down demand pass       *)
(* starts from them.  Modules with loops are also given to the demand pass *)
(* alone, with effects that are exactly what their runs do.                *)
(*                                                                         *)
(* Then what the effects of a whole module mean: a reference semantics of  *)
(* its functions, mutually recursive or not, and the claim that the        *)
(* effects runBottomUp ends with cover every run.  It covers partial       *)
(* reads, register writes and calls; values that move through registers    *)
(* and slots are SummaryRun's subject.                                     *)
(***************************************************************************)
EXTENDS SummaryCallGraph, DemandRuns

passVars == <<searchVars, solveVars, demandVars>>

NoModule == [order |-> <<>>, paths |-> EmptyMap]
NoFlows == [order |-> <<>>, flow |-> EmptyMap, effects |-> EmptyMap, varargs |-> {}]

\* The blocks of a function: an entry block 0 that branches to one per path.
FlowOfPaths(paths) ==
  LET ways == SetToSeq(paths) IN
  [order   |-> [k \in 1 .. Len(ways) + 1 |-> k - 1],
   succ    |-> [k \in 0 .. Len(ways) |-> IF k = 0 THEN [j \in 1 .. Len(ways) |-> j] ELSE <<>>],
   code    |-> [k \in 0 .. Len(ways) |-> IF k = 0 THEN <<>> ELSE ways[k].code],
   returns |-> {k \in 1 .. Len(ways) : ways[k].ends = "return"}]

WithFlows(m, known) ==
  [order |-> m.order, flow |-> [f \in DOMAIN m.paths |-> FlowOfPaths(m.paths[f])],
   effects |-> known, varargs |-> {}]

IdleSearch ==
  /\ graph = CallGraphOf(NoModule) /\ roots = <<>> /\ frames = <<>>
  /\ index = EmptyMap /\ lowlink = EmptyMap /\ path = <<>> /\ components = <<>>
  /\ mod = NoModule /\ component = 1 /\ member = 1 /\ changed = FALSE
  /\ effects = EmptyMap /\ solvedWith = EmptyMap

IdleDemand ==
  /\ module = NoFlows /\ todo = <<>> /\ function = NoFunction
  /\ blockNo = 0 /\ pc = 0 /\ liveNow = NoDemand
  /\ liveIn = EmptyMap /\ liveOut = EmptyMap /\ again = FALSE
  /\ additions = EmptyMap /\ merging = {} /\ waking = {}
  /\ exitDemand = EmptyMap /\ entryDemand = EmptyMap

\* The demand pass begins; only the effects stay of the bottom-up pass.
StartDemand ==
  /\ BottomUpDone /\ mod # NoModule
  /\ module' = WithFlows(mod, effects)
  /\ todo' = mod.order
  /\ function' = NoFunction
  /\ blockNo' = 0 /\ pc' = 0 /\ liveNow' = NoDemand
  /\ liveIn' = EmptyMap /\ liveOut' = EmptyMap /\ again' = FALSE
  /\ additions' = NoAdditions(module') /\ merging' = {} /\ waking' = {}
  /\ exitDemand' = [f \in FunctionsOf(module') |->
                      IF CallersOf(module', f) = {} THEN SeedAbiReturns ELSE NoDemand]
  /\ entryDemand' = [f \in FunctionsOf(module') |-> NoDemand]
  /\ graph' = CallGraphOf(NoModule) /\ roots' = <<>> /\ frames' = <<>>
  /\ index' = EmptyMap /\ lowlink' = EmptyMap /\ path' = <<>> /\ components' = <<>>
  /\ mod' = NoModule /\ component' = 1 /\ member' = 1 /\ changed' = FALSE
  /\ effects' = EmptyMap /\ solvedWith' = EmptyMap

PassesInit == (BottomUpInit /\ IdleDemand) \/ (IdleSearch /\ DemandInit)

PassesNext ==
  \/ BottomUpNext /\ UNCHANGED demandVars
  \/ StartDemand
  \/ DemandNext /\ UNCHANGED <<searchVars, solveVars>>

PassesSpec == PassesInit /\ [][PassesNext]_passVars /\ WF_passVars(PassesNext)

(* The summary of a module ends: the rounds over each recursion group (the  *)
(* comments at runBottomUp), and the worklist of the demands.               *)
PassesTerminate == <>(mod = NoModule /\ DemandDone)

-----------------------------------------------------------------------------
(* Effects and runs.                                                        *)

\* The outcomes of one instruction, from those of the functions.
InstructionRuns(i, runs) ==
  CASE i.op = "pread"  -> {Outcome({}, {i.reg} \X i.mask, "return")}
    [] i.op = "pwrite" -> {Outcome({i.reg} \X i.mask, {}, "return")}
    [] i.op = "store"  -> {Outcome({i.reg} \X Bits, {}, "return")}
    [] i.op = "call" /\ i.callee.kind = "body" -> runs[i.callee.name]
    [] i.op = "call" /\ i.callee.kind = "external" ->
         {Outcome(Clobbered \X Bits, AbiInputs \X Bits, Ended(i.callee.noReturn))}

PathRuns(code, runs) ==
  LET upTo[n \in 0..Len(code)] ==
        IF n = 0 THEN {Outcome({}, {}, "return")}
        ELSE LET before == upTo[n-1] IN
             AllThen(before, InstructionRuns(code[n], runs))
  IN  upTo[Len(code)]

FunctionRuns(m, f, runs) ==
  UNION {{o \in PathRuns(p.code, runs) : p.ends = "return" \/ o.ends = "exit"} :
           p \in m.paths[f]}

\* The finite runs: call depth by call depth, until no outcome is new.
RECURSIVE DeeperRuns(_, _)
DeeperRuns(m, runs) ==
  LET deeper == [f \in DOMAIN runs |-> FunctionRuns(m, f, runs)]
  IN  IF deeper = runs THEN runs ELSE DeeperRuns(m, deeper)

Runs(m) == DeeperRuns(m, [f \in DOMAIN m.paths |-> {}])

VisibleBits == (Registers \ (Ignored \cup Unaffected)) \X Bits

(* Whatever the functions of a module do, their effects allow it: a bit     *)
(* some returning run overwrites is MayNonEntry, a bit some returning run   *)
(* leaves alone is MayEntry, a bit some run reads is ReadEntry, and a       *)
(* function with a returning run is not summarised as NoReturn.  Effects    *)
(* from rounds that stopped too early (EffectsAreFixpoint) may miss reads.  *)
EffectsCoverRuns ==
  BottomUpDone /\ (\A f \in Nodes : effects[f] = SolveFunction(mod, f, effects)) =>
    LET runs == Runs(mod) IN
    \A f \in Nodes : \A o \in runs[f] :
      LET cell(r) == CellIn(effects[f].Registers, r) IN
      /\ o.ends = "return" => ~effects[f].NoReturn
      /\ \A b \in VisibleBits :
           /\ b \in o.read => b[2] \in cell(b[1]).ReadEntry
           /\ o.ends = "return" /\ b \in o.over => b[2] \in cell(b[1]).MayNonEntry
           /\ o.ends = "return" /\ b \notin o.over => b[2] \in cell(b[1]).MayEntry
=============================================================================
