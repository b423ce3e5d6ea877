----------------------------- MODULE DemandRuns ----------------------------
(***************************************************************************)
(* What the demands of a module mean: a reference semantics of the         *)
(* functions, as the outcomes of their finite runs, and which bits left    *)
(* behind by a function are read after it returned, however deep in its    *)
(* callers.                                                                *)
(***************************************************************************)
EXTENDS SummaryDemand

\* A read is an observation of the bits its result is used for.
RunsOf(i, runs) ==
  CASE i.op = "pread" ->
         {Outcome({}, IF i.dead THEN {} ELSE {i.reg} \X {b \in Bits : b - i.offset \in i.used},
                  "return")}
    [] i.op = "load" -> {Outcome({}, {i.reg} \X i.used, "return")}
    [] i.op = "pwrite" -> {Outcome({i.reg} \X IF i.low32 THEN Bits ELSE i.mask, {}, "return")}
    [] i.op = "store" -> {Outcome({i.reg} \X Bits, {}, "return")}
    [] i.op = "call" /\ i.callee.kind = "body" -> runs[i.callee.name]
    [] i.op = "call" /\ i.callee.kind = "external" ->
         {Outcome(Clobbered \X Bits, IF UnknownReadsAbi THEN AbiInputs \X Bits ELSE {},
                  Ended(i.callee.noReturn))}
    [] i.op = "call" /\ i.callee.kind = "shape" ->
         {Outcome(Clobbered \X Bits, UNION {{r} \X i.callee.inputs[r] : r \in DOMAIN i.callee.inputs},
                  Ended(i.callee.noReturn))}

\* The outcomes of a block from its n-th instruction to the end of the
\* function, given those of the whole blocks and of the functions.
RunsFrom(flow, b, n, blockRuns, runs) ==
  LET len == Len(flow.code[b])
      ends == (IF b \in flow.returns THEN {Outcome({}, {}, "return")} ELSE {})
                \cup UNION {blockRuns[s] : s \in ToSet(flow.succ[b])}
      back[k \in 0..len] ==
        IF k = 0 THEN ends
        ELSE LET rest == back[k-1]
                 steps == RunsOf(flow.code[b][len - k + 1], runs)
             IN  {Then(step, o) : step \in steps, o \in rest}
                   \cup {step \in steps : step.ends = "exit"}
  IN  back[len - n + 1]

FunctionEntry(m, f) == Head(m.flow[f].order)

\* Block by block until no outcome is new; a function is its entry block.
RECURSIVE MoreRuns(_, _)
MoreRuns(m, blockRuns) ==
  LET runs == [f \in FunctionsOf(m) |-> blockRuns[f][FunctionEntry(m, f)]]
      more == [f \in FunctionsOf(m) |-> [b \in BlockSet(m, f) |->
                 RunsFrom(m.flow[f], b, 1, blockRuns[f], runs)]]
  IN  IF more = blockRuns THEN blockRuns ELSE MoreRuns(m, more)

BlockRuns(m) == MoreRuns(m, [f \in FunctionsOf(m) |-> [b \in BlockSet(m, f) |-> {}]])

CallSites(m, g) ==
  {<<f, b, n>> \in UNION {UNION {{f} \X {b} \X DOMAIN m.flow[f].code[b] : b \in BlockSet(m, f)} :
                            f \in FunctionsOf(m)} :
     LET i == m.flow[f].code[b][n] IN
     i.op = "call" /\ i.callee.kind = "body" /\ i.callee.name = g}

\* What a run observes of the registers it starts with, when its caller
\* observes "later" of those it leaves.
Observes(o, later) == o.read \cup (IF o.ends = "return" THEN later \ o.over ELSE {})

\* The bits read after a function returned, call site by call site.
RECURSIVE MoreObserved(_, _, _)
MoreObserved(m, blockRuns, observed) ==
  LET runs == [f \in FunctionsOf(m) |-> blockRuns[f][FunctionEntry(m, f)]]
      after(site) == RunsFrom(m.flow[site[1]], site[2], site[3] + 1, blockRuns[site[1]], runs)
      more == [g \in FunctionsOf(m) |->
                 observed[g] \cup UNION {UNION {Observes(o, observed[site[1]]) : o \in after(site)} :
                                           site \in CallSites(m, g)}]
  IN  IF more = observed THEN observed ELSE MoreObserved(m, blockRuns, more)

Observed(m, blockRuns) ==
  MoreObserved(m, blockRuns,
    [f \in FunctionsOf(m) |-> IF CallersOf(m, f) = {} THEN ReturnRegisters \X ReturnBits ELSE {}])

\* The registers a summary speaks of.
SummarisedBits == (Registers \ (Ignored \cup Unaffected)) \X Bits

(* Before a call to a function that does not return the demand is dropped   *)
(* and what that function reads is not asked for, so the claims below leave  *)
(* out modules that call one.                                               *)
CalleesReturn == \A f \in FunctionsOf(module) :
  CallersOf(module, f) # {} => ~module.effects[f].NoReturn

(* When a function returns a bit it has overwritten, and some run of its    *)
(* callers reads that bit later, the bit is in the function's ExitDemand:   *)
(* the signature gets a return slot for it.  A bit a function reads before  *)
(* it overwrites it, or returns untouched although its exit is asked for    *)
(* it, is in its EntryDemand: the signature gets a parameter for it.        *)
ObservedBitsDemanded ==
  DemandDone /\ CalleesReturn =>
    LET blockRuns == BlockRuns(module)
        observed == Observed(module, blockRuns)
        returned(f, o) == o.over \cap observed[f] \cap SummarisedBits
        given(f, o) == {b \in SummarisedBits :
                          \/ b \in o.read
                          \/ o.ends = "return" /\ b \notin o.over /\ b[2] \in exitDemand[f][b[1]]}
    IN  \A f \in FunctionsOf(module) : \A o \in blockRuns[f][FunctionEntry(module, f)] :
          /\ o.ends = "return" => \A b \in returned(f, o) : b[2] \in exitDemand[f][b[1]]
          /\ \A b \in given(f, o) : b[2] \in entryDemand[f][b[1]]

-----------------------------------------------------------------------------
(* The least demands, at every position of every block at once: one more    *)
(* than the length of the code is the end of the block.                     *)
RECURSIVE MoreDemand(_, _, _)
MoreDemand(m, live, exits) ==
  LET starts(f) == [b \in BlockSet(m, f) |-> live[f][b][1]]
      next(f, b, n) ==
        IF n > Len(m.flow[f].code[b]) THEN LiveAfterBlock(m, f, b, starts(f), exits)
        ELSE BeforeInstruction(m, m.flow[f].code[b][n], live[f][b][n+1], exits)
      asked(site, g) == ReturnDemand(m.effects[g], live[site[1]][site[2]][site[3] + 1])
      newLive == [f \in FunctionsOf(m) |-> [b \in BlockSet(m, f) |->
                    [n \in DOMAIN live[f][b] |-> next(f, b, n)]]]
      newExits == [g \in FunctionsOf(m) |-> [r \in Registers |->
                     exits[g][r] \cup (IF m.effects[g].NoReturn THEN {}
                                      ELSE UNION {asked(site, g)[r] : site \in CallSites(m, g)})]]
  IN  IF newLive = live /\ newExits = exits THEN [live |-> live, exits |-> exits]
      ELSE MoreDemand(m, newLive, newExits)

LeastDemands(m) ==
  MoreDemand(m,
    [f \in FunctionsOf(m) |-> [b \in BlockSet(m, f) |->
       [n \in 1..(Len(m.flow[f].code[b]) + 1) |-> NoDemand]]],
    [f \in FunctionsOf(m) |-> IF CallersOf(m, f) = {} THEN SeedAbiReturns ELSE NoDemand])

(* The worklist ends with the least demands that agree with each other,     *)
(* nothing too little (a stale caller or callee) and nothing too much.      *)
DemandsAreLeast ==
  DemandDone =>
    LET least == LeastDemands(module) IN
    /\ exitDemand = least.exits
    /\ \A f \in FunctionsOf(module) :
         entryDemand[f] = least.live[f][FunctionEntry(module, f)][1]
=============================================================================
