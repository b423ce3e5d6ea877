---------------------------- MODULE SummaryFlow ----------------------------
(***************************************************************************)
(* The bottom-up register summary of one function                          *)
(* (Analyzer::solveFunction): a FIFO worklist over the basic blocks, each  *)
(* visit joining the predecessors' results, transferring the block's       *)
(* instructions one by one, and queueing the successors when the result    *)
(* changed; then the effect of the function from its exits.                *)
(*                                                                         *)
(* A program is a record:                                                  *)
(*   order    the blocks, in function order, the entry block first         *)
(*   succ     the successors of each block, in order                       *)
(*   code     the instructions of each block (RegisterTransfer)            *)
(*   returns  the blocks whose terminator is a return                      *)
(*   adjust   the slots of stack-alignment pushes                          *)
(* Its callees are summarised already: a call carries the summary.         *)
(***************************************************************************)
EXTENDS RegisterTransfer, Sequences, Naturals

CONSTANTS
  Programs,         \* the functions that may be solved
  CollectEvidence   \* Options.CollectExternalCallsiteEvidence

NoneTwice(seq) == \A m, n \in DOMAIN seq : seq[m] = seq[n] => m = n

\* The shape of a function.
IsProgram(p) ==
  LET blocks == {p.order[n] : n \in DOMAIN p.order} IN
  /\ p.order \in Seq(blocks) /\ p.order # <<>> /\ NoneTwice(p.order)
  /\ p.succ \in [blocks -> Seq(blocks)]
  /\ p.code \in [blocks -> Seq(Instructions)]
  /\ p.returns \subseteq blocks
  /\ "none" \notin blocks

ASSUME ProgramsAssumption == \A p \in Programs : IsProgram(p)

ASSUME EvidenceAssumption == CollectEvidence \in BOOLEAN

VARIABLES
  prog,       \* the function being solved
  worklist,   \* the deque of blocks; "queued" in the code is its content
  in, out,    \* flow.In and flow.Out
  pending,    \* the successors of the last visited block, still to be queued
  current,    \* the block being transferred, or NoBlock
  pc,         \* its next instruction
  state,      \* the state before that instruction
  effect,     \* flow.Effect
  phase       \* "solve", then "done"

vars == <<prog, worklist, in, out, pending, current, pc, state, effect, phase>>

NoBlock == "none"

SeqSet(seq) == {seq[n] : n \in DOMAIN seq}

BlocksOf(p) == SeqSet(p.order)
EntryOf(p) == Head(p.order)
SuccsOf(p, b) == SeqSet(p.succ[b])
PredsOf(p, b) == {q \in BlocksOf(p) : b \in SuccsOf(p, q)}

\* The SSA values a block defines and those it uses.
DefinedIn(p, b) ==
  {p.code[b][n].val : n \in {m \in DOMAIN p.code[b] :
                               p.code[b][m].op \in {"load", "reload", "pread"}}}
UsedIn(p, b) ==
  {p.code[b][n].src : n \in {m \in DOMAIN p.code[b] :
                               p.code[b][m].op \in {"store", "spill", "pwrite", "use"}}}

CrossBlockValues(p) ==
  {v \in UNION {DefinedIn(p, b) : b \in BlocksOf(p)} :
     \E b \in BlocksOf(p) : v \in UsedIn(p, b) \ DefinedIn(p, b)}

\* Facts about values nobody uses in another block end with the block.
PruneBlockLocal(p, b, s) ==
  LET kept == DOMAIN s.ValueOrigins \ (DefinedIn(p, b) \ CrossBlockValues(p)) IN
  [s EXCEPT !.ValueOrigins = [v \in kept |-> @[v]]]

\* Bugs: facts about slots and values do not count; states never are equal.
SameSummary(s, t) == SameSummaryLattice(s, t)

NeverSame(s, t) == FALSE

\* Without evidence, only the summary lattice decides what changed.
SameResult(s, t) == IF CollectEvidence THEN s = t ELSE SameSummaryLattice(s, t)

EntryInput(p, b, results) ==
  IF b = EntryOf(p) THEN InitialState(TRUE)
  ELSE JoinStates({results[q] : q \in PredsOf(p, b)})

-----------------------------------------------------------------------------
Init ==
  /\ prog \in Programs
  /\ worklist = prog.order
  /\ in = [b \in BlocksOf(prog) |-> InitialState(b = EntryOf(prog))]
  /\ out = [b \in BlocksOf(prog) |-> InitialState(FALSE)]
  /\ pending = <<>>
  /\ current = NoBlock
  /\ pc = 1
  /\ state = InitialState(FALSE)
  /\ effect = NoEffect
  /\ phase = "solve"

\* The next block leaves the deque and its input is joined afresh.
PopBlock ==
  /\ phase = "solve" /\ current = NoBlock /\ pending = <<>> /\ worklist # <<>>
  /\ LET b == Head(worklist) IN
       /\ current' = b
       /\ in' = [in EXCEPT ![b] = EntryInput(prog, b, out)]
       /\ state' = EntryInput(prog, b, out)
  /\ worklist' = Tail(worklist)
  /\ pc' = 1
  /\ UNCHANGED <<prog, out, pending, effect, phase>>

\* One instruction of the block, as long as the state is reachable.
TransferNext ==
  /\ current # NoBlock /\ state.Reachable /\ pc <= Len(prog.code[current])
  /\ state' = TransferInstruction(prog.code[current][pc], state, prog.adjust)
  /\ pc' = pc + 1
  /\ UNCHANGED <<prog, worklist, in, out, pending, current, effect, phase>>

\* The end of transferBlock and the rest of the visit.
StoreResult ==
  /\ current # NoBlock
  /\ ~state.Reachable \/ pc > Len(prog.code[current])
  /\ LET result == IF in[current].Reachable
                   THEN PruneBlockLocal(prog, current, state) ELSE state
     IN  /\ out' = [out EXCEPT ![current] = result]
         /\ pending' = IF SameResult(out[current], result) THEN <<>>
                       ELSE prog.succ[current]
  /\ current' = NoBlock
  /\ pc' = 1
  /\ state' = InitialState(FALSE)
  /\ UNCHANGED <<prog, worklist, in, effect, phase>>

\* Bug: a block that was queued once counts as queued for ever.
EnqueueOnce ==
  /\ pending # <<>>
  /\ pending' = Tail(pending)
  /\ UNCHANGED <<prog, worklist, in, out, current, pc, state, effect, phase>>

\* enqueue() of the next successor: a block that is queued already stays put.
EnqueueNext ==
  /\ pending # <<>>
  /\ worklist' = IF Head(pending) \in SeqSet(worklist) THEN worklist
                 ELSE Append(worklist, Head(pending))
  /\ pending' = Tail(pending)
  /\ UNCHANGED <<prog, in, out, current, pc, state, effect, phase>>

\* The worklist is empty: the exits make the effect.
CollectExits ==
  /\ phase = "solve" /\ current = NoBlock /\ pending = <<>> /\ worklist = <<>>
  /\ effect' = EffectOf({out[b] : b \in prog.returns},
                        {out[b] : b \in {c \in BlocksOf(prog) : out[c].EndsInNoReturn}})
  /\ phase' = "done"
  /\ UNCHANGED <<prog, worklist, in, out, pending, current, pc, state>>

Next == PopBlock \/ TransferNext \/ StoreResult \/ EnqueueNext \/ CollectExits

Spec == Init /\ [][Next]_vars /\ WF_vars(Next)

-----------------------------------------------------------------------------
(* The analysis of a function ends.  Nothing in the code bounds the number  *)
(* of visits: it ends because results only lose information.                *)
Terminates == <>(phase = "done")

(* Types.  They include that every cell is covered: every bit may be the    *)
(* entry value or may be something else (or both), in the effect, in every  *)
(* block result and between any two instructions.  A bit that is neither    *)
(* would be preserved for one caller and killed for another.                *)
TypeOK ==
  /\ prog \in Programs
  /\ worklist \in Seq(BlocksOf(prog))
  /\ pending \in Seq(BlocksOf(prog))
  /\ in \in [BlocksOf(prog) -> State]
  /\ out \in [BlocksOf(prog) -> State]
  /\ current \in BlocksOf(prog) \cup {NoBlock}
  /\ pc \in Nat /\ pc >= 1
  /\ state \in State
  /\ effect \in FunctionEffect
  /\ phase \in {"solve", "done"}

(* The order the code visits blocks in is one of those ChaoticIteration     *)
(* allows, and a visit, spread over many steps, is one of its visits.       *)
AfterEach(p, b, s) ==
  LET after[n \in 0..Len(p.code[b])] ==
        IF n = 0 THEN s
        ELSE IF after[n-1].Reachable
             THEN TransferInstruction(p.code[b][n], after[n-1], p.adjust)
             ELSE after[n-1]
  IN  after

TransferBlock(p, b, s) ==
  IF s.Reachable THEN PruneBlockLocal(p, b, AfterEach(p, b, s)[Len(p.code[b])]) ELSE s

FlowSolver ==
  INSTANCE ChaoticIteration WITH
    Graphs <- Programs, Nodes <- BlocksOf, Succs <- SuccsOf,
    Inputs <- EntryInput, Transfer <- TransferBlock, Same <- SameResult,
    Bottom <- InitialState(FALSE),
    graph <- prog,
    queued <- SeqSet(worklist) \cup SeqSet(pending) \cup ({current} \ {NoBlock}),
    out <- out

SolvesChaotically == FlowSolver!Init /\ [][FlowSolver!Next]_(FlowSolver!vars)

(* When the solver is done, the result of every block is what its           *)
(* instructions make of its predecessors' results.                          *)
ResultsAreFixpoint ==
  phase = "done" =>
    \A b \in BlocksOf(prog) : out[b] = TransferBlock(prog, b, EntryInput(prog, b, out))
=============================================================================
