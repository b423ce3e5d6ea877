# Models of the native lifting pipeline

NotDec-bin2llvm turns an ELF binary into LLVM IR: it discovers functions and
blocks, lifts them through SLEIGH p-code into IR in which machine registers are
global variables, and then removes those globals by recovering what each
function reads, overwrites and returns. This directory holds TLA+ models of the
parts where a quiet mistake is worst: the code is wrong, nothing fails, and the
output has to be run to notice. That is so for nearly the whole pipeline, from a
block that is never lifted over a lost bit of a register to a store into the
stack frame that goes although a callee reads it.

Paths are relative to `src/`. `NRS` is `lib/passes/summary/NativeRegisterSummary.cpp`,
`SSA` is `lib/passes/summary/NativeRegisterSummarySSA.cpp`, `NA` is
`lib/NativeAnalysis.cpp`, `P2L` is `lib/PcodeToLLVM.cpp`, `PH`, `SA` and `SF` are
`NativeRegisterPeephole.cpp`, `NativeStackAddress.cpp` and `NativeStackFrame.cpp`
in `lib/passes/summary/`.

## The system

The program is sequential: one thread, no persistence, no messages. What makes
it hard is fixpoint iteration over cyclic graphs (control flow, call graph) with
worklists in an order nobody relies on, facts that are may-facts and must-facts
at once, rewrites that are right for most code and wrong for a shape nobody
wrote a test for, and a long chain of passes each of which trusts the facts of
the last.

| component | source | state | operations | interacts with |
|---|---|---|---|---|
| ELF loading, SLEIGH | `lib/LiefElfLoadImage.cpp`, `lib/SleighLift.cpp`, `lib/Pcode.cpp` | none of its own | bytes, p-code of an address range | libraries |
| native discovery | `NA` | `NativeProgramState`: seeds, functions, blocks, instructions, xrefs, unresolved flow | ordered analyzers that add facts; decode queue; block splitting; normalisation of flow facts | feeds the lowering |
| p-code lowering | `P2L`, `lib/RegisterStorage.cpp` | the function under construction; maps of temporaries, register pieces, GOT slots | blocks and edges; one lowering per p-code operation; x87 window; suppressed stack effects | register globals, partial-access helpers |
| ABI, prototypes | `lib/NativeAbi.cpp`, `lib/NativeExternalPrototype.cpp` | tables | register roles, shapes of external calls | constants of the summary |
| stack addresses | `SA` | stack pointer before every instruction | fixpoint over the blocks, classification of addresses | summary, frame rewrite |
| stack frame | `SF` | IR | frame pointer folding, native frame, late cleanup | before and after the SSA rewrite |
| bottom-up register summary | `NRS` 1436-2874 | per function a worklist, `In`/`Out` states; per module `Effects`, `StableFlows` | `sccs`, `runBottomUp`, `solveFunction`, `transferInstruction` | effect of a callee at its call sites |
| top-down demand | `NRS` 2876-3192 | `Demands`: `ExitDemand`, `EntryDemand`; worklist of functions | `analyzeCallerDemand`, `liveBeforeBlock`, `applyBackwardCallDemand` | reads `Effects`; callers and callees feed each other |
| callsite evidence | `NRS` 1690-1960 | origin facts in the block states | replay of each block, evidence per external call | feeds prototypes |
| register SSA rewrite | `SSA` | new functions, value maps, shapes | signatures, call rewriting, SSA, partial demand | consumes summaries and demands |
| peephole, final cleanup | `PH`, `NativeRegisterFinalCleanup.cpp` | IR | dead flags, narrowed reads, divisions; lowering of helpers | before the summary, after the rewrite, at the end |
| canary, varargs, function pointers | `NativeStackCanaryCleanup.cpp`, `NativeVarArgRewrite.cpp`, `NativeFunctionPointerPromotion.cpp` | IR | pattern rewrites | around the SSA rewrite |
| tools | `tools/` | options | order of the passes, output | |

What makes each correct, in one line: *discovery* never loses a successor or
leaves two blocks over the same bytes; *lowering* computes what the p-code
computes; the *summary* describes every run of the function; *demand* covers
every bit somebody observes and nothing else; the *SSA rewrite* keeps what the
program observes, and callers and callees agree on what goes where; the *frame*
takes every access to its bytes or none; *peephole and cleanup* change no value.

## The modules

```
discovery    GtirbFlow              GtirbFlowProofs

lowering     PcodeBlocks <- PcodeRuns <---+
             X87Window <------------------+- LoweringRuns
             OpLowering <- OpRuns --------+

summary      ChaoticIteration <-- refined by -- SummaryFlow <- SummaryRun
             RegisterLattice <- RegisterTransfer <-+
                                                   +- SummaryCallGraph ----------+
             CallComponents -----------------------+                             +- SummaryPasses
                                RegisterTransfer <- SummaryDemand <- DemandRuns -+
             proofs: in ChaoticIteration itself, SummaryFlowProofs (with the
                     lemmas on RegisterTransfer), SummaryRunProofs,
                     SummaryCallGraphProofs, SummaryDemandProofs

SSA rewrite  RegisterSSA <- RegisterSSARuns
             CallSignatures         CallSignaturesProofs

rewrites     LiftedCode <- MagicDivision (+ MagicNumbers) <- RegisterPeephole -+
                        <- PartialDemand --------------------------------------+- RewriteRuns
                        <- FinalCleanup ---------------------------------------+
                        <- StackFrames <- CanaryCleanup -----------------------+
```

An arrow points to the module that is extended. Modules in `...Runs` execute
what the module before them computes, on a machine of their own that is not
taken from the code (marked external in the map): the original and the result
side by side. `MC*` modules choose programs; `FlowPrograms` and
`LoweringPrograms` have constructors for them. A definition marked "Bug" in a
comment is a plausible mistake in the definition after it; no specification uses
it, it exists to show that a property would notice.

### Discovery

`GtirbFlow` begins with `addBasicBlock` and `ensureFunctionBlockStartsAt` as
functions on a block list. The loop over the list is modelled by what it leaves: every
block that holds the new start is cut there, and the new block at the nearest
start behind it; successors are sets, since their order is never used here.

The rest is discovery as the tools run it by default, with GTIRB in charge of
control flow: `importFunctions`, `importCfgEdges` (one function per step),
`importSeedRanges`, the decoding of the imported blocks, and
`FlowFactNormalizer::run` up to its last call. The folds are collected into the
list `folds`, a step per reference (`CollectFold`), and then carried out, a step
per copied block (`StartFold`, `CopyBlock`, `FinishFold`); a split is a step of
its own. The image is
an input and marked external. In this mode the decoder records no branch targets
and no branch kinds, so an instruction's recorded fallthrough is simply the next
instruction of its block (`FactIn`), and of the three loops of
`foldEhFrameOnlyBranchTargets` that propose folds only the one over references
can find anything. Left out: names, notes, sources of references (a call seen by
GTIRB and by the decoder are two entries, as in the code), entries
outside executable memory, and `recoverExternalFunctionPointerFlows`, which adds
references to external slots only. Assumed of the image: code blocks have
distinct starts, and every seed is of high confidence with a range inside one
executable section.

### Lowering

`PcodeBlocks` is what `P2L` makes of a function's control flow: which p-code
operations start an LLVM block, where the edges of a branch inside an
instruction, a conditional branch and a fallthrough lead, which temporaries are
read from the value of the same block, through a PHI of an internal block or as
unknown (`ReadMode`), and from which GOT slot an indirect call was loaded
(`LoadedFromSlot`). `PcodeRuns` walks the p-code and the LLVM blocks in step.

`OpLowering` is `RegisterStorage`, the overlapping pieces of a register kept in
one global, and `lowerOp` for every integer, Boolean, copy, load, store, call
and return operation outside terminators, with the x86 stack effects that are
suppressed around calls and returns and the `get_pc` thunk folded into a
constant. The lowered code is executed instead of written down: an operator such
as `RegisterWrite` maps the machine to the one after the emitted instructions.
`OpRuns` executes the p-code on bytes next to it.

`X87Window` is the window of two register globals over the eight slots of the
x87 stack: the classification of the instructions, the depth of the stack at
every block (`DepthsFrom`), and the pushes and pops that hand a slot over to the
runtime library. Next to it runs the stack the processor keeps. `LoweringRuns`
puts the three in one specification, since each program belongs to one of them.

### Summary

`RegisterLattice`, `RegisterTransfer`. A register's bits are a small set, a mask
is a set of bits, a `Cell` is the code's `Cell`: `MayEntry`, `MayNonEntry`,
`ReadEntry`. `State` is the code's `State`; its sparse maps stay sparse
(`Sparse`, `Put`, `Drop`), because a missing cell means "untouched" and the join
depends on it. An instruction is one of eight shapes, exactly those the code
tells apart; a call carries what the code finds out about its callee (a trusted
prototype, a summary, nothing). Each shape has one operator, and the order of
reads, restores and writes in it is the code's. Not in the state: the size and
float flag of a stack-argument store (`StackSlotStores`), which is written,
dropped and joined together with `StackSlotOrigins`. Constant addition to a value
is one flag, "non-zero offset".

`SummaryFlow` is `solveFunction`: `PopBlock` takes the front of the deque and
joins its predecessors, `TransferNext` is one instruction, `StoreResult` compares
and stores the result, `EnqueueNext` is one call of `enqueue`, `CollectExits`
makes the effect. `CollectEvidence` selects the change test.
`ChaoticIteration` is what the worklist promises: any waiting block may be
visited next, over any domain. `SummaryFlow` implements it (`SolvesChaotically`:
the deque, the successors about to be queued and the block in work are together
the abstract set of waiting blocks; a visit is one abstract step, the rest
stutters).

`SummaryRun` says what a summary means. After the analysis a machine executes
the function; a bit of the machine is a tag, "entry value of bit b of register r"
or "other". Next to it the block states are replayed, as the callsite-evidence
pass does, and at every instruction the abstract state must describe the machine.

`CallComponents` is `sccs` (Tarjan), a frame per active `visit`, with callees in
any order since the code iterates a set of pointers. `SummaryCallGraph` is
`runBottomUp` on top of it. Inside a function it uses paths instead of blocks,
so that modules of five functions stay small; a call to a function that has no
effect yet falls to the unknown-external case, as `transferCall` does (`Resolved`).

`SummaryDemand` is `runTopDownDemand` with `analyzeCallerDemand` unrolled to
one instruction per step; `MergeAddition` and `WakeCaller` take callees and
callers in any order, since the code iterates maps and sets of pointers.
`DemandRuns` computes from the reference runs what is observed after each
function returns, and the least demands by one simultaneous iteration.
`SummaryPasses` is `Analyzer::run`: the bottom-up pass, and the demand pass on
the effects it ended with. Next to them it computes all finite runs of a module
(outcomes: bits overwritten, entry bits read, returned or left the program),
which the effects are compared with.

### SSA rewrite

`RegisterSSA` is the first pass of `FunctionBuilder` over a function: the ranges
of every register, the search for the value of a range through predecessors with
its PHIs, incomplete and completed, their simplification, what a call leaves in
a register, the merging of duplicate reads, the arguments put together from
ranges, and the dead stores. `RegisterSSARuns` executes both versions; a bit is a
token that tells where it was made.

`CallSignatures` is the signature part: shapes from summary and demand, stack
parameters through tail calls, the phases of refinement, external and variadic
calls, the arguments and the returned ranges at every call site. One action per
phase; the properties are about every phase in which they should hold. The order
of returned slots, and of variadic arguments among each other, is left out. What a
property compares is where a value comes from: written before the call, the
caller's at its entry, left by an earlier call, or unknown. Reads behind a call are of
ranges. `PlannedRanges` cuts every register of a function where the code does: at the
parts its instructions access (`parts`, and `uses` for those read behind a call), at
its own entry reads and exit demand, at its callees' parameters and at the float
lane, and not at what its callees return. A range the callee never writes keeps the
caller's value; any other is taken out of a return slot that holds it whole, or is a
clobber.

### Rewrites

`LiftedCode` is IR as a sequence of blocks of instructions named by identity, and
what every instruction computes, poison included. The passes over it are
functions on code: `RegisterPeephole` (both entry points; `MagicDivision` is the
recogniser of divisions and `MagicNumbers` its arithmetic), `PartialDemand`
(`computePartialDemands`, `rewritePartialWrites`), `FinalCleanup`, and
`StackFrames`, which is all of `SA` and `SF`: the stack pointer at every
instruction, the frame pointer loads that are folded, the accesses below the
entry that move to a local array, and the late cleanup of what the array and the
registers no longer need. `CanaryCleanup`
removes stack canary checks behind the frame rewrite, for one function: which
comparisons compare the saved canary with the thread-local one, which successor
reports the failure, and what goes with a check. `RewriteRuns` executes a program
one instruction per step, first as it is and then rewritten, and compares what
memory, calls, branches and the caller see.

## The runs

Twelve runs, eight that pass and four that show a disagreement with a comment or
a log.

| run | what is in it | shows |
|---|---|---|
| `worklist` | every graph of three blocks, a gen/kill domain | an empty queue is a fixpoint and the fixpoint is the meet over all paths, in every order of visits |
| `function_runs` | functions of one to four blocks, loops and diamonds, saves, restores, partial accesses, calls | the solver is typed, ends, ends at a fixpoint and implements the abstract worklist; then the machine against the analysis: preserved bits hold the entry value, slots and values what the state says, callsite evidence is what happened, the effect holds at every exit, reads are recorded |
| `module_passes` | modules of two to four functions that call each other in every way; modules with loops for the demands | components are the recursion groups, callees first; effects agree with each other, cover all finite runs, and the kept flows use them; demands are the least consistent ones and cover every observed bit; both passes end |
| `discovery` | images of three pieces of code with two or three jumps between their ends and starts, calls, unwind entries, shared and overlapping blocks | blocks stay disjoint, edges stay local, none is lost, code leaves the functions only with the fold of finding 4, code with several owners is not folded |
| `lowering` | functions of three instructions with internal branches; operations over overlapping registers; up to three x87 instructions after two loads, diamonds and loops | the LLVM block executed is the one that holds the p-code operation, temporaries have their p-code value, registers, memory and calls agree after every instruction, the window and the library together hold the x87 stack and the depth is exact |
| `register_ssa` | functions of one to four blocks over two registers of two bits: straight, diamond, switch, loops, an irreducible loop | every read sees the bits it saw before, the caller finds the same registers, calls get the same arguments |
| `call_signatures` | modules of a few functions: wrappers with tail calls, externals, variadics, chains of returns | what is passed in a place is what the callee reads there, a stack argument is known when it is read, a read behind a call sees the callee's bits, the caller's own or nothing, and all of an access that is returned whole; four bits per register, with callees that write every kind of set of them (low, high, with holes) and callers that read whole, low, high and cut registers |
| `rewrites` | 359 programs for the passes of `LiftedCode`, every input of four bits | the rewritten program shows the same values wherever the original showed one that is not poison, without its canary checks too; an address the stack analysis claims is the address |
| `negative_divisor`, `stale_pointer`, `passes_ring`, `discovery_lost_fragment` | | expected violations, below |

Every property of a passing run has a mutant in `PROJECT.json`: a change of one
definition, such as the code could have, that makes the run fail.

### Bounds

*Registers and bits.* Two bits per register tell a partial access from a whole
one, and masks act bit by bit. Three registers have three roles: argument,
callee-saved, stack pointer. One stack slot suffices for the summary, because
slots interact only through the exit rule. Four blocks give a loop whose first
visit sees stale input and a diamond that is visited before its predecessors.
Three functions are the smallest ring with a member outside a two-cycle.

*Images.* Three pieces, one of them with two blocks and one with a code block
in its middle, are enough for a fold whose owner is folded itself, for a copy
that lands inside, in front of and behind a block of its owner, and for a split
that meets an edge in each direction; a third jump decides whether a fragment has
one owner.

*Lowering.* A byte has two bits and a pointer two bytes; a register with two
halves, one of them with two halves again, one with a low part, a stack pointer,
a flag and two that overlap without nesting. Native blocks begin at 1, 2, 3 or
at 1, 2, 4 with a hole; an instruction has the internal branches of CMOV or of
REP.

*Rewrites.* Registers have eight bits; a dividend has four, with products of
eight, so that every dividend is divided with every magic number and every
shift. The proofs in `MagicNumbers` are for every width. A byte of the frame has
two bits, an address eight. `MaxBlocks` bounds the blocks of a run.

### Fairness

Weak fairness of the whole next-state relation: the code is a sequential program
inside `while` loops and always takes its next step. `Terminates` and
`PassesTerminate` use it. `CHECK_DEADLOCK FALSE` because every pass stops when
it is done.

## What the runs found

Four runs expect a violation. Each checks one statement of a comment or a log.

1. `negative_divisor`. `matchSignedMagicMulChain` (`PH` 645-722) walks over the
   operands of a `sub` root without asking which is which, so `sign - shifted`,
   the form of x / -3, is rewritten to x / 3.
2. `stale_pointer`. `SourceRamByVarnode` (`P2L` 3412-3450) survives block
   boundaries, partial writes and calls, so a pointer loaded from a GOT slot on
   one path counts as loaded from it after the join.
3. `passes_ring`. A recursion group is iterated from "callee unknown", not from
   the bottom of the lattice, and `NoReturn` can flip both ways, so the rounds at
   `NRS` 1592 need not end. The run shows five functions whose effects
   circulate for ever. The design log argues from the finite domain.
4. `discovery_lost_fragment`. `foldEhFrameOnlyBranchTargets` collects its folds
   first (`NA` 4860-4928) and then carries them out. When a fragment's owner was
   itself folded in between, `addBasicBlock` does nothing and the fragment is
   removed all the same; so is a fragment that counts as its own owner. `CodeStays`
   says that this is the only way code gets lost in an image whose overlapping
   code ends together, and `EdgesKept` is stated for images that lose none.

Other disagreements met while modelling have no run of their own. Where one
concerns a property, the programs of the run or the property leave the case out,
and it is named here.

*Discovery.* `addBasicBlock` shortens the new block to the next start, and what it
had behind the end of the block there is in no block any more: an owner with [1,3)
and [4,5) that takes over a fragment [3,6) loses 5. `CodeStays` has the
hypothesis `EndTogether` for that; overlapping code of one instruction stream ends
at the same jump. When two functions list the same code, a fold changes who owns it
after the later folds were decided, so a fragment can go to a function that by then
does not hold the jump to it; `FoldedHasOneOwner` and `EdgesKept` leave shared code
out (`Unshared`).

*Summary.* Without callsite evidence the change test (`NRS` 1646-1648) compares
reachability and cells only, so a block whose slot or value facts alone changed
does not wake its successors, and the results are not the fixpoint that the
comment at 1621 promises; `ResultsAreFixpoint` is about evidence being
collected, as the pipeline has it. A call to a body that does not return clears
the demand and adds nothing (3064, unlike externals at 3086), so the bits that
body reads are not asked of functions called before it: `CalleesReturn`. A value
loaded from a register that is overwritten before the value is used (exchange)
is not recorded as an entry read (2619). Nor is a value loaded in one predecessor
of a block and used by a PHI there: a load records nothing (1993-2018), a PHI marks
its operands like any other instruction (2186, 2631-2636), but in the joined state,
which has dropped the origin that only one predecessor knew. So `ReadEntry` does not
say "whether the function entry value may have been read"
(`NativeRegisterSummary.h` 138-139), and a parameter used in one arm of a conditional
only can be lost: the lifter makes such PHIs (`P2L` 3514-3517), and SimplifyCFG runs
before the summary (`notdec-native-llvm.cpp` 1094-1095). The proof of `ReadsProved`
showed the case; with `PhiPrograms` of `MCSummaryRun`, which no run has, TLC finds
`ReadsAtExitRecorded` violated. Entry reads on a path that never ends
are lost, since the effect is built from exits (1657-1687):
`ReadsAtExitRecorded`. `FloatLocal` bits survive a call although they are
described as a subset of `Local` (253); `CallsiteEvidenceHolds` uses the
intersection, as the readers do. A part of a callee-saved register that is spilled
counts as a home of the whole register (2098 does not look at the width), and the
reload as a restore; `EntryValuesInPlace` leaves such registers out (`SavedInPart`).

`runBottomUp` compares the first effect of a function with a default-constructed one
(1597). When the first round leaves every member of a recursion group without an
effect, nothing has changed, and the rounds stop although members were solved with
callees unknown, so the comment at `StableFlows` ("The last SCC iteration is already
solved against stable callee effects", 1463) is not true of them.
`EffectsAreFixpoint` and `StableFlowsUseFinalEffects` name the exception
(`EndedUnknown`) and `EarlyStop` in `FlowPrograms` meets it. It can cost a read: let f
be {return; or store RDX, call g, read RAX, exit} and g be {return; or call f, for
ever}, g first. f is then read as if g overwrote RAX, the read is not in f's effect,
and neither `EffectsCoverRuns` nor `ObservedBitsDemanded` holds. So `EffectsCoverRuns` is
stated for modules whose effects are a fixpoint. The callers woken at 2911 are
analysed again for nothing, see `CallIgnoresExitDemand`.

*Lowering.* A temporary set to a constant before a loop inside its instruction
(BSF's counter) is read as that constant in every turn, against the comment at
`P2L` 3483-3487. A temporary defined before an internal skip and read behind it
is unknown on the edge that does not skip. A conditional branch to its own
fallthrough is rejected. The cache of temporaries is keyed by the exact varnode,
so a part written later does not show in the whole (3372); `OpsAgree` assumes
temporaries of different size do not share bytes. The scan for a `get_pc` call's
addition (998-1034) steps over instructions that see the register too early; flags
of the addition are lost; a thunk call that is not folded reads the caller's stack
top, because its return address was suppressed. `narrowMaskedRegisterReads` is
wrong for big-endian registers; the models are little-endian.
`computeX87BlockDepths` does not count a value a call returns in ST0, against the
comment at 1827; `WindowHoldsStack` leaves such functions out.

*SSA rewrite.* Behind a call whose callees differ, `entryFallback` passes the
value at the function's entry, against `Arch2.md` 500-501. A return slot in
the upper part of a register is extended without a shift (`SSA` 8431-8478, comment
at 1976), so the bits of AH arrive as those of AL or as zeros; `ReturnsArrive` leaves
such slots out (`AtBitZero`) and would not catch it. A range wider than the slot is a
clobber as a whole: `extractReturnRange` asks that all of it lies in the slot
(8323-8327), and `planRegisterRanges` does not cut at the slots of callees'
returns. Behind a callee that writes only AL, a caller that reads EAX or RAX loses
AL, and the upper bits, which the callee leaves alone, too, although
`transferRangeInstruction` says that its test is made for every bit (6328-6330).
`ReturnsArrive` allows it: a bit may be unknown unless the access is all returned, or all
left alone. `propagateTailCallStackParams`
(3576-3627) skips callers without a shape, against its comment.
`addDemandedExternalReturns` (3235-3346) adds a float and an integer return to the
same prototype. `shapeForInternalFunction` returns early for a function that reads
nothing (1856, comment at 1869). Float varargs of an internal variadic function are
never passed (7143-7147). An indirect call whose result is never read gets no
shape. Stores of arguments to erase are collected before the
shapes are refined (7112-7123) and erased afterwards (9443). At a jump that stores its
second stack slot and leaves the first as it is, `f(a, b) { return g(a, b + 1); }`, the
binding of stack slots stops at the first (7284). The value of the second is in the
table read per slot, which is there to fill such gaps (355-358), but
`rewriteSignatureShapes` asks `tailCallStackValue` first (9189) and passes the `b` that f
was called with. The proof of `EveryArgumentInPlace` showed the case. With the modules
`SecondStored` of `MCCallSignatures`, which no run has, TLC finds `ArgumentsInPlace`
violated.

*Peephole.* The signed form accepts a power of two as magic number, where the
rounding of negative dividends is off. `solveUnsignedAddMagicDivisor` does not ask
that the divisor is one below a power of two, against its comment (`PH` 399-406). A
divisor of 2^(W-1) or more becomes a negative constant of an `sdiv`. The narrow
signed form looks at the product with a logical shift. The corner check of the
correction form leaves out the largest dividend; no wrong case was found. A
search from a store counts its own block as visited, so a loop over that block
never looks at what stands before the store (comment at 1509). `rewriteLoad` makes
the partial read at the truncation, behind writes in between (91-152).

*Partial demand.* An old value that is masked and combined with new low bits gets
poison, and with it the whole (against
`docs/analysis/simple-efficient-ai-register-elimination.md` 232-235). Of
`(zext a + zext b) >> 8` nothing is demanded of a and b (comment at `SSA` 4499).
The condition of a select is not demanded (4446).

*Stack.* `stackAllocaStoreIsLoaded` (`SF` 911-920) knows a load by its pointer, so
in a function that gives its frame to nobody a store that is read in part or
through an overlapping slot is erased. The header promises that stores into
escaped frames are never treated as dead (`NativeStackFrame.h` 46-48), but
`valueIsRegisterSpill` lets spills go. An access through an address the analysis
does not know (an aligned stack pointer, or one that differs between paths) is
taken to be disjoint from the frame; the programs keep to that. Frame pointer
loads in blocks behind the epilogue's restore are not folded, and accesses through
them stay in the machine's stack, while the others moved: "less folded, never
folded wrong" (comment at 250) is true of the folding alone. The final fill
(`SA` 257-265) clears what it had, so a loaded stack pointer whose block comes
later in function order is unknown.

*Canary.* `eraseStackCanaryPredecessor` erases the only store of the saved canary
with the first check (1213), although a check that cannot be removed may load the
slot later, and the store of ZF with its check (1219-1221), although ZF may be read
later. Every load from the frame counts as the saved canary (561-568). The low
half of a saved canary is accepted against the whole of the other (570-596).
The programs have one slot, checks that read all of it, and no other reader of ZF.

### Assumptions of the reference machines

*Summary.* Callees keep the ABI's unaffected registers; external calls overwrite
every other register that is not a segment base; callees do not write the caller's
tracked slots; slots do not overlap; a whole-register store stores a whole value
and a reload of a stack-alignment slot yields nothing known. Reads of the stack
pointer and of callee-saved registers are not asked for. Modules with loops enter
the demand pass with exactly the effects of their runs, and runs that never end are
not counted.

*Lowering.* Shift counts are below the width (plain LLVM shifts give poison for
larger ones), a division by zero has no result on either side, functions called
keep the stack pointer where the ABI puts it.

*Rewrites.* Signed chains leave out powers of two and divisors above the signed
range, chains with a correction have a divisor one below a power of two, the narrow
signed chain is observed through its truncation; the programs for partial demand do
not combine an operand without demand into one with demand; between a full load and
its truncation the register is not stored. Where the original shows poison the
rewritten code may show anything. A callee given an address of the frame reads the
bytes it is told about and writes the first of them; bytes nobody wrote are poison.
Runs leave the saved canary intact: a run that overwrites it is what the removed
check was for.

## What is proved

All proofs are checked by TLAPS, for every value of the constants.

* `WorklistFixpoint` (ChaoticIteration): if the change test is exact, an
  empty worklist is a fixpoint, for any graph, domain, transfer function and
  visiting order. The inductive invariant is `SettledUnlessQueued` (a block that
  is not waiting agrees with its inputs) with the shape of the variables: a visit
  disturbs only the inputs of the successors, and those are queued.
* `SolverIsChaotic` (SummaryFlowProofs): `SummaryFlow` implements `ChaoticIteration`
  for every function. Every action maps to a visit or a stutter; what makes
  `StoreResult` a visit is that the successors still to be queued count as waiting
  and that the state carried through the block (`AfterEach`) is the transfer of the
  joined inputs.
* `SummaryFixpoint` (SummaryFlowProofs): the finished solver holds a solution of the
  dataflow equations, when evidence is collected. It follows from the refinement's
  invariant: a block neither queued, nor about to be, nor in work agrees with its
  inputs.
* `SummaryTypes` (SummaryFlowProofs): `TypeOK` of the solver, including that
  every cell covers its bits. It is inductive as stated; the work is in
  `TransferInstructionType`, one lemma per instruction
  shape, and in the join. Coverage is what makes "not `MayNonEntry`" mean
  "preserved" and it is not maintained by any check in the code.
* `EntryValuesProved`, `CallsiteEvidenceProved`, `EffectProved` (SummaryRunProofs): the
  summary of a function describes every run of it, of any length, when evidence is
  collected. The inductive invariant is `RunInv`. Of the solver it takes that it
  ends at a fixpoint with the effect built from the exits (`SettledInv`,
  `InputsSettled`, `EffectIsOfExits`), of the machine its types, and then
  `Describes`: registers not called `MayNonEntry`, slots and values with an origin
  hold entry values (`CellsHold`, `SlotsHold`, `ValuesHold`), a value with an origin
  was defined (`OriginsDefined`), a bit nothing was written to is `MayEntry`
  (`UnwrittenMayBeEntry`), and the evidence happened (`EvidenceHolds`). There is one
  lemma per instruction shape. At the end of a block, `JoinSaysLess` and
  `PruneSaysLess` show that a join and the pruning of values only take statements
  away, so what the block left still describes the machine when the next begins.
  `CollectEvidence` is a hypothesis: without it the first two are false, TLC finds the
  stale state, and the third holds in every instance tried.
* `ResultsWeaken` (SummaryFlowProofs): a new result of a block never claims more
  than the one it replaces (`OnlyWeaker`), with or without evidence: what is not
  `MayNonEntry`, the slots of saved registers and the origins of values can be lost, not
  found. An instruction is monotone in what a state claims (`WeakensInstruction`),
  and so are the join and the pruning of values. The inductive invariant
  `Ascending` says that what a block would get from its inputs as they are now never
  claims more than its last result.
* `ReadsProved` (SummaryRunProofs): `ReadsAtExitRecorded`. A read is recorded when a
  value is used, not when it is loaded, so the invariant has to say where the entry
  values are that were not recorded: a register holds its own or recorded ones, a
  slot recorded ones or those of a callee-saved register, and a value, wherever it
  may be used, has an origin for those it holds; bits that were overwritten do not
  count (`ReadsInv`). A value keeps its origin on the way to its uses
  (`OriginKept`): in the blocks reached only through the block that defines it
  (`Behind`) every predecessor has it. While the solver runs, a block behind may have
  been visited with an older result, but results only weaken, so an origin that the
  last result still has was never missing. The hypotheses are that evidence is
  collected and `ReadsVisible`: values are used behind their definitions (which a PHI
  does not, see *Summary* above), no value is stored to an ignored register as it is,
  and there are no instructions of the two shapes that the code takes for no reads.
  `MCSummaryRun` states `ReadsVisible` of all programs of the run, and TLC evaluates it.
* `DemandTypes` (SummaryDemandProofs): the queues hold no function twice and the
  backward walk stays inside the function.
* `CallIgnoresExitDemand` (SummaryDemandProofs): the demand before a call does
  not depend on the callee's `ExitDemand`, for every effect: what the rule adds
  is live already.
* `DemandsLeastProved` (SummaryDemandProofs): when the demand pass ends, its demands
  are a solution, and the least one. `IsSolution` gives every position of every block
  a demand: each is what the instruction makes of the next, the end of a block is what
  its successors and the exit ask, and a call asks no more than its callee's
  `ExitDemand`. `SolvingInv` says that a function neither queued nor being visited
  agrees with the demands and with what was *promised* of its callees (a merge that is
  still to come counts), and how far the walk of the round has come; that a callee's
  growing `ExitDemand` leaves its callers settled is `CallIgnoresExitDemand`, so waking
  them is not needed. `BelowSolutions` says that nothing computed so far exceeds any
  solution: all rules are monotone. The runs' `DemandsAreLeast` compares with one
  least solution that is computed by iteration.
* `DisjointBlocksStay` (GtirbFlowProofs): for every set of images, the blocks of a
  function stay disjoint if GTIRB listed disjoint blocks for it. The inductive
  invariant `FlowInv` adds what a step reads: functions and the blocks being copied
  are lists of non-empty blocks, and a seed without function has the size the
  image gave. The work is in `AddKeepsDisjoint`, which holds for any block, so it
  does not matter which fragment is folded where. The least start behind the new
  block exists by the well-foundedness of the naturals.
* `EdgesStay` (GtirbFlowProofs): edges stay inside the function. While a fragment is
  copied its edges may lead to blocks still to come, so `EdgesInv` counts their
  starts too, and says the same of the blocks on their way. `AddKeepsEdges` is the
  lemma: a block cut in two hands its edges to its second half.
* `CodeStaysProved` (GtirbFlowProofs): the action property `CodeStays`. That a step
  uncovers nothing is not inductive: shortening a block to the next start needs that
  the block there goes on to where the old one ended. `CodeInv` says so: every block is
  followed by another of its function, up to the end of the listed code it comes
  from. With `EndTogether` the blocks that overlap have the same end
  (`SameEnd`), and no address before it can be the first one without a block
  (`RunsToEnd`).
* `FoldedOwners` (GtirbFlowProofs): `FoldedHasOneOwner`. The folds were decided on
  ownership before the first of them, and ownership changes with each. `OwnerInv` says
  what of it survives: unshared code has one holder (`OneHolder`), whoever holds the jumps to the target of
  a pending fold is its owner (`FoldsFit`), and what was folded already has its jumps
  where it is (`FoldedFit`); during a copy the two functions count as one.
* `ComponentsProved` (SummaryCallGraphProofs): Tarjan's search emits the recursion
  groups, callees first, for every call graph and every order of callees. `SearchInv`:
  functions are numbered in the order of visits (`Numbered`); the path holds the
  visited functions that were not emitted (`Parted`); an active function reaches all
  that lies above it on the path, and all on the path reach an active one below or at
  it (`Connected`); every call of a function that is left was followed (`Followed`); and
  an active lowlink is the number of a function it reaches, at most that of any callee on
  the path its visit has met (`LowBounds`). When a group is popped, its lowlink
  says that no call leads from it to what is below on the path, so it is closed under
  calls but for what was emitted, and whoever calls it back is in it.
* `StableFlowsProved`, `FixpointProved` (SummaryCallGraphProofs): the rounds of every
  component end with effects that agree with each other, but for the exception named
  above. `SolveInv` has three parts: each effect is what solving the function gave with
  the record of callees (`SolvedFromRecord`); what was solved so far is a prefix of
  the components (`Progressed`); and a function of a finished component, or one already
  solved in a round that changed nothing, knew its callees as they are now
  (`Settling`). That calls only lead to earlier components is `ComponentsProved`. Nothing
  is said about whether the rounds end: they need not (finding 3).
* `SignaturesWellFormed` (CallSignaturesProofs): `SignatureInv` of the signature
  rewrite. Arguments are recorded for the first shapes and used for the last ones, so
  the invariant says what of the record survives the cuts: a recorded value is the one
  read for the slot it was recorded with, which is still the parameter of that number,
  and a parameter that is not bound stands behind one of its class without a value
  (`AllRecorded`). After the cuts an indirect call has all its arguments
  (`IndirectBound`), and so have the calls of a function whose stack parameters were
  cut (`CallsBound`); a caller that jumps keeps its target's stack parameters
  (`JumpsKept`); returns are what summary and demand make of them (`ReturnsKept`).
  `SignatureTypeOK` and `InOrder` are types and the driver.
* `EveryArgumentInPlace`, `EveryStackArgumentKnown`, `EveryReturnArrives`
  (CallSignaturesProofs): the run's three properties follow from `SignatureInv` at the
  step that rewrites the calls. The first needs `JumpsStoreInOrder`: the stores of a
  jump have no gap in the order of its target's stack parameters; what happens
  otherwise stands below the findings. It was checked to hold for the modules of the
  run. The third has no hypothesis: the slots it is not about are named in the
  property. Its argument is that no range crosses an end of an access
  (`RangeInPart`, by the lowest bit at which the range would leave it), that the slot
  made for a set of bits holds all of them (`ReturnSlot`), so that every range of an
  access that is returned whole is in the slot (`RangeHeld`), and that a slot from bit
  0 that holds a range has a value for each of its bits (`BitSeen`).
* `UnsignedQuotient`, `SignedQuotient`, `CorrectedQuotient` (MagicNumbers): at every
  width, the divisor the code solves for is the one the chain divides by. The
  argument is the usual one on the error of the magic number: its product with the
  dividend stays below one quotient step. `SignedQuotient` needs a magic number
  that is not exact and `CorrectedQuotient` a divisor one below the power of two,
  neither of which the code asks for, and it leaves out the largest dividend.

Assumptions: `ImagesAssumption`, `RegisterSetsAssumption`, `ProgramsAssumption`,
`EvidenceAssumption`, `SuccsAssumption`, `ModulesAssumption`,
`DemandModulesAssumption` and `SignatureAssumption` (its modules are closed under
callers, and their facts are about bits a register has), each of them the shape of the inputs, evaluated by TLC in
the runs; and `LiftedAssumption`, three facts about functions that the theorems of
`SummaryRunProofs` need. Nothing branches to the entry block and an SSA value has
one definition: LLVM's verifier rejects anything else. The result of a partial
read is never stored to a whole register: it is narrower than the register, and
such a store has the register's width.

Only model-checked:

* Liveness (`Terminates`, `PassesTerminate`): TLAPS has no fairness rules here.
* What is compared with a recursive definition or by induction over paths:
  `PathSolution`, `EffectsCoverRuns`, `DemandsAreLeast`, `ObservedBitsDemanded`. The
  library's induction theorems cannot be instantiated. (`DemandsLeastProved` states
  leastness without the recursion.)
* The lowering, the construction of SSA and the passes over `LiftedCode`: their modules use
  RECURSIVE operators, which the prover does not reach.
* `EdgesKept`: an edge recorded under an address is followed through every later
  split and fold, which relates three tables over the whole history.

## Not modelled

* *Canary cleanup across functions.* A function that only calls `__stack_chk_fail`
  counts as that call in `CanaryCleanup`; its removal when nobody calls it any more
  is bookkeeping.
* *Variadic calls, prototypes, ABI.* Tables and the parsing of format strings. What
  they produce (counts of arguments, shapes of external calls, register roles) is
  an input of `CallSignatures` and of the summary models.
* *Function pointer promotion.* One scan of constants against a table of entries.
* *Loading, SLEIGH, p-code containers.* Adapters to libraries, without state of
  their own.
* *Tools.* Options, printing and the order of the passes; the order is what the
  programs of `RewriteRuns` are named after.
* *Discovery without GTIRB*: recursive decoding from seeds with its limit
  (`NA` 3135), the other half of the normaliser, jump tables, indirect flows. Its
  result depends on the decoder at every step, which is external.
* *Lowering*: SSE and other floating-point operations, unknown user operations and
  helper calls, which become calls of opaque functions.
* *SSA rewrite*: the phase after the signatures, whose values enter
  `CallSignatures` as inputs, types of printed prototypes, the direction flag's
  constant.
* *Inputs of the summary that the code computes*: which addresses are stack slots,
  which slots are stack-alignment pushes (`registerValueDiesAfter` gives up after
  64 blocks, `NRS` 2289), which bits of an SSA value matter.

What would come next: `SamePlace` of `PcodeBlocks`; `EdgesKept`; the composition of
`StackFrames` with `SummaryRun`, so that the slots of the summary are computed
rather than given.
