----------------------------- MODULE GtirbFlow -----------------------------
(***************************************************************************)
(* Functions and control flow as the tools discover them by default: the   *)
(* import of a GTIRB image (functions, blocks, edges), the fallback        *)
(* functions from seed ranges, the decode of the imported blocks, and the  *)
(* normalizer, which merges cold fragments into the functions that jump to *)
(* them and splits blocks at the ends of the remaining edges.              *)
(*                                                                         *)
(* An image is a record:                                                   *)
(*   code      the size of the instruction at each address                 *)
(*   traps     the addresses of UD2                                        *)
(*   calls     address of a direct call -> its target                      *)
(*   blocks    GTIRB code blocks, start -> end                             *)
(*   owned     entry -> its blocks' starts, ascending                      *)
(*   edges     the GTIRB edges [from, to, kind], in the order of the CFG   *)
(*   seeds     entry -> [sources, end], from symbols and .eh_frame;        *)
(*             end is 0 when the size of the function is not known         *)
(*   runtime   the entries of runtime functions                            *)
(*   skip      RuntimeFilter.SkipRuntimeFunctions of this run              *)
(***************************************************************************)
EXTENDS Integers, SequencesExt

CONSTANT Images   \* the images that may be imported

\* Code blocks are not empty (importFunctions skips those that are), and a
\* function lists code blocks.
ASSUME ImagesAssumption ==
  \A i \in Images :
    /\ \A s \in DOMAIN i.blocks : s \in Nat /\ i.blocks[s] \in Nat /\ s < i.blocks[s]
    /\ \A e \in DOMAIN i.owned : e \in Nat /\ i.owned[e] \in Seq(DOMAIN i.blocks)
    /\ \A e \in DOMAIN i.seeds : e \in Nat /\ i.seeds[e].end \in Nat

-----------------------------------------------------------------------------
(* The basic blocks of a function, as NativeProgramState keeps them:       *)
(* addBasicBlock inserts a block and splits or shrinks what it meets.      *)
(*                                                                         *)
(* A function is [lo, hi, blocks, source]: its byte range, its blocks in   *)
(* insertion order, and the analyzer that found it.  A block covers        *)
(* start .. end - 1.  Instruction facts map the address of a decoded       *)
(* instruction to its size and its recorded fallthrough (0: none).         *)

Block(s, e, succ) == [start |-> s, end |-> e, succ |-> succ]

Overlap(x, y) == x.start < y.end /\ y.start < x.end

\* No address belongs to two blocks.
DisjointBlocks(blocks) ==
  \A i, j \in DOMAIN blocks : i # j => ~Overlap(blocks[i], blocks[j])

BlockStarts(blocks) == {blocks[i].start : i \in DOMAIN blocks}

Holds(b, a) == a \in b.start .. b.end - 1

\* functionBlockContaining: the first block that holds the address, if any.
HasBlockContaining(blocks, a) == \E i \in DOMAIN blocks : Holds(blocks[i], a)

BlockContaining(blocks, a) ==
  CHOOSE i \in DOMAIN blocks :
    Holds(blocks[i], a) /\ \A j \in DOMAIN blocks : j < i => ~Holds(blocks[j], a)

\* An instruction of start .. target - 1 runs into the target.
FallsThrough(facts, start, target) ==
  \E a \in DOMAIN facts :
    /\ start <= a /\ a < target
    /\ facts[a].fall = target /\ a + facts[a].size = target

\* The edge a split leaves between the two parts.
SplitEdge(facts, start, target, succ) ==
  IF target \in succ \/ FallsThrough(facts, start, target) THEN {target} ELSE {}

\* Bug: no block is cut.
CutAtNever(facts, x, a) == x

\* A block that begins inside x cuts x short.
CutAt(facts, x, a) ==
  IF x.start < a /\ a < x.end
  THEN Block(x.start, a, SplitEdge(facts, x.start, a, x.succ))
  ELSE x

BlocksAhead(blocks, b) ==
  {i \in DOMAIN blocks : b.start < blocks[i].start /\ blocks[i].start < b.end}

FirstOf(S) == CHOOSE i \in S : \A j \in S : i <= j

NearestOf(blocks, S) == CHOOSE i \in S : \A j \in S : blocks[i].start <= blocks[j].start

\* The new block stops at the nearest block behind it.  The loop cuts at every
\* block it passes and drops the edges each time, so an edge to the nearest one
\* survives only when that block is met first.
CutNew(facts, blocks, b) ==
  LET ahead == BlocksAhead(blocks, b)
      stop  == blocks[NearestOf(blocks, ahead)].start
      kept  == IF blocks[FirstOf(ahead)].start = stop THEN b.succ ELSE {}
  IN  IF ahead = {} THEN b ELSE Block(b.start, stop, SplitEdge(facts, b.start, stop, kept))

\* A block that starts where an old one does joins it, or shortens it.
SameStart(x, b) ==
  IF b.start # x.start \/ b.end > x.end THEN x
  ELSE IF b.end = x.end THEN [x EXCEPT !.succ = @ \cup b.succ]
       ELSE Block(x.start, b.end, b.succ)

AddBasicBlock(facts, f, b) ==
  IF b.start >= b.end THEN f
  ELSE IF b.start \in BlockStarts(f.blocks)
  THEN [f EXCEPT !.blocks = [i \in DOMAIN @ |-> SameStart(@[i], b)]]
  ELSE LET new == CutNew(facts, f.blocks, b) IN
       [f EXCEPT !.blocks = Append([i \in DOMAIN @ |-> CutAt(facts, @[i], b.start)], new),
                 !.lo = IF new.start < @ THEN new.start ELSE @,
                 !.hi = IF new.end > @ THEN new.end ELSE @]

\* ensureFunctionBlockStartsAt: splits the block that holds the address.
EnsureBlockStartsAt(facts, f, a) ==
  IF a \in BlockStarts(f.blocks) \/ ~HasBlockContaining(f.blocks, a) THEN f
  ELSE LET whole == f.blocks[BlockContaining(f.blocks, a)] IN
       AddBasicBlock(facts, f, Block(a, whole.end, whole.succ))

-----------------------------------------------------------------------------
VARIABLES
  image,        \* the image being imported
  seeds,        \* FunctionSeeds: entry -> [sources, end, isEntry]
  functions,    \* Functions: entry -> function
  xrefs,        \* Xrefs, in the order they were added
  facts,        \* Instructions: address -> [size, fall]
  pc,           \* the step the analyzers are at
  todo,         \* what the loop of this step has left
  folds,        \* the folds found: owner and target, in order
  copying       \* blocks of a folded function still to be copied

vars == <<image, seeds, functions, xrefs, facts, pc, todo, folds, copying>>

Init ==
  /\ image \in Images
  /\ seeds = [e \in DOMAIN image.seeds |->
                [sources |-> image.seeds[e].sources, end |-> image.seeds[e].end, isEntry |-> TRUE]]
  /\ functions = <<>> /\ xrefs = <<>> /\ facts = <<>>
  /\ pc = "functions" /\ todo = <<>> /\ folds = <<>> /\ copying = <<>>

Ascending(S) ==
  [n \in 1..Cardinality(S) |-> CHOOSE a \in S : Cardinality({b \in S : b < a}) = n - 1]

-----------------------------------------------------------------------------
(* Import.                                                                  *)

Skipped(e) == image.skip /\ e \in image.runtime

ImportedBlocks(e) ==
  [i \in DOMAIN image.owned[e] |->
     Block(image.owned[e][i], image.blocks[image.owned[e][i]], {})]

Lowest(blocks) == CHOOSE a \in BlockStarts(blocks) : \A i \in DOMAIN blocks : a <= blocks[i].start
Highest(blocks) ==
  CHOOSE a \in {blocks[i].end : i \in DOMAIN blocks} : \A i \in DOMAIN blocks : blocks[i].end <= a

FunctionOf(blocks, source) ==
  [lo |-> Lowest(blocks), hi |-> Highest(blocks), blocks |-> blocks, source |-> source]

\* addFunctionSeed for an imported function: a known size stays, an unknown one
\* becomes the length of the function's range.
SeedOf(e) ==
  LET b == ImportedBlocks(e) IN
  IF e \in DOMAIN seeds
  THEN [seeds[e] EXCEPT !.sources = @ \cup {"gtirb-ddisasm"}, !.isEntry = TRUE,
                        !.end = IF @ = 0 THEN e + (Highest(b) - Lowest(b)) ELSE @]
  ELSE [sources |-> {"gtirb-ddisasm"}, end |-> e + (Highest(b) - Lowest(b)), isEntry |-> TRUE]

ImportFunctions ==
  LET entries == {e \in DOMAIN image.owned : ~Skipped(e)} IN
  /\ pc = "functions"
  /\ functions' = [e \in entries |-> FunctionOf(ImportedBlocks(e), "gtirb-ddisasm")]
  /\ seeds' = [e \in DOMAIN seeds \cup entries |-> IF e \in entries THEN SeedOf(e) ELSE seeds[e]]
  /\ todo' = Ascending(entries) /\ pc' = "edges"
  /\ UNCHANGED <<image, xrefs, facts, folds, copying>>

Xref(from, to, kind) == [from |-> from, to |-> to, kind |-> kind]

AddXref(known, x) == IF x \in ToSet(known) THEN known ELSE Append(known, x)

LocalTargets(f, s) ==
  {d.to : d \in {d \in ToSet(image.edges) : d.from = s /\ d.kind = "flow"}} \cap BlockStarts(f.blocks)

\* The references an edge of a block leaves: a call, or a flow that is not
\* attached to the function as a successor.
EdgeXrefs(f, s, attach) ==
  LET left == SelectSeq(image.edges, LAMBDA d :
                 d.from = s /\ (d.kind = "call" \/ ~attach \/ d.to \notin BlockStarts(f.blocks)))
  IN  [n \in DOMAIN left |-> Xref(left[n].from, left[n].to, left[n].kind)]

\* Code blocks inside the function that its block list does not name.
StrayBlocks(f) ==
  {s \in DOMAIN image.blocks \ BlockStarts(f.blocks) : HasBlockContaining(f.blocks, s)}

FunctionXrefs(f) ==
  LET stray == Ascending(StrayBlocks(f)) IN
  FlattenSeq([i \in DOMAIN f.blocks |-> EdgeXrefs(f, f.blocks[i].start, TRUE)]) \o
  FlattenSeq([i \in DOMAIN stray |-> EdgeXrefs(f, stray[i], FALSE)])

ImportCfgEdges ==
  /\ pc = "edges" /\ todo # <<>>
  /\ LET f == functions[Head(todo)] IN
     /\ functions' = [functions EXCEPT ![Head(todo)].blocks =
                        [i \in DOMAIN @ |-> [@[i] EXCEPT !.succ = LocalTargets(f, f.blocks[i].start)]]]
     /\ xrefs' = FoldLeft(AddXref, xrefs, FunctionXrefs(f))
  /\ todo' = Tail(todo)
  /\ UNCHANGED <<image, seeds, facts, pc, folds, copying>>

\* Seeds with a range and no function get one block over the whole range.
ImportSeedRanges ==
  LET fallback == {e \in DOMAIN seeds : e \notin DOMAIN functions /\ seeds[e].end > e /\ ~Skipped(e)} IN
  /\ pc = "edges" /\ todo = <<>>
  /\ functions' = [e \in DOMAIN functions \cup fallback |->
                     IF e \in fallback
                     THEN FunctionOf(<<Block(e, seeds[e].end, {})>>, "gtirb-seed-range-fallback")
                     ELSE functions[e]]
  /\ pc' = "decode"
  /\ UNCHANGED <<image, seeds, xrefs, facts, todo, folds, copying>>

-----------------------------------------------------------------------------
(* Decode of the imported blocks, without control flow: GTIRB has authority *)
(* over it.                                                                 *)

\* The addresses a linear decode of the block visits.
Decoded(b) ==
  LET at[a \in b.start .. b.end] ==
        \/ a = b.start
        \/ \E p \in b.start .. a - 1 : at[p] /\ p \in DOMAIN image.code /\ p + image.code[p] = a
  IN  {a \in b.start .. b.end - 1 : at[a] /\ a \in DOMAIN image.code /\ a + image.code[a] <= b.end}

FactIn(b, a) ==
  LET next == a + image.code[a] IN
  [size |-> image.code[a], fall |-> IF next \in Decoded(b) /\ a \notin image.traps THEN next ELSE 0]

\* The order decodeExistingBlocks visits the blocks in.
DecodeOrder ==
  LET entries == Ascending(DOMAIN functions) IN
  FlattenSeq([n \in DOMAIN entries |-> functions[entries[n]].blocks])

\* The first fact about an address stays.
DecodeExistingBlocks ==
  LET order  == DecodeOrder
      seen   == UNION {Decoded(order[n]) : n \in DOMAIN order}
      first(a) == CHOOSE n \in DOMAIN order :
                    a \in Decoded(order[n]) /\ \A m \in DOMAIN order : m < n => a \notin Decoded(order[m])
      called == Ascending(seen \cap DOMAIN image.calls)
  IN
  /\ pc = "decode"
  /\ facts' = [a \in seen |-> FactIn(order[first(a)], a)]
  /\ xrefs' = xrefs \o [n \in DOMAIN called |-> Xref(called[n], image.calls[called[n]], "call")]
  /\ todo' = SelectSeq(xrefs', LAMBDA x : x.kind = "flow") /\ pc' = "fold"
  /\ UNCHANGED <<image, seeds, functions, folds, copying>>

-----------------------------------------------------------------------------
(* Cold fragments.  Decoded instructions carry no branch targets here, so   *)
(* only the flow references propose a fold.                                 *)

InFunction(a) == \E e \in DOMAIN functions : HasBlockContaining(functions[e].blocks, a)

\* functionContaining: the first function, by entry, with a block that holds a.
Owner(a) ==
  CHOOSE e \in DOMAIN functions :
    /\ HasBlockContaining(functions[e].blocks, a)
    /\ \A d \in DOMAIN functions : d < e => ~HasBlockContaining(functions[d].blocks, a)

Flows == {x \in ToSet(xrefs) : x.kind = "flow"}

\* Bug: a fragment with several owners is folded too.
IsFoldableShared(owner, t) ==
  /\ t \in DOMAIN functions /\ t \in DOMAIN seeds
  /\ "eh-frame" \in seeds[t].sources
  /\ \A x \in ToSet(xrefs) : x.to = t => x.kind # "call"
  /\ \E x \in Flows : x.to = t /\ InFunction(x.from) /\ Owner(x.from) = owner

IsFoldable(owner, t) ==
  /\ t \in DOMAIN functions /\ t \in DOMAIN seeds
  /\ "eh-frame" \in seeds[t].sources
  /\ \/ functions[t].source = "gtirb-seed-range-fallback" /\ seeds[t].sources = {"eh-frame"}
     \/ /\ functions[t].source = "gtirb-ddisasm" /\ t \notin image.runtime
        /\ \A x \in ToSet(xrefs) : x.to = t => x.kind # "call"
        /\ \E x \in Flows : x.to = t
        /\ \A x \in Flows : x.to = t => InFunction(x.from) /\ Owner(x.from) = owner

CollectFold ==
  LET x == Head(todo) IN
  /\ pc = "fold" /\ todo # <<>>
  /\ folds' = IF InFunction(x.from) /\ IsFoldable(Owner(x.from), x.to)
              THEN Append(folds, [owner |-> Owner(x.from), target |-> x.to])
              ELSE folds
  /\ todo' = Tail(todo)
  /\ UNCHANGED <<image, seeds, functions, xrefs, facts, pc, copying>>

\* All folds are decided before the first is done.
StartFolding ==
  /\ pc = "fold" /\ todo = <<>>
  /\ pc' = "folding"
  /\ UNCHANGED <<image, seeds, functions, xrefs, facts, todo, folds, copying>>

fold == Head(folds)

\* The target of an earlier fold is gone.
SkipFold ==
  /\ pc = "folding" /\ folds # <<>> /\ fold.target \notin DOMAIN functions
  /\ folds' = Tail(folds)
  /\ UNCHANGED <<image, seeds, functions, xrefs, facts, pc, todo, copying>>

\* Bug: only the first block of the fragment is copied.
StartFoldEntry ==
  /\ pc = "folding" /\ folds # <<>> /\ fold.target \in DOMAIN functions
  /\ copying' = <<Head(functions[fold.target].blocks)>> /\ pc' = "copy"
  /\ UNCHANGED <<image, seeds, functions, xrefs, facts, todo, folds>>

StartFold ==
  /\ pc = "folding" /\ folds # <<>> /\ fold.target \in DOMAIN functions
  /\ copying' = functions[fold.target].blocks /\ pc' = "copy"
  /\ UNCHANGED <<image, seeds, functions, xrefs, facts, todo, folds>>

\* addBasicBlock does nothing for a function that does not exist.
CopyBlock ==
  /\ pc = "copy" /\ copying # <<>>
  /\ functions' = IF fold.owner \in DOMAIN functions
                  THEN [functions EXCEPT ![fold.owner] = AddBasicBlock(facts, @, Head(copying))]
                  ELSE functions
  /\ copying' = Tail(copying)
  /\ UNCHANGED <<image, seeds, xrefs, facts, pc, todo, folds>>

\* Bug: a flow is attached whether or not a block starts at its target.
AttachedAny(f, S) ==
  LET leaving(i) == {x \in S : /\ HasBlockContaining(f.blocks, x.from)
                               /\ BlockContaining(f.blocks, x.from) = i}
  IN  [f EXCEPT !.blocks = [i \in DOMAIN f.blocks |->
                              [f.blocks[i] EXCEPT !.succ = @ \cup {x.to : x \in leaving(i)}]]]

\* The function with the flows of S attached to the blocks that hold their origin.
Attached(f, S) ==
  LET leaving(i) == {x \in S : /\ x.to \in BlockStarts(f.blocks)
                               /\ HasBlockContaining(f.blocks, x.from)
                               /\ BlockContaining(f.blocks, x.from) = i}
  IN  [f EXCEPT !.blocks = [i \in DOMAIN f.blocks |->
                              [f.blocks[i] EXCEPT !.succ = @ \cup {x.to : x \in leaving(i)}]]]

\* The owner regains its jumps to the fragment, the fragment's seed becomes a
\* range hint, and the fragment is a function no longer.
FinishFold ==
  LET o == fold.owner
      t == fold.target
      regained == {x \in Flows : x.to = t /\ InFunction(x.from) /\ Owner(x.from) = o}
      attached == IF o \in DOMAIN functions
                  THEN [functions EXCEPT ![o] = Attached(@, regained)]
                  ELSE functions
  IN
  /\ pc = "copy" /\ copying = <<>>
  /\ functions' = [e \in DOMAIN functions \ {t} |-> attached[e]]
  /\ seeds' = [seeds EXCEPT ![t].isEntry = FALSE]
  /\ folds' = Tail(folds) /\ pc' = "folding"
  /\ UNCHANGED <<image, xrefs, facts, todo, copying>>

-----------------------------------------------------------------------------
(* Edges inside a function.                                                 *)

\* Bug: a jump back to the entry is not restored.
LocalFlowsPastEntry(e) ==
  {x \in Flows : /\ InFunction(x.from) /\ InFunction(x.to) /\ x.to # e
                 /\ Owner(x.from) = e /\ Owner(x.to) = e}

LocalFlows(e) ==
  {x \in Flows : InFunction(x.from) /\ InFunction(x.to) /\ Owner(x.from) = e /\ Owner(x.to) = e}

Restored == [e \in DOMAIN functions |-> Attached(functions[e], LocalFlows(e))]

RestoreAfterFolds ==
  /\ pc = "folding" /\ folds = <<>>
  /\ functions' = Restored /\ pc' = "splits"
  /\ UNCHANGED <<image, seeds, xrefs, facts, todo, folds, copying>>

\* Both ends of a flow inside a function are to start blocks.
CollectSplits ==
  LET ends(x) == IF InFunction(x.from) /\ x \in LocalFlows(Owner(x.from))
                 THEN LET e == Owner(x.from) IN <<[entry |-> e, at |-> x.from], [entry |-> e, at |-> x.to]>>
                 ELSE <<>>
      all   == SelectSeq(xrefs, LAMBDA x : x.kind = "flow")
      wanted == SelectSeq(FlattenSeq([n \in DOMAIN all |-> ends(all[n])]),
                          LAMBDA s : s.at \notin BlockStarts(functions[s.entry].blocks))
  IN
  /\ pc = "splits"
  /\ todo' = FoldLeft(AddXref, <<>>, wanted)
  /\ pc' = "splitting"
  /\ UNCHANGED <<image, seeds, functions, xrefs, facts, folds, copying>>

SplitBlock ==
  /\ pc = "splitting" /\ todo # <<>>
  /\ functions' = [functions EXCEPT ![Head(todo).entry] = EnsureBlockStartsAt(facts, @, Head(todo).at)]
  /\ todo' = Tail(todo)
  /\ UNCHANGED <<image, seeds, xrefs, facts, pc, folds, copying>>

RestoreAfterSplits ==
  /\ pc = "splitting" /\ todo = <<>>
  /\ functions' = Restored /\ pc' = "done"
  /\ UNCHANGED <<image, seeds, xrefs, facts, todo, folds, copying>>

Next ==
  \/ ImportFunctions \/ ImportCfgEdges \/ ImportSeedRanges \/ DecodeExistingBlocks
  \/ CollectFold \/ StartFolding \/ SkipFold \/ StartFold \/ CopyBlock \/ FinishFold
  \/ RestoreAfterFolds \/ CollectSplits \/ SplitBlock \/ RestoreAfterSplits

Spec == Init /\ [][Next]_vars

-----------------------------------------------------------------------------
(* Properties.                                                              *)

Kinds == {"flow", "call"}

TypeOK ==
  /\ \A e \in DOMAIN functions : functions[e].source \in {"gtirb-ddisasm", "gtirb-seed-range-fallback"}
  /\ \A e \in DOMAIN functions : \A b \in ToSet(functions[e].blocks) :
       functions[e].lo <= b.start /\ b.start < b.end /\ b.end <= functions[e].hi
  /\ \A x \in ToSet(xrefs) : x.kind \in Kinds
  /\ DOMAIN facts \subseteq DOMAIN image.code
  /\ copying # <<>> => pc = "copy"

(* What the normalizer is for: no decoded instruction drops out of the      *)
(* functions.  The fold of a cold fragment is meant to move its code.       *)
CodeKept == pc = "done" => \A a \in DOMAIN facts : InFunction(a)

(* The blocks functions are made of: those GTIRB lists for them, and the    *)
(* ranges of seeds it has no function for.                                  *)
ListedBlocks ==
  {Block(s, image.blocks[s], {}) : s \in UNION {ToSet(image.owned[e]) : e \in DOMAIN image.owned}}
  \cup {Block(e, image.seeds[e].end, {}) : e \in {e \in DOMAIN image.seeds \ DOMAIN image.owned : image.seeds[e].end > e}}

\* Overlapping code runs to the same last instruction.
EndTogether == \A x, y \in ListedBlocks : Overlap(x, y) => x.end = y.end

(* The code of foldEhFrameOnlyBranchTargets keeps this much, when           *)
(* overlapping code ends together: an instruction leaves the functions only *)
(* when a fragment is folded into a function that is already gone, or into  *)
(* itself.  Copying, splitting and shrinking never uncover one.             *)
CodeStays ==
  [][EndTogether =>
       \A a \in DOMAIN facts :
         InFunction(a) /\ ~InFunction(a)' =>
           /\ pc = "copy" /\ copying = <<>>
           /\ fold.owner \notin DOMAIN functions \ {fold.target}]_vars

(* No instruction is lifted twice into a function: whatever is copied into  *)
(* it, split and shortened, its blocks stay disjoint when GTIRB listed      *)
(* disjoint blocks for it.                                                  *)
BlocksDisjoint ==
  \A e \in DOMAIN functions :
    (e \in DOMAIN image.owned => DisjointBlocks(ImportedBlocks(e)))
    => DisjointBlocks(functions[e].blocks)

(* The edges of the blocks lead to blocks of the same function, whatever    *)
(* was copied, split and shortened after they were recorded; only while a   *)
(* fragment is being copied its edges may lead to blocks still to come.     *)
EdgesStayLocal ==
  pc # "copy" =>
    \A e \in DOMAIN functions : \A b \in ToSet(functions[e].blocks) :
      b.succ \subseteq BlockStarts(functions[e].blocks)

\* The functions whose code, as the image lists it, holds an address.
ListedBy(a) ==
  {e \in DOMAIN image.owned : ~Skipped(e) /\ HasBlockContaining(ImportedBlocks(e), a)}
  \cup {e \in DOMAIN image.seeds \ DOMAIN image.owned :
          ~Skipped(e) /\ e <= a /\ a < image.seeds[e].end}

\* No two functions list the code at a.  When they do, a fold can change who owns
\* it after the later folds were decided, and their jumps are restored elsewhere.
Unshared(a) == \A d, e \in ListedBy(a) : d = e

\* GTIRB's flow edges out of a code block that the import looked at.
ImportedFlows ==
  {d \in ToSet(image.edges) : d.kind = "flow" /\ \E e \in DOMAIN image.owned :
     ~Skipped(e) /\ HasBlockContaining(ImportedBlocks(e), d.from)}

(* No edge of the GTIRB graph is lost: when functions hold the last byte of *)
(* its source and have its target as a block, one of them has the edge on   *)
(* the block with that byte, through folds, splits and restoring passes     *)
(* (unless a fold lost code, or functions share the code at its ends).      *)
EdgesKept ==
  pc = "done" /\ (\A a \in DOMAIN facts : InFunction(a)) =>
    \A d \in ImportedFlows :
      LET last == image.blocks[d.from] - 1
          holders == {e \in DOMAIN functions : /\ HasBlockContaining(functions[e].blocks, last)
                                              /\ d.to \in BlockStarts(functions[e].blocks)}
          edges(f) == f.blocks[BlockContaining(f.blocks, last)].succ
      IN  /\ Unshared(d.from) /\ Unshared(last) /\ Unshared(d.to)
          /\ holders # {}
          => \E e \in holders : d.to \in edges(functions[e])

(* A folded function belongs to all who jump to it: no other function jumps *)
(* into the middle of the function that took it over.  Of code that several *)
(* functions list this is not said.                                         *)
FoldedHasOneOwner ==
  pc = "done" =>
    \A x \in Flows :
      /\ x.to \in DOMAIN image.owned /\ ~Skipped(x.to) /\ x.to \notin DOMAIN functions
      /\ ListedBy(x.to) \subseteq {x.to} /\ Unshared(x.from)
      /\ InFunction(x.to) /\ InFunction(x.from)
      => Owner(x.from) = Owner(x.to)
=============================================================================
