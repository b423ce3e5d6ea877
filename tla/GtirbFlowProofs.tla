-------------------------- MODULE GtirbFlowProofs --------------------------
(***************************************************************************)
(* What addBasicBlock and the split of a block do to the block list of a   *)
(* function: it stays a list of blocks, and disjoint.  Then, for every set *)
(* of images: the blocks of a function stay disjoint through folds, splits *)
(* and restored edges, when the import listed disjoint ones.               *)
(***************************************************************************)
EXTENDS GtirbFlow, TLAPS, WellFoundedInduction

Blocks == {b \in [start : Nat, end : Nat, succ : SUBSET Nat] : b.start < b.end}

\* What the proof needs to know of a function.
IsFunction(f) == "blocks" \in DOMAIN f /\ f.blocks \in Seq(Blocks)

-----------------------------------------------------------------------------
(* A function over 1 .. n is a sequence of length n.                        *)
LEMMA SequenceOf ==
  ASSUME NEW S, NEW n \in Nat, NEW q \in [1 .. n -> S]
  PROVE  q \in Seq(S) /\ Len(q) = n /\ DOMAIN q = 1 .. n
  OBVIOUS

(* A list of blocks replaced block by block is a list of blocks again.      *)
LEMMA Replaced ==
  ASSUME NEW blocks \in Seq(Blocks), NEW q,
         q = [i \in DOMAIN blocks |-> q[i]],
         \A i \in DOMAIN blocks : q[i] \in Blocks
  PROVE  q \in Seq(Blocks) /\ DOMAIN q = DOMAIN blocks
<1>1. DOMAIN blocks = 1 .. Len(blocks) /\ Len(blocks) \in Nat
  OBVIOUS
<1>2. q \in [1 .. Len(blocks) -> Blocks]
  BY <1>1
<1> QED BY <1>1, <1>2, SequenceOf

(* Of some naturals one is the smallest.                                    *)
LEMMA Smallest ==
  ASSUME NEW T, T \subseteq Nat, T # {}
  PROVE  \E x \in T : \A y \in T : x <= y
<1> DEFINE R == {ss \in Nat \X Nat : ss[1] < ss[2]}
<1>1. IsWellFoundedOn(R, Nat)
  BY NatLessThanWellFounded DEF OpToRel
<1> HIDE DEF R
<1>2. PICK x \in T : \A y \in T : ~(<<y, x>> \in R)
  BY <1>1, WFMin, Zenon
<1>3. ASSUME NEW y \in T, y < x PROVE FALSE
  <2>1. <<y, x>> \in Nat \X Nat
    OBVIOUS
  <2>2. <<y, x>> \in R
    BY <2>1, <1>3 DEF R
  <2> QED BY <2>2, <1>2
<1>4. \A y \in T : x <= y
  BY <1>3
<1> QED BY <1>4

(* addBasicBlock: the block it appends is a part of the one it was given    *)
(* that reaches no block behind it.                                         *)
LEMMA CutNewFits ==
  ASSUME NEW known, NEW blocks \in Seq(Blocks), NEW b \in Blocks, b.start \notin BlockStarts(blocks)
  PROVE  /\ CutNew(known, blocks, b) \in Blocks
         /\ CutNew(known, blocks, b).start = b.start
         /\ \A i \in DOMAIN blocks :
              b.start < blocks[i].start => CutNew(known, blocks, b).end <= blocks[i].start
<1> DEFINE ahead == BlocksAhead(blocks, b)
           stop  == blocks[NearestOf(blocks, ahead)].start
<1>1. \A i \in DOMAIN blocks : blocks[i] \in Blocks
  OBVIOUS
<1>2. CASE ahead = {}
  <2>1. CutNew(known, blocks, b) = b
    BY <1>2 DEF CutNew
  <2>2. \A i \in DOMAIN blocks : b.start < blocks[i].start => b.end <= blocks[i].start
    BY <1>1, <1>2 DEF BlocksAhead, Blocks
  <2> QED BY <2>1, <2>2
<1>3. CASE ahead # {}
  <2> DEFINE starts == {blocks[i].start : i \in ahead}
  <2>1. starts \subseteq Nat /\ starts # {}
    BY <1>1, <1>3 DEF BlocksAhead, Blocks
  <2>2. PICK x \in starts : \A y \in starts : x <= y
    BY <2>1, Smallest
  <2>3. \E i \in ahead : \A j \in ahead : blocks[i].start <= blocks[j].start
    BY <2>2
  <2>4. /\ NearestOf(blocks, ahead) \in ahead
        /\ \A j \in ahead : stop <= blocks[j].start
    BY <2>3 DEF NearestOf
  <2>5. stop \in Nat /\ b.start < stop /\ stop < b.end
    BY <1>1, <2>4 DEF BlocksAhead, Blocks
  <2>6. \E u \in SUBSET Nat : CutNew(known, blocks, b) = Block(b.start, stop, u)
    <3> DEFINE kept == IF blocks[FirstOf(ahead)].start = stop THEN b.succ ELSE {}
    <3>1. SplitEdge(known, b.start, stop, kept) \subseteq Nat
      BY <2>5 DEF SplitEdge
    <3>2. CutNew(known, blocks, b) = Block(b.start, stop, SplitEdge(known, b.start, stop, kept))
      BY <1>3 DEF CutNew
    <3> QED BY <3>1, <3>2
  <2>7. ASSUME NEW i \in DOMAIN blocks, b.start < blocks[i].start PROVE stop <= blocks[i].start
    <3>1. CASE i \in ahead
      BY <3>1, <2>4
    <3>2. CASE i \notin ahead
      BY <3>2, <2>7, <1>1, <2>5 DEF BlocksAhead, Blocks
    <3> QED BY <3>1, <3>2
  <2>8. CutNew(known, blocks, b) \in Blocks /\ CutNew(known, blocks, b).start = b.start
        /\ CutNew(known, blocks, b).end = stop
    BY <2>5, <2>6 DEF Block, Blocks
  <2> QED BY <2>7, <2>8
<1> QED BY <1>2, <1>3

(* A block that is cut stays a block, begins where it began and ends no     *)
(* later.                                                                   *)
LEMMA CutFits ==
  ASSUME NEW known, NEW x \in Blocks, NEW a \in Nat
  PROVE  /\ CutAt(known, x, a) \in Blocks
         /\ CutAt(known, x, a).start = x.start /\ CutAt(known, x, a).end <= x.end
         /\ x.start < a => CutAt(known, x, a).end <= a
<1>1. CASE x.start < a /\ a < x.end
  <2>1. SplitEdge(known, x.start, a, x.succ) \subseteq Nat
    BY DEF SplitEdge
  <2> QED BY <1>1, <2>1 DEF CutAt, Block, Blocks
<1>2. CASE ~(x.start < a /\ a < x.end)
  BY <1>2 DEF CutAt, Blocks
<1> QED BY <1>1, <1>2

(* So does one that a block with the same start joins or shortens.          *)
LEMMA SameStartFits ==
  ASSUME NEW x \in Blocks, NEW b \in Blocks
  PROVE  SameStart(x, b) \in Blocks /\ SameStart(x, b).start = x.start /\ SameStart(x, b).end <= x.end
<1>1. CASE b.start # x.start \/ b.end > x.end
  BY <1>1 DEF SameStart, Blocks
<1>2. CASE b.start = x.start /\ b.end = x.end
  BY <1>2 DEF SameStart, Blocks
<1>3. CASE b.start = x.start /\ b.end < x.end
  BY <1>3 DEF SameStart, Blocks, Block
<1> QED BY <1>1, <1>2, <1>3 DEF Blocks

(* Blocks that keep their starts and end no later stay disjoint.            *)
LEMMA SmallerStaysDisjoint ==
  ASSUME NEW p \in Seq(Blocks), NEW q \in Seq(Blocks), DOMAIN q = DOMAIN p, DisjointBlocks(p),
         \A i \in DOMAIN p : q[i].start = p[i].start /\ q[i].end <= p[i].end
  PROVE  DisjointBlocks(q)
<1>1. \A i \in DOMAIN p : p[i] \in Blocks /\ q[i] \in Blocks
  OBVIOUS
<1>2. ASSUME NEW i \in DOMAIN q, NEW j \in DOMAIN q, i # j PROVE ~Overlap(q[i], q[j])
  <2>1. ~Overlap(p[i], p[j])
    BY <1>2 DEF DisjointBlocks
  <2>2. p[i] \in Blocks /\ p[j] \in Blocks /\ q[i] \in Blocks /\ q[j] \in Blocks
    BY <1>1
  <2>3. q[i].start = p[i].start /\ q[i].end <= p[i].end /\ q[j].start = p[j].start /\ q[j].end <= p[j].end
    OBVIOUS
  <2> QED BY <2>1, <2>2, <2>3 DEF Overlap, Blocks
<1> QED BY <1>2 DEF DisjointBlocks

(* addBasicBlock keeps the blocks of a function disjoint, whatever block it  *)
(* is given.                                                                *)
LEMMA AddKeepsDisjoint ==
  ASSUME NEW known, NEW f, IsFunction(f), NEW b \in Blocks
  PROVE  /\ IsFunction(AddBasicBlock(known, f, b))
         /\ DisjointBlocks(f.blocks) => DisjointBlocks(AddBasicBlock(known, f, b).blocks)
<1> DEFINE old == f.blocks
           new == AddBasicBlock(known, f, b).blocks
<1>0. /\ "blocks" \in DOMAIN f /\ old \in Seq(Blocks)
      /\ \A i \in DOMAIN old : old[i] \in Blocks
      /\ b.start < b.end /\ b.start \in Nat
  BY DEF IsFunction, Blocks
<1>1. CASE b.start \in BlockStarts(old)
  <2> DEFINE q == [i \in DOMAIN old |-> SameStart(old[i], b)]
  <2>1. AddBasicBlock(known, f, b) = [f EXCEPT !.blocks = q]
    BY <1>0, <1>1 DEF AddBasicBlock, Blocks
  <2>2. /\ q \in Seq(Blocks) /\ DOMAIN q = DOMAIN old
        /\ \A i \in DOMAIN old : q[i].start = old[i].start /\ q[i].end <= old[i].end
    <3>1. \A i \in DOMAIN old : q[i] \in Blocks /\ q[i].start = old[i].start /\ q[i].end <= old[i].end
      BY <1>0, SameStartFits
    <3> HIDE DEF q
    <3>2. q = [i \in DOMAIN old |-> q[i]]
      BY DEF q
    <3> QED BY <1>0, <3>1, <3>2, Replaced
  <2>3. new = q /\ IsFunction(AddBasicBlock(known, f, b))
    BY <1>0, <2>1, <2>2 DEF IsFunction
  <2>4. ASSUME DisjointBlocks(old) PROVE DisjointBlocks(q)
    BY <2>2, <2>4, <1>0, SmallerStaysDisjoint
  <2> QED BY <2>3, <2>4
<1>2. CASE b.start \notin BlockStarts(old)
  <2> DEFINE cut   == [i \in DOMAIN old |-> CutAt(known, old[i], b.start)]
             added == CutNew(known, old, b)
             q     == Append(cut, added)
  <2>1. /\ "blocks" \in DOMAIN AddBasicBlock(known, f, b)
        /\ AddBasicBlock(known, f, b).blocks = q
    BY <1>0, <1>2 DEF AddBasicBlock, Blocks
  <2>2. /\ added \in Blocks /\ added.start = b.start
        /\ \A i \in DOMAIN old : b.start < old[i].start => added.end <= old[i].start
    BY <1>0, <1>2, CutNewFits
  <2>3. \A i \in DOMAIN old : /\ cut[i] \in Blocks
                              /\ cut[i].start = old[i].start /\ cut[i].end <= old[i].end
                              /\ old[i].start < b.start => cut[i].end <= b.start
    BY <1>0, CutFits
  <2> HIDE DEF cut, added
  <2>4. cut \in Seq(Blocks) /\ DOMAIN cut = DOMAIN old
    <3>1. cut = [i \in DOMAIN old |-> cut[i]]
      BY DEF cut
    <3> QED BY <1>0, <2>3, <3>1, Replaced
  <2>5. q \in Seq(Blocks)
    BY <2>2, <2>4
  <2>6. IsFunction(AddBasicBlock(known, f, b))
    BY <2>1, <2>5 DEF IsFunction
  <2>7. ASSUME DisjointBlocks(old) PROVE DisjointBlocks(q)
    <3>1. DisjointBlocks(cut)
      BY <1>0, <2>3, <2>4, <2>7, SmallerStaysDisjoint
    <3>2. \A i \in DOMAIN cut : ~Overlap(cut[i], added) /\ ~Overlap(added, cut[i])
      <4>1. TAKE i \in DOMAIN cut
      <4>2. old[i].start # b.start
        BY <1>2, <2>4 DEF BlockStarts
      <4>3. cut[i] \in Blocks /\ cut[i].start = old[i].start /\ added \in Blocks /\ added.start = b.start
        BY <2>2, <2>3, <2>4
      <4>4. CASE old[i].start < b.start
        BY <4>3, <4>4, <2>3, <2>4 DEF Overlap, Blocks
      <4>5. CASE b.start < old[i].start
        BY <4>3, <4>5, <2>2, <2>4 DEF Overlap, Blocks
      <4> QED BY <4>2, <4>3, <4>4, <4>5 DEF Blocks
    <3>3. /\ DOMAIN q = 1 .. Len(cut) + 1 /\ DOMAIN cut = 1 .. Len(cut) /\ Len(cut) \in Nat
          /\ q[Len(cut) + 1] = added
          /\ \A i \in DOMAIN cut : q[i] = cut[i]
      BY <2>2, <2>4
    <3>4. ASSUME NEW i \in DOMAIN q, NEW j \in DOMAIN q, i # j PROVE ~Overlap(q[i], q[j])
      <4>1. CASE i = Len(cut) + 1
        BY <4>1, <3>2, <3>3, <3>4
      <4>2. CASE j = Len(cut) + 1
        BY <4>2, <3>2, <3>3, <3>4
      <4>3. CASE i # Len(cut) + 1 /\ j # Len(cut) + 1
        BY <4>3, <3>1, <3>3, <3>4 DEF DisjointBlocks
      <4> QED BY <4>1, <4>2, <4>3
    <3> QED BY <3>4 DEF DisjointBlocks
  <2> QED BY <2>1, <2>6, <2>7
<1> QED BY <1>1, <1>2

(* A split adds the part of a block that begins at the address.             *)
LEMMA SplitIsAdd ==
  ASSUME NEW known, NEW f, IsFunction(f), NEW a
  PROVE  \/ EnsureBlockStartsAt(known, f, a) = f
         \/ \E i \in DOMAIN f.blocks : \E b \in Blocks :
              /\ b = Block(a, f.blocks[i].end, f.blocks[i].succ)
              /\ f.blocks[i].start <= a
              /\ EnsureBlockStartsAt(known, f, a) = AddBasicBlock(known, f, b)
<1>1. CASE a \in BlockStarts(f.blocks) \/ ~HasBlockContaining(f.blocks, a)
  BY <1>1 DEF EnsureBlockStartsAt
<1>2. CASE ~(a \in BlockStarts(f.blocks) \/ ~HasBlockContaining(f.blocks, a))
  <2> DEFINE n     == BlockContaining(f.blocks, a)
             whole == f.blocks[n]
  <2>1. f.blocks \in Seq(Blocks) /\ \A i \in DOMAIN f.blocks : i \in Nat /\ f.blocks[i] \in Blocks
    BY DEF IsFunction
  <2>2. \E i \in DOMAIN f.blocks :
          Holds(f.blocks[i], a) /\ \A j \in DOMAIN f.blocks : j < i => ~Holds(f.blocks[j], a)
    <3> DEFINE holders == {i \in DOMAIN f.blocks : Holds(f.blocks[i], a)}
    <3>1. holders \subseteq Nat /\ holders # {}
      BY <1>2, <2>1 DEF HasBlockContaining
    <3>2. PICK i \in holders : \A j \in holders : i <= j
      BY <3>1, Smallest
    <3>3. ASSUME NEW j \in DOMAIN f.blocks, j < i PROVE ~Holds(f.blocks[j], a)
      BY <3>1, <3>2, <3>3, <2>1
    <3> QED BY <3>2, <3>3
  <2>3. n \in DOMAIN f.blocks /\ Holds(whole, a)
    BY <2>2 DEF BlockContaining
  <2>4. Block(a, whole.end, whole.succ) \in Blocks /\ whole.start <= a
    BY <2>1, <2>3 DEF Holds, Block, Blocks
  <2>5. EnsureBlockStartsAt(known, f, a) = AddBasicBlock(known, f, Block(a, whole.end, whole.succ))
    BY <1>2 DEF EnsureBlockStartsAt
  <2> HIDE DEF n
  <2> QED BY <2>3, <2>4, <2>5
<1> QED BY <1>1, <1>2

(* Splitting a block at an address, likewise.                               *)
LEMMA SplitKeepsDisjoint ==
  ASSUME NEW known, NEW f, IsFunction(f), NEW a
  PROVE  /\ IsFunction(EnsureBlockStartsAt(known, f, a))
         /\ DisjointBlocks(f.blocks) => DisjointBlocks(EnsureBlockStartsAt(known, f, a).blocks)
<1>1. CASE EnsureBlockStartsAt(known, f, a) = f
  BY <1>1
<1>2. CASE EnsureBlockStartsAt(known, f, a) # f
  <2>1. PICK i \in DOMAIN f.blocks : \E b \in Blocks :
          EnsureBlockStartsAt(known, f, a) = AddBasicBlock(known, f, b)
    BY <1>2, SplitIsAdd
  <2> QED BY <2>1, AddKeepsDisjoint
<1> QED BY <1>1, <1>2

-----------------------------------------------------------------------------
(* The whole normalisation *)

\* What a step needs to find: block lists of blocks, and, until the seed ranges
\* are imported, no functions but GTIRB's and seeds as the image gave them.
FlowInv ==
  /\ image \in Images
  /\ \A e \in DOMAIN functions : IsFunction(functions[e])
  /\ copying \in Seq(Blocks)
  /\ pc = "functions" => DOMAIN functions = {}
  /\ pc = "edges" => DOMAIN functions = {e \in DOMAIN image.owned : ~Skipped(e)}
  /\ pc \in {"functions", "edges"} =>
       \A e \in DOMAIN seeds \ DOMAIN functions :
         e \in DOMAIN image.seeds /\ seeds[e].end = image.seeds[e].end
  /\ BlocksDisjoint

(* Attaching edges moves no block.                                          *)
LEMMA AttachedKeepsBlocks ==
  ASSUME NEW f, IsFunction(f), NEW S
  PROVE  /\ IsFunction(Attached(f, S))
         /\ DisjointBlocks(f.blocks) => DisjointBlocks(Attached(f, S).blocks)
<1> DEFINE old == f.blocks
           leaving(i) == {x \in S : /\ x.to \in BlockStarts(old)
                                    /\ HasBlockContaining(old, x.from)
                                    /\ BlockContaining(old, x.from) = i}
           to(i) == {x.to : x \in leaving(i)}
           q == [i \in DOMAIN old |-> [old[i] EXCEPT !.succ = @ \cup to(i)]]
<1>1. /\ "blocks" \in DOMAIN f /\ old \in Seq(Blocks)
      /\ \A i \in DOMAIN old : old[i] \in Blocks
  BY DEF IsFunction
<1>2. Attached(f, S) = [f EXCEPT !.blocks = q]
  BY <1>1 DEF Attached
<1>3. BlockStarts(old) \subseteq Nat
  BY <1>1 DEF BlockStarts, Blocks
<1>4. \A i \in DOMAIN old : to(i) \subseteq Nat
  BY <1>3
<1> HIDE DEF to
<1>5. \A i \in DOMAIN old : q[i] \in Blocks /\ q[i].start = old[i].start /\ q[i].end <= old[i].end
  BY <1>1, <1>4 DEF Blocks
<1>6. q = [i \in DOMAIN old |-> q[i]]
  OBVIOUS
<1> HIDE DEF q
<1>7. q \in Seq(Blocks) /\ DOMAIN q = DOMAIN old
  BY <1>1, <1>5, <1>6, Replaced
<1>8. IsFunction(Attached(f, S)) /\ Attached(f, S).blocks = q
  BY <1>1, <1>2, <1>7 DEF IsFunction
<1>9. DisjointBlocks(old) => DisjointBlocks(q)
  BY <1>1, <1>5, <1>7, SmallerStaysDisjoint
<1> QED BY <1>8, <1>9

(* The blocks GTIRB lists for a function are blocks.                        *)
LEMMA ImportedAreBlocks ==
  ASSUME image \in Images, NEW e \in DOMAIN image.owned
  PROVE  ImportedBlocks(e) \in Seq(Blocks)
<1> DEFINE list == image.owned[e]
           q    == ImportedBlocks(e)
<1>1. list \in Seq(DOMAIN image.blocks)
  BY ImagesAssumption
<1>2. DOMAIN list = 1 .. Len(list) /\ Len(list) \in Nat
      /\ \A i \in DOMAIN list : list[i] \in DOMAIN image.blocks
  BY <1>1
<1>3. q = [i \in DOMAIN list |-> Block(list[i], image.blocks[list[i]], {})]
  BY DEF ImportedBlocks
<1>4. \A i \in DOMAIN list : Block(list[i], image.blocks[list[i]], {}) \in Blocks
  <2>1. TAKE i \in DOMAIN list
  <2>2. list[i] \in Nat /\ image.blocks[list[i]] \in Nat /\ list[i] < image.blocks[list[i]]
    BY <1>2, ImagesAssumption
  <2> QED BY <2>2 DEF Block, Blocks
<1>5. q \in [1 .. Len(list) -> Blocks]
  BY <1>2, <1>3, <1>4
<1> QED BY <1>2, <1>5, SequenceOf

(* A step that replaces functions one by one keeps BlocksDisjoint when it   *)
(* keeps the functions well formed and the disjoint ones disjoint.          *)
LEMMA FunctionsReplaced ==
  ASSUME FlowInv, image' = image, DOMAIN functions' \subseteq DOMAIN functions,
         \A e \in DOMAIN functions' :
           /\ IsFunction(functions'[e])
           /\ DisjointBlocks(functions[e].blocks) => DisjointBlocks(functions'[e].blocks)
  PROVE  /\ \A e \in DOMAIN functions' : IsFunction(functions'[e])
         /\ BlocksDisjoint'
<1>1. ASSUME NEW e \in DOMAIN functions',
             e \in DOMAIN image.owned => DisjointBlocks(ImportedBlocks(e))
      PROVE  DisjointBlocks(functions'[e].blocks)
  BY <1>1 DEF FlowInv, BlocksDisjoint
<1>2. \A e : ImportedBlocks(e)' = ImportedBlocks(e)
  BY DEF ImportedBlocks
<1> QED BY <1>1, <1>2 DEF BlocksDisjoint

-----------------------------------------------------------------------------
(* The invariant holds at first and every step keeps it.                    *)
LEMMA FlowInit == Init => FlowInv
<1> SUFFICES ASSUME Init PROVE FlowInv
  OBVIOUS
<1>1. image \in Images /\ DOMAIN functions = {} /\ copying = <<>>
  BY DEF Init
<1>2. pc = "functions" /\ \A e \in DOMAIN seeds : e \in DOMAIN image.seeds /\ seeds[e].end = image.seeds[e].end
  BY DEF Init
<1> QED BY <1>1, <1>2 DEF FlowInv, BlocksDisjoint

LEMMA FlowStep == FlowInv /\ [Next]_vars => FlowInv'
<1> SUFFICES ASSUME FlowInv, [Next]_vars PROVE FlowInv'
  OBVIOUS
<1>0. /\ image' = image
      /\ image' \in Images
  BY DEF FlowInv, Next, vars, ImportFunctions, ImportCfgEdges, ImportSeedRanges, DecodeExistingBlocks,
     CollectFold, StartFolding, SkipFold, StartFold, CopyBlock, FinishFold, RestoreAfterFolds, CollectSplits,
     SplitBlock, RestoreAfterSplits
<1>imp. \A e : ImportedBlocks(e)' = ImportedBlocks(e)
  BY <1>0 DEF ImportedBlocks
<1>same. ASSUME functions' = functions PROVE (\A e \in DOMAIN functions' : IsFunction(functions'[e])) /\ BlocksDisjoint'
  BY <1>same, <1>imp, <1>0 DEF FlowInv, BlocksDisjoint
<1>1. CASE ImportFunctions
  <2> DEFINE entries == {e \in DOMAIN image.owned : ~Skipped(e)}
  <2>1. /\ functions' = [e \in entries |-> FunctionOf(ImportedBlocks(e), "gtirb-ddisasm")]
        /\ pc = "functions" /\ copying' = copying
        /\ seeds' = [e \in DOMAIN seeds \cup entries |-> IF e \in entries THEN SeedOf(e) ELSE seeds[e]]
    BY <1>1 DEF ImportFunctions
  <2>2. \A e \in entries : /\ IsFunction(functions'[e]) /\ functions'[e].blocks = ImportedBlocks(e)
                           /\ e \in DOMAIN image.owned
    BY <2>1, ImportedAreBlocks DEF FlowInv, FunctionOf, IsFunction
  <2>3. BlocksDisjoint'
    BY <2>1, <2>2, <1>0, <1>imp DEF BlocksDisjoint
  <2>4. \A e \in DOMAIN seeds' \ DOMAIN functions' :
          e \in DOMAIN image.seeds /\ seeds'[e].end = image.seeds[e].end
    <3>1. TAKE e \in DOMAIN seeds' \ DOMAIN functions'
    <3>2. e \in DOMAIN seeds /\ seeds'[e] = seeds[e] /\ e \notin DOMAIN functions
      BY <2>1 DEF FlowInv
    <3> QED BY <2>1, <3>2 DEF FlowInv
  <2>5. pc' = "edges"
    BY <1>1 DEF ImportFunctions
  <2>6. DOMAIN functions' = {e \in DOMAIN image'.owned : ~Skipped(e)'}
    BY <2>1, <1>0 DEF Skipped
  <2> HIDE DEF entries
  <2> QED BY <1>0, <2>1, <2>2, <2>3, <2>4, <2>5, <2>6 DEF FlowInv
<1>2. CASE ImportCfgEdges
  <2> DEFINE h == Head(todo)
             f == functions[h]
             q == [i \in DOMAIN f.blocks |-> [f.blocks[i] EXCEPT !.succ = LocalTargets(f, f.blocks[i].start)]]
  <2>1. /\ functions' = [functions EXCEPT ![h].blocks = q]
        /\ seeds' = seeds /\ copying' = copying /\ pc = "edges" /\ pc' = pc
    BY <1>2 DEF ImportCfgEdges
  <2>2. ASSUME h \in DOMAIN functions PROVE q \in Seq(Blocks) /\ (DisjointBlocks(f.blocks) => DisjointBlocks(q))
    <3>1. /\ f.blocks \in Seq(Blocks)
          /\ \A i \in DOMAIN f.blocks : f.blocks[i] \in Blocks
      BY <2>2 DEF FlowInv, IsFunction
    <3>2. \A s : LocalTargets(f, s) \subseteq Nat
      BY <3>1 DEF LocalTargets, BlockStarts, Blocks
    <3>3. ASSUME NEW i \in DOMAIN f.blocks
          PROVE  q[i] \in Blocks /\ q[i].start = f.blocks[i].start /\ q[i].end <= f.blocks[i].end
      <4> DEFINE b == f.blocks[i]
      <4>1. q[i] = [b EXCEPT !.succ = LocalTargets(f, b.start)]
        OBVIOUS
      <4>2. b \in Blocks /\ LocalTargets(f, b.start) \subseteq Nat
        BY <3>1, <3>2
      <4> HIDE DEF b, q
      <4>3. q[i] \in Blocks /\ q[i].start = b.start /\ q[i].end <= b.end
        BY <4>1, <4>2 DEF Blocks
      <4> QED BY <4>3 DEF b
    <3>4. q = [i \in DOMAIN f.blocks |-> q[i]]
      OBVIOUS
    <3> HIDE DEF q
    <3>5. q \in Seq(Blocks) /\ DOMAIN q = DOMAIN f.blocks
      BY <3>1, <3>3, <3>4, Replaced
    <3> QED BY <3>1, <3>3, <3>5, SmallerStaysDisjoint
  <2> HIDE DEF q
  <2>3. /\ DOMAIN functions' = DOMAIN functions
        /\ \A e \in DOMAIN functions' :
             /\ IsFunction(functions'[e])
             /\ DisjointBlocks(functions[e].blocks) => DisjointBlocks(functions'[e].blocks)
    <3>1. DOMAIN functions' = DOMAIN functions
      BY <2>1
    <3>2. ASSUME NEW e \in DOMAIN functions
          PROVE  /\ IsFunction(functions'[e])
                 /\ DisjointBlocks(functions[e].blocks) => DisjointBlocks(functions'[e].blocks)
      <4>1. IsFunction(functions[e])
        BY DEF FlowInv
      <4>2. CASE e = h
        BY <2>1, <2>2, <4>1, <4>2 DEF IsFunction
      <4>3. CASE e # h
        BY <2>1, <4>1, <4>3
      <4> QED BY <4>2, <4>3
    <3> QED BY <3>1, <3>2
  <2>4. (\A e \in DOMAIN functions' : IsFunction(functions'[e])) /\ BlocksDisjoint'
    BY <1>0, <2>3, FunctionsReplaced
  <2>5. \A e : Skipped(e)' <=> Skipped(e)
    BY <1>0 DEF Skipped
  <2> QED BY <1>0, <2>1, <2>3, <2>4, <2>5 DEF FlowInv
<1>3. CASE ImportSeedRanges
  <2> DEFINE fallback == {e \in DOMAIN seeds : e \notin DOMAIN functions /\ seeds[e].end > e /\ ~Skipped(e)}
             only(e) == <<Block(e, seeds[e].end, {})>>
  <2>1. /\ functions' = [e \in DOMAIN functions \cup fallback |->
                           IF e \in fallback THEN FunctionOf(only(e), "gtirb-seed-range-fallback")
                           ELSE functions[e]]
        /\ copying' = copying /\ pc = "edges" /\ pc' = "decode"
    BY <1>3 DEF ImportSeedRanges
  <2>2. \A e \in fallback : IsFunction(functions'[e]) /\ DisjointBlocks(functions'[e].blocks)
    <3>1. TAKE e \in fallback
    <3>2. e \in Nat /\ seeds[e].end \in Nat /\ e < seeds[e].end
      <4>1. e \in DOMAIN image.seeds /\ seeds[e].end = image.seeds[e].end /\ image \in Images
        BY <2>1 DEF FlowInv
      <4>2. e \in Nat /\ image.seeds[e].end \in Nat
        BY <4>1, ImagesAssumption
      <4> QED BY <4>1, <4>2
    <3>3. Block(e, seeds[e].end, {}) \in Blocks
      BY <3>2 DEF Block, Blocks
    <3>4. only(e) \in Seq(Blocks) /\ DOMAIN only(e) = {1}
      BY <3>3
    <3>5. "blocks" \in DOMAIN functions'[e] /\ functions'[e].blocks = only(e)
      BY <2>1 DEF FunctionOf
    <3> QED BY <3>4, <3>5 DEF IsFunction, DisjointBlocks
  <2>3. \A e \in DOMAIN functions' \ fallback : e \in DOMAIN functions /\ functions'[e] = functions[e]
    BY <2>1
  <2>4. \A e \in DOMAIN functions' : IsFunction(functions'[e])
    BY <2>2, <2>3 DEF FlowInv
  <2>5. BlocksDisjoint'
    <3>1. ASSUME NEW e \in DOMAIN functions',
                 e \in DOMAIN image.owned => DisjointBlocks(ImportedBlocks(e))
          PROVE  DisjointBlocks(functions'[e].blocks)
      <4>1. CASE e \in fallback
        BY <4>1, <2>2
      <4>2. CASE e \notin fallback
        BY <4>2, <3>1, <2>3 DEF FlowInv, BlocksDisjoint
      <4> QED BY <4>1, <4>2
    <3> QED BY <3>1, <1>0, <1>imp DEF BlocksDisjoint
  <2> QED BY <1>0, <2>1, <2>4, <2>5 DEF FlowInv
<1>4. CASE DecodeExistingBlocks
  BY <1>0, <1>4, <1>same DEF DecodeExistingBlocks, FlowInv
<1>5. CASE CollectFold \/ StartFolding
  BY <1>0, <1>5, <1>same DEF CollectFold, StartFolding, FlowInv
<1>6. CASE SkipFold
  BY <1>0, <1>6, <1>same DEF SkipFold, FlowInv
<1>7. CASE StartFold
  <2>1. /\ functions' = functions /\ pc' = "copy"
        /\ fold.target \in DOMAIN functions /\ copying' = functions[fold.target].blocks
    BY <1>7 DEF StartFold
  <2>2. copying' \in Seq(Blocks)
    BY <2>1 DEF FlowInv, IsFunction
  <2> QED BY <1>0, <2>1, <2>2, <1>same DEF FlowInv
<1>8. CASE CopyBlock
  <2> DEFINE o == fold.owner
             b == Head(copying)
  <2>1. /\ pc' = pc /\ pc = "copy" /\ copying # <<>> /\ copying' = Tail(copying)
        /\ functions' = IF o \in DOMAIN functions
                        THEN [functions EXCEPT ![o] = AddBasicBlock(facts, functions[o], b)]
                        ELSE functions
    BY <1>8 DEF CopyBlock
  <2>2. copying \in Seq(Blocks) /\ copying' \in Seq(Blocks) /\ b \in Blocks
    BY <2>1 DEF FlowInv
  <2>3. /\ DOMAIN functions' = DOMAIN functions
        /\ \A e \in DOMAIN functions' :
             /\ IsFunction(functions'[e])
             /\ DisjointBlocks(functions[e].blocks) => DisjointBlocks(functions'[e].blocks)
    <3>1. DOMAIN functions' = DOMAIN functions
      BY <2>1
    <3>2. ASSUME NEW e \in DOMAIN functions
          PROVE  /\ IsFunction(functions'[e])
                 /\ DisjointBlocks(functions[e].blocks) => DisjointBlocks(functions'[e].blocks)
      <4>1. IsFunction(functions[e])
        BY DEF FlowInv
      <4>2. CASE e = o
        <5>1. functions'[e] = AddBasicBlock(facts, functions[e], b)
          BY <2>1, <4>2
        <5> QED BY <5>1, <4>1, <2>2, AddKeepsDisjoint
      <4>3. CASE e # o
        BY <2>1, <4>1, <4>3
      <4> QED BY <4>2, <4>3
    <3> QED BY <3>1, <3>2
  <2>4. (\A e \in DOMAIN functions' : IsFunction(functions'[e])) /\ BlocksDisjoint'
    BY <1>0, <2>3, FunctionsReplaced
  <2> QED BY <1>0, <2>1, <2>2, <2>4 DEF FlowInv
<1>9. CASE FinishFold
  <2> DEFINE o == fold.owner
             t == fold.target
             regained == {x \in Flows : x.to = t /\ InFunction(x.from) /\ Owner(x.from) = o}
             attached == IF o \in DOMAIN functions
                         THEN [functions EXCEPT ![o] = Attached(functions[o], regained)]
                         ELSE functions
  <2>1. /\ pc = "copy" /\ pc' = "folding" /\ copying' = copying
        /\ functions' = [e \in DOMAIN functions \ {t} |-> attached[e]]
    BY <1>9 DEF FinishFold
  <2> HIDE DEF regained
  <2>2. ASSUME NEW e \in DOMAIN functions'
        PROVE  /\ e \in DOMAIN functions
               /\ IsFunction(functions'[e])
               /\ DisjointBlocks(functions[e].blocks) => DisjointBlocks(functions'[e].blocks)
    <3>1. e \in DOMAIN functions /\ IsFunction(functions[e])
      BY <2>1 DEF FlowInv
    <3>2. CASE e = o
      <4>1. functions'[e] = Attached(functions[e], regained)
        BY <2>1, <3>1, <3>2
      <4> QED BY <4>1, <3>1, AttachedKeepsBlocks
    <3>3. CASE e # o
      BY <2>1, <3>1, <3>3
    <3> QED BY <3>1, <3>2, <3>3
  <2>3. (\A e \in DOMAIN functions' : IsFunction(functions'[e])) /\ BlocksDisjoint'
    BY <1>0, <2>2, FunctionsReplaced
  <2> QED BY <1>0, <2>1, <2>3 DEF FlowInv
<1>10. ASSUME functions' = Restored PROVE (\A e \in DOMAIN functions' : IsFunction(functions'[e])) /\ BlocksDisjoint'
  <2>1. DOMAIN functions' = DOMAIN functions
        /\ \A e \in DOMAIN functions : functions'[e] = Attached(functions[e], LocalFlows(e))
    BY <1>10 DEF Restored
  <2>2. ASSUME NEW e \in DOMAIN functions'
        PROVE  /\ IsFunction(functions'[e])
               /\ DisjointBlocks(functions[e].blocks) => DisjointBlocks(functions'[e].blocks)
    BY <2>1, AttachedKeepsBlocks DEF FlowInv
  <2> QED BY <1>0, <2>1, <2>2, FunctionsReplaced
<1>11. CASE RestoreAfterFolds
  BY <1>0, <1>10, <1>11 DEF RestoreAfterFolds, FlowInv
<1>12. CASE CollectSplits
  BY <1>0, <1>12, <1>same DEF CollectSplits, FlowInv
<1>13. CASE SplitBlock
  <2> DEFINE h == Head(todo).entry
             a == Head(todo).at
  <2>1. /\ pc' = pc /\ pc = "splitting" /\ copying' = copying
        /\ functions' = [functions EXCEPT ![h] = EnsureBlockStartsAt(facts, functions[h], a)]
    BY <1>13 DEF SplitBlock
  <2>2. ASSUME NEW e \in DOMAIN functions'
        PROVE  /\ e \in DOMAIN functions
               /\ IsFunction(functions'[e])
               /\ DisjointBlocks(functions[e].blocks) => DisjointBlocks(functions'[e].blocks)
    <3>1. e \in DOMAIN functions /\ IsFunction(functions[e])
      BY <2>1 DEF FlowInv
    <3>2. CASE e = h
      <4>1. functions'[e] = EnsureBlockStartsAt(facts, functions[e], a)
        BY <2>1, <3>1, <3>2
      <4> QED BY <4>1, <3>1, SplitKeepsDisjoint
    <3>3. CASE e # h
      BY <2>1, <3>1, <3>3
    <3> QED BY <3>1, <3>2, <3>3
  <2>3. (\A e \in DOMAIN functions' : IsFunction(functions'[e])) /\ BlocksDisjoint'
    BY <1>0, <2>2, FunctionsReplaced
  <2> QED BY <1>0, <2>1, <2>3 DEF FlowInv
<1>14. CASE RestoreAfterSplits
  BY <1>0, <1>10, <1>14 DEF RestoreAfterSplits, FlowInv
<1>15. CASE UNCHANGED vars
  <2>1. \A e : Skipped(e)' <=> Skipped(e)
    BY <1>0 DEF Skipped
  <2> QED BY <1>0, <1>15, <1>same, <2>1 DEF vars, FlowInv
<1> QED BY <1>1, <1>2, <1>3, <1>4, <1>5, <1>6, <1>7, <1>8, <1>9, <1>11, <1>12, <1>13, <1>14, <1>15 DEF Next

(* No address is in two blocks of a function, unless GTIRB itself listed     *)
(* overlapping blocks for it: neither the copies of foldEhFrameOnlyBranch-   *)
(* Targets nor the splits make blocks overlap.                              *)
THEOREM DisjointBlocksStay == Spec => []BlocksDisjoint
<1>1. FlowInv => BlocksDisjoint
  BY DEF FlowInv
<1> QED BY FlowInit, FlowStep, <1>1, PTL DEF Spec
-----------------------------------------------------------------------------
(* What addBasicBlock does to the starts, the ranges and the edges.         *)

\* Every edge leads to a start of S.
EdgesIn(blocks, S) == \A i \in DOMAIN blocks : blocks[i].succ \subseteq S

(* The result, block by block: the old ones keep their starts, and one that *)
(* got shorter ends where the new block starts, or starts and ends with it; *)
(* what is new is the new block, up to a start behind it.                   *)
Added(old, b, new) ==
  /\ DOMAIN old \subseteq DOMAIN new
  /\ \A i \in DOMAIN old :
       /\ new[i] \in Blocks /\ new[i].start = old[i].start /\ new[i].end <= old[i].end
       /\ \/ new[i].end = old[i].end
          \/ new[i].end = b.start /\ old[i].start < b.start
          \/ new[i].end = b.end /\ old[i].start = b.start
       /\ \/ new[i].succ \subseteq old[i].succ \cup b.succ
          \/ new[i].succ \subseteq {b.start}
  /\ \A i \in DOMAIN new \ DOMAIN old :
       /\ new[i] \in Blocks /\ new[i].start = b.start /\ new[i].end <= b.end
       /\ \/ new[i].end = b.end /\ new[i].succ = b.succ
          \/ new[i].end \in BlockStarts(old) /\ new[i].succ \subseteq {new[i].end}
  /\ BlockStarts(new) = BlockStarts(old) \cup {b.start}

LEMMA AddedBlocks ==
  ASSUME NEW known, NEW f, IsFunction(f), NEW b \in Blocks
  PROVE  Added(f.blocks, b, AddBasicBlock(known, f, b).blocks)
<1> DEFINE old == f.blocks
           new == AddBasicBlock(known, f, b).blocks
<1>0. /\ "blocks" \in DOMAIN f /\ old \in Seq(Blocks)
      /\ \A i \in DOMAIN old : old[i] \in Blocks
      /\ b.start < b.end /\ b.start \in Nat
  BY DEF IsFunction, Blocks
<1> SUFFICES Added(old, b, new)
  OBVIOUS
<1>1. CASE b.start \in BlockStarts(old)
  <2> DEFINE q == [i \in DOMAIN old |-> SameStart(old[i], b)]
  <2>1. new = q
    BY <1>0, <1>1 DEF AddBasicBlock, Blocks
  <2>2. ASSUME NEW i \in DOMAIN old
        PROVE  /\ q[i] \in Blocks /\ q[i].start = old[i].start /\ q[i].end <= old[i].end
               /\ \/ q[i].end = old[i].end
                  \/ q[i].end = b.end /\ old[i].start = b.start
               /\ q[i].succ \subseteq old[i].succ \cup b.succ
    <3>1. q[i] = SameStart(old[i], b) /\ old[i] \in Blocks
      BY <1>0
    <3>2. q[i] \in Blocks /\ q[i].start = old[i].start /\ q[i].end <= old[i].end
      BY <3>1, SameStartFits
    <3>3. CASE b.start # old[i].start \/ b.end > old[i].end
      BY <3>1, <3>2, <3>3 DEF SameStart
    <3>4. CASE ~(b.start # old[i].start \/ b.end > old[i].end) /\ b.end = old[i].end
      <4>1. q[i] = [old[i] EXCEPT !.succ = @ \cup b.succ]
        BY <3>1, <3>4 DEF SameStart
      <4> QED BY <4>1, <3>1, <3>2 DEF Blocks
    <3>5. CASE ~(b.start # old[i].start \/ b.end > old[i].end) /\ b.end # old[i].end
      BY <3>1, <3>2, <3>5 DEF SameStart, Block
    <3> QED BY <3>3, <3>4, <3>5
  <2>3. DOMAIN q = DOMAIN old
    OBVIOUS
  <2> HIDE DEF q, new
  <2>4. BlockStarts(q) = BlockStarts(old) \cup {b.start}
    BY <1>1, <2>2, <2>3 DEF BlockStarts
  <2> QED BY <2>1, <2>2, <2>3, <2>4 DEF Added
<1>2. CASE b.start \notin BlockStarts(old)
  <2> DEFINE cut   == [i \in DOMAIN old |-> CutAt(known, old[i], b.start)]
             added == CutNew(known, old, b)
             q     == Append(cut, added)
  <2>1. new = q
    BY <1>0, <1>2 DEF AddBasicBlock, Blocks
  <2>2. ASSUME NEW i \in DOMAIN old
        PROVE  /\ cut[i] \in Blocks /\ cut[i].start = old[i].start /\ cut[i].end <= old[i].end
               /\ \/ cut[i].end = old[i].end
                  \/ cut[i].end = b.start /\ old[i].start < b.start
               /\ cut[i].succ \subseteq old[i].succ \/ cut[i].succ \subseteq {b.start}
    <3>1. cut[i] = CutAt(known, old[i], b.start) /\ old[i] \in Blocks
      BY <1>0
    <3>2. cut[i] \in Blocks /\ cut[i].start = old[i].start /\ cut[i].end <= old[i].end
      BY <3>1, <1>0, CutFits
    <3>3. CASE old[i].start < b.start /\ b.start < old[i].end
      <4>1. cut[i] = Block(old[i].start, b.start, SplitEdge(known, old[i].start, b.start, old[i].succ))
        BY <3>1, <3>3 DEF CutAt
      <4> QED BY <4>1, <3>2, <3>3 DEF Block, SplitEdge
    <3>4. CASE ~(old[i].start < b.start /\ b.start < old[i].end)
      BY <3>1, <3>2, <3>4 DEF CutAt
    <3> QED BY <3>3, <3>4
  <2>3. /\ added \in Blocks /\ added.start = b.start /\ added.end <= b.end
        /\ \/ added.end = b.end /\ added.succ = b.succ
           \/ added.end \in BlockStarts(old) /\ added.succ \subseteq {added.end}
    <3> DEFINE ahead == BlocksAhead(old, b)
               near  == NearestOf(old, ahead)
               stop  == old[near].start
               kept  == IF old[FirstOf(ahead)].start = stop THEN b.succ ELSE {}
    <3>1. added \in Blocks /\ added.start = b.start
      BY <1>0, <1>2, CutNewFits
    <3>2. CASE ahead = {}
      <4>1. added = b
        BY <3>2 DEF CutNew
      <4> QED BY <4>1, <3>1 DEF Blocks
    <3>3. CASE ahead # {}
      <4>1. added = Block(b.start, stop, SplitEdge(known, b.start, stop, kept))
        BY <3>3 DEF CutNew
      <4>2. near \in ahead
        <5>1. {old[i].start : i \in ahead} \subseteq Nat /\ {old[i].start : i \in ahead} # {}
          BY <1>0, <3>3 DEF BlocksAhead, Blocks
        <5>2. PICK x \in {old[i].start : i \in ahead} : \A y \in {old[i].start : i \in ahead} : x <= y
          BY <5>1, Smallest
        <5>3. \E i \in ahead : \A j \in ahead : old[i].start <= old[j].start
          BY <5>2
        <5> QED BY <5>3 DEF NearestOf
      <4>3. near \in DOMAIN old /\ stop < b.end
        BY <4>2 DEF BlocksAhead
      <4>4. stop \in BlockStarts(old) /\ stop \in Nat
        BY <4>3, <1>0 DEF BlockStarts, Blocks
      <4>5. added.end = stop /\ added.succ = SplitEdge(known, b.start, stop, kept)
        BY <4>1 DEF Block
      <4>6. added.succ \subseteq {stop}
        BY <4>5 DEF SplitEdge
      <4>7. b.end \in Nat
        BY DEF Blocks
      <4>8. stop <= b.end
        BY <4>3, <4>4, <4>7
      <4> QED BY <3>1, <4>4, <4>5, <4>6, <4>8
    <3> QED BY <3>2, <3>3
  <2>4. DOMAIN cut = DOMAIN old /\ cut = [i \in DOMAIN old |-> cut[i]]
    OBVIOUS
  <2> HIDE DEF cut, added, new
  <2>5. cut \in Seq(Blocks)
    BY <1>0, <2>2, <2>4, Replaced
  <2>6. /\ DOMAIN q = DOMAIN cut \cup {Len(cut) + 1} /\ Len(cut) + 1 \notin DOMAIN cut
        /\ q[Len(cut) + 1] = added
        /\ \A i \in DOMAIN cut : q[i] = cut[i]
    BY <2>3, <2>5
  <2> HIDE DEF q
  <2>7. BlockStarts(q) = BlockStarts(old) \cup {b.start}
    <3>1. ASSUME NEW s \in BlockStarts(q) PROVE s \in BlockStarts(old) \cup {b.start}
      <4>1. PICK i \in DOMAIN q : s = q[i].start
        BY <3>1 DEF BlockStarts
      <4>2. CASE i \in DOMAIN cut
        <5>1. i \in DOMAIN old /\ q[i] = cut[i]
          BY <4>2, <2>4, <2>6
        <5>2. s = old[i].start
          BY <4>1, <5>1, <2>2
        <5> QED BY <5>1, <5>2 DEF BlockStarts
      <4>3. CASE i \notin DOMAIN cut
        BY <4>1, <4>3, <2>3, <2>6
      <4> QED BY <4>2, <4>3
    <3>2. b.start \in BlockStarts(q)
      BY <2>3, <2>6 DEF BlockStarts
    <3>3. ASSUME NEW s \in BlockStarts(old) PROVE s \in BlockStarts(q)
      <4>1. PICK i \in DOMAIN old : s = old[i].start
        BY <3>3 DEF BlockStarts
      <4>2. i \in DOMAIN q /\ q[i].start = s
        BY <4>1, <2>2, <2>4, <2>6
      <4> QED BY <4>2 DEF BlockStarts
    <3> QED BY <3>1, <3>2, <3>3
  <2>8. \A i \in DOMAIN old : i \in DOMAIN q /\ q[i] = cut[i]
    BY <2>4, <2>6
  <2>9. \A i \in DOMAIN q \ DOMAIN old : q[i] = added
    BY <2>4, <2>6
  <2>10. \A i \in DOMAIN old : new[i] = cut[i] /\ i \in DOMAIN new
    BY <2>1, <2>8
  <2>11. \A i \in DOMAIN new \ DOMAIN old : new[i] = added
    BY <2>1, <2>9
  <2>12. BlockStarts(new) = BlockStarts(old) \cup {b.start}
    BY <2>1, <2>7
  <2>13. \A i \in DOMAIN old :
           /\ new[i] \in Blocks /\ new[i].start = old[i].start /\ new[i].end <= old[i].end
           /\ \/ new[i].end = old[i].end
              \/ new[i].end = b.start /\ old[i].start < b.start
              \/ new[i].end = b.end /\ old[i].start = b.start
           /\ \/ new[i].succ \subseteq old[i].succ \cup b.succ
              \/ new[i].succ \subseteq {b.start}
    <3>1. TAKE i \in DOMAIN old
    <3>2. new[i] = cut[i]
      BY <2>10
    <3> QED BY <3>2, <2>2
  <2> HIDE DEF old
  <2> QED BY <2>3, <2>10, <2>11, <2>12, <2>13 DEF Added
<1> QED BY <1>1, <1>2

(* A block added to a function whose edges lead to its starts, or to starts  *)
(* still to come, leaves it so.                                             *)
LEMMA AddKeepsEdges ==
  ASSUME NEW known, NEW f, IsFunction(f), NEW b \in Blocks, NEW S,
         EdgesIn(f.blocks, BlockStarts(f.blocks) \cup {b.start} \cup S),
         b.succ \subseteq BlockStarts(f.blocks) \cup {b.start} \cup S
  PROVE  LET new == AddBasicBlock(known, f, b).blocks IN EdgesIn(new, BlockStarts(new) \cup S)
<1> DEFINE old == f.blocks
           new == AddBasicBlock(known, f, b).blocks
<1>0. Added(old, b, new)
  BY AddedBlocks
<1> HIDE DEF new
<1>1. /\ BlockStarts(new) = BlockStarts(old) \cup {b.start}
      /\ \A i \in DOMAIN old : \/ new[i].succ \subseteq old[i].succ \cup b.succ
                               \/ new[i].succ \subseteq {b.start}
      /\ \A i \in DOMAIN new \ DOMAIN old :
           \/ new[i].succ = b.succ
           \/ new[i].end \in BlockStarts(old) /\ new[i].succ \subseteq {new[i].end}
  BY <1>0 DEF Added
<1>2. ASSUME NEW i \in DOMAIN new PROVE new[i].succ \subseteq BlockStarts(new) \cup S
  <2>1. CASE i \in DOMAIN old
    <3>1. old[i].succ \subseteq BlockStarts(old) \cup {b.start} \cup S
      BY <2>1 DEF EdgesIn
    <3> QED BY <3>1, <2>1, <1>1
  <2>2. CASE i \notin DOMAIN old
    BY <2>2, <1>1
  <2> QED BY <2>1, <2>2
<1> QED BY <1>2 DEF EdgesIn, new

(* Attaching flows moves no block, and the edges it adds lead to starts.    *)
LEMMA AttachedBlocks ==
  ASSUME NEW f, IsFunction(f), NEW S
  PROVE  LET new == Attached(f, S).blocks IN
         /\ DOMAIN new = DOMAIN f.blocks
         /\ \A i \in DOMAIN new :
              /\ new[i].start = f.blocks[i].start /\ new[i].end = f.blocks[i].end
              /\ new[i].succ \subseteq f.blocks[i].succ \cup BlockStarts(f.blocks)
         /\ BlockStarts(new) = BlockStarts(f.blocks)
<1> DEFINE old == f.blocks
           leaving(i) == {x \in S : /\ x.to \in BlockStarts(old)
                                    /\ HasBlockContaining(old, x.from)
                                    /\ BlockContaining(old, x.from) = i}
           to(i) == {x.to : x \in leaving(i)}
           q == [i \in DOMAIN old |-> [old[i] EXCEPT !.succ = @ \cup to(i)]]
           new == Attached(f, S).blocks
<1>1. /\ "blocks" \in DOMAIN f /\ old \in Seq(Blocks)
      /\ \A i \in DOMAIN old : old[i] \in Blocks
  BY DEF IsFunction
<1>2. new = q
  BY <1>1 DEF Attached
<1>3. \A i : to(i) \subseteq BlockStarts(old)
  OBVIOUS
<1> HIDE DEF to, new
<1>4. \A i \in DOMAIN old : /\ q[i].start = old[i].start /\ q[i].end = old[i].end
                            /\ q[i].succ = old[i].succ \cup to(i)
  BY <1>1 DEF Blocks
<1>5. DOMAIN q = DOMAIN old
  OBVIOUS
<1> HIDE DEF q
<1>6. BlockStarts(q) = BlockStarts(old)
  BY <1>4, <1>5 DEF BlockStarts
<1>7. \A i \in DOMAIN new :
        /\ new[i].start = old[i].start /\ new[i].end = old[i].end
        /\ new[i].succ \subseteq old[i].succ \cup BlockStarts(old)
  BY <1>2, <1>3, <1>4, <1>5
<1>8. DOMAIN new = DOMAIN old /\ BlockStarts(new) = BlockStarts(old)
  BY <1>2, <1>5, <1>6
<1> QED BY <1>7, <1>8 DEF new

-----------------------------------------------------------------------------
(* Edges *)

\* The starts a function being extended has still to get.
Pending(e) == IF pc = "copy" /\ e = fold.owner THEN BlockStarts(copying) ELSE {}

\* Edges lead to starts of the same function, or of blocks that are on their
\* way into it; so do those of the blocks on their way.
EdgesInv ==
  /\ \A e \in DOMAIN functions :
       EdgesIn(functions[e].blocks, BlockStarts(functions[e].blocks) \cup Pending(e))
  /\ pc = "copy" /\ fold.owner \in DOMAIN functions =>
       EdgesIn(copying, BlockStarts(functions[fold.owner].blocks) \cup BlockStarts(copying))

\* What a step that changes no block list keeps.
LEMMA EdgesUnchanged ==
  ASSUME EdgesInv, functions' = functions, pc # "copy", pc' # "copy"
  PROVE  EdgesInv'
<1>1. \A e : Pending(e) = {} /\ Pending(e)' = {}
  BY DEF Pending
<1>2. \A e : functions'[e] = functions[e]
  OBVIOUS
<1> HIDE DEF Pending
<1>3. \A e \in DOMAIN functions' :
        EdgesIn(functions'[e].blocks, BlockStarts(functions'[e].blocks) \cup Pending(e)')
  BY <1>1 DEF EdgesInv
<1> QED BY <1>3 DEF EdgesInv

(* Blocks taken from the front of the list on its way leave the others.     *)
LEMMA StartsOfTail ==
  ASSUME NEW list \in Seq(Blocks), list # <<>>
  PROVE  /\ Head(list) \in Blocks
         /\ BlockStarts(list) = {Head(list).start} \cup BlockStarts(Tail(list))
         /\ \A i \in DOMAIN Tail(list) : i + 1 \in DOMAIN list /\ Tail(list)[i] = list[i + 1]
         /\ 1 \in DOMAIN list /\ Head(list) = list[1]
<1>1. /\ DOMAIN list = 1 .. Len(list) /\ Len(list) \in Nat /\ Len(list) >= 1
      /\ DOMAIN Tail(list) = 1 .. Len(list) - 1
      /\ \A i \in 1 .. Len(list) - 1 : Tail(list)[i] = list[i + 1]
      /\ Head(list) = list[1]
      /\ Head(list) \in Blocks
  OBVIOUS
<1>2. ASSUME NEW s \in BlockStarts(list) PROVE s \in {Head(list).start} \cup BlockStarts(Tail(list))
  <2>1. PICK i \in DOMAIN list : s = list[i].start
    BY DEF BlockStarts
  <2>2. CASE i = 1
    BY <2>1, <2>2, <1>1
  <2>3. CASE i # 1
    <3>1. i - 1 \in DOMAIN Tail(list) /\ Tail(list)[i - 1] = list[i]
      BY <2>1, <2>3, <1>1
    <3> QED BY <2>1, <3>1 DEF BlockStarts
  <2> QED BY <2>2, <2>3
<1>3. Head(list).start \in BlockStarts(list)
  BY <1>1 DEF BlockStarts
<1>4. ASSUME NEW s \in BlockStarts(Tail(list)) PROVE s \in BlockStarts(list)
  <2>1. PICK i \in DOMAIN Tail(list) : s = Tail(list)[i].start
    BY DEF BlockStarts
  <2>2. i + 1 \in DOMAIN list /\ list[i + 1] = Tail(list)[i]
    BY <2>1, <1>1
  <2> QED BY <2>1, <2>2 DEF BlockStarts
<1>5. \A i \in DOMAIN Tail(list) : i + 1 \in DOMAIN list /\ Tail(list)[i] = list[i + 1]
  BY <1>1
<1>6. 1 \in DOMAIN list
  BY <1>1
<1> QED BY <1>1, <1>2, <1>3, <1>4, <1>5, <1>6

LEMMA EdgesInit == Init => EdgesInv
<1> SUFFICES ASSUME Init PROVE EdgesInv
  OBVIOUS
<1>1. DOMAIN functions = {} /\ pc = "functions"
  BY DEF Init
<1> QED BY <1>1 DEF EdgesInv

\* With no fragment on its way, the edges of every function suffice.
LEMMA EdgesWhenIdle ==
  ASSUME pc' # "copy",
         \A e \in DOMAIN functions' : EdgesIn(functions'[e].blocks, BlockStarts(functions'[e].blocks))
  PROVE  EdgesInv'
<1>1. \A e : Pending(e)' = {}
  BY DEF Pending
<1> HIDE DEF Pending
<1>2. \A e \in DOMAIN functions' :
        EdgesIn(functions'[e].blocks, BlockStarts(functions'[e].blocks) \cup Pending(e)')
  BY <1>1
<1> QED BY <1>2 DEF EdgesInv

LEMMA EdgesStep == FlowInv /\ EdgesInv /\ [Next]_vars => EdgesInv'
<1> SUFFICES ASSUME FlowInv, EdgesInv, [Next]_vars PROVE EdgesInv'
  OBVIOUS
<1> USE DEF FlowInv
<1>idle. ASSUME pc # "copy"
         PROVE  \A e \in DOMAIN functions : EdgesIn(functions[e].blocks, BlockStarts(functions[e].blocks))
  <2>1. \A e : Pending(e) = {}
    BY <1>idle DEF Pending
  <2> HIDE DEF Pending
  <2> QED BY <2>1 DEF EdgesInv
<1>1. CASE ImportFunctions
  <2>1. /\ functions' = [e \in {e \in DOMAIN image.owned : ~Skipped(e)} |->
                           FunctionOf(ImportedBlocks(e), "gtirb-ddisasm")]
        /\ pc' = "edges"
    BY <1>1 DEF ImportFunctions
  <2>2. ASSUME NEW e \in DOMAIN functions' PROVE EdgesIn(functions'[e].blocks, BlockStarts(functions'[e].blocks))
    <3>1. functions'[e].blocks = ImportedBlocks(e)
      BY <2>1 DEF FunctionOf
    <3>2. \A i \in DOMAIN ImportedBlocks(e) : ImportedBlocks(e)[i].succ = {}
      BY DEF ImportedBlocks, Block
    <3> HIDE DEF FlowInv
    <3> QED BY <3>1, <3>2 DEF EdgesIn
  <2> QED BY <2>1, <2>2, EdgesWhenIdle
<1>2. CASE ImportCfgEdges
  <2> DEFINE h == Head(todo)
             f == functions[h]
             q == [i \in DOMAIN f.blocks |-> [f.blocks[i] EXCEPT !.succ = LocalTargets(f, f.blocks[i].start)]]
  <2>1. functions' = [functions EXCEPT ![h].blocks = q] /\ pc = "edges" /\ pc' = pc
    BY <1>2 DEF ImportCfgEdges
  <2>2. ASSUME h \in DOMAIN functions PROVE EdgesIn(q, BlockStarts(q))
    <3>1. \A i \in DOMAIN f.blocks : f.blocks[i] \in Blocks
      BY <2>2 DEF IsFunction
    <3>2. \A i \in DOMAIN q : q[i].start = f.blocks[i].start /\ q[i].succ = LocalTargets(f, f.blocks[i].start)
      BY <3>1 DEF Blocks
    <3>3. BlockStarts(q) = BlockStarts(f.blocks)
      <4>1. DOMAIN q = DOMAIN f.blocks
        OBVIOUS
      <4> HIDE DEF q
      <4> QED BY <3>2, <4>1 DEF BlockStarts
    <3>4. \A s : LocalTargets(f, s) \subseteq BlockStarts(f.blocks)
      BY DEF LocalTargets
    <3> HIDE DEF q
    <3> QED BY <3>2, <3>3, <3>4 DEF EdgesIn
  <2> HIDE DEF q
  <2>3. ASSUME NEW e \in DOMAIN functions' PROVE EdgesIn(functions'[e].blocks, BlockStarts(functions'[e].blocks))
    <3>1. e \in DOMAIN functions /\ "blocks" \in DOMAIN functions[e]
      BY <2>1 DEF IsFunction
    <3>2. CASE e = h
      <4>1. functions'[e].blocks = q
        BY <2>1, <3>1, <3>2
      <4> QED BY <4>1, <2>2, <3>1, <3>2
    <3>3. CASE e # h
      <4>1. functions'[e] = functions[e]
        BY <2>1, <3>1, <3>3
      <4> QED BY <4>1, <3>1, <1>idle, <2>1
    <3> QED BY <3>2, <3>3
  <2> QED BY <2>1, <2>3, EdgesWhenIdle
<1>3. CASE ImportSeedRanges
  <2> DEFINE fallback == {e \in DOMAIN seeds : e \notin DOMAIN functions /\ seeds[e].end > e /\ ~Skipped(e)}
             only(e) == <<Block(e, seeds[e].end, {})>>
  <2>1. /\ functions' = [e \in DOMAIN functions \cup fallback |->
                           IF e \in fallback THEN FunctionOf(only(e), "gtirb-seed-range-fallback")
                           ELSE functions[e]]
        /\ pc = "edges" /\ pc' = "decode"
    BY <1>3 DEF ImportSeedRanges
  <2>2. ASSUME NEW e \in DOMAIN functions' PROVE EdgesIn(functions'[e].blocks, BlockStarts(functions'[e].blocks))
    <3>1. CASE e \in fallback
      <4>1. functions'[e].blocks = only(e)
        BY <2>1, <3>1 DEF FunctionOf
      <4>2. \A i \in DOMAIN only(e) : only(e)[i].succ = {}
        BY DEF Block
      <4> QED BY <4>1, <4>2 DEF EdgesIn
    <3>2. CASE e \notin fallback
      <4>1. e \in DOMAIN functions /\ functions'[e] = functions[e]
        BY <2>1, <3>2
      <4> QED BY <4>1, <1>idle, <2>1
    <3> QED BY <3>1, <3>2
  <2> QED BY <2>1, <2>2, EdgesWhenIdle
<1>4. CASE DecodeExistingBlocks
  BY <1>4, EdgesUnchanged DEF DecodeExistingBlocks
<1>5. CASE CollectFold \/ StartFolding
  BY <1>5, EdgesUnchanged DEF CollectFold, StartFolding
<1>6. CASE SkipFold
  BY <1>6, EdgesUnchanged DEF SkipFold
<1>7. CASE StartFold
  <2> DEFINE o == fold.owner
             t == fold.target
  <2>1. /\ functions' = functions /\ pc = "folding" /\ pc' = "copy" /\ folds' = folds
        /\ t \in DOMAIN functions /\ copying' = functions[t].blocks
    BY <1>7 DEF StartFold
  <2>2. fold' = fold
    BY <2>1 DEF fold
  <2>3. \A e \in DOMAIN functions : EdgesIn(functions[e].blocks, BlockStarts(functions[e].blocks))
    BY <2>1, <1>idle
  <2>4. \A e \in DOMAIN functions' :
          EdgesIn(functions'[e].blocks, BlockStarts(functions'[e].blocks) \cup Pending(e)')
    BY <2>1, <2>3 DEF EdgesIn
  <2>5. EdgesIn(copying', BlockStarts(functions'[fold'.owner].blocks) \cup BlockStarts(copying'))
    BY <2>1, <2>3 DEF EdgesIn
  <2> QED BY <2>4, <2>5 DEF EdgesInv
<1>8. CASE CopyBlock
  <2> DEFINE o == fold.owner
             b == Head(copying)
             rest == BlockStarts(Tail(copying))
  <2>1. /\ pc' = pc /\ pc = "copy" /\ copying # <<>> /\ copying' = Tail(copying) /\ folds' = folds
        /\ functions' = IF o \in DOMAIN functions
                        THEN [functions EXCEPT ![o] = AddBasicBlock(facts, functions[o], b)]
                        ELSE functions
    BY <1>8 DEF CopyBlock
  <2>2. fold' = fold
    BY <2>1 DEF fold
  <2>3. /\ copying \in Seq(Blocks) /\ b \in Blocks /\ BlockStarts(copying) = {b.start} \cup rest
        /\ \A i \in DOMAIN Tail(copying) : i + 1 \in DOMAIN copying /\ Tail(copying)[i] = copying[i + 1]
        /\ 1 \in DOMAIN copying /\ b = copying[1]
    BY <2>1, StartsOfTail
  <2> HIDE DEF FlowInv
  <2>4. ASSUME NEW e \in DOMAIN functions', e # o
        PROVE  EdgesIn(functions'[e].blocks, BlockStarts(functions'[e].blocks) \cup Pending(e)')
    <3>1. e \in DOMAIN functions /\ functions'[e] = functions[e]
      BY <2>1, <2>4
    <3>2. Pending(e) = {} /\ Pending(e)' = {}
      BY <2>2, <2>4 DEF Pending
    <3> QED BY <3>1, <3>2 DEF EdgesInv
  <2>5. ASSUME o \in DOMAIN functions
        PROVE  /\ EdgesIn(functions'[o].blocks, BlockStarts(functions'[o].blocks) \cup Pending(o)')
               /\ EdgesIn(copying', BlockStarts(functions'[o].blocks) \cup BlockStarts(copying'))
    <3> DEFINE f == functions[o]
               new == AddBasicBlock(facts, f, b).blocks
    <3>1. functions'[o].blocks = new
      BY <2>1, <2>5
    <3>2. Pending(o) = BlockStarts(copying) /\ Pending(o)' = rest
      BY <2>1, <2>2 DEF Pending
    <3>3. IsFunction(f)
      BY <2>5 DEF FlowInv
    <3>4. EdgesIn(f.blocks, BlockStarts(f.blocks) \cup {b.start} \cup rest)
      BY <2>3, <2>5, <3>2 DEF EdgesInv, EdgesIn
    <3>5. EdgesIn(copying, BlockStarts(f.blocks) \cup {b.start} \cup rest)
      BY <2>1, <2>3, <2>5 DEF EdgesInv, EdgesIn
    <3>6. b.succ \subseteq BlockStarts(f.blocks) \cup {b.start} \cup rest
      BY <2>3, <3>5 DEF EdgesIn
    <3> HIDE DEF f, b, rest
    <3>7. EdgesIn(new, BlockStarts(new) \cup rest)
      BY <2>3, <3>3, <3>4, <3>6, AddKeepsEdges
    <3>a. Added(f.blocks, b, new)
      BY <2>3, <3>3, AddedBlocks
    <3> HIDE DEF new
    <3>8. BlockStarts(new) = BlockStarts(f.blocks) \cup {b.start}
      BY <3>a DEF Added
    <3>9. \A i \in DOMAIN Tail(copying) : Tail(copying)[i].succ \subseteq BlockStarts(new) \cup rest
      BY <2>3, <3>5, <3>8 DEF EdgesIn
    <3>10. EdgesIn(Tail(copying), BlockStarts(new) \cup rest)
      BY <3>9 DEF EdgesIn
    <3>11. copying' = Tail(copying) /\ BlockStarts(copying') = rest
      BY <2>1 DEF rest
    <3> QED BY <3>1, <3>2, <3>7, <3>10, <3>11
  <2>6. o \in DOMAIN functions' <=> o \in DOMAIN functions
    BY <2>1
  <2> QED BY <2>1, <2>2, <2>4, <2>5, <2>6 DEF EdgesInv
<1>9. CASE FinishFold
  <2> DEFINE o == fold.owner
             t == fold.target
             regained == {x \in Flows : x.to = t /\ InFunction(x.from) /\ Owner(x.from) = o}
             attached == IF o \in DOMAIN functions
                         THEN [functions EXCEPT ![o] = Attached(functions[o], regained)]
                         ELSE functions
  <2>1. /\ pc = "copy" /\ pc' = "folding" /\ copying = <<>>
        /\ functions' = [e \in DOMAIN functions \ {t} |-> attached[e]]
    BY <1>9 DEF FinishFold
  <2> HIDE DEF regained
  <2>2. \A e \in DOMAIN functions : EdgesIn(functions[e].blocks, BlockStarts(functions[e].blocks))
    <3>1. BlockStarts(copying) = {}
      BY <2>1 DEF BlockStarts
    <3>2. \A e : Pending(e) = {}
      BY <3>1 DEF Pending
    <3> HIDE DEF Pending
    <3> QED BY <3>2 DEF EdgesInv
  <2>3. ASSUME NEW e \in DOMAIN functions' PROVE EdgesIn(functions'[e].blocks, BlockStarts(functions'[e].blocks))
    <3>1. e \in DOMAIN functions /\ IsFunction(functions[e])
      BY <2>1
    <3>2. CASE e = o
      <4>1. functions'[e] = Attached(functions[e], regained)
        BY <2>1, <3>1, <3>2
      <4> QED BY <4>1, <3>1, <2>2, AttachedBlocks DEF EdgesIn
    <3>3. CASE e # o
      <4>1. functions'[e] = functions[e]
        BY <2>1, <3>1, <3>3
      <4> QED BY <4>1, <3>1, <2>2
    <3> QED BY <3>2, <3>3
  <2> QED BY <2>1, <2>3, EdgesWhenIdle
<1>10. ASSUME functions' = Restored, pc # "copy", pc' # "copy" PROVE EdgesInv'
  <2>1. ASSUME NEW e \in DOMAIN functions' PROVE EdgesIn(functions'[e].blocks, BlockStarts(functions'[e].blocks))
    <3>1. e \in DOMAIN functions /\ functions'[e] = Attached(functions[e], LocalFlows(e)) /\ IsFunction(functions[e])
      BY <1>10 DEF Restored
    <3>2. EdgesIn(functions[e].blocks, BlockStarts(functions[e].blocks))
      BY <3>1, <1>10, <1>idle
    <3> QED BY <3>1, <3>2, AttachedBlocks DEF EdgesIn
  <2> QED BY <1>10, <2>1, EdgesWhenIdle
<1>11. CASE RestoreAfterFolds
  BY <1>10, <1>11 DEF RestoreAfterFolds
<1>12. CASE CollectSplits
  BY <1>12, EdgesUnchanged DEF CollectSplits
<1>13. CASE SplitBlock
  <2> DEFINE h == Head(todo).entry
             a == Head(todo).at
  <2>1. /\ pc' = pc /\ pc = "splitting"
        /\ functions' = [functions EXCEPT ![h] = EnsureBlockStartsAt(facts, functions[h], a)]
    BY <1>13 DEF SplitBlock
  <2>2. ASSUME NEW e \in DOMAIN functions' PROVE EdgesIn(functions'[e].blocks, BlockStarts(functions'[e].blocks))
    <3> DEFINE f == functions[e]
               S == BlockStarts(f.blocks)
    <3>1. e \in DOMAIN functions /\ IsFunction(f) /\ EdgesIn(f.blocks, S)
      BY <2>1, <1>idle
    <3>2. CASE functions'[e] = f
      BY <3>1, <3>2
    <3>3. CASE functions'[e] # f
      <4>1. functions'[e] = EnsureBlockStartsAt(facts, f, a)
        BY <2>1, <3>1, <3>3
      <4>2. PICK i \in DOMAIN f.blocks : \E b \in Blocks :
              /\ b = Block(a, f.blocks[i].end, f.blocks[i].succ)
              /\ functions'[e] = AddBasicBlock(facts, f, b)
        BY <4>1, <3>1, <3>3, SplitIsAdd
      <4>3. PICK b \in Blocks : /\ b = Block(a, f.blocks[i].end, f.blocks[i].succ)
                                /\ functions'[e] = AddBasicBlock(facts, f, b)
        BY <4>2
      <4>4. b.succ \subseteq S
        BY <4>3, <3>1 DEF Block, EdgesIn
      <4>5. /\ EdgesIn(f.blocks, S \cup {b.start} \cup {})
            /\ b.succ \subseteq S \cup {b.start} \cup {}
        BY <4>4, <3>1 DEF EdgesIn
      <4> DEFINE new == AddBasicBlock(facts, f, b).blocks
      <4>6. EdgesIn(new, BlockStarts(new) \cup {})
        BY <4>5, <3>1, AddKeepsEdges
      <4> QED BY <4>3, <4>6
    <3> QED BY <3>2, <3>3
  <2> QED BY <2>1, <2>2, EdgesWhenIdle
<1>14. CASE RestoreAfterSplits
  BY <1>10, <1>14 DEF RestoreAfterSplits
<1>15. CASE UNCHANGED vars
  <2>1. /\ functions' = functions /\ pc' = pc /\ copying' = copying /\ folds' = folds
    BY <1>15 DEF vars
  <2>2. fold' = fold
    BY <2>1 DEF fold
  <2> HIDE DEF FlowInv
  <2>3. \A e : Pending(e)' = Pending(e)
    BY <2>1, <2>2 DEF Pending
  <2> HIDE DEF Pending
  <2> QED BY <2>1, <2>2, <2>3 DEF EdgesInv
<1> QED BY <1>1, <1>2, <1>3, <1>4, <1>5, <1>6, <1>7, <1>8, <1>9, <1>11, <1>12, <1>13, <1>14, <1>15 DEF Next

(* No edge leads out of its function, not even between two folds: for every *)
(* set of images.  Blocks are copied and cut while their edges stand.       *)
THEOREM EdgesStay == Spec => []EdgesStayLocal
<1>1. FlowInv /\ EdgesInv => EdgesStayLocal
  <2> SUFFICES ASSUME FlowInv, EdgesInv, pc # "copy",
                      NEW e \in DOMAIN functions, NEW b \in ToSet(functions[e].blocks)
               PROVE  b.succ \subseteq BlockStarts(functions[e].blocks)
    BY DEF EdgesStayLocal
  <2>1. PICK i \in DOMAIN functions[e].blocks : b = functions[e].blocks[i]
    BY DEF ToSet
  <2>2. Pending(e) = {}
    BY DEF Pending
  <2> QED BY <2>1, <2>2 DEF EdgesInv, EdgesIn
<1> QED BY FlowInit, FlowStep, EdgesInit, EdgesStep, <1>1, PTL DEF Spec

-----------------------------------------------------------------------------
(* Code *)

\* Within a block of L, the listed code, the block runs to its end, or to a start of S.
RunsOn(b, S, L) ==
  \E g \in L : /\ g.start <= b.start /\ b.end <= g.end
               /\ b.end = g.end \/ b.end \in S

AllRunOn(blocks, S, L) == \A i \in DOMAIN blocks : RunsOn(blocks[i], S, L)

\* Every block is followed by another, up to the end of the listed code; while
\* a fragment is copied, by one that is on its way.
CodeInv ==
  EndTogether =>
    /\ \A e \in DOMAIN functions :
         AllRunOn(functions[e].blocks, BlockStarts(functions[e].blocks) \cup Pending(e), ListedBlocks)
    /\ pc = "copy" =>
         /\ fold.target \in DOMAIN functions
         /\ BlockStarts(copying) \subseteq BlockStarts(functions[fold.target].blocks)
    /\ pc = "copy" /\ fold.owner \in DOMAIN functions =>
         /\ AllRunOn(copying, BlockStarts(functions[fold.owner].blocks) \cup BlockStarts(copying), ListedBlocks)
         /\ BlockStarts(functions[fold.target].blocks)
              \subseteq BlockStarts(functions[fold.owner].blocks) \cup BlockStarts(copying)

\* What listed blocks are.
LEMMA ListedAreBlocks ==
  ASSUME image \in Images
  PROVE  \A g \in ListedBlocks : g.start \in Nat /\ g.end \in Nat /\ g.start < g.end
<1>1. ASSUME NEW s \in UNION {ToSet(image.owned[e]) : e \in DOMAIN image.owned}
      PROVE  s \in Nat /\ image.blocks[s] \in Nat /\ s < image.blocks[s]
  <2>1. PICK e \in DOMAIN image.owned : s \in ToSet(image.owned[e])
    BY <1>1
  <2>2. image.owned[e] \in Seq(DOMAIN image.blocks)
    BY ImagesAssumption
  <2>3. s \in DOMAIN image.blocks
    BY <2>1, <2>2 DEF ToSet
  <2> QED BY <2>3, ImagesAssumption
<1>2. \A e \in DOMAIN image.seeds : e \in Nat /\ image.seeds[e].end \in Nat
  BY ImagesAssumption
<1> QED BY <1>1, <1>2 DEF ListedBlocks, Block

\* Listed code that shares an address shares its end.
LEMMA SameEnd ==
  ASSUME image \in Images, EndTogether, NEW g \in ListedBlocks, NEW h \in ListedBlocks, NEW a \in Nat,
         g.start <= a, a < g.end, h.start <= a, a < h.end
  PROVE  g.end = h.end
<1>1. g.start \in Nat /\ g.end \in Nat /\ h.start \in Nat /\ h.end \in Nat
  BY ListedAreBlocks
<1>2. Overlap(g, h)
  BY <1>1 DEF Overlap
<1> QED BY <1>2 DEF EndTogether

(* A function whose blocks all run on holds everything from a start of a    *)
(* block to the end of the listed code that start is in.                    *)
LEMMA RunsToEnd ==
  ASSUME image \in Images, EndTogether, NEW blocks \in Seq(Blocks), AllRunOn(blocks, BlockStarts(blocks), ListedBlocks),
         NEW s \in BlockStarts(blocks), NEW g \in ListedBlocks, g.start <= s,
         NEW a \in Nat, s <= a, a < g.end
  PROVE  HasBlockContaining(blocks, a)
<1>1. \A i \in DOMAIN blocks : blocks[i] \in Blocks
  OBVIOUS
<1>2. g.start \in Nat /\ g.end \in Nat
  BY ListedAreBlocks
<1>3. BlockStarts(blocks) \subseteq Nat
  BY <1>1 DEF BlockStarts, Blocks
\* the distances from a back to the starts before it
<1> DEFINE back == {d \in 0 .. a - s : a - d \in BlockStarts(blocks)}
<1>4. back \subseteq Nat /\ a - s \in back
  BY <1>3
<1>5. PICK d \in back : \A y \in back : d <= y
  BY <1>4, Smallest
<1>6. a - d \in BlockStarts(blocks) /\ s <= a - d /\ a - d <= a /\ d \in Nat
  BY <1>3, <1>4, <1>5
<1>7. PICK i \in DOMAIN blocks : blocks[i].start = a - d
  BY <1>6 DEF BlockStarts
<1>8. blocks[i].start \in Nat /\ blocks[i].end \in Nat /\ blocks[i].start < blocks[i].end
  BY <1>1 DEF Blocks
<1>9. CASE a < blocks[i].end
  BY <1>6, <1>7, <1>8, <1>9 DEF HasBlockContaining, Holds
<1>10. CASE blocks[i].end <= a
  <2>1. PICK h \in ListedBlocks : /\ h.start <= blocks[i].start /\ blocks[i].end <= h.end
                                  /\ blocks[i].end = h.end \/ blocks[i].end \in BlockStarts(blocks)
    BY DEF AllRunOn, RunsOn
  <2>2. h.start \in Nat /\ h.end \in Nat
    BY ListedAreBlocks
  <2> DEFINE from == blocks[i].start
             to == blocks[i].end
  <2>3. from = a - d /\ s <= from
    BY <1>6, <1>7
  <2>4. h.start <= from /\ from < h.end /\ g.start <= from /\ from < g.end
    BY <1>2, <1>3, <1>8, <1>10, <2>1, <2>2, <2>3
  <2>5. g.end = h.end
    BY <1>8, <2>4, SameEnd
  <2>6. to \in BlockStarts(blocks)
    BY <1>2, <1>8, <1>10, <2>1, <2>5
  <2>7. a - to \in back /\ a - to < d
    <3>1. a - (a - to) = to /\ a - to \in 0 .. a - s /\ a - to < d
      BY <1>3, <1>6, <1>7, <1>8, <1>10
    <3> QED BY <2>6, <3>1
  <2>8. d <= a - to
    BY <2>7, <1>5
  <2> QED BY <2>7, <2>8, <1>6, <1>8
<1> QED BY <1>8, <1>9, <1>10

\* What runs on still does when there are more starts.
LEMMA RunsOnMore ==
  ASSUME NEW b, NEW L, NEW S, NEW T, S \subseteq T, RunsOn(b, S, L)
  PROVE  RunsOn(b, T, L)
  BY DEF RunsOn

(* A block that is added, and the blocks it cuts short, run on.             *)
LEMMA AddRunsOn ==
  ASSUME image \in Images, EndTogether, NEW known, NEW f, IsFunction(f), NEW b \in Blocks, NEW S,
         AllRunOn(f.blocks, BlockStarts(f.blocks) \cup {b.start} \cup S, ListedBlocks),
         RunsOn(b, BlockStarts(f.blocks) \cup {b.start} \cup S, ListedBlocks)
  PROVE  LET new == AddBasicBlock(known, f, b).blocks IN AllRunOn(new, BlockStarts(new) \cup S, ListedBlocks)
<1> DEFINE old == f.blocks
           new == AddBasicBlock(known, f, b).blocks
           all == BlockStarts(new) \cup S
<1>1. Added(old, b, new) /\ old \in Seq(Blocks)
  BY AddedBlocks DEF IsFunction
<1> HIDE DEF new
<1>2. all = BlockStarts(old) \cup {b.start} \cup S
  BY <1>1 DEF Added
<1>3. PICK g \in ListedBlocks : g.start <= b.start /\ b.end <= g.end /\ (b.end = g.end \/ b.end \in all)
  BY <1>2 DEF RunsOn
<1>4. g.start \in Nat /\ g.end \in Nat /\ b.start \in Nat /\ b.end \in Nat /\ b.start < b.end
  BY ListedAreBlocks DEF Blocks
<1>5. ASSUME NEW i \in DOMAIN old PROVE RunsOn(new[i], all, ListedBlocks)
  <2>1. PICK h \in ListedBlocks : /\ h.start <= old[i].start /\ old[i].end <= h.end
                                  /\ old[i].end = h.end \/ old[i].end \in all
    BY <1>2 DEF AllRunOn, RunsOn
  <2>2. h.start \in Nat /\ h.end \in Nat
    BY ListedAreBlocks
  <2>3. old[i] \in Blocks /\ new[i] \in Blocks /\ new[i].start = old[i].start /\ new[i].end <= old[i].end
    BY <1>1 DEF Added
  <2>4. old[i].start \in Nat /\ old[i].end \in Nat /\ old[i].start < old[i].end /\ new[i].end \in Nat
    BY <2>3 DEF Blocks
  <2>5. new[i].end <= h.end
    BY <2>1, <2>2, <2>3, <2>4
  <2>6. CASE new[i].end = old[i].end
    BY <2>1, <2>3, <2>5, <2>6 DEF RunsOn
  <2>7. CASE new[i].end = b.start
    BY <2>1, <2>3, <2>5, <2>7, <1>2 DEF RunsOn
  <2>8. CASE new[i].end = b.end /\ old[i].start = b.start
    <3>1. g.end = h.end
      BY <1>3, <1>4, <2>1, <2>2, <2>4, <2>8, SameEnd
    <3> QED BY <1>3, <2>1, <2>3, <2>5, <2>8, <3>1 DEF RunsOn
  <2>9. \/ new[i].end = old[i].end
        \/ new[i].end = b.start /\ old[i].start < b.start
        \/ new[i].end = b.end /\ old[i].start = b.start
    BY <1>1 DEF Added
  <2> QED BY <2>6, <2>7, <2>8, <2>9
<1>6. ASSUME NEW i \in DOMAIN new \ DOMAIN old PROVE RunsOn(new[i], all, ListedBlocks)
  <2>1. /\ new[i] \in Blocks /\ new[i].start = b.start /\ new[i].end <= b.end
        /\ \/ new[i].end = b.end /\ new[i].succ = b.succ
           \/ new[i].end \in BlockStarts(old) /\ new[i].succ \subseteq {new[i].end}
    BY <1>1 DEF Added
  <2>2. new[i].end \in Nat
    BY <2>1 DEF Blocks
  <2>3. new[i].end <= g.end /\ g.start <= new[i].start
    BY <1>3, <1>4, <2>1, <2>2
  <2>4. new[i].end = g.end \/ new[i].end \in all
    BY <1>2, <1>3, <2>1
  <2> QED BY <2>3, <2>4 DEF RunsOn
<1>7. \A i \in DOMAIN new : RunsOn(new[i], all, ListedBlocks)
  BY <1>5, <1>6
<1>8. AllRunOn(new, all, ListedBlocks)
  BY <1>7 DEF AllRunOn
<1> QED BY <1>8 DEF new

(* What an added block uncovers lies behind its start, in the same listed   *)
(* code: a function that has a block at that start, and whose blocks run on,*)
(* still holds it.                                                          *)
LEMMA UncoveredBehindStart ==
  ASSUME image \in Images, EndTogether, NEW known, NEW f, IsFunction(f), NEW b \in Blocks, NEW S,
         AllRunOn(f.blocks, S, ListedBlocks), NEW a,
         HasBlockContaining(f.blocks, a), ~HasBlockContaining(AddBasicBlock(known, f, b).blocks, a),
         NEW blocks \in Seq(Blocks), AllRunOn(blocks, BlockStarts(blocks), ListedBlocks), b.start \in BlockStarts(blocks)
  PROVE  HasBlockContaining(blocks, a)
<1> DEFINE old == f.blocks
           new == AddBasicBlock(known, f, b).blocks
<1>1. Added(old, b, new) /\ old \in Seq(Blocks)
  BY AddedBlocks DEF IsFunction
<1> HIDE DEF new
<1>2. PICK i \in DOMAIN old : Holds(old[i], a)
  BY DEF HasBlockContaining
<1>3. /\ old[i] \in Blocks /\ new[i] \in Blocks /\ new[i].start = old[i].start
      /\ i \in DOMAIN new
      /\ \/ new[i].end = old[i].end
         \/ new[i].end = b.start /\ old[i].start < b.start
         \/ new[i].end = b.end /\ old[i].start = b.start
  BY <1>1 DEF Added
<1>4. /\ old[i].start \in Nat /\ old[i].end \in Nat /\ new[i].end \in Nat
      /\ b.start \in Nat /\ b.end \in Nat /\ b.start < b.end
  BY <1>3 DEF Blocks
<1>5. a \in Nat /\ old[i].start <= a /\ a < old[i].end
  BY <1>2, <1>4 DEF Holds
<1>6. ~Holds(new[i], a)
  BY <1>3 DEF HasBlockContaining, new
<1>7. ~(a < new[i].end)
  BY <1>3, <1>4, <1>5, <1>6 DEF Holds
<1>8. old[i].start <= b.start /\ b.start <= a
  BY <1>3, <1>4, <1>5, <1>7
<1>9. PICK h \in ListedBlocks : h.start <= old[i].start /\ old[i].end <= h.end
  BY DEF AllRunOn, RunsOn
<1>10. h.start \in Nat /\ h.end \in Nat
  BY ListedAreBlocks
<1>11. h.start <= b.start /\ a < h.end
  BY <1>4, <1>5, <1>8, <1>9, <1>10
<1> QED BY <1>5, <1>8, <1>11, RunsToEnd

\* The listed code is the image's, which never changes.
LEMMA ListedStays ==
  ASSUME image' = image
  PROVE  ListedBlocks' = ListedBlocks /\ (EndTogether' <=> EndTogether)
<1>1. ListedBlocks' = ListedBlocks
  BY DEF ListedBlocks
<1> QED BY <1>1 DEF EndTogether

LEMMA CodeInit == Init => CodeInv
<1> SUFFICES ASSUME Init PROVE CodeInv
  OBVIOUS
<1>1. DOMAIN functions = {} /\ pc = "functions"
  BY DEF Init
<1> QED BY <1>1 DEF CodeInv

\* With no fragment on its way, the blocks of every function suffice.
LEMMA CodeWhenIdle ==
  ASSUME image' = image, pc' # "copy",
         EndTogether => \A e \in DOMAIN functions' :
                          AllRunOn(functions'[e].blocks, BlockStarts(functions'[e].blocks), ListedBlocks)
  PROVE  CodeInv'
<1>1. \A e : Pending(e)' = {}
  BY DEF Pending
<1>2. ListedBlocks' = ListedBlocks /\ (EndTogether' <=> EndTogether)
  BY ListedStays
<1> HIDE DEF Pending, ListedBlocks, EndTogether
<1>3. EndTogether => \A e \in DOMAIN functions' :
        AllRunOn(functions'[e].blocks, BlockStarts(functions'[e].blocks) \cup Pending(e)', ListedBlocks')
  BY <1>1, <1>2
<1> QED BY <1>2, <1>3 DEF CodeInv

LEMMA CodeAtRest ==
  ASSUME CodeInv, EndTogether, pc # "copy" \/ copying = <<>>, NEW e \in DOMAIN functions
  PROVE  AllRunOn(functions[e].blocks, BlockStarts(functions[e].blocks), ListedBlocks)
<1>1. Pending(e) = {}
  BY DEF Pending, BlockStarts
<1> HIDE DEF Pending, ListedBlocks, EndTogether
<1> QED BY <1>1 DEF CodeInv

\* What a step that changes no block list keeps.
LEMMA CodeUnchanged ==
  ASSUME CodeInv, image' = image, functions' = functions, pc # "copy", pc' # "copy"
  PROVE  CodeInv'
<1>1. ASSUME EndTogether, NEW e \in DOMAIN functions'
      PROVE  AllRunOn(functions'[e].blocks, BlockStarts(functions'[e].blocks), ListedBlocks)
  BY <1>1, CodeAtRest
<1> QED BY <1>1, CodeWhenIdle

\* A fragment on its way is run on by its own blocks.
LEMMA TargetRunsOn ==
  ASSUME CodeInv, EndTogether, pc = "copy"
  PROVE  AllRunOn(functions[fold.target].blocks, BlockStarts(functions[fold.target].blocks), ListedBlocks)
<1> DEFINE t == fold.target
<1>1. /\ t \in DOMAIN functions
      /\ BlockStarts(copying) \subseteq BlockStarts(functions[t].blocks)
      /\ AllRunOn(functions[t].blocks, BlockStarts(functions[t].blocks) \cup Pending(t), ListedBlocks)
  BY DEF CodeInv
<1>2. Pending(t) \subseteq BlockStarts(functions[t].blocks)
  BY <1>1 DEF Pending
<1>3. BlockStarts(functions[t].blocks) \cup Pending(t) = BlockStarts(functions[t].blocks)
  BY <1>2
<1> QED BY <1>1, <1>3

LEMMA CodeStep == FlowInv /\ CodeInv /\ [Next]_vars => CodeInv'
<1> SUFFICES ASSUME FlowInv, CodeInv, [Next]_vars PROVE CodeInv'
  OBVIOUS
<1>0. image' = image /\ image \in Images /\ \A e \in DOMAIN functions : IsFunction(functions[e])
  BY DEF FlowInv, Next, vars, ImportFunctions, ImportCfgEdges, ImportSeedRanges, DecodeExistingBlocks,
     CollectFold, StartFolding, SkipFold, StartFold, CopyBlock, FinishFold, RestoreAfterFolds, CollectSplits,
     SplitBlock, RestoreAfterSplits
<1>listed. ListedBlocks' = ListedBlocks /\ (EndTogether' <=> EndTogether)
  BY <1>0, ListedStays
<1>1. CASE ImportFunctions
  <2>1. /\ functions' = [e \in {e \in DOMAIN image.owned : ~Skipped(e)} |->
                           FunctionOf(ImportedBlocks(e), "gtirb-ddisasm")]
        /\ pc' = "edges"
    BY <1>1 DEF ImportFunctions
  <2>2. ASSUME NEW e \in DOMAIN functions'
        PROVE  AllRunOn(functions'[e].blocks, BlockStarts(functions'[e].blocks), ListedBlocks)
    <3>1. functions'[e].blocks = ImportedBlocks(e) /\ e \in DOMAIN image.owned
      BY <2>1 DEF FunctionOf
    <3> DEFINE list == image.owned[e]
    <3>2. list \in Seq(DOMAIN image.blocks)
      BY <1>0, <3>1, ImagesAssumption
    <3>3. ASSUME NEW i \in DOMAIN list
          PROVE  RunsOn(ImportedBlocks(e)[i], BlockStarts(ImportedBlocks(e)), ListedBlocks)
      <4> DEFINE g == Block(list[i], image.blocks[list[i]], {})
      <4>1. ImportedBlocks(e)[i] = g
        BY DEF ImportedBlocks
      <4>2. list[i] \in ToSet(list) /\ list[i] \in DOMAIN image.blocks
        BY <3>2 DEF ToSet
      <4>3. g \in ListedBlocks
        BY <3>1, <4>2 DEF ListedBlocks
      <4>4. g.start \in Nat /\ g.end \in Nat
        BY <1>0, <4>3, ListedAreBlocks
      <4> HIDE DEF g
      <4> QED BY <4>1, <4>3, <4>4 DEF RunsOn
    <3>4. DOMAIN ImportedBlocks(e) = DOMAIN list
      BY DEF ImportedBlocks
    <3> QED BY <3>1, <3>3, <3>4 DEF AllRunOn
  <2> QED BY <1>0, <2>1, <2>2, CodeWhenIdle
<1>2. CASE ImportCfgEdges
  <2> DEFINE h == Head(todo)
             f == functions[h]
             q == [i \in DOMAIN f.blocks |-> [f.blocks[i] EXCEPT !.succ = LocalTargets(f, f.blocks[i].start)]]
  <2>1. functions' = [functions EXCEPT ![h].blocks = q] /\ pc = "edges" /\ pc' = pc
    BY <1>2 DEF ImportCfgEdges
  <2>2. ASSUME EndTogether, h \in DOMAIN functions PROVE AllRunOn(q, BlockStarts(q), ListedBlocks)
    <3>1. \A i \in DOMAIN f.blocks : f.blocks[i] \in Blocks
      BY <2>2, <1>0 DEF IsFunction
    <3>2. DOMAIN q = DOMAIN f.blocks
          /\ \A i \in DOMAIN q : q[i].start = f.blocks[i].start /\ q[i].end = f.blocks[i].end
      BY <3>1 DEF Blocks
    <3> HIDE DEF q
    <3>3. BlockStarts(q) = BlockStarts(f.blocks)
      BY <3>2 DEF BlockStarts
    <3>4. AllRunOn(f.blocks, BlockStarts(f.blocks), ListedBlocks)
      BY <2>1, <2>2, CodeAtRest
    <3> QED BY <3>2, <3>3, <3>4 DEF AllRunOn, RunsOn
  <2> HIDE DEF q
  <2>3. ASSUME EndTogether, NEW e \in DOMAIN functions'
        PROVE  AllRunOn(functions'[e].blocks, BlockStarts(functions'[e].blocks), ListedBlocks)
    <3>1. e \in DOMAIN functions /\ "blocks" \in DOMAIN functions[e]
      BY <2>1, <1>0 DEF IsFunction
    <3>2. CASE e = h
      <4>1. functions'[e].blocks = q
        BY <2>1, <3>1, <3>2
      <4> QED BY <4>1, <2>2, <2>3, <3>1, <3>2
    <3>3. CASE e # h
      <4>1. functions'[e] = functions[e]
        BY <2>1, <3>1, <3>3
      <4> QED BY <4>1, <2>1, <2>3, <3>1, CodeAtRest
    <3> QED BY <3>2, <3>3
  <2> QED BY <1>0, <2>1, <2>3, CodeWhenIdle
<1>3. CASE ImportSeedRanges
  <2> DEFINE fallback == {e \in DOMAIN seeds : e \notin DOMAIN functions /\ seeds[e].end > e /\ ~Skipped(e)}
             only(e) == <<Block(e, seeds[e].end, {})>>
  <2>1. /\ functions' = [e \in DOMAIN functions \cup fallback |->
                           IF e \in fallback THEN FunctionOf(only(e), "gtirb-seed-range-fallback")
                           ELSE functions[e]]
        /\ pc = "edges" /\ pc' = "decode"
    BY <1>3 DEF ImportSeedRanges
  <2>2. ASSUME EndTogether, NEW e \in DOMAIN functions'
        PROVE  AllRunOn(functions'[e].blocks, BlockStarts(functions'[e].blocks), ListedBlocks)
    <3>1. CASE e \in fallback
      <4> DEFINE g == Block(e, seeds[e].end, {})
      <4>1. functions'[e].blocks = <<g>>
        BY <2>1, <3>1 DEF FunctionOf
      <4>2. /\ e \in DOMAIN image.seeds \ DOMAIN image.owned
            /\ seeds[e].end = image.seeds[e].end /\ image.seeds[e].end > e
        BY <2>1, <3>1 DEF FlowInv
      <4>3. g \in ListedBlocks
        BY <4>2 DEF ListedBlocks
      <4>4. g.start \in Nat /\ g.end \in Nat
        BY <1>0, <4>3, ListedAreBlocks
      <4> HIDE DEF g
      <4>5. RunsOn(g, BlockStarts(<<g>>), ListedBlocks)
        BY <4>3, <4>4 DEF RunsOn
      <4>6. \A i \in DOMAIN <<g>> : <<g>>[i] = g
        OBVIOUS
      <4>7. AllRunOn(<<g>>, BlockStarts(<<g>>), ListedBlocks)
        BY <4>5, <4>6, Zenon DEF AllRunOn
      <4> QED BY <4>1, <4>7
    <3>2. CASE e \notin fallback
      <4>1. e \in DOMAIN functions /\ functions'[e] = functions[e]
        BY <2>1, <3>2
      <4> QED BY <4>1, <2>1, <2>2, CodeAtRest
    <3> QED BY <3>1, <3>2
  <2> QED BY <1>0, <2>1, <2>2, CodeWhenIdle
<1>4. CASE DecodeExistingBlocks
  BY <1>0, <1>4, CodeUnchanged DEF DecodeExistingBlocks
<1>5. CASE CollectFold \/ StartFolding
  BY <1>0, <1>5, CodeUnchanged DEF CollectFold, StartFolding
<1>6. CASE SkipFold
  BY <1>0, <1>6, CodeUnchanged DEF SkipFold
<1>7. CASE StartFold
  <2> DEFINE o == fold.owner
             t == fold.target
  <2>1. /\ functions' = functions /\ pc = "folding" /\ pc' = "copy" /\ folds' = folds
        /\ t \in DOMAIN functions /\ copying' = functions[t].blocks
    BY <1>7 DEF StartFold
  <2>2. fold' = fold
    BY <2>1 DEF fold
  <2>3. ASSUME EndTogether, NEW e \in DOMAIN functions, NEW S, BlockStarts(functions[e].blocks) \subseteq S
        PROVE  AllRunOn(functions[e].blocks, S, ListedBlocks)
    <3>1. AllRunOn(functions[e].blocks, BlockStarts(functions[e].blocks), ListedBlocks)
      BY <2>1, <2>3, CodeAtRest
    <3> QED BY <2>3, <3>1, RunsOnMore DEF AllRunOn
  <2>4. ASSUME EndTogether
        PROVE  \A e \in DOMAIN functions' :
                 AllRunOn(functions'[e].blocks, BlockStarts(functions'[e].blocks) \cup Pending(e)', ListedBlocks')
    BY <2>1, <2>3, <2>4, <1>listed
  <2>5. ASSUME EndTogether
        PROVE  AllRunOn(copying', BlockStarts(functions'[o].blocks) \cup BlockStarts(copying'), ListedBlocks')
    BY <2>1, <2>3, <2>5, <1>listed
  <2>6. BlockStarts(copying') = BlockStarts(functions'[t].blocks)
    BY <2>1
  <2> HIDE DEF o, t
  <2> QED BY <2>1, <2>2, <2>4, <2>5, <2>6, <1>listed DEF CodeInv, o, t
<1>8. CASE CopyBlock
  <2> DEFINE o == fold.owner
             t == fold.target
             b == Head(copying)
             rest == BlockStarts(Tail(copying))
  <2>1. /\ pc' = pc /\ pc = "copy" /\ copying # <<>> /\ copying' = Tail(copying) /\ folds' = folds
        /\ functions' = IF o \in DOMAIN functions
                        THEN [functions EXCEPT ![o] = AddBasicBlock(facts, functions[o], b)]
                        ELSE functions
    BY <1>8 DEF CopyBlock
  <2>2. fold' = fold
    BY <2>1 DEF fold
  <2>3. /\ copying \in Seq(Blocks) /\ b \in Blocks /\ BlockStarts(copying) = {b.start} \cup rest
        /\ \A i \in DOMAIN Tail(copying) : i + 1 \in DOMAIN copying /\ Tail(copying)[i] = copying[i + 1]
        /\ 1 \in DOMAIN copying /\ b = copying[1]
    BY <2>1, StartsOfTail DEF FlowInv
  <2> SUFFICES ASSUME EndTogether PROVE CodeInv'
    BY <1>listed DEF CodeInv
  <2>4. ASSUME NEW e \in DOMAIN functions', e # o
        PROVE  /\ e \in DOMAIN functions /\ functions'[e] = functions[e]
               /\ AllRunOn(functions'[e].blocks, BlockStarts(functions'[e].blocks) \cup Pending(e)', ListedBlocks)
    <3>1. e \in DOMAIN functions /\ functions'[e] = functions[e]
      BY <2>1, <2>4
    <3>2. Pending(e) = {} /\ Pending(e)' = {}
      BY <2>2, <2>4 DEF Pending
    <3> QED BY <3>1, <3>2 DEF CodeInv
  <2>5. ASSUME o \in DOMAIN functions
        PROVE  /\ AllRunOn(functions'[o].blocks, BlockStarts(functions'[o].blocks) \cup rest, ListedBlocks)
               /\ AllRunOn(copying', BlockStarts(functions'[o].blocks) \cup BlockStarts(copying'), ListedBlocks)
               /\ BlockStarts(functions'[o].blocks) = BlockStarts(functions[o].blocks) \cup {b.start}
    <3> DEFINE f == functions[o]
               new == AddBasicBlock(facts, f, b).blocks
    <3>1. functions'[o].blocks = new
      BY <2>1, <2>5
    <3>2. Pending(o) = BlockStarts(copying)
      BY <2>1 DEF Pending
    <3>3. IsFunction(f)
      BY <2>5, <1>0
    <3>4. AllRunOn(f.blocks, BlockStarts(f.blocks) \cup {b.start} \cup rest, ListedBlocks)
      <4>1. AllRunOn(f.blocks, BlockStarts(f.blocks) \cup Pending(o), ListedBlocks)
        BY <2>5 DEF CodeInv
      <4>2. BlockStarts(f.blocks) \cup Pending(o) = BlockStarts(f.blocks) \cup {b.start} \cup rest
        BY <2>3, <3>2
      <4> QED BY <4>1, <4>2
    <3>5. AllRunOn(copying, BlockStarts(f.blocks) \cup {b.start} \cup rest, ListedBlocks)
      <4>1. AllRunOn(copying, BlockStarts(f.blocks) \cup BlockStarts(copying), ListedBlocks)
        BY <2>1, <2>5 DEF CodeInv
      <4>2. BlockStarts(f.blocks) \cup BlockStarts(copying) = BlockStarts(f.blocks) \cup {b.start} \cup rest
        BY <2>3
      <4> QED BY <4>1, <4>2
    <3>6. RunsOn(b, BlockStarts(f.blocks) \cup {b.start} \cup rest, ListedBlocks)
      BY <2>3, <3>5 DEF AllRunOn
    <3> HIDE DEF f, b, rest
    <3>7. AllRunOn(new, BlockStarts(new) \cup rest, ListedBlocks)
      BY <1>0, <2>3, <3>3, <3>4, <3>6, AddRunsOn
    <3>a. Added(f.blocks, b, new)
      BY <2>3, <3>3, AddedBlocks
    <3> HIDE DEF new
    <3>8. BlockStarts(new) = BlockStarts(f.blocks) \cup {b.start}
      BY <3>a DEF Added
    <3>9. BlockStarts(f.blocks) \cup {b.start} \cup rest = BlockStarts(new) \cup rest
      BY <3>8
    <3>10. AllRunOn(Tail(copying), BlockStarts(new) \cup rest, ListedBlocks)
      BY <2>3, <3>5, <3>9 DEF AllRunOn
    <3>11. copying' = Tail(copying) /\ BlockStarts(copying') = rest
      BY <2>1 DEF rest
    <3> QED BY <3>1, <3>7, <3>8, <3>10, <3>11 DEF f
  <2>6. DOMAIN functions' = DOMAIN functions /\ BlockStarts(copying') = rest
    BY <2>1
  <2>7. /\ t \in DOMAIN functions
        /\ BlockStarts(copying) \subseteq BlockStarts(functions[t].blocks)
        /\ o \in DOMAIN functions =>
             BlockStarts(functions[t].blocks) \subseteq BlockStarts(functions[o].blocks) \cup BlockStarts(copying)
    BY <2>1 DEF CodeInv
  <2> HIDE DEF rest, b
  <2>8. BlockStarts(copying') \subseteq BlockStarts(functions'[t].blocks)
    <3>1. CASE t = o
      BY <3>1, <2>3, <2>5, <2>6, <2>7
    <3>2. CASE t # o
      BY <3>2, <2>3, <2>4, <2>6, <2>7
    <3> QED BY <3>1, <3>2
  <2>9. ASSUME o \in DOMAIN functions
        PROVE  BlockStarts(functions'[t].blocks) \subseteq BlockStarts(functions'[o].blocks) \cup BlockStarts(copying')
    <3>1. CASE t = o
      BY <3>1
    <3>2. CASE t # o
      BY <3>2, <2>3, <2>4, <2>5, <2>6, <2>7, <2>9
    <3> QED BY <3>1, <3>2
  <2> HIDE DEF EndTogether, ListedBlocks, Pending, AllRunOn, BlockStarts
  <2>10. \A e \in DOMAIN functions' :
           AllRunOn(functions'[e].blocks, BlockStarts(functions'[e].blocks) \cup Pending(e)', ListedBlocks')
    <3>1. TAKE e \in DOMAIN functions'
    <3>2. CASE e = o
      <4>1. Pending(e)' = rest
        BY <2>1, <2>2, <2>6, <3>2 DEF Pending
      <4> QED BY <3>2, <4>1, <2>5, <2>6, <1>listed
    <3>3. CASE e # o
      BY <3>3, <2>4, <1>listed
    <3> QED BY <3>2, <3>3
  <2>11. o \in DOMAIN functions' =>
           AllRunOn(copying', BlockStarts(functions'[o].blocks) \cup BlockStarts(copying'), ListedBlocks')
    BY <2>5, <2>6, <1>listed
  <2>12. fold'.owner = o /\ fold'.target = t
    BY <2>2
  <2> HIDE DEF o, t
  <2> QED BY <2>6, <2>7, <2>8, <2>9, <2>10, <2>11, <2>12, <1>listed DEF CodeInv
<1>9. CASE FinishFold
  <2> DEFINE o == fold.owner
             t == fold.target
             regained == {x \in Flows : x.to = t /\ InFunction(x.from) /\ Owner(x.from) = o}
             attached == IF o \in DOMAIN functions
                         THEN [functions EXCEPT ![o] = Attached(functions[o], regained)]
                         ELSE functions
  <2>1. /\ pc = "copy" /\ pc' = "folding" /\ copying = <<>>
        /\ functions' = [e \in DOMAIN functions \ {t} |-> attached[e]]
    BY <1>9 DEF FinishFold
  <2> HIDE DEF regained
  <2>2. ASSUME EndTogether, NEW e \in DOMAIN functions'
        PROVE  AllRunOn(functions'[e].blocks, BlockStarts(functions'[e].blocks), ListedBlocks)
    <3>1. e \in DOMAIN functions /\ IsFunction(functions[e])
      BY <2>1, <1>0
    <3>2. AllRunOn(functions[e].blocks, BlockStarts(functions[e].blocks), ListedBlocks)
      BY <2>1, <2>2, <3>1, CodeAtRest
    <3>3. CASE e = o
      <4>1. functions'[e] = Attached(functions[e], regained)
        BY <2>1, <3>1, <3>3
      <4> QED BY <4>1, <3>1, <3>2, AttachedBlocks DEF AllRunOn, RunsOn
    <3>4. CASE e # o
      <4>1. functions'[e] = functions[e]
        BY <2>1, <3>1, <3>4
      <4> QED BY <4>1, <3>2
    <3> QED BY <3>3, <3>4
  <2> QED BY <1>0, <2>1, <2>2, CodeWhenIdle
<1>10. ASSUME functions' = Restored, pc # "copy", pc' # "copy" PROVE CodeInv'
  <2>1. ASSUME EndTogether, NEW e \in DOMAIN functions'
        PROVE  AllRunOn(functions'[e].blocks, BlockStarts(functions'[e].blocks), ListedBlocks)
    <3>1. e \in DOMAIN functions /\ functions'[e] = Attached(functions[e], LocalFlows(e)) /\ IsFunction(functions[e])
      BY <1>0, <1>10 DEF Restored
    <3>2. AllRunOn(functions[e].blocks, BlockStarts(functions[e].blocks), ListedBlocks)
      BY <3>1, <1>10, <2>1, CodeAtRest
    <3> QED BY <3>1, <3>2, AttachedBlocks DEF AllRunOn, RunsOn
  <2> QED BY <1>0, <1>10, <2>1, CodeWhenIdle
<1>11. CASE RestoreAfterFolds
  BY <1>10, <1>11 DEF RestoreAfterFolds
<1>12. CASE CollectSplits
  BY <1>0, <1>12, CodeUnchanged DEF CollectSplits
<1>13. CASE SplitBlock
  <2> DEFINE h == Head(todo).entry
             a == Head(todo).at
  <2>1. /\ pc' = pc /\ pc = "splitting"
        /\ functions' = [functions EXCEPT ![h] = EnsureBlockStartsAt(facts, functions[h], a)]
    BY <1>13 DEF SplitBlock
  <2>2. ASSUME EndTogether, NEW e \in DOMAIN functions'
        PROVE  AllRunOn(functions'[e].blocks, BlockStarts(functions'[e].blocks), ListedBlocks)
    <3> DEFINE f == functions[e]
               S == BlockStarts(f.blocks)
    <3>1. e \in DOMAIN functions /\ IsFunction(f) /\ AllRunOn(f.blocks, S, ListedBlocks)
      BY <1>0, <2>1, <2>2, CodeAtRest
    <3>2. CASE functions'[e] = f
      BY <3>1, <3>2
    <3>3. CASE functions'[e] # f
      <4>1. functions'[e] = EnsureBlockStartsAt(facts, f, a)
        BY <2>1, <3>1, <3>3
      <4>2. PICK i \in DOMAIN f.blocks : \E b \in Blocks :
              /\ b = Block(a, f.blocks[i].end, f.blocks[i].succ) /\ f.blocks[i].start <= a
              /\ functions'[e] = AddBasicBlock(facts, f, b)
        BY <4>1, <3>1, <3>3, SplitIsAdd
      <4>3. PICK b \in Blocks : /\ b = Block(a, f.blocks[i].end, f.blocks[i].succ) /\ f.blocks[i].start <= a
                                /\ functions'[e] = AddBasicBlock(facts, f, b)
        BY <4>2
      <4>4. RunsOn(b, S, ListedBlocks)
        <5>1. PICK g \in ListedBlocks : /\ g.start <= f.blocks[i].start /\ f.blocks[i].end <= g.end
                                        /\ f.blocks[i].end = g.end \/ f.blocks[i].end \in S
          BY <3>1 DEF AllRunOn, RunsOn
        <5>2. g.start \in Nat
          BY <1>0, ListedAreBlocks
        <5>3. f.blocks[i] \in Blocks
          BY <3>1 DEF IsFunction
        <5>4. f.blocks[i].start \in Nat /\ b.start = a /\ a \in Nat /\ b.end = f.blocks[i].end
          BY <4>3, <5>3 DEF Blocks, Block
        <5>5. g.start <= b.start
          BY <4>3, <5>1, <5>2, <5>4
        <5> QED BY <5>1, <5>4, <5>5 DEF RunsOn
      <4> DEFINE new == AddBasicBlock(facts, f, b).blocks
      <4>5. /\ AllRunOn(f.blocks, S \cup {b.start} \cup {}, ListedBlocks)
            /\ RunsOn(b, S \cup {b.start} \cup {}, ListedBlocks)
        BY <4>4, <3>1, RunsOnMore DEF AllRunOn
      <4>6. AllRunOn(new, BlockStarts(new) \cup {}, ListedBlocks)
        BY <4>5, <3>1, <1>0, <2>2, AddRunsOn
      <4>7. BlockStarts(new) \cup {} = BlockStarts(new)
        OBVIOUS
      <4> HIDE DEF new
      <4>8. AllRunOn(new, BlockStarts(new), ListedBlocks)
        BY <4>6, <4>7
      <4> QED BY <4>3, <4>8 DEF new
    <3> QED BY <3>2, <3>3
  <2> QED BY <1>0, <2>1, <2>2, CodeWhenIdle
<1>14. CASE RestoreAfterSplits
  BY <1>10, <1>14 DEF RestoreAfterSplits
<1>15. CASE UNCHANGED vars
  <2>1. functions' = functions /\ pc' = pc /\ copying' = copying /\ folds' = folds
    BY <1>15 DEF vars
  <2>2. fold' = fold
    BY <2>1 DEF fold
  <2>3. \A e : Pending(e)' = Pending(e)
    BY <2>1, <2>2 DEF Pending
  <2> HIDE DEF Pending
  <2> QED BY <2>1, <2>2, <2>3, <1>listed DEF CodeInv
<1> QED BY <1>1, <1>2, <1>3, <1>4, <1>5, <1>6, <1>7, <1>8, <1>9, <1>11, <1>12, <1>13, <1>14, <1>15 DEF Next

\* Functions keep what they hold when their blocks keep their starts and ends.
LEMMA InFunctionKept ==
  ASSUME NEW a, InFunction(a),
         \A e \in DOMAIN functions : HasBlockContaining(functions[e].blocks, a) =>
           \E d \in DOMAIN functions' : HasBlockContaining(functions'[d].blocks, a)
  PROVE  InFunction(a)'
  BY DEF InFunction, HasBlockContaining, Holds

LEMMA SameRangesHold ==
  ASSUME NEW old, NEW new, DOMAIN new = DOMAIN old,
         \A i \in DOMAIN old : new[i].start = old[i].start /\ new[i].end = old[i].end,
         NEW a, HasBlockContaining(old, a)
  PROVE  HasBlockContaining(new, a)
  BY DEF HasBlockContaining, Holds

\* A step that leaves every range where it is.
LEMMA CodeStaysStep ==
  ASSUME FlowInv, FlowInv', CodeInv, CodeInv', Next, EndTogether, NEW a, InFunction(a), ~InFunction(a)'
  PROVE  pc = "copy" /\ copying = <<>> /\ fold.owner \notin DOMAIN functions \ {fold.target}
<1>0. /\ image' = image /\ image \in Images
      /\ \A e \in DOMAIN functions : IsFunction(functions[e])
      /\ \A e \in DOMAIN functions' : IsFunction(functions'[e])
  BY DEF FlowInv, Next, ImportFunctions, ImportCfgEdges, ImportSeedRanges, DecodeExistingBlocks,
     CollectFold, StartFolding, SkipFold, StartFold, CopyBlock, FinishFold, RestoreAfterFolds, CollectSplits,
     SplitBlock, RestoreAfterSplits
<1>listed. ListedBlocks' = ListedBlocks /\ EndTogether'
  BY <1>0, ListedStays
<1>same. ASSUME functions' = functions PROVE FALSE
  BY <1>same DEF InFunction, HasBlockContaining, Holds
<1>1. CASE ImportFunctions
  <2>1. DOMAIN functions = {}
    BY <1>1 DEF ImportFunctions, FlowInv
  <2> QED BY <2>1 DEF InFunction
<1>2. CASE ImportCfgEdges
  <2> DEFINE h == Head(todo)
             f == functions[h]
             q == [i \in DOMAIN f.blocks |-> [f.blocks[i] EXCEPT !.succ = LocalTargets(f, f.blocks[i].start)]]
  <2>1. functions' = [functions EXCEPT ![h].blocks = q]
    BY <1>2 DEF ImportCfgEdges
  <2>2. ASSUME NEW e \in DOMAIN functions, HasBlockContaining(functions[e].blocks, a)
        PROVE  e \in DOMAIN functions' /\ HasBlockContaining(functions'[e].blocks, a)
    <3>1. e \in DOMAIN functions' /\ "blocks" \in DOMAIN functions[e]
          /\ \A i \in DOMAIN functions[e].blocks : functions[e].blocks[i] \in Blocks
      BY <2>1, <1>0 DEF IsFunction
    <3>2. CASE e = h
      <4>1. functions'[e].blocks = q
        BY <2>1, <3>1, <3>2
      <4>2. DOMAIN q = DOMAIN f.blocks
            /\ \A i \in DOMAIN f.blocks : q[i].start = f.blocks[i].start /\ q[i].end = f.blocks[i].end
        BY <3>1, <3>2 DEF Blocks
      <4> HIDE DEF q
      <4>3. HasBlockContaining(q, a)
        BY <2>2, <3>2, <4>2, SameRangesHold
      <4> QED BY <3>1, <4>1, <4>3
    <3>3. CASE e # h
      BY <2>1, <2>2, <3>1, <3>3
    <3> QED BY <3>2, <3>3
  <2> QED BY <2>2, InFunctionKept
<1>3. CASE ImportSeedRanges
  <2> DEFINE fallback == {e \in DOMAIN seeds : e \notin DOMAIN functions /\ seeds[e].end > e /\ ~Skipped(e)}
  <2>1. functions' = [e \in DOMAIN functions \cup fallback |->
                        IF e \in fallback
                        THEN FunctionOf(<<Block(e, seeds[e].end, {})>>, "gtirb-seed-range-fallback")
                        ELSE functions[e]]
    BY <1>3 DEF ImportSeedRanges
  <2>2. \A e \in DOMAIN functions : e \in DOMAIN functions' /\ functions'[e] = functions[e]
    BY <2>1
  <2> QED BY <2>2, InFunctionKept
<1>4. CASE DecodeExistingBlocks
  BY <1>4, <1>same DEF DecodeExistingBlocks
<1>5. CASE CollectFold \/ StartFolding
  BY <1>5, <1>same DEF CollectFold, StartFolding
<1>6. CASE SkipFold
  BY <1>6, <1>same DEF SkipFold
<1>7. CASE StartFold
  BY <1>7, <1>same DEF StartFold
<1>8. CASE CopyBlock
  <2> DEFINE o == fold.owner
             t == fold.target
             b == Head(copying)
  <2>1. /\ pc' = pc /\ pc = "copy" /\ copying # <<>> /\ folds' = folds
        /\ functions' = IF o \in DOMAIN functions
                        THEN [functions EXCEPT ![o] = AddBasicBlock(facts, functions[o], b)]
                        ELSE functions
    BY <1>8 DEF CopyBlock
  <2>2. fold' = fold
    BY <2>1 DEF fold
  <2>3. b \in Blocks /\ b.start \in BlockStarts(copying)
    BY <2>1, StartsOfTail DEF FlowInv
  \* the fragment itself still holds what is cut off behind the start of its block
  <2> DEFINE blocks == functions'[t].blocks
  <2>4. t \in DOMAIN functions /\ b.start \in BlockStarts(functions[t].blocks)
    BY <2>1, <2>3 DEF CodeInv
  <2>5. t \in DOMAIN functions' /\ b.start \in BlockStarts(blocks)
    <3>1. CASE o \in DOMAIN functions /\ t = o
      <4>1. functions'[t] = AddBasicBlock(facts, functions[t], b)
        BY <2>1, <2>4, <3>1
      <4>2. Added(functions[t].blocks, b, functions'[t].blocks)
        BY <1>0, <2>3, <2>4, <4>1, AddedBlocks
      <4> QED BY <2>1, <2>4, <4>2 DEF Added
    <3>2. CASE ~(o \in DOMAIN functions /\ t = o)
      <4>1. functions'[t] = functions[t] /\ DOMAIN functions' = DOMAIN functions
        BY <2>1, <2>4, <3>2
      <4> QED BY <2>4, <4>1
    <3> QED BY <3>1, <3>2
  <2>6. blocks \in Seq(Blocks)
    BY <1>0, <2>5 DEF IsFunction
  <2>7. AllRunOn(blocks, BlockStarts(blocks), ListedBlocks)
    <3>1. /\ BlockStarts(copying') \subseteq BlockStarts(blocks)
          /\ AllRunOn(blocks, BlockStarts(blocks) \cup Pending(t)', ListedBlocks')
      BY <1>listed, <2>1, <2>2, <2>5 DEF CodeInv
    <3>2. Pending(t)' \subseteq BlockStarts(copying')
      BY DEF Pending
    <3>3. BlockStarts(blocks) \cup Pending(t)' = BlockStarts(blocks)
      BY <3>1, <3>2
    <3> QED BY <3>1, <3>3, <1>listed
  <2> HIDE DEF blocks
  <2>8. ASSUME NEW e \in DOMAIN functions, HasBlockContaining(functions[e].blocks, a)
        PROVE  \E d \in DOMAIN functions' : HasBlockContaining(functions'[d].blocks, a)
    <3>1. e \in DOMAIN functions'
      BY <2>1
    <3>2. CASE functions'[e] = functions[e]
      BY <2>8, <3>1, <3>2
    <3>3. CASE functions'[e] # functions[e]
      <4>1. functions'[e] = AddBasicBlock(facts, functions[e], b)
        BY <2>1, <3>1, <3>3
      <4>2. CASE HasBlockContaining(functions'[e].blocks, a)
        BY <3>1, <4>2
      <4>3. CASE ~HasBlockContaining(functions'[e].blocks, a)
        <5> DEFINE S == BlockStarts(functions[e].blocks) \cup Pending(e)
        <5>1. AllRunOn(functions[e].blocks, S, ListedBlocks)
          BY DEF CodeInv
        <5> HIDE DEF S
        <5>2. HasBlockContaining(blocks, a)
          BY <1>0, <2>3, <2>5, <2>6, <2>7, <2>8, <4>1, <4>3, <5>1, UncoveredBehindStart
        <5> QED BY <2>5, <5>2 DEF blocks
      <4> QED BY <4>2, <4>3
    <3> QED BY <3>2, <3>3
  <2> QED BY <2>8, InFunctionKept
<1>9. CASE FinishFold
  <2> DEFINE o == fold.owner
             t == fold.target
             regained == {x \in Flows : x.to = t /\ InFunction(x.from) /\ Owner(x.from) = o}
             attached == IF o \in DOMAIN functions
                         THEN [functions EXCEPT ![o] = Attached(functions[o], regained)]
                         ELSE functions
  <2>1. /\ pc = "copy" /\ copying = <<>>
        /\ functions' = [e \in DOMAIN functions \ {t} |-> attached[e]]
    BY <1>9 DEF FinishFold
  <2> HIDE DEF regained
  <2> SUFFICES ASSUME o \in DOMAIN functions, o # t PROVE FALSE
    BY <2>1
  <2>2. ASSUME NEW e \in DOMAIN functions \ {t}, HasBlockContaining(functions[e].blocks, a)
        PROVE  e \in DOMAIN functions' /\ HasBlockContaining(functions'[e].blocks, a)
    <3>1. e \in DOMAIN functions'
      BY <2>1
    <3>2. CASE e = o
      <4>1. functions'[e] = Attached(functions[e], regained)
        BY <2>1, <3>2
      <4> DEFINE new == Attached(functions[e], regained).blocks
      <4>2. DOMAIN new = DOMAIN functions[e].blocks
            /\ \A i \in DOMAIN new : new[i].start = functions[e].blocks[i].start
                                     /\ new[i].end = functions[e].blocks[i].end
        BY <1>0, AttachedBlocks
      <4> HIDE DEF new
      <4>3. HasBlockContaining(new, a)
        BY <2>2, <4>2, SameRangesHold
      <4> QED BY <3>1, <4>1, <4>3 DEF new
    <3>3. CASE e # o
      BY <2>1, <2>2, <3>1, <3>3
    <3> QED BY <3>2, <3>3
  \* what the fragment holds its owner holds too
  <2>3. ASSUME HasBlockContaining(functions[t].blocks, a), t \in DOMAIN functions
        PROVE  HasBlockContaining(functions[o].blocks, a)
    <3> DEFINE old == functions[t].blocks
               blocks == functions[o].blocks
    <3>1. PICK i \in DOMAIN old : Holds(old[i], a)
      BY <2>3 DEF HasBlockContaining
    <3>2. BlockStarts(copying) = {}
      BY <2>1 DEF BlockStarts
    <3>3. BlockStarts(old) \subseteq BlockStarts(blocks)
      <4>1. BlockStarts(old) \subseteq BlockStarts(blocks) \cup BlockStarts(copying)
        BY <2>1 DEF CodeInv
      <4> QED BY <3>2, <4>1
    <3>4. AllRunOn(old, BlockStarts(old), ListedBlocks) /\ AllRunOn(blocks, BlockStarts(blocks), ListedBlocks)
      BY <2>1, <2>3, CodeAtRest
    <3>5. old \in Seq(Blocks) /\ old[i] \in Blocks /\ blocks \in Seq(Blocks)
      BY <1>0, <2>3 DEF IsFunction
    <3>6. PICK g \in ListedBlocks : g.start <= old[i].start /\ old[i].end <= g.end
      BY <3>4 DEF AllRunOn, RunsOn
    <3>7. g.start \in Nat /\ g.end \in Nat /\ old[i].start \in Nat /\ old[i].end \in Nat
      BY <1>0, <3>5, ListedAreBlocks DEF Blocks
    <3>8. a \in Nat /\ old[i].start <= a /\ a < g.end
      BY <3>1, <3>6, <3>7 DEF Holds
    <3>9. old[i].start \in BlockStarts(blocks)
      BY <3>3 DEF BlockStarts
    <3> HIDE DEF blocks, old
    <3>10. HasBlockContaining(blocks, a)
      BY <1>0, <3>4, <3>5, <3>6, <3>8, <3>9, RunsToEnd
    <3> QED BY <3>10 DEF blocks
  <2>4. ASSUME NEW e \in DOMAIN functions, HasBlockContaining(functions[e].blocks, a)
        PROVE  \E d \in DOMAIN functions' : HasBlockContaining(functions'[d].blocks, a)
    <3>1. CASE e = t
      BY <2>2, <2>3, <2>4, <3>1
    <3>2. CASE e # t
      BY <2>2, <2>4, <3>2
    <3> QED BY <3>1, <3>2
  <2> QED BY <2>4, InFunctionKept
<1>10. ASSUME functions' = Restored PROVE FALSE
  <2>1. ASSUME NEW e \in DOMAIN functions, HasBlockContaining(functions[e].blocks, a)
        PROVE  e \in DOMAIN functions' /\ HasBlockContaining(functions'[e].blocks, a)
    <3> DEFINE new == Attached(functions[e], LocalFlows(e)).blocks
    <3>1. e \in DOMAIN functions' /\ functions'[e].blocks = new
      BY <1>10 DEF Restored
    <3>2. DOMAIN new = DOMAIN functions[e].blocks
          /\ \A i \in DOMAIN new : new[i].start = functions[e].blocks[i].start
                                   /\ new[i].end = functions[e].blocks[i].end
      BY <1>0, AttachedBlocks
    <3> HIDE DEF new
    <3> QED BY <2>1, <3>1, <3>2, SameRangesHold
  <2> QED BY <2>1, InFunctionKept
<1>11. CASE RestoreAfterFolds
  BY <1>10, <1>11 DEF RestoreAfterFolds
<1>12. CASE CollectSplits
  BY <1>12, <1>same DEF CollectSplits
<1>13. CASE SplitBlock
  <2> DEFINE h == Head(todo).entry
             x == Head(todo).at
  <2>1. /\ pc' = pc /\ pc = "splitting"
        /\ functions' = [functions EXCEPT ![h] = EnsureBlockStartsAt(facts, functions[h], x)]
    BY <1>13 DEF SplitBlock
  <2>2. ASSUME NEW e \in DOMAIN functions, HasBlockContaining(functions[e].blocks, a)
        PROVE  e \in DOMAIN functions' /\ HasBlockContaining(functions'[e].blocks, a)
    <3> DEFINE f == functions[e]
               blocks == functions'[e].blocks
    <3>1. e \in DOMAIN functions' /\ IsFunction(f) /\ IsFunction(functions'[e])
      BY <1>0, <2>1
    <3>2. CASE functions'[e] = f
      BY <2>2, <3>1, <3>2
    <3>3. CASE functions'[e] # f
      <4>1. functions'[e] = EnsureBlockStartsAt(facts, f, x)
        BY <2>1, <3>3
      <4>2. PICK i \in DOMAIN f.blocks : \E b \in Blocks :
              /\ b = Block(x, f.blocks[i].end, f.blocks[i].succ) /\ f.blocks[i].start <= x
              /\ functions'[e] = AddBasicBlock(facts, f, b)
        BY <4>1, <3>1, <3>3, SplitIsAdd
      <4>3. PICK b \in Blocks : functions'[e] = AddBasicBlock(facts, f, b)
        BY <4>2
      <4>4. Added(f.blocks, b, blocks)
        BY <3>1, <4>3, AddedBlocks
      <4>5. b.start \in BlockStarts(blocks)
        BY <4>4 DEF Added
      <4>6. AllRunOn(f.blocks, BlockStarts(f.blocks), ListedBlocks)
        BY <2>1, CodeAtRest
      <4>7. AllRunOn(blocks, BlockStarts(blocks), ListedBlocks)
        <5>1. AllRunOn(blocks, BlockStarts(blocks) \cup Pending(e)', ListedBlocks')
          BY <1>listed, <3>1 DEF CodeInv
        <5>2. Pending(e)' = {}
          BY <2>1 DEF Pending
        <5>3. BlockStarts(blocks) \cup {} = BlockStarts(blocks)
          OBVIOUS
        <5> QED BY <1>listed, <5>1, <5>2, <5>3
      <4>8. blocks \in Seq(Blocks)
        BY <3>1 DEF IsFunction
      <4> HIDE DEF blocks
      <4>9. CASE ~HasBlockContaining(AddBasicBlock(facts, f, b).blocks, a)
        <5>1. HasBlockContaining(blocks, a)
          BY <1>0, <2>2, <3>1, <4>5, <4>6, <4>7, <4>8, <4>9, UncoveredBehindStart
        <5> QED BY <3>1, <5>1 DEF blocks
      <4> QED BY <3>1, <4>3, <4>9
    <3> QED BY <3>2, <3>3
  <2> QED BY <2>2, InFunctionKept
<1>14. CASE RestoreAfterSplits
  BY <1>10, <1>14 DEF RestoreAfterSplits
<1> QED BY <1>1, <1>2, <1>3, <1>4, <1>5, <1>6, <1>7, <1>8, <1>9, <1>11, <1>12, <1>13, <1>14 DEF Next

(* Code whose overlaps end together is not lost by copying, splitting or     *)
(* shrinking blocks: an instruction leaves the functions only with a        *)
(* fragment whose owner is gone, or is itself.  For every set of images.    *)
THEOREM CodeStaysProved == Spec => CodeStays
<1> DEFINE Stays == EndTogether =>
             \A a \in DOMAIN facts :
               InFunction(a) /\ ~InFunction(a)' =>
                 /\ pc = "copy" /\ copying = <<>>
                 /\ fold.owner \notin DOMAIN functions \ {fold.target}
<1>1. FlowInv /\ FlowInv' /\ CodeInv /\ CodeInv' /\ [Next]_vars => [Stays]_vars
  BY CodeStaysStep
<1>2. (Spec => [][Stays]_vars) => (Spec => CodeStays)
  BY DEF CodeStays
<1>3. Spec => []FlowInv
  BY FlowInit, FlowStep, PTL DEF Spec
<1>4. Spec => []CodeInv
  BY FlowInit, FlowStep, CodeInit, CodeStep, PTL DEF Spec
<1> HIDE DEF Stays
<1>5. Spec => [][Stays]_vars
  BY <1>1, <1>3, <1>4, PTL DEF Spec
<1> QED BY <1>2, <1>5

-----------------------------------------------------------------------------
(* Owners.  Which function holds an address: blocks copied into a function  *)
(* bring only what the fragment held, so that code a single function lists  *)
(* stays with one function, and both ends of a flow into a folded fragment  *)
(* with the same one.                                                       *)

\* The entries of the functions that are not skipped, and of all there may be.
Kept == {e \in DOMAIN image.owned : ~Skipped(e)}
Entries == DOMAIN image.owned \cup DOMAIN image.seeds
FoldRecords == [owner : Entries, target : Entries]

\* The fragment being copied still has the blocks on their way.
Has(e, a) ==
  \/ e \in DOMAIN functions /\ HasBlockContaining(functions[e].blocks, a)
  \/ pc = "copy" /\ e = fold.target /\ HasBlockContaining(copying, a)

\* During a copy the fragment and its owner count as one function.
Same(d, e) == d = e \/ (pc = "copy" /\ {d, e} \subseteq {fold.owner, fold.target})

OneHolder == \A a, d, e : Unshared(a) /\ Has(d, a) /\ Has(e, a) => Same(d, e)

EntryHolder ==
  \A t \in Kept \cap DOMAIN functions : \A e :
    ListedBy(t) \subseteq {t} /\ Has(e, t) => Same(e, t)

\* A fold still to be done: its owner has the origins of all flows to the target.
FoldsFit ==
  \A n \in DOMAIN folds : \A x \in Flows : \A e, o :
    /\ x.to = folds[n].target /\ x.to \in Kept \cap DOMAIN functions
    /\ o = folds[n].owner /\ o \in DOMAIN functions
    /\ Unshared(x.from) /\ Has(e, x.from)
    => Same(e, o)

\* A fold that was done: both ends of the flows to the target are together.
FoldedFit ==
  \A x \in Flows : \A d, e :
    /\ x.to \in Kept \ DOMAIN functions
    /\ Unshared(x.from) /\ ListedBy(x.to) \subseteq {x.to}
    /\ Has(d, x.from) /\ Has(e, x.to)
    => Same(d, e)

\* Until the folds begin, functions have what the image lists for them.
AsListed ==
  /\ \A a, e : Has(e, a) => e \in ListedBy(a)
  /\ pc # "functions" =>
       \A e \in Kept : /\ e \in DOMAIN functions /\ "source" \in DOMAIN functions[e]
                       /\ functions[e].source = "gtirb-ddisasm"

OwnerInv ==
  /\ DOMAIN functions \subseteq Entries
  /\ folds \in Seq(FoldRecords)
  /\ pc \in {"functions", "edges", "decode"} => folds = <<>>
  /\ pc = "copy" => folds # <<>>
  /\ pc \in {"functions", "edges", "decode", "fold"} => AsListed
  /\ OneHolder /\ EntryHolder /\ FoldsFit /\ FoldedFit

(* What is left of a list.                                                  *)
LEMMA TailOf ==
  ASSUME NEW S, NEW q \in Seq(S), q # <<>>
  PROVE  /\ Tail(q) \in Seq(S) /\ 1 \in DOMAIN q /\ Head(q) = q[1] /\ q[1] \in S
         /\ \A n \in DOMAIN Tail(q) : n + 1 \in DOMAIN q /\ Tail(q)[n] = q[n + 1]
<1>1. /\ DOMAIN q = 1 .. Len(q) /\ Len(q) \in Nat /\ Len(q) >= 1
      /\ DOMAIN Tail(q) = 1 .. Len(q) - 1
      /\ \A i \in 1 .. Len(q) - 1 : Tail(q)[i] = q[i + 1]
      /\ Head(q) = q[1] /\ Tail(q) \in Seq(S)
  OBVIOUS
<1>2. 1 \in DOMAIN q /\ q[1] \in S
  BY <1>1
<1>3. \A n \in DOMAIN Tail(q) : n + 1 \in DOMAIN q /\ Tail(q)[n] = q[n + 1]
  BY <1>1
<1> QED BY <1>1, <1>2, <1>3

(* A list with one more element.                                            *)
LEMMA AppendOf ==
  ASSUME NEW S, NEW q \in Seq(S), NEW r \in S
  PROVE  /\ Append(q, r) \in Seq(S)
         /\ \A n \in DOMAIN Append(q, r) :
              (n \in DOMAIN q /\ Append(q, r)[n] = q[n]) \/ Append(q, r)[n] = r
<1>1. /\ Append(q, r) \in Seq(S) /\ DOMAIN q = 1 .. Len(q) /\ Len(q) \in Nat
      /\ DOMAIN Append(q, r) = 1 .. Len(q) + 1
      /\ \A i \in 1 .. Len(q) : Append(q, r)[i] = q[i]
      /\ Append(q, r)[Len(q) + 1] = r
  OBVIOUS
<1> QED BY <1>1

(* A block added brings no address but its own.                             *)
LEMMA AddHolds ==
  ASSUME NEW known, NEW f, IsFunction(f), NEW b \in Blocks, NEW a,
         HasBlockContaining(AddBasicBlock(known, f, b).blocks, a)
  PROVE  HasBlockContaining(f.blocks, a) \/ Holds(b, a)
<1> DEFINE old == f.blocks
           new == AddBasicBlock(known, f, b).blocks
<1>1. Added(old, b, new)
  BY AddedBlocks
<1>2. PICK i \in DOMAIN new : Holds(new[i], a)
  BY DEF HasBlockContaining
<1>3. \A j \in DOMAIN old : old[j] \in Blocks
  BY DEF IsFunction
<1> HIDE DEF new
<1>4. CASE i \in DOMAIN old
  <2>1. new[i] \in Blocks /\ new[i].start = old[i].start /\ new[i].end <= old[i].end
    BY <1>1, <1>4 DEF Added
  <2>2. Holds(old[i], a)
    BY <1>2, <1>3, <1>4, <2>1 DEF Holds, Blocks
  <2> QED BY <1>4, <2>2 DEF HasBlockContaining
<1>5. CASE i \notin DOMAIN old
  <2>1. new[i] \in Blocks /\ new[i].start = b.start /\ new[i].end <= b.end
    BY <1>1, <1>5 DEF Added
  <2> QED BY <1>2, <2>1 DEF Holds, Blocks
<1> QED BY <1>4, <1>5

(* A split brings none at all.                                              *)
LEMMA SplitHolds ==
  ASSUME NEW known, NEW f, IsFunction(f), NEW at, NEW a,
         HasBlockContaining(EnsureBlockStartsAt(known, f, at).blocks, a)
  PROVE  HasBlockContaining(f.blocks, a)
<1>1. CASE EnsureBlockStartsAt(known, f, at) = f
  BY <1>1
<1>2. CASE EnsureBlockStartsAt(known, f, at) # f
  <2>1. PICK i \in DOMAIN f.blocks : \E b \in Blocks :
          /\ b = Block(at, f.blocks[i].end, f.blocks[i].succ) /\ f.blocks[i].start <= at
          /\ EnsureBlockStartsAt(known, f, at) = AddBasicBlock(known, f, b)
    BY <1>2, SplitIsAdd
  <2>2. PICK b \in Blocks :
          /\ b = Block(at, f.blocks[i].end, f.blocks[i].succ) /\ f.blocks[i].start <= at
          /\ EnsureBlockStartsAt(known, f, at) = AddBasicBlock(known, f, b)
    BY <2>1
  <2>3. HasBlockContaining(f.blocks, a) \/ Holds(b, a)
    BY <2>2, AddHolds
  <2>4. ASSUME Holds(b, a) PROVE Holds(f.blocks[i], a)
    <3>1. f.blocks[i] \in Blocks
      BY DEF IsFunction
    <3>2. b.start = at /\ b.end = f.blocks[i].end
      BY <2>2 DEF Block
    <3> QED BY <2>2, <2>4, <3>1, <3>2 DEF Holds, Blocks
  <2> QED BY <2>3, <2>4 DEF HasBlockContaining
<1> QED BY <1>1, <1>2

(* The only function that holds an address owns it.                         *)
LEMMA SoleOwner ==
  ASSUME NEW a, NEW h \in DOMAIN functions, h \in Nat, HasBlockContaining(functions[h].blocks, a),
         \A d \in DOMAIN functions : HasBlockContaining(functions[d].blocks, a) => d = h
  PROVE  Owner(a) = h
<1> DEFINE P(e) == /\ HasBlockContaining(functions[e].blocks, a)
                   /\ \A d \in DOMAIN functions : d < e => ~HasBlockContaining(functions[d].blocks, a)
<1>1. P(h)
  OBVIOUS
<1>2. Owner(a) \in DOMAIN functions /\ P(Owner(a))
  BY <1>1 DEF Owner
<1> QED BY <1>2

-----------------------------------------------------------------------------

(* A step that moves addresses only between a fragment and its owner.       *)
LEMMA MovesFit ==
  ASSUME OneHolder, EntryHolder, FoldsFit, FoldedFit,
         image' = image, xrefs' = xrefs, DOMAIN functions' = DOMAIN functions,
         \A n \in DOMAIN folds' : \E m \in DOMAIN folds : folds'[n] = folds[m],
         \A e, a : Has(e, a)' => \E d : Has(d, a) /\ Same(d, e)',
         \A d, e : Same(d, e) => Same(d, e)'
  PROVE  OneHolder' /\ EntryHolder' /\ FoldsFit' /\ FoldedFit'
<1>1. Flows' = Flows /\ Kept' = Kept
  BY DEF Flows, Kept, Skipped
<1>2. \A a : ListedBy(a)' = ListedBy(a)
  BY DEF ListedBy, Skipped, ImportedBlocks
<1>3. \A a : Unshared(a)' <=> Unshared(a)
  BY <1>2 DEF Unshared
<1>4. \A c, d, e : Same(c, d)' /\ Same(d, e)' => Same(c, e)'
  BY DEF Same
<1>5. \A d, e : Same(d, e)' => Same(e, d)'
  BY DEF Same
<1> HIDE DEF Has, Same, Flows, Kept, ListedBy, Unshared
<1>6. OneHolder'
  <2>1. ASSUME NEW a, NEW d, NEW e, Unshared(a), Has(d, a)', Has(e, a)' PROVE Same(d, e)'
    <3>1. PICK b : Has(b, a) /\ Same(b, d)'
      BY <2>1
    <3>2. PICK c : Has(c, a) /\ Same(c, e)'
      BY <2>1
    <3>3. Same(b, c)'
      BY <2>1, <3>1, <3>2 DEF OneHolder
    <3> QED BY <3>1, <3>2, <3>3, <1>4, <1>5
  <2> QED BY <2>1, <1>3 DEF OneHolder
<1>7. EntryHolder'
  <2>1. ASSUME NEW t \in Kept \cap DOMAIN functions, NEW e, ListedBy(t) \subseteq {t}, Has(e, t)'
        PROVE  Same(e, t)'
    <3>1. PICK c : Has(c, t) /\ Same(c, e)'
      BY <2>1
    <3>2. Same(c, t)'
      BY <2>1, <3>1 DEF EntryHolder
    <3> QED BY <3>1, <3>2, <1>4, <1>5
  <2> QED BY <2>1, <1>1, <1>2 DEF EntryHolder
<1>8. FoldsFit'
  <2>1. ASSUME NEW n \in DOMAIN folds', NEW x \in Flows, NEW e, NEW o,
               x.to = folds'[n].target, x.to \in Kept \cap DOMAIN functions,
               o = folds'[n].owner, o \in DOMAIN functions, Unshared(x.from), Has(e, x.from)'
        PROVE  Same(e, o)'
    <3>1. PICK m \in DOMAIN folds : folds'[n] = folds[m]
      OBVIOUS
    <3>2. PICK c : Has(c, x.from) /\ Same(c, e)'
      BY <2>1
    <3>3. Same(c, o)'
      BY <2>1, <3>1, <3>2 DEF FoldsFit
    <3> QED BY <3>2, <3>3, <1>4, <1>5
  <2> QED BY <2>1, <1>1, <1>3 DEF FoldsFit
<1>9. FoldedFit'
  <2>1. ASSUME NEW x \in Flows, NEW d, NEW e, x.to \in Kept \ DOMAIN functions,
               Unshared(x.from), ListedBy(x.to) \subseteq {x.to}, Has(d, x.from)', Has(e, x.to)'
        PROVE  Same(d, e)'
    <3>1. PICK b : Has(b, x.from) /\ Same(b, d)'
      BY <2>1
    <3>2. PICK c : Has(c, x.to) /\ Same(c, e)'
      BY <2>1
    <3>3. Same(b, c)'
      BY <2>1, <3>1, <3>2 DEF FoldedFit
    <3> QED BY <3>1, <3>2, <3>3, <1>4, <1>5
  <2> QED BY <2>1, <1>1, <1>2, <1>3 DEF FoldedFit
<1> QED BY <1>6, <1>7, <1>8, <1>9

(* Before the folds the parts follow from what the image lists.             *)
LEMMA ListedFit ==
  ASSUME pc # "copy", AsListed, folds = <<>>, pc = "functions" => DOMAIN functions = {}
  PROVE  OneHolder /\ EntryHolder /\ FoldsFit /\ FoldedFit
<1>1. OneHolder
  BY DEF AsListed, OneHolder, Unshared, Same
<1>2. EntryHolder
  BY DEF AsListed, EntryHolder, Same
<1>3. FoldsFit
  BY DEF FoldsFit
<1>4. FoldedFit
  <2>1. CASE pc = "functions"
    BY <2>1 DEF FoldedFit, Has
  <2>2. CASE pc # "functions"
    BY <2>2 DEF FoldedFit, AsListed
  <2> QED BY <2>1, <2>2
<1> QED BY <1>1, <1>2, <1>3, <1>4

LEMMA OwnerInit == Init => OwnerInv
<1> SUFFICES ASSUME Init PROVE OwnerInv
  OBVIOUS
<1>1. pc = "functions" /\ DOMAIN functions = {} /\ folds = <<>>
  BY DEF Init
<1>2. AsListed
  BY <1>1 DEF AsListed, Has
<1>3. folds \in Seq(FoldRecords)
  BY <1>1
<1> QED BY <1>1, <1>2, <1>3, ListedFit DEF OwnerInv

\* A step of the loops after the folds were decided, other than the end of a fold.
LEMMA MovesKeepOwners ==
  ASSUME OwnerInv, image' = image, xrefs' = xrefs, DOMAIN functions' = DOMAIN functions,
         folds' = folds \/ (folds # <<>> /\ folds' = Tail(folds)),
         pc' = "copy" => folds' # <<>>,
         pc' \notin {"functions", "edges", "decode", "fold"},
         \A e, a : Has(e, a)' => \E d : Has(d, a) /\ Same(d, e)',
         \A d, e : Same(d, e) => Same(d, e)'
  PROVE  OwnerInv'
<1>1. folds \in Seq(FoldRecords) /\ DOMAIN functions \subseteq Entries
      /\ OneHolder /\ EntryHolder /\ FoldsFit /\ FoldedFit
  BY DEF OwnerInv
<1>2. folds' \in Seq(FoldRecords) /\ \A n \in DOMAIN folds' : \E m \in DOMAIN folds : folds'[n] = folds[m]
  BY <1>1, TailOf
<1>3. Entries' = Entries /\ FoldRecords' = FoldRecords
  BY DEF Entries, FoldRecords
<1>4. OneHolder' /\ EntryHolder' /\ FoldsFit' /\ FoldedFit'
  BY <1>1, <1>2, MovesFit
<1> QED BY <1>1, <1>2, <1>3, <1>4 DEF OwnerInv

\* What only the blocks' ranges decide stays when no fragment is on its way.
LEMMA RangesKeepOwners ==
  ASSUME OwnerInv, image' = image, xrefs' = xrefs, DOMAIN functions' = DOMAIN functions,
         folds' = folds \/ (folds # <<>> /\ folds' = Tail(folds)), pc # "copy", pc' # "copy",
         pc' \notin {"functions", "edges", "decode", "fold"},
         \A e \in DOMAIN functions : \A a :
           HasBlockContaining(functions'[e].blocks, a) => HasBlockContaining(functions[e].blocks, a)
  PROVE  OwnerInv'
<1>1. \A e, a : Has(e, a)' => \E d : Has(d, a) /\ Same(d, e)'
  BY DEF Has, Same
<1>2. \A d, e : Same(d, e) => Same(d, e)'
  BY DEF Same
<1> QED BY <1>1, <1>2, MovesKeepOwners

\* Before the folds: what a step has to keep.
Early ==
  /\ pc \in {"edges", "decode", "fold"} /\ folds = <<>>
  /\ DOMAIN functions \subseteq Entries
  /\ \A e \in DOMAIN functions : \A a :
       HasBlockContaining(functions[e].blocks, a) => e \in ListedBy(a)
  /\ \A e \in Kept : /\ e \in DOMAIN functions /\ "source" \in DOMAIN functions[e]
                     /\ functions[e].source = "gtirb-ddisasm"

LEMMA EarlyFits == Early => OwnerInv
<1> SUFFICES ASSUME Early PROVE OwnerInv
  OBVIOUS
<1>1. AsListed
  BY DEF Early, AsListed, Has
<1>2. OneHolder /\ EntryHolder /\ FoldsFit /\ FoldedFit
  BY <1>1, ListedFit DEF Early
<1>3. folds \in Seq(FoldRecords)
  BY DEF Early
<1> QED BY <1>1, <1>2, <1>3 DEF OwnerInv, Early

LEMMA EarlyFitsNext == Early' => OwnerInv'
  BY EarlyFits, PTL

LEMMA OwnerIsEarly ==
  ASSUME OwnerInv, pc \in {"edges", "decode"}
  PROVE  Early
  BY DEF OwnerInv, AsListed, Early, Has

LEMMA OwnerHas ==
  ASSUME image \in Images, DOMAIN functions \subseteq Entries, NEW a, InFunction(a)
  PROVE  Owner(a) \in DOMAIN functions /\ HasBlockContaining(functions[Owner(a)].blocks, a)
<1> DEFINE holders == {e \in DOMAIN functions : HasBlockContaining(functions[e].blocks, a)}
<1>1. Entries \subseteq Nat
  BY ImagesAssumption DEF Entries
<1>2. holders \subseteq Nat /\ holders # {}
  BY <1>1 DEF InFunction
<1>3. PICK h \in holders : \A d \in holders : h <= d
  BY <1>2, Smallest
<1>4. ASSUME NEW d \in DOMAIN functions, d < h PROVE ~HasBlockContaining(functions[d].blocks, a)
  <2>1. d \in Nat /\ h \in Nat
    BY <1>1, <1>2
  <2> QED BY <1>3, <1>4, <2>1
<1> QED BY <1>3, <1>4 DEF Owner

LEMMA OwnerCollect ==
  ASSUME FlowInv, OwnerInv, CollectFold
  PROVE  OwnerInv'
<1> DEFINE x == Head(todo)
           o == Owner(x.from)
           t == x.to
           r == [owner |-> o, target |-> t]
<1>1. /\ image' = image /\ functions' = functions /\ xrefs' = xrefs /\ pc = "fold" /\ pc' = "fold"
      /\ folds' = IF InFunction(x.from) /\ IsFoldable(o, t) THEN Append(folds, r) ELSE folds
  BY DEF CollectFold
<1>2. /\ DOMAIN functions \subseteq Entries /\ folds \in Seq(FoldRecords) /\ AsListed /\ image \in Images
      /\ OneHolder /\ EntryHolder /\ FoldsFit /\ FoldedFit
  BY <1>1 DEF OwnerInv, FlowInv
<1>3. /\ Flows' = Flows /\ Kept' = Kept /\ Entries' = Entries /\ FoldRecords' = FoldRecords
      /\ \A a : ListedBy(a)' = ListedBy(a)
  BY <1>1 DEF Flows, Kept, Skipped, Entries, FoldRecords, ListedBy, ImportedBlocks
<1>4. \A a : Unshared(a)' <=> Unshared(a)
  BY <1>3 DEF Unshared
<1>5. (\A e, a : Has(e, a)' <=> Has(e, a)) /\ (\A d, e : Same(d, e)' <=> Same(d, e))
  BY <1>1 DEF Has, Same
<1>6. AsListed'
  BY <1>1, <1>2, <1>3, <1>5 DEF AsListed
<1> HIDE DEF Has, Same, Flows, Kept, ListedBy, Unshared
<1>7. OneHolder' /\ EntryHolder' /\ FoldedFit'
  BY <1>1, <1>2, <1>3, <1>4, <1>5 DEF OneHolder, EntryHolder, FoldedFit
<1>8. CASE ~(InFunction(x.from) /\ IsFoldable(o, t))
  <2>1. folds' = folds
    BY <1>1, <1>8
  <2>2. FoldsFit'
    BY <1>1, <1>2, <1>3, <1>4, <1>5, <2>1 DEF FoldsFit
  <2> QED BY <1>1, <1>2, <1>3, <1>6, <1>7, <2>1, <2>2 DEF OwnerInv
<1>9. CASE InFunction(x.from) /\ IsFoldable(o, t)
  <2>1. folds' = Append(folds, r)
    BY <1>1, <1>9
  <2>2. o \in Entries /\ t \in Entries
    BY <1>2, <1>9, OwnerHas DEF IsFoldable
  <2>3. r \in FoldRecords
    BY <2>2 DEF FoldRecords
  <2>4. /\ folds' \in Seq(FoldRecords)
        /\ \A n \in DOMAIN folds' : (n \in DOMAIN folds /\ folds'[n] = folds[n]) \/ folds'[n] = r
    BY <1>2, <2>1, <2>3, AppendOf
  <2>5. ASSUME NEW y \in Flows, NEW e, y.to = t, t \in Kept, Unshared(y.from), Has(e, y.from)
        PROVE  Same(e, o)
    <3>1. functions[t].source = "gtirb-ddisasm"
      BY <1>1, <1>2, <2>5 DEF AsListed
    <3>2. InFunction(y.from) /\ Owner(y.from) = o
      BY <1>9, <2>5, <3>1 DEF IsFoldable
    <3>3. o \in DOMAIN functions /\ HasBlockContaining(functions[o].blocks, y.from)
      BY <1>2, <3>2, OwnerHas
    <3>4. Has(o, y.from)
      BY <3>3 DEF Has
    <3> QED BY <1>2, <2>5, <3>4 DEF OneHolder
  <2> HIDE DEF x, o, t
  <2>6. ASSUME NEW n \in DOMAIN folds', NEW y \in Flows, NEW e, NEW p,
               y.to = folds'[n].target, y.to \in Kept \cap DOMAIN functions,
               p = folds'[n].owner, p \in DOMAIN functions, Unshared(y.from), Has(e, y.from)
        PROVE  Same(e, p)
    <3>1. CASE n \in DOMAIN folds /\ folds'[n] = folds[n]
      BY <1>2, <2>6, <3>1 DEF FoldsFit
    <3>2. CASE folds'[n] = r
      BY <2>5, <2>6, <3>2
    <3> QED BY <2>4, <3>1, <3>2
  <2>7. FoldsFit'
    BY <1>1, <1>3, <1>4, <1>5, <2>6 DEF FoldsFit
  <2> QED BY <1>1, <1>2, <1>3, <1>6, <1>7, <2>4, <2>7 DEF OwnerInv
<1> QED BY <1>8, <1>9

LEMMA OwnerFinish ==
  ASSUME FlowInv, OwnerInv, FinishFold
  PROVE  OwnerInv'
<1> DEFINE o == fold.owner
           t == fold.target
           regained == {x \in Flows : x.to = t /\ InFunction(x.from) /\ Owner(x.from) = o}
           attached == IF o \in DOMAIN functions
                       THEN [functions EXCEPT ![o] = Attached(functions[o], regained)]
                       ELSE functions
<1>1. /\ image' = image /\ xrefs' = xrefs /\ pc = "copy" /\ pc' = "folding" /\ copying = <<>>
      /\ functions' = [e \in DOMAIN functions \ {t} |-> attached[e]]
      /\ folds' = Tail(folds)
  BY DEF FinishFold
<1>2. /\ DOMAIN functions \subseteq Entries /\ folds \in Seq(FoldRecords) /\ folds # <<>>
      /\ OneHolder /\ EntryHolder /\ FoldsFit /\ FoldedFit
      /\ \A e \in DOMAIN functions : IsFunction(functions[e])
  BY <1>1 DEF OwnerInv, FlowInv
<1>3. /\ Flows' = Flows /\ Kept' = Kept /\ Entries' = Entries /\ FoldRecords' = FoldRecords
      /\ \A a : ListedBy(a)' = ListedBy(a)
  BY <1>1 DEF Flows, Kept, Skipped, Entries, FoldRecords, ListedBy, ImportedBlocks
<1>4. \A a : Unshared(a)' <=> Unshared(a)
  BY <1>3 DEF Unshared
<1> HIDE DEF regained
<1>5. ASSUME NEW e \in DOMAIN functions', NEW a, HasBlockContaining(functions'[e].blocks, a)
      PROVE  HasBlockContaining(functions[e].blocks, a)
  <2>1. e \in DOMAIN functions /\ functions'[e] = attached[e]
    BY <1>1
  <2>2. CASE e = o
    <3>1. functions'[e] = Attached(functions[e], regained)
      BY <2>1, <2>2
    <3> QED BY <1>2, <1>5, <2>1, <3>1, AttachedBlocks DEF HasBlockContaining, Holds
  <2>3. CASE e # o
    BY <1>5, <2>1, <2>3
  <2> QED BY <2>2, <2>3
<1>6. DOMAIN functions' = DOMAIN functions \ {t}
  BY <1>1
<1>7. \A e, a : Has(e, a)' => Has(e, a) /\ e \in DOMAIN functions'
  BY <1>1, <1>5, <1>6 DEF Has
<1>8. (\A d, e : Same(d, e)' <=> d = e)
  BY <1>1 DEF Same
<1>9. \A d, e : Same(d, e) /\ d # t /\ e # t => d = e
  BY DEF Same
<1>10. /\ folds' \in Seq(FoldRecords) /\ 1 \in DOMAIN folds /\ folds[1] = fold
       /\ \A n \in DOMAIN folds' : n + 1 \in DOMAIN folds /\ folds'[n] = folds[n + 1]
  BY <1>1, <1>2, TailOf DEF fold
<1> HIDE DEF Has, Flows, Kept, ListedBy, Unshared, o, t
<1>11. OneHolder'
  BY <1>2, <1>4, <1>6, <1>7, <1>8, <1>9 DEF OneHolder
<1>12. EntryHolder'
  BY <1>2, <1>3, <1>6, <1>7, <1>8, <1>9 DEF EntryHolder
<1>13. FoldsFit'
  <2>1. ASSUME NEW n \in DOMAIN folds', NEW x \in Flows, NEW e, NEW p,
               x.to = folds'[n].target, x.to \in Kept \cap DOMAIN functions',
               p = folds'[n].owner, p \in DOMAIN functions', Unshared(x.from), Has(e, x.from)'
        PROVE  e = p
    <3>1. n + 1 \in DOMAIN folds /\ folds'[n] = folds[n + 1]
      BY <1>10
    <3>2. Same(e, p)
      BY <1>2, <1>6, <1>7, <2>1, <3>1 DEF FoldsFit
    <3> QED BY <1>6, <1>7, <1>9, <2>1, <3>2
  <2> QED BY <1>3, <1>4, <1>8, <2>1 DEF FoldsFit
<1>14. FoldedFit'
  <2>1. ASSUME NEW x \in Flows, NEW d, NEW e, x.to \in Kept \ DOMAIN functions',
               Unshared(x.from), ListedBy(x.to) \subseteq {x.to}, Has(d, x.from)', Has(e, x.to)'
        PROVE  d = e
    <3>1. Has(d, x.from) /\ Has(e, x.to) /\ d # t /\ e # t /\ d \in DOMAIN functions /\ e \in DOMAIN functions
      BY <1>6, <1>7, <2>1
    <3>2. CASE x.to \notin DOMAIN functions
      <4>1. Same(d, e)
        BY <1>2, <2>1, <3>1, <3>2 DEF FoldedFit
      <4> QED BY <3>1, <4>1, <1>9
    <3>3. CASE x.to \in DOMAIN functions
      <4>1. x.to = t
        BY <1>6, <2>1, <3>3
      <4>2. Same(e, t)
        BY <1>2, <2>1, <3>1, <3>3, <4>1 DEF EntryHolder
      <4>3. e = o
        BY <3>1, <4>2 DEF Same, o, t
      <4>4. o = folds[1].owner /\ t = folds[1].target
        BY <1>10 DEF o, t
      <4>5. Same(d, o)
        BY <1>2, <1>10, <2>1, <3>1, <3>3, <4>1, <4>3, <4>4 DEF FoldsFit
      <4> QED BY <3>1, <4>3, <4>5, <1>9
    <3> QED BY <3>2, <3>3
  <2> QED BY <1>3, <1>4, <1>8, <2>1 DEF FoldedFit
<1> QED BY <1>1, <1>2, <1>3, <1>6, <1>10, <1>11, <1>12, <1>13, <1>14 DEF OwnerInv

LEMMA OwnerCopy ==
  ASSUME FlowInv, OwnerInv, CopyBlock
  PROVE  OwnerInv'
<1> DEFINE o == fold.owner
           t == fold.target
           b == Head(copying)
<1>1. /\ image' = image /\ xrefs' = xrefs /\ folds' = folds /\ pc' = "copy" /\ pc = "copy"
      /\ copying # <<>> /\ copying' = Tail(copying) /\ copying \in Seq(Blocks)
      /\ functions' = IF o \in DOMAIN functions
                      THEN [functions EXCEPT ![o] = AddBasicBlock(facts, functions[o], b)]
                      ELSE functions
  BY DEF CopyBlock, FlowInv
<1>2. fold' = fold
  BY <1>1 DEF fold
<1>3. /\ b \in Blocks /\ 1 \in DOMAIN copying /\ b = copying[1]
      /\ \A i \in DOMAIN Tail(copying) : i + 1 \in DOMAIN copying /\ Tail(copying)[i] = copying[i + 1]
  BY <1>1, StartsOfTail
<1>4. \A d, e : Same(d, e)' <=> Same(d, e)
  BY <1>1, <1>2 DEF Same
<1>5. ASSUME NEW e, NEW a, Has(e, a)' PROVE \E d : Has(d, a) /\ Same(d, e)'
  <2>1. CASE e = t /\ HasBlockContaining(copying', a)
    <3>1. PICK i \in DOMAIN Tail(copying) : Holds(Tail(copying)[i], a)
      BY <1>1, <2>1 DEF HasBlockContaining
    <3>2. HasBlockContaining(copying, a)
      BY <1>3, <3>1 DEF HasBlockContaining
    <3>3. Has(e, a)
      BY <1>1, <2>1, <3>2 DEF Has
    <3> QED BY <3>3 DEF Same
  <2>2. CASE e \in DOMAIN functions' /\ HasBlockContaining(functions'[e].blocks, a)
    <3>1. e \in DOMAIN functions /\ IsFunction(functions[e])
      BY <1>1, <2>2 DEF FlowInv
    <3>2. CASE HasBlockContaining(functions[e].blocks, a)
      BY <3>1, <3>2 DEF Has, Same
    <3>3. CASE ~HasBlockContaining(functions[e].blocks, a)
      <4>1. e = o /\ functions'[e] = AddBasicBlock(facts, functions[e], b)
        BY <1>1, <2>2, <3>1, <3>3
      <4> HIDE DEF b
      <4>2. Holds(b, a)
        BY <1>3, <2>2, <3>1, <3>3, <4>1, AddHolds
      <4>3. HasBlockContaining(copying, a)
        BY <1>3, <4>2 DEF HasBlockContaining
      <4>4. Has(t, a)
        BY <1>1, <4>3 DEF Has
      <4>5. Same(t, e)
        BY <1>1, <4>1 DEF Same
      <4> QED BY <1>4, <4>4, <4>5
    <3> QED BY <3>2, <3>3
  <2> QED BY <1>2, <1>5, <2>1, <2>2 DEF Has
<1>6. DOMAIN functions' = DOMAIN functions
  BY <1>1
<1>7. folds # <<>>
  BY <1>1 DEF OwnerInv
<1> QED BY <1>1, <1>4, <1>5, <1>6, <1>7, MovesKeepOwners

LEMMA OwnerStep == FlowInv /\ OwnerInv /\ [Next]_vars => OwnerInv'
<1> SUFFICES ASSUME FlowInv, OwnerInv, [Next]_vars PROVE OwnerInv'
  OBVIOUS
<1>fun. image \in Images /\ \A e \in DOMAIN functions : IsFunction(functions[e])
  BY DEF FlowInv
<1>entries. DOMAIN functions \subseteq Entries
  BY DEF OwnerInv
<1>image. image' = image => Kept' = Kept /\ Entries' = Entries /\ \A a : ListedBy(a)' = ListedBy(a)
  BY DEF Kept, Skipped, Entries, ListedBy, ImportedBlocks
<1>1. CASE ImportFunctions
  <2>1. /\ functions' = [e \in Kept |-> FunctionOf(ImportedBlocks(e), "gtirb-ddisasm")]
        /\ image' = image /\ pc' = "edges" /\ folds' = <<>>
    BY <1>1 DEF ImportFunctions, Kept, OwnerInv
  <2>2. ASSUME NEW e \in DOMAIN functions', NEW a, HasBlockContaining(functions'[e].blocks, a)
        PROVE  e \in ListedBy(a)
    BY <2>1, <2>2 DEF Kept, ListedBy, FunctionOf
  <2>3. \A e \in Kept : /\ e \in DOMAIN functions' /\ "source" \in DOMAIN functions'[e]
                        /\ functions'[e].source = "gtirb-ddisasm"
    BY <2>1 DEF FunctionOf
  <2>4. DOMAIN functions' \subseteq Entries
    BY <2>1 DEF Kept, Entries
  <2>5. Early'
    BY <1>image, <2>1, <2>2, <2>3, <2>4 DEF Early
  <2> QED BY <2>5, EarlyFitsNext
<1>2. CASE ImportCfgEdges
  <2> DEFINE h == Head(todo)
             f == functions[h]
             q == [i \in DOMAIN f.blocks |-> [f.blocks[i] EXCEPT !.succ = LocalTargets(f, f.blocks[i].start)]]
  <2>1. /\ functions' = [functions EXCEPT ![h].blocks = q] /\ pc = "edges" /\ pc' = pc
        /\ image' = image /\ folds' = folds
    BY <1>2 DEF ImportCfgEdges
  <2>2. Early
    BY <2>1, OwnerIsEarly
  <2>3. ASSUME NEW e \in DOMAIN functions', NEW a, HasBlockContaining(functions'[e].blocks, a)
        PROVE  HasBlockContaining(functions[e].blocks, a)
    <3>1. e \in DOMAIN functions /\ "blocks" \in DOMAIN functions[e] /\ \A i \in DOMAIN functions[e].blocks : functions[e].blocks[i] \in Blocks
      BY <1>fun, <2>1 DEF IsFunction
    <3>2. CASE e = h
      <4>1. functions'[e].blocks = q
        BY <2>1, <3>1, <3>2
      <4>2. \A i \in DOMAIN q : i \in DOMAIN f.blocks /\ q[i].start = f.blocks[i].start /\ q[i].end = f.blocks[i].end
        BY <3>1, <3>2 DEF Blocks
      <4> HIDE DEF q
      <4> QED BY <2>3, <3>2, <4>1, <4>2 DEF HasBlockContaining, Holds
    <3>3. CASE e # h
      <4>1. functions'[e] = functions[e]
        BY <2>1, <3>1, <3>3
      <4> QED BY <2>3, <4>1
    <3> QED BY <3>2, <3>3
  <2>4. \A e \in DOMAIN functions : /\ "source" \in DOMAIN functions[e]
                                      => /\ "source" \in DOMAIN functions'[e]
                                         /\ functions'[e].source = functions[e].source
    BY <2>1
  <2>5. DOMAIN functions' = DOMAIN functions
    BY <2>1
  <2> HIDE DEF q
  <2>6. Early'
    BY <1>image, <2>1, <2>2, <2>3, <2>4, <2>5 DEF Early
  <2> QED BY <2>6, EarlyFitsNext
<1>3. CASE ImportSeedRanges
  <2> DEFINE fallback == {e \in DOMAIN seeds : e \notin DOMAIN functions /\ seeds[e].end > e /\ ~Skipped(e)}
             only(e) == <<Block(e, seeds[e].end, {})>>
  <2>1. /\ functions' = [e \in DOMAIN functions \cup fallback |->
                           IF e \in fallback THEN FunctionOf(only(e), "gtirb-seed-range-fallback")
                           ELSE functions[e]]
        /\ pc = "edges" /\ pc' = "decode" /\ image' = image /\ folds' = folds
    BY <1>3 DEF ImportSeedRanges
  <2>2. Early /\ DOMAIN functions = Kept
    BY <2>1, OwnerIsEarly DEF FlowInv, Kept
  <2>3. \A e \in fallback : e \in DOMAIN image.seeds \ DOMAIN image.owned /\ seeds[e].end = image.seeds[e].end
    BY <2>1, <2>2 DEF FlowInv, Kept
  <2>4. ASSUME NEW e \in DOMAIN functions', NEW a, HasBlockContaining(functions'[e].blocks, a)
        PROVE  e \in ListedBy(a)
    <3>1. CASE e \in fallback
      <4>1. functions'[e].blocks = only(e)
        BY <2>1, <3>1 DEF FunctionOf
      <4>2. Holds(Block(e, seeds[e].end, {}), a)
        BY <2>4, <4>1 DEF HasBlockContaining
      <4>3. e \in Nat /\ image.seeds[e].end \in Nat
        BY <1>fun, <2>3, <3>1, ImagesAssumption
      <4>4. e <= a /\ a < image.seeds[e].end
        BY <2>3, <3>1, <4>2, <4>3 DEF Holds, Block
      <4> QED BY <2>3, <3>1, <4>4 DEF ListedBy
    <3>2. CASE e \notin fallback
      <4>1. e \in DOMAIN functions /\ functions'[e] = functions[e]
        BY <2>1, <3>2
      <4> QED BY <2>2, <2>4, <4>1 DEF Early
    <3> QED BY <3>1, <3>2
  <2>5. \A e \in Kept : e \in DOMAIN functions' /\ functions'[e] = functions[e]
    BY <2>1, <2>2
  <2>6. DOMAIN functions' \subseteq Entries
    BY <2>1, <2>3, <1>entries DEF Entries
  <2>7. pc' = "decode" /\ folds' = <<>> /\ image' = image
    BY <2>1, <2>2 DEF Early
  <2>8. \A e \in Kept : /\ e \in DOMAIN functions' /\ "source" \in DOMAIN functions'[e]
                        /\ functions'[e].source = "gtirb-ddisasm"
    BY <2>2, <2>5 DEF Early
  <2>9. Early'
    BY <1>image, <2>4, <2>6, <2>7, <2>8 DEF Early
  <2> QED BY <2>9, EarlyFitsNext
<1>4. CASE DecodeExistingBlocks
  <2>1. pc = "decode" /\ pc' = "fold" /\ functions' = functions /\ image' = image /\ folds' = folds
    BY <1>4 DEF DecodeExistingBlocks
  <2>2. Early
    BY <2>1, OwnerIsEarly
  <2>3. Early'
    BY <1>image, <2>1, <2>2 DEF Early
  <2> QED BY <2>3, EarlyFitsNext
<1>5. CASE CollectFold
  BY <1>5, OwnerCollect
<1>6. CASE StartFolding
  BY <1>6, RangesKeepOwners DEF StartFolding
<1>7. CASE SkipFold
  BY <1>7, RangesKeepOwners DEF SkipFold
<1>8. CASE StartFold
  <2>1. /\ functions' = functions /\ image' = image /\ xrefs' = xrefs /\ folds' = folds /\ folds # <<>>
        /\ pc = "folding" /\ pc' = "copy"
        /\ fold.target \in DOMAIN functions /\ copying' = functions[fold.target].blocks
    BY <1>8 DEF StartFold
  <2>2. fold' = fold
    BY <2>1 DEF fold
  <2>3. \A e, a : Has(e, a)' => \E d : Has(d, a) /\ Same(d, e)'
    BY <2>1, <2>2 DEF Has, Same
  <2>4. \A d, e : Same(d, e) => Same(d, e)'
    BY <2>1 DEF Same
  <2> QED BY <2>1, <2>3, <2>4, MovesKeepOwners
<1>9. CASE CopyBlock
  BY <1>9, OwnerCopy
<1>10. CASE FinishFold
  BY <1>10, OwnerFinish
<1>11. CASE RestoreAfterFolds \/ RestoreAfterSplits
  <2>1. /\ functions' = Restored /\ image' = image /\ xrefs' = xrefs /\ folds' = folds
        /\ pc # "copy" /\ pc' \in {"splits", "done"}
    BY <1>11 DEF RestoreAfterFolds, RestoreAfterSplits
  <2>2. DOMAIN functions' = DOMAIN functions
    BY <2>1 DEF Restored
  <2>3. ASSUME NEW e \in DOMAIN functions, NEW a, HasBlockContaining(functions'[e].blocks, a)
        PROVE  HasBlockContaining(functions[e].blocks, a)
    <3>1. functions'[e] = Attached(functions[e], LocalFlows(e))
      BY <2>1 DEF Restored
    <3> QED BY <1>fun, <2>3, <3>1, AttachedBlocks DEF HasBlockContaining, Holds
  <2> QED BY <2>1, <2>2, <2>3, RangesKeepOwners
<1>12. CASE CollectSplits
  BY <1>12, RangesKeepOwners DEF CollectSplits
<1>13. CASE SplitBlock
  <2> DEFINE h == Head(todo).entry
             x == Head(todo).at
  <2>1. /\ functions' = [functions EXCEPT ![h] = EnsureBlockStartsAt(facts, functions[h], x)]
        /\ image' = image /\ xrefs' = xrefs /\ folds' = folds /\ pc = "splitting" /\ pc' = pc
    BY <1>13 DEF SplitBlock
  <2>2. DOMAIN functions' = DOMAIN functions
    BY <2>1
  <2>3. ASSUME NEW e \in DOMAIN functions, NEW a, HasBlockContaining(functions'[e].blocks, a)
        PROVE  HasBlockContaining(functions[e].blocks, a)
    <3>1. functions'[e] = functions[e] \/ functions'[e] = EnsureBlockStartsAt(facts, functions[e], x)
      BY <2>1
    <3> QED BY <1>fun, <2>3, <3>1, SplitHolds
  <2> QED BY <2>1, <2>2, <2>3, RangesKeepOwners
<1>14. CASE UNCHANGED vars
  <2>1. /\ functions' = functions /\ image' = image /\ xrefs' = xrefs /\ folds' = folds /\ pc' = pc
        /\ copying' = copying
    BY <1>14 DEF vars
  <2>2. fold' = fold
    BY <2>1 DEF fold
  <2>3. \A e, a : Has(e, a)' <=> Has(e, a)
    BY <2>1, <2>2 DEF Has
  <2>4. \A d, e : Same(d, e)' <=> Same(d, e)
    BY <2>1, <2>2 DEF Same
  <2>5. Flows' = Flows /\ FoldRecords' = FoldRecords
    BY <1>image, <2>1 DEF Flows, FoldRecords
  <2>6. \A a : Unshared(a)' <=> Unshared(a)
    BY <1>image, <2>1 DEF Unshared
  <2> HIDE DEF Has, Same, Flows, Kept, ListedBy, Unshared
  <2>7. AsListed => AsListed'
    BY <1>image, <2>1, <2>3 DEF AsListed
  <2>8. OneHolder => OneHolder'
    BY <2>3, <2>4, <2>6 DEF OneHolder
  <2>9. EntryHolder => EntryHolder'
    BY <1>image, <2>1, <2>3, <2>4 DEF EntryHolder
  <2>10. FoldsFit => FoldsFit'
    BY <1>image, <2>1, <2>3, <2>4, <2>5, <2>6 DEF FoldsFit
  <2>11. FoldedFit => FoldedFit'
    BY <1>image, <2>1, <2>3, <2>4, <2>5, <2>6 DEF FoldedFit
  <2> QED BY <1>image, <2>1, <2>5, <2>7, <2>8, <2>9, <2>10, <2>11 DEF OwnerInv
<1> QED BY <1>1, <1>2, <1>3, <1>4, <1>5, <1>6, <1>7, <1>8, <1>9, <1>10, <1>11, <1>12, <1>13, <1>14 DEF Next

(* A function that was folded belongs to all who jump to it, however many   *)
(* folds follow on each other: for every set of images, and for code that   *)
(* no two functions list.                                                   *)
THEOREM FoldedOwners == Spec => []FoldedHasOneOwner
<1>1. FlowInv /\ OwnerInv => FoldedHasOneOwner
  <2> SUFFICES ASSUME FlowInv, OwnerInv, pc = "done", NEW x \in Flows,
                      x.to \in DOMAIN image.owned, ~Skipped(x.to), x.to \notin DOMAIN functions,
                      ListedBy(x.to) \subseteq {x.to}, Unshared(x.from),
                      InFunction(x.to), InFunction(x.from)
               PROVE  Owner(x.from) = Owner(x.to)
    BY DEF FoldedHasOneOwner
  <2>1. DOMAIN functions \subseteq Nat /\ OneHolder /\ FoldedFit
    BY ImagesAssumption DEF OwnerInv, FlowInv, Entries
  <2>2. PICK h \in DOMAIN functions : HasBlockContaining(functions[h].blocks, x.from)
    BY DEF InFunction
  <2>3. PICK g \in DOMAIN functions : HasBlockContaining(functions[g].blocks, x.to)
    BY DEF InFunction
  <2>4. Unshared(x.to)
    BY DEF Unshared
  <2>5. \A a : Unshared(a) => \A d, e \in DOMAIN functions :
          HasBlockContaining(functions[d].blocks, a) /\ HasBlockContaining(functions[e].blocks, a) => d = e
    BY <2>1 DEF OneHolder, Has, Same
  <2>6. h = g
    BY <2>1, <2>2, <2>3 DEF FoldedFit, Has, Same, Kept
  <2>7. Owner(x.from) = h
    BY <2>1, <2>2, <2>5, SoleOwner
  <2>8. Owner(x.to) = g
    BY <2>1, <2>3, <2>4, <2>5, SoleOwner
  <2> QED BY <2>6, <2>7, <2>8
<1> QED BY FlowInit, FlowStep, OwnerInit, OwnerStep, <1>1, PTL DEF Spec
=============================================================================
