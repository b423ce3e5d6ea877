---------------------------- MODULE RegisterSSA ----------------------------
(* FunctionBuilder's first pass over one function: register reads become SSA *)
(* values found on demand, range by range, through the control flow, and     *)
(* register writes nobody reads any more are erased.                         *)
EXTENDS Integers, Sequences, FiniteSets, Folds

(* A function q: succ maps a block to the sequence of its successors (block 1 *)
(* is the entry), code maps it to a sequence of instructions                 *)
(*   [op |-> "read", reg, off, w]                                            *)
(*   [op |-> "write", reg, off, w, from]   from: the read that gives the     *)
(*                                         value, or None for a new value    *)
(*   [op |-> "xor", x, y]                  of two reads of the block         *)
(*   [op |-> "call", callee, nonEntry, mayEntry, carried, reads, args]       *)
(* callee is "external", "known" (with summary facts: nonEntry[r], the bits  *)
(* it may change, and mayEntry, the registers that may keep entry bits) or   *)
(* "missing" (no facts); its signature returns the registers of carried; it  *)
(* reads the registers reads and takes the ranges args as parameters.        *)
(* Instructions are named by their place <<block, index>>.  slots are        *)
(* further range boundaries, exits the ranges demanded and returned.         *)
CONSTANTS Regs, Width, AbiPreserved

None == <<0, 0>>
Null == <<"null">>

Blocks(q) == DOMAIN q.succ

Places(q) == UNION {{<<b, k>> : k \in DOMAIN q.code[b]} : b \in Blocks(q)}

Ins(q, i) == q.code[i[1]][i[2]]

Accesses(q) == {i \in Places(q) : Ins(q, i).op \in {"read", "write"}}

Calls(q) == {i \in Places(q) : Ins(q, i).op = "call"}

\* An edge for each place in the successor lists, in block order.
Preds(q, b) ==
  LET edges(c) == SelectSeq(q.succ[c], LAMBDA s : s = b)
      times[c \in 0 .. Cardinality(Blocks(q))] ==
        IF c = 0 THEN <<>> ELSE times[c - 1] \o [n \in DOMAIN edges(c) |-> c]
  IN times[Cardinality(Blocks(q))]

---------------------------------------------------------------------------
(* Planned ranges: a register is cut wherever an access or a slot begins or  *)
(* ends.                                                                     *)
Range(r, off, w) == [reg |-> r, off |-> off, w |-> w]

Boundaries(q, r) ==
  {0, Width}
    \cup UNION {{Ins(q, i).off, Ins(q, i).off + Ins(q, i).w} : i \in {a \in Accesses(q) : Ins(q, a).reg = r}}
    \cup UNION {{s.off, s.off + s.w} : s \in {t \in q.slots \cup q.exits : t.reg = r}}

PlannedRanges(q, r) ==
  LET cuts == Boundaries(q, r)
  IN {Range(r, o, n - o) : <<o, n>> \in {c \in cuts \X cuts : c[1] < c[2] /\ ~\E m \in cuts : c[1] < m /\ m < c[2]}}

Inside(x, off, w) == off <= x.off /\ x.off + x.w <= off + w

\* The planned ranges that tile an access exactly, or none.
PlannedRangesCovering(q, r, off, w) ==
  IF off \in Boundaries(q, r) /\ off + w \in Boundaries(q, r)
    THEN {x \in PlannedRanges(q, r) : Inside(x, off, w)} ELSE {}

Covering(q, i) == PlannedRangesCovering(q, Ins(q, i).reg, Ins(q, i).off, Ins(q, i).w)

---------------------------------------------------------------------------
(* Values are terms: the value of a write, a read, a PHI of a range, the     *)
(* register at the entry, the register after a call, an unknown, bits of     *)
(* another term, or a read put together from the values of its ranges.       *)
Def(i) == <<"def", i>>
Read(i) == <<"read", i>>
Joined(i) == <<"join", i>>
Phi(b, x) == <<"phi", b, x>>
EntryInput(x) == <<"entry", x>>
CallValue(i, x) == <<"call", i, x>>
UnknownAt(b, x, why) == <<"unknown", b, x, why>>

Extract(t, off, w, full) == IF off = 0 /\ w = full THEN t ELSE <<"bits", t, off, w>>

Source(q, i) == IF Ins(q, i).from = None THEN Def(i) ELSE Read(Ins(q, i).from)

(* The builder's state: replacement of reads and PHIs, the incoming values   *)
(* of each PHI, cached values at block entries and exits, the entries being  *)
(* resolved, and the parts of the joined reads.                              *)
EmptyMap == [k \in {} |-> k]

Put(f, k, v) == [x \in DOMAIN f \cup {k} |-> IF x = k THEN v ELSE f[x]]

Fresh == [repl |-> EmptyMap, phis |-> EmptyMap, entry |-> EmptyMap, exit |-> EmptyMap,
          resolving |-> {}, parts |-> EmptyMap, slots |-> EmptyMap]

RECURSIVE Resolve(_, _)
Resolve(st, t) == IF t \in DOMAIN st.repl /\ st.repl[t] # t THEN Resolve(st, st.repl[t]) ELSE t

---------------------------------------------------------------------------
Dominates(q, d, b) ==
  LET reach[n \in Nat] ==
        IF n = 0 THEN {1} \ {d}
        ELSE (reach[n - 1] \cup UNION {{q.succ[c][e] : e \in DOMAIN q.succ[c]} : c \in reach[n - 1]}) \ {d}
  IN b \notin reach[Cardinality(Blocks(q))]

RECURSIVE ValueDominatesUse(_, _, _)
ValueDominatesUse(q, t, use) ==
  CASE t = Null                           -> FALSE
    [] t[1] = "entry"                     -> TRUE
    [] t[1] = "bits"                      -> ValueDominatesUse(q, t[2], use)
    [] t[1] = "phi"                       -> t[2] = use[1] \/ Dominates(q, t[2], use[1])
    [] t[1] = "unknown"                   -> t[2] = use[1] \/ Dominates(q, t[2], use[1])
    [] t[2][1] = use[1]                   -> t[2][2] < use[2]
    [] OTHER                              -> Dominates(q, t[2][1], use[1])

---------------------------------------------------------------------------
(* callEffect, and calleeNeverWritesRange.                                   *)
CallEffect(q, i, r) ==
  LET call == Ins(q, i)
  IN CASE r \in AbiPreserved        -> "preserve"
       [] call.callee = "external"  -> "clobber"
       [] call.callee = "missing"   -> "mixed"
       [] call.nonEntry[r] = {}     -> "preserve"
       [] r \notin call.mayEntry    -> "clobber"
       [] OTHER                     -> "mixed"

NeverWrites(q, i, x) ==
  Ins(q, i).callee = "known" /\ (x.off .. x.off + x.w - 1) \cap Ins(q, i).nonEntry[x.reg] = {}

Keeps(q, i, x) == CallEffect(q, i, x.reg) = "preserve" \/ NeverWrites(q, i, x)

Loses(q, i, x) == CallEffect(q, i, x.reg) = "mixed" /\ x.reg \notin Ins(q, i).carried

\* Does instruction i set range x of its block's current definitions?
Sets(q, i, x) ==
  CASE Ins(q, i).op = "write" -> x \in Covering(q, i)
    [] Ins(q, i).op = "call"  -> ~Keeps(q, i, x)
    [] OTHER                  -> FALSE

\* Bug: the definitions of the block are those at its end, where another read left them.
SetsLastStale(q, b, k, x) ==
  LET at == {n \in DOMAIN q.code[b] : Sets(q, <<b, n>>, x)}
  IN IF at = {} THEN None ELSE <<b, CHOOSE n \in at : \A m \in at : m <= n>>

\* The last instruction before index k of block b that sets x.
SetsLast(q, b, k, x) ==
  LET at == {n \in 1 .. k - 1 : Sets(q, <<b, n>>, x)}
  IN IF at = {} THEN None ELSE <<b, CHOOSE n \in at : \A m \in at : m <= n>>

Current(q, i, x) ==
  IF Ins(q, i).op = "write"
    THEN Extract(Source(q, i), x.off - Ins(q, i).off, x.w, Ins(q, i).w)
    ELSE IF Loses(q, i, x) THEN Null ELSE CallValue(i, x)

---------------------------------------------------------------------------
(* Reading a range before a place, at a block's entry and at its exit.       *)
(* Results are pairs <<state, term>>.                                        *)
Key(b, x) == <<b, x>>

EnsurePhi(st, b, x) ==
  IF Key(b, x) \in DOMAIN st.phis THEN st
  ELSE [st EXCEPT !.phis = Put(@, Key(b, x), <<>>), !.entry = Put(@, Key(b, x), Phi(b, x))]

SimplifyPhi(st, b, x) ==
  LET incoming == {Resolve(st, st.phis[Key(b, x)][n].value) : n \in DOMAIN st.phis[Key(b, x)]} \ {Phi(b, x)}
      same == IF incoming = {} THEN UnknownAt(b, x, "self") ELSE CHOOSE t \in incoming : TRUE
  IN IF Cardinality(incoming) > 1 THEN <<st, Phi(b, x)>>
     ELSE <<[st EXCEPT !.repl = Put(@, Phi(b, x), same)], same>>

RECURSIVE ReadRangeBefore(_, _, _, _, _), ReadRangeEntry(_, _, _, _),
          ReadRangeExit(_, _, _, _), FillPhi(_, _, _, _, _)

ReadRangeBefore(q, st, b, k, x) ==
  LET i == SetsLast(q, b, k, x)
  IN IF i = None THEN ReadRangeEntry(q, st, b, x)
     ELSE LET t == Current(q, i, x) IN <<st, IF t = Null THEN Null ELSE Resolve(st, t)>>

ReadRangeExit(q, st, b, x) ==
  IF Key(b, x) \in DOMAIN st.exit THEN <<st, Resolve(st, st.exit[Key(b, x)])>>
  ELSE LET end == Len(q.code[b]) + 1
           got == ReadRangeBefore(q, st, b, end, x)
       IN IF ~ValueDominatesUse(q, got[2], <<b, end>>) THEN got
          ELSE <<[got[1] EXCEPT !.exit = Put(@, Key(b, x), got[2])], got[2]>>

\* An incoming value for the predecessor edges from the n-th on.
FillPhi(q, st, b, x, n) ==
  IF n > Len(Preds(q, b)) THEN SimplifyPhi(st, b, x)
  ELSE LET c == Preds(q, b)[n]
           filled == st.phis[Key(b, x)]
           again == {m \in DOMAIN filled : filled[m].pred = c}
           got == IF again # {} THEN <<st, filled[CHOOSE m \in again : TRUE].value>>
                  ELSE ReadRangeExit(q, st, c, x)
           value == IF ValueDominatesUse(q, got[2], <<c, Len(q.code[c]) + 1>>) THEN got[2]
                    ELSE UnknownAt(c, x, b)
       IN FillPhi(q, [got[1] EXCEPT !.phis[Key(b, x)] = Append(@, [pred |-> c, value |-> value])], b, x, n + 1)

CompletePhi(q, st, b, x) == LET made == EnsurePhi(st, b, x) IN FillPhi(q, made, b, x, Len(made.phis[Key(b, x)]) + 1)

ReadRangeEntry(q, st, b, x) ==
  IF Key(b, x) \in DOMAIN st.entry THEN <<st, Resolve(st, st.entry[Key(b, x)])>>
  ELSE IF Key(b, x) \in st.resolving THEN <<EnsurePhi(st, b, x), Phi(b, x)>>
  ELSE LET begun == [st EXCEPT !.resolving = @ \cup {Key(b, x)}]
           through == ReadRangeExit(q, begun, Preds(q, b)[1], x)
           got == CASE Preds(q, b) = <<>>                     -> <<begun, EntryInput(x)>>
                    [] Len(Preds(q, b)) > 1                   -> CompletePhi(q, begun, b, x)
                    [] Key(b, x) \in DOMAIN through[1].phis   -> CompletePhi(q, through[1], b, x)
                    [] OTHER                                  -> through
           value == Resolve(got[1], got[2])
       IN <<[got[1] EXCEPT !.resolving = @ \ {Key(b, x)}, !.entry = Put(@, Key(b, x), value)], value>>

---------------------------------------------------------------------------
(* rewritePartialReads and rewriteLoads.                                     *)

\* tryCurrentCoveredAccess: one write of the block covers the whole read.
CoveringWrite(q, i) ==
  LET by == {SetsLast(q, i[1], i[2], x) : x \in Covering(q, i)}
      whole == {d \in by \ {None} : Ins(q, d).op = "write" /\ Inside(Ins(q, i), Ins(q, d).off, Ins(q, d).w)}
  IN IF Cardinality(by) = 1 THEN whole ELSE {}

\* A range is lost in this block, which leaves the read alone; unknown otherwise.
IsLost(q, j, x) == j # None /\ Current(q, j, x) = Null

Part(q, got, i, x) ==
  CASE ValueDominatesUse(q, got[2], i)           -> got
    [] IsLost(q, SetsLast(q, i[1], i[2], x), x) -> <<got[1], Null>>
    [] OTHER                                     -> <<got[1], UnknownAt(i[1], x, i)>>

Terms(done) == {p[2] : p \in done.parts}

\* The ranges of a read in order, each resolved in the state the last one left,
\* up to the first one that is lost.
EachPart(part(_, _), st, ranges) ==
  LET add(x, got, done) == [st |-> got[1], parts |-> done.parts \cup {<<x, got[2]>>}]
      step(x, done) == IF Null \in Terms(done) THEN done ELSE add(x, part(done.st, x), done)
      highest(S) == CHOOSE x \in S : \A y \in S : y.off <= x.off
  IN MapThenFoldSet(step, [st |-> st, parts |-> {}], LAMBDA x : x, highest, ranges)

Parts(q, st, i) ==
  EachPart(LAMBDA s, x : Part(q, ReadRangeBefore(q, s, i[1], i[2], x), i, x), st, Covering(q, i))

\* tryCommonExtractSourceAccess: the parts are the same bits of one term.
CommonSource(parts) ==
  IF \A p \in parts : p[2][1] = "bits" /\ p[2][3] = p[1].off /\ p[2][4] = p[1].w
    THEN {p[2][2] : p \in parts} ELSE {}

FromWrite(q, st, i, d) ==
  <<st, Extract(Resolve(st, Source(q, d)), Ins(q, i).off - Ins(q, d).off, Ins(q, i).w, Ins(q, d).w)>>

FromParts(q, i, done, common) ==
  CASE Null \in Terms(done)         -> <<done.st, Null>>
    [] Cardinality(done.parts) = 1  -> <<done.st, CHOOSE t \in Terms(done) : TRUE>>
    [] Cardinality(common) = 1      ->
         <<done.st, Extract(CHOOSE t \in common : TRUE, Ins(q, i).off, Ins(q, i).w, Width)>>
    [] OTHER                        -> <<[done.st EXCEPT !.parts = Put(@, i, done.parts)], Joined(i)>>

Accessed(q, i, done) == FromParts(q, i, done, CommonSource(done.parts))

ReadAccess(q, st, i, writes) ==
  IF writes # {} THEN FromWrite(q, st, i, CHOOSE d \in writes : TRUE) ELSE Accessed(q, i, Parts(q, st, i))

\* A read is replaced unless its value is lost or is the read itself.
Replace(q, st, i, value) ==
  IF \/ value \in {Null, Read(i)}
     \/ ~ValueDominatesUse(q, value, i) /\ value # Joined(i)
    THEN st
  ELSE [st EXCEPT !.repl = Put(@, Read(i), value)]

ReplaceBy(q, i, got) == Replace(q, got[1], i, IF got[2] = Null THEN Null ELSE Resolve(got[1], got[2]))

RewriteRead(q, st, i) == ReplaceBy(q, i, ReadAccess(q, st, i, CoveringWrite(q, i)))

Reads(q) == {i \in Places(q) : Ins(q, i).op = "read"}

PartialReads(q) == {i \in Reads(q) : Ins(q, i).w # Width}

\* rewritePartialReads, and then rewriteLoads.
Latest(S) == CHOOSE i \in S : \A j \in S : j[1] < i[1] \/ (i[1] = j[1] /\ j[2] <= i[2])

LastRewritten(q, S) == IF S \subseteq PartialReads(q) THEN Latest(S) ELSE Latest(S \ PartialReads(q))

Built(q) ==
  MapThenFoldSet(LAMBDA i, s : RewriteRead(q, s, i), Fresh, LAMBDA i : i, LAMBDA S : LastRewritten(q, S), Reads(q))

Replaced(st, i) == Read(i) \in DOMAIN st.repl

---------------------------------------------------------------------------
(* Parameter slots at a call and return slots at a return, composed of the   *)
(* planned ranges they overlap.                                              *)
Overlapping(q, s) == {x \in PlannedRanges(q, s.reg) : x.off < s.off + s.w /\ s.off < x.off + x.w}

\* Bug: a value from another block is passed as the one at the entry.
SlotPartEntry(q, got, i, x, fallback) ==
  IF SetsLast(q, i[1], i[2], x) = None THEN <<got[1], EntryInput(x)>> ELSE got

\* Without a value, a parameter may fall back to the register at the entry.
SlotPart(q, got, i, x, fallback) ==
  CASE fallback = "unknown"               -> Part(q, got, i, x)
    [] ValueDominatesUse(q, got[2], i)    -> got
    [] fallback = "entry"                 -> <<got[1], EntryInput(x)>>
    [] OTHER                              -> <<got[1], Null>>

ReadSlot(q, st, i, s, fallback) ==
  EachPart(LAMBDA t, x : SlotPart(q, ReadRangeBefore(q, t, i[1], i[2], x), i, x, fallback), st, Overlapping(q, s))

Missing(done) == Null \in Terms(done)

Bind(done, i, s) == [done.st EXCEPT !.slots = Put(@, <<i, s>>, IF Missing(done) THEN {} ELSE done.parts)]

BindOrEntry(q, direct, i, s) == Bind(IF Missing(direct) THEN ReadSlot(q, direct.st, i, s, "entry") ELSE direct, i, s)

BindArgument(q, st, i, s) == BindOrEntry(q, ReadSlot(q, st, i, s, "none"), i, s)

BindReturn(q, st, i, s) == Bind(ReadSlot(q, st, i, s, "unknown"), i, s)

Any(S) == CHOOSE x \in S : TRUE

CollectCallArgs(q, st) ==
  LET slots == UNION {{<<i, s>> : s \in Ins(q, i).args} : i \in Calls(q)}
  IN MapThenFoldSet(LAMBDA a, t : BindArgument(q, t, a[1], a[2]), st, LAMBDA a : a, Any, slots)

CollectReturnValues(q, st) ==
  LET ends == {<<b, Len(q.code[b]) + 1>> : b \in {c \in Blocks(q) : q.succ[c] = <<>>}}
  IN MapThenFoldSet(LAMBDA a, t : BindReturn(q, t, a[1], a[2]), st, LAMBDA a : a, Any, ends \X q.exits)

Run(q) == CollectReturnValues(q, CollectCallArgs(q, Built(q)))

---------------------------------------------------------------------------
(* foldDuplicatePartialReadXors: an XOR of two partial reads of one range is *)
(* zero if nothing in between may write that range.                          *)
WriteBetween(q, i, j) ==
  \E n \in i[2] + 1 .. j[2] - 1 :
    LET ins == Ins(q, <<i[1], n>>)
    IN \/ ins.op = "call"
       \/ /\ ins.op = "write"
          /\ ins.reg = Ins(q, i).reg
          /\ \/ ins.w = Width
             \/ (ins.off < Ins(q, i).off + Ins(q, i).w /\ Ins(q, i).off < ins.off + ins.w)

FoldedToZero(q, x) ==
  LET i == Ins(q, x).x  j == Ins(q, x).y
  IN /\ {i, j} \subseteq PartialReads(q) /\ i # j
     /\ Ins(q, i) = Ins(q, j) /\ i[1] = j[1]
     /\ i[2] < j[2] /\ ~WriteBetween(q, i, j)

---------------------------------------------------------------------------
(* removeDeadStoresByLiveness: live planned ranges, backwards.               *)
AllRanges(q) == UNION {PlannedRanges(q, r) : r \in Regs}

\* What a range outside the plan stands for: its whole register.
Touched(q, r, off, w) ==
  LET tiles == PlannedRangesCovering(q, r, off, w) IN IF tiles = {} THEN PlannedRanges(q, r) ELSE tiles

CallKills(q, i) == {x \in AllRanges(q) : CallEffect(q, i, x.reg) = "clobber"}

CallUses(q, i) == {x \in AllRanges(q) : x.reg \in Ins(q, i).reads}

\* Bug: a write of a part of a register ends the life of the whole register.
LiveBeforeWhole(q, st, i, live) ==
  CASE Ins(q, i).op = "write" -> {x \in live : x.reg # Ins(q, i).reg}
    [] Ins(q, i).op = "call"  -> (live \ CallKills(q, i)) \cup CallUses(q, i)
    [] Ins(q, i).op = "read"  ->
         IF Replaced(st, i) THEN live ELSE live \cup Touched(q, Ins(q, i).reg, Ins(q, i).off, Ins(q, i).w)
    [] OTHER                  -> live

LiveBefore(q, st, i, live) ==
  CASE Ins(q, i).op = "write" -> live \ Covering(q, i)
    [] Ins(q, i).op = "call"  -> (live \ CallKills(q, i)) \cup CallUses(q, i)
    [] Ins(q, i).op = "read"  ->
         IF Replaced(st, i) THEN live ELSE live \cup Touched(q, Ins(q, i).reg, Ins(q, i).off, Ins(q, i).w)
    [] OTHER                  -> live

LiveAt(q, st, b, k, out) ==
  LET from[n \in k .. Len(q.code[b]) + 1] ==
        IF n = Len(q.code[b]) + 1 THEN out ELSE LiveBefore(q, st, <<b, n>>, from[n + 1])
  IN from[k]

ExitLive(q) == UNION {Touched(q, s.reg, s.off, s.w) : s \in q.exits}

LiveOut(q, in, b) ==
  IF q.succ[b] = <<>> THEN ExitLive(q) ELSE UNION {in[q.succ[b][n]] : n \in DOMAIN q.succ[b]}

RECURSIVE LiveIn(_, _, _)
LiveIn(q, st, in) ==
  LET next == [b \in Blocks(q) |-> LiveAt(q, st, b, 1, LiveOut(q, in, b))]
  IN IF next = in THEN in ELSE LiveIn(q, st, next)

DeadStores(q, st) ==
  LET in == LiveIn(q, st, [b \in Blocks(q) |-> {}])
  IN {i \in Accesses(q) :
        /\ Ins(q, i).op = "write"
        /\ LiveAt(q, st, i[1], i[2] + 1, LiveOut(q, in, i[1])) \cap Covering(q, i) = {}}

\* What the pass makes of a function: the values of its reads and slots, and the
\* writes it erases.
Outcome(q, st) == [built |-> st, dead |-> DeadStores(q, st)]

Rewrite(q) == Outcome(q, Run(q))

RewriteAll(S) == [q \in S |-> Rewrite(q)]
=============================================================================
