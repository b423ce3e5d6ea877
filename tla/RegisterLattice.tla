-------------------------- MODULE RegisterLattice --------------------------
(***************************************************************************)
(* The abstract domain of NativeRegisterSummary: one Cell per native       *)
(* register, three bit masks wide.                                         *)
(*                                                                         *)
(*   MayEntry     bits that may still hold the function's entry value      *)
(*   MayNonEntry  bits that may hold something defined since entry         *)
(*   ReadEntry    bits whose entry value may have been read                *)
(*                                                                         *)
(* A mask is a set of bit positions.  A state keeps cells in a sparse map: *)
(* a register that was never touched has no cell and stands for            *)
(* DefaultCell, "the whole register is still the entry value".             *)
(***************************************************************************)
CONSTANTS
  Registers,   \* the register units of the module
  Bits         \* the bit positions of a register

Cell == [MayEntry : SUBSET Bits, MayNonEntry : SUBSET Bits, ReadEntry : SUBSET Bits]

DefaultCell == [MayEntry |-> Bits, MayNonEntry |-> {}, ReadEntry |-> {}]

\* A map with one more entry, or with that entry replaced.
Put(map, key, value) ==
  [k \in DOMAIN map \cup {key} |-> IF k = key THEN value ELSE map[k]]

\* A map without one of its keys.
Drop(map, key) == [k \in DOMAIN map \ {key} |-> map[k]]

\* Partial functions from S to T: the sparse maps of the analysis.
Sparse(S, T) == UNION {[D -> T] : D \in SUBSET S}

EmptyMap == [k \in {} |-> k]

CellIn(cells, reg) == IF reg \in DOMAIN cells THEN cells[reg] ELSE DefaultCell

\* Only the bits that may still be the entry value count as read.
ReadCell(c, mask) == [c EXCEPT !.ReadEntry = @ \cup (c.MayEntry \cap mask)]

\* Bug: the bits are no entry value any more, and nothing else either.
WriteCellUncovered(c, mask) == [c EXCEPT !.MayEntry = @ \ mask]

WriteCell(c, mask) ==
  [c EXCEPT !.MayEntry = @ \ mask, !.MayNonEntry = @ \cup mask]

\* A saved entry value is written back: the bits are the entry value again.
RestoreCell(c, mask) ==
  [c EXCEPT !.MayEntry = @ \cup mask, !.MayNonEntry = @ \ mask]

\* Bug: what the caller itself wrote before the call is forgotten.
ThroughCallForgetful(pre, callee) ==
  [MayEntry    |-> callee.MayEntry \cap pre.MayEntry,
   MayNonEntry |-> callee.MayNonEntry,
   ReadEntry   |-> pre.ReadEntry \cup (callee.ReadEntry \cap pre.MayEntry)]

\* The caller's cell before a call, seen through the callee's cell.
ThroughCall(pre, callee) ==
  [MayEntry    |-> callee.MayEntry \cap pre.MayEntry,
   MayNonEntry |-> (callee.MayEntry \cap pre.MayNonEntry) \cup callee.MayNonEntry,
   ReadEntry   |-> pre.ReadEntry \cup (callee.ReadEntry \cap pre.MayEntry)]

\* An entry value and nothing else in the whole register.
PureEntry(c) == c.MayEntry = Bits /\ c.MayNonEntry = {}

\* Every bit has some origin: what makes "not MayNonEntry" mean "entry value".
Covered(c) == c.MayEntry \cup c.MayNonEntry = Bits

CoveredCell == {c \in Cell : Covered(c)}

(***************************************************************************)
(* Outcomes of finite runs: the set of register bits <<register, bit>> a   *)
(* run overwrote, the entry bits it read, and whether it returned or left  *)
(* the program.  The reference semantics the summaries are held against.   *)
(***************************************************************************)

Outcome(over, read, ends) == [over |-> over, read |-> read, ends |-> ends]

Ended(noReturn) == IF noReturn THEN "exit" ELSE "return"

\* One run after another: what was overwritten is no entry value any more,
\* and nothing follows a call that leaves the program.
Then(one, other) ==
  IF one.ends = "exit" THEN one
  ELSE Outcome(one.over \cup other.over, one.read \cup (other.read \ one.over), other.ends)

AllThen(ones, others) == {Then(one, other) : one \in ones, other \in others}
=============================================================================
