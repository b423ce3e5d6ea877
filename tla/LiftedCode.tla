----------------------------- MODULE LiftedCode -----------------------------
(***************************************************************************)
(* The intermediate code that the rewriting passes read and change: a      *)
(* function is a sequence of basic blocks, a block a sequence of           *)
(* instructions, and an instruction names its operands by the identity of  *)
(* the instruction that computes them, as LLVM values do.  Registers are   *)
(* global variables read and written whole ("load", "store") or through    *)
(* the helpers notdec.partial_read / notdec.partial_write ("read",         *)
(* "write"); notdec.reg.extract and notdec.reg.insert ("extract",          *)
(* "insert") cut and replace bits of a value.  Poison is LLVM's poison: an *)
(* operation with a poison operand gives poison, whichever bits were       *)
(* meant.                                                                  *)
(***************************************************************************)
EXTENDS Integers, FiniteSets, SequencesExt

-----------------------------------------------------------------------------
(* Instructions and operands *)

V(id) == [kind |-> "value", n |-> id]
C(n) == [kind |-> "constant", n |-> n]
PoisonOperand == [kind |-> "poison", n |-> 0]

Ins(id, op, bits, args) ==
    [id |-> id, op |-> op, bits |-> bits, args |-> args,
     reg |-> "none", lo |-> 0, from |-> 0, to |-> <<>>]
OnRegister(id, op, reg, lo, bits, args) ==
    [Ins(id, op, bits, args) EXCEPT !.reg = reg, !.lo = lo]
Cast(id, op, from, bits, arg) == [Ins(id, op, bits, <<arg>>) EXCEPT !.from = from]
Extract(id, bits, lo, from, full) ==
    [Ins(id, "extract", bits, <<full>>) EXCEPT !.lo = lo, !.from = from]
Insert(id, bits, lo, from, base, value) ==
    [Ins(id, "insert", bits, <<base, value>>) EXCEPT !.lo = lo, !.from = from]
Leaving(id, op, args, to) == [Ins(id, op, 0, args) EXCEPT !.to = to]

Places(fn) == UNION {{<<b, i>> : i \in DOMAIN fn[b]} : b \in DOMAIN fn}
InstructionAt(fn, place) == fn[place[1]][place[2]]
Instructions(fn) == UNION {{fn[b][i] : i \in DOMAIN fn[b]} : b \in DOMAIN fn}
PlaceOf(fn, id) == CHOOSE p \in Places(fn) : InstructionAt(fn, p).id = id
Def(fn, id) == InstructionAt(fn, PlaceOf(fn, id))
Exists(fn, id) == \E ins \in Instructions(fn) : ins.id = id

(* The operand as an instruction, or NoInstruction for a constant.         *)
NoInstruction == Ins(0, "none", 0, <<>>)
DefOf(fn, operand) ==
    IF operand.kind = "value" THEN Def(fn, operand.n) ELSE NoInstruction

Uses(fn, id) ==
    {u \in Instructions(fn) \X (1 .. 3) :
        u[2] \in DOMAIN u[1].args /\ u[1].args[u[2]] = V(id)}
Users(fn, id) == {u[1] : u \in Uses(fn, id)}

Successors(block) == {block[Len(block)].to[k] : k \in DOMAIN block[Len(block)].to}

-----------------------------------------------------------------------------
(* Changing the code *)

MapInstructions(fn, Op(_)) ==
    [b \in DOMAIN fn |-> [i \in DOMAIN fn[b] |-> Op(fn[b][i])]]

(* Value::replaceAllUsesWith                                               *)
ReplaceUses(fn, id, operand) ==
    MapInstructions(fn, LAMBDA ins :
        [ins EXCEPT !.args = [k \in DOMAIN ins.args |->
            IF ins.args[k] = V(id) THEN operand ELSE ins.args[k]]])

Without(fn, ids) ==
    [b \in DOMAIN fn |-> SelectSeq(fn[b], LAMBDA ins : ins.id \notin ids)]

(* The instructions `new` take the place of the instruction `id`.          *)
Splice(fn, id, new) ==
    LET p == PlaceOf(fn, id)
    IN  [fn EXCEPT ![p[1]] =
            SubSeq(@, 1, p[2] - 1) \o new \o SubSeq(@, p[2] + 1, Len(@))]

SideEffects == {"store", "write", "observe", "call", "br", "ret", "unknown", "vararg",
                "memstore", "pass", "keep", "fail", "unreachable"}
Unused(fn, id) == Uses(fn, id) = {}

(* Instructions left without a user are erased, from the pending operands  *)
(* on; the operations `kept` never are.                                    *)
RECURSIVE EraseUnused(_, _, _)
EraseUnused(fn, pending, kept) ==
    LET dead == {ins \in Instructions(fn) :
                    /\ V(ins.id) \in pending
                    /\ Unused(fn, ins.id) /\ ins.op \notin kept}
    IN  IF dead = {} THEN fn
        ELSE EraseUnused(Without(fn, {ins.id : ins \in dead}),
                         pending \cup UNION {ToSet(ins.args) : ins \in dead}, kept)

-----------------------------------------------------------------------------
(* Values: naturals below 2^bits, or Poison *)

Poison == -1
Wrap(n, bits) == n % 2^bits
Signed(n, bits) == IF n >= 2^(bits - 1) THEN n - 2^bits ELSE n
BitsOf(n) == {k \in 0 .. 15 : (n \div 2^k) % 2 = 1}
NumberOf(mask) == MapThenSumSet(LAMBDA k : 2^k, mask)
Field(n, lo, bits) == (n \div 2^lo) % 2^bits
Replaced(n, lo, bits, m) == n + 2^lo * (m - Field(n, lo, bits))
Magnitude(n) == IF n < 0 THEN -n ELSE n
Quotient(n, d) ==
    (IF (n < 0) = (d < 0) THEN 1 ELSE -1) * (Magnitude(n) \div Magnitude(d))

(* What a pure instruction computes from the values x of its operands;     *)
(* `from` is the width of the operand of a cast, of the value cut from and *)
(* of the value inserted.                                                  *)
Pure(ins, x) ==
    CASE ins.op \in {"zext", "freeze"} -> x[1]
      [] ins.op = "trunc" -> Wrap(x[1], ins.bits)
      [] ins.op = "sext" -> Wrap(Signed(x[1], ins.from), ins.bits)
      [] ins.op = "add" -> Wrap(x[1] + x[2], ins.bits)
      [] ins.op = "sub" -> Wrap(x[1] - x[2], ins.bits)
      [] ins.op = "mul" -> Wrap(x[1] * x[2], ins.bits)
      [] ins.op = "and" -> NumberOf(BitsOf(x[1]) \cap BitsOf(x[2]))
      [] ins.op \in {"or", "disjoint"} -> NumberOf(BitsOf(x[1]) \cup BitsOf(x[2]))
      [] ins.op = "xor" -> NumberOf((BitsOf(x[1]) \cup BitsOf(x[2]))
                                     \ (BitsOf(x[1]) \cap BitsOf(x[2])))
      [] ins.op \in {"shl", "lshr", "ashr"} /\ x[2] >= ins.bits -> Poison
      [] ins.op = "shl" /\ x[2] < ins.bits -> Wrap(x[1] * 2^x[2], ins.bits)
      [] ins.op = "lshr" /\ x[2] < ins.bits -> x[1] \div 2^x[2]
      [] ins.op = "ashr" /\ x[2] < ins.bits ->
            Wrap(Signed(x[1], ins.bits) \div 2^x[2], ins.bits)
      [] ins.op = "udiv" -> x[1] \div x[2]
      [] ins.op = "sdiv" -> 
            Wrap(Quotient(Signed(x[1], ins.bits), Signed(x[2], ins.bits)), ins.bits)
      [] ins.op = "urem" -> x[1] % x[2]
      [] ins.op = "srem" ->
            LET n == Signed(x[1], ins.bits)
                d == Signed(x[2], ins.bits)
            IN  Wrap(n - d * Quotient(n, d), ins.bits)
      [] ins.op = "select" -> IF x[1] = 1 THEN x[2] ELSE x[3]
      [] ins.op = "eq" -> IF x[1] = x[2] THEN 1 ELSE 0
      [] ins.op = "ne" -> IF x[1] = x[2] THEN 0 ELSE 1
      [] ins.op = "extract" -> Field(x[1], ins.lo, ins.bits)
      [] ins.op = "insert" -> Replaced(x[1], ins.lo, ins.from, x[2])
=============================================================================
