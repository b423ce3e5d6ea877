---------------------------- MODULE PartialDemand ----------------------------
(***************************************************************************)
(* The partial-demand step of the register SSA rewrite                     *)
(* (NativeRegisterSummarySSA.cpp, computePartialDemands and                *)
(* rewritePartialWrites).  Real observers - memory stores, call arguments, *)
(* branch conditions, comparisons, returned values - demand all bits of    *)
(* what they read; demand flows backward, bit by bit, through the          *)
(* operations; an operand of register-store dataflow of which no bit is    *)
(* demanded is replaced by poison.  Register stores demand nothing.        *)
(***************************************************************************)
EXTENDS LiftedCode

Mask(bits) == 0 .. bits - 1
ShiftUp(mask, n) == {k + n : k \in mask}
ShiftDown(mask, n) == {k - n : k \in {j \in mask : j >= n}}
Written(ins) == ins.lo .. ins.lo + ins.from - 1
OperandBits(fn, operand) == Mask(DefOf(fn, operand).bits)
ConstantBits(operand) == BitsOf(operand.n)
IsConstant(operand) == operand.kind = "constant"

(* knownValueMask: bits outside it are zero.                               *)
RECURSIVE KnownMask(_, _)
KnownMask(fn, operand) ==
    LET ins == DefOf(fn, operand)
        all == Mask(ins.bits)
        constants == {k \in DOMAIN ins.args : IsConstant(ins.args[k])}
    IN  CASE IsConstant(operand) -> ConstantBits(operand)
          [] ins.op = "insert" ->
                (KnownMask(fn, ins.args[1]) \ Written(ins))
                    \cup (ShiftUp(KnownMask(fn, ins.args[2]), ins.lo) \cap all)
          [] ins.op = "and" /\ constants # {} ->
                ConstantBits(ins.args[Min(constants)]) \cap all
          [] ins.op = "and" /\ constants = {} ->
                KnownMask(fn, ins.args[1]) \cap KnownMask(fn, ins.args[2])
          [] ins.op \in {"or", "disjoint", "xor"} ->
                IF ins.op = "xor" /\ ins.args[1] = ins.args[2] THEN {}
                ELSE KnownMask(fn, ins.args[1]) \cup KnownMask(fn, ins.args[2])
          [] ins.op = "select" ->
                KnownMask(fn, ins.args[2]) \cup KnownMask(fn, ins.args[3])
          [] ins.op \in {"zext", "sext"} -> Mask(ins.from)
          [] ins.op = "shl" /\ 2 \in constants ->
                ShiftUp(KnownMask(fn, ins.args[1]), ins.args[2].n) \cap all
          [] ins.op = "lshr" /\ 2 \in constants ->
                ShiftDown(KnownMask(fn, ins.args[1]), ins.args[2].n)
          [] OTHER -> all

-----------------------------------------------------------------------------
(* What the operands of an instruction must supply when `demand` is wanted *)
(* of its result: one mask for each operand                                *)

EachOperand(ins, mask) == [k \in DOMAIN ins.args |-> mask]

\* Bug: a product demands the same lane of its factors.
ProductDemandByLane(fn, ins, demand) == EachOperand(ins, demand)

(* A multiplication as wide as its operands mixes all of them.             *)
ProductDemand(fn, ins, demand) ==
    IF demand # {} THEN [k \in DOMAIN ins.args |-> OperandBits(fn, ins.args[k])]
    ELSE EachOperand(ins, {})

ShiftDemand(fn, ins, demand) ==
    CASE ~IsConstant(ins.args[2]) ->
            [k \in DOMAIN ins.args |-> OperandBits(fn, ins.args[k])]
      [] IsConstant(ins.args[2]) /\ ins.op = "shl" ->
            <<ShiftDown(demand, ins.args[2].n), {}>>
      [] IsConstant(ins.args[2]) /\ ins.op = "lshr" ->
            <<ShiftUp(demand, ins.args[2].n), {}>>
      [] OTHER -> <<demand, {}>>

Signs(ins, demand) ==
    IF demand \ Mask(ins.from) # {} THEN {ins.from - 1} ELSE {}

OrDemand(fn, ins, demand) ==
    LET known == [k \in 1 .. 2 |-> KnownMask(fn, ins.args[k])]
    IN  CASE ins.op = "xor" /\ ins.args[1] = ins.args[2] -> EachOperand(ins, {})
          [] ins.op = "disjoint" /\ \A k \in 1 .. 2 : known[k] # {} ->
                [k \in 1 .. 2 |-> demand \cap known[k]]
          [] OTHER -> EachOperand(ins, demand)

AndDemand(ins, demand) ==
    LET Filter(k) == IF IsConstant(ins.args[3 - k]) THEN ConstantBits(ins.args[3 - k])
                     ELSE demand
    IN  [k \in 1 .. 2 |-> demand \cap Filter(k)]

OperandDemands(fn, ins, demand) ==
    CASE ins.op = "extract" -> <<ShiftUp(demand, ins.lo)>>
      [] ins.op = "insert" ->
            <<demand \ Written(ins), ShiftDown(demand \cap Written(ins), ins.lo)>>
      [] ins.op = "sext" -> <<(demand \cap Mask(ins.from)) \cup Signs(ins, demand)>>
      [] ins.op = "and" -> AndDemand(ins, demand)
      [] ins.op \in {"or", "disjoint", "xor"} -> OrDemand(fn, ins, demand)
      [] ins.op = "mul" -> ProductDemand(fn, ins, demand)
      [] ins.op \in {"shl", "lshr", "ashr"} -> ShiftDemand(fn, ins, demand)
      [] ins.op = "select" -> <<{}, demand, demand>>
      [] ins.op \in {"input", "load", "read"} -> <<>>
      [] OTHER -> EachOperand(ins, demand)   \* trunc, zext, phi, add, sub, division

-----------------------------------------------------------------------------
(* computePartialDemands *)

Observes(ins) == ins.op \in {"observe", "call", "write", "br", "ret", "eq"}

Seeds(fn) ==
    [id \in {ins.id : ins \in Instructions(fn)} |->
        IF \E ins \in Users(fn, id) : Observes(ins) THEN Mask(Def(fn, id).bits) ELSE {}]

(* One round of the worklist: every demand passed to the operands.         *)
Pass(fn, demands) ==
    [id \in DOMAIN demands |->
        demands[id] \cup (Mask(Def(fn, id).bits) \cap
            UNION {OperandDemands(fn, u[1], demands[u[1].id])[u[2]] :
                    u \in {w \in Uses(fn, id) : demands[w[1].id] # {}}})]

RECURSIVE DemandsFrom(_, _)
DemandsFrom(fn, demands) ==
    LET next == Pass(fn, demands)
    IN  IF next = demands THEN demands ELSE DemandsFrom(fn, next)
PartialDemands(fn) == DemandsFrom(fn, Seeds(fn))

-----------------------------------------------------------------------------
(* rewritePartialWrites: from each register store and partial write, back  *)
(* over the pure instructions of the stored value *)

Opaque == {"extract", "insert", "read", "unknown", "vararg", "call", "write"}
RECURSIVE StoreDataflow(_, _, _)
StoreDataflow(fn, demands, ids) ==
    LET Operands(id) ==
            {a.n : a \in {b \in ToSet(Def(fn, id).args) :
                            b.kind = "value" /\ demands[b.n] # {}}}
        next == ids \cup UNION {Operands(id) : id \in {i \in ids : Def(fn, i).op \notin Opaque}}
    IN  IF next = ids THEN ids ELSE StoreDataflow(fn, demands, next)

(* `bound`: the values already recorded as arguments of calls.             *)
StoredValues(fn, bound) ==
    {ins.args[1].n : ins \in {i \in Instructions(fn) :
        /\ i.args # <<>> /\ i.args[1].kind = "value"
        /\ \/ i.op = "write"
           \/ i.op = "store" /\ i.args[1].n \notin bound}}

PoisonOperands(ins, demands) ==
    [ins EXCEPT !.args = [k \in DOMAIN ins.args |->
        IF ins.args[k].kind = "value" /\ demands[ins.args[k].n] = {}
        THEN PoisonOperand ELSE ins.args[k]]]

RewritePartialWrites(fn, bound) ==
    LET demands == PartialDemands(fn)
        walked == {id \in StoreDataflow(fn, demands, StoredValues(fn, bound)) :
                    Def(fn, id).op \notin Opaque}
        poisoned == MapInstructions(fn, LAMBDA ins :
                        IF ins.id \in walked THEN PoisonOperands(ins, demands) ELSE ins)
    IN  EraseUnused(poisoned, UNION {ToSet(ins.args) : ins \in Instructions(fn)},
                    SideEffects \cup {"phi", "read"})
=============================================================================
