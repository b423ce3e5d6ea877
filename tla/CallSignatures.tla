--------------------------- MODULE CallSignatures ---------------------------
(* The signature part of the register SSA pass: the parameters and returns of *)
(* every function are inferred from the register summary, each caller binds   *)
(* values to them, the shapes are refined by what the callers bound, and the  *)
(* calls are rewritten.                                                       *)
EXTENDS Integers, Sequences, FiniteSets, SequencesExt

(* A module p: body, the functions with a body; convention[f], "internal" if  *)
(* the interface may change; variadic, the recovered variadic functions;      *)
(* facts[f][r] == [read, entry, changed, exit], the bits f reads at its entry,*)
(* may keep, may change, and its callers demand; loads[f], the incoming stack *)
(* slots f reads; parts[f], the parts <<r, bits>> of registers f's            *)
(* instructions access; proto[f] of the known external functions; and         *)
(* calls[c] == [caller, callee, tail, origin, consumed, uses, al]: origin[u]  *)
(* tells where the value of the register or stack slot u comes from before    *)
(* the call, consumed the registers read since they were written, uses the    *)
(* parts read behind it, al the constant in the low byte of RAX, or -1.       *)
CONSTANTS Modules, IntInputs, FloatInputs, Outputs, FloatOutputs, Carrying,
          Others, StackUnits, Width, FloatWidth

Registers == ToSet(IntInputs \o FloatInputs \o Outputs \o Others)

Lowest(S) == CHOOSE n \in S : \A m \in S : n <= m
Highest(S) == CHOOSE n \in S : \A m \in S : m <= n

\* The n-th lowest number of a set, and the elements of a sequence that are in S.
Nth(N, n) == CHOOSE k \in N : Cardinality({m \in N : m < k}) = n - 1

Among(seq, S) ==
  LET N == {k \in DOMAIN seq : seq[k] \in S} IN [n \in 1 .. Cardinality(N) |-> seq[Nth(N, n)]]

Slot(kind, u, off, w) == [kind |-> kind, unit |-> u, off |-> off, w |-> w, keep |-> FALSE]
IntSlot(u) == Slot("int", u, 0, Width)
FloatSlot(u) == Slot("float", u, 0, FloatWidth)
StackSlot(u) == Slot("stack", u, 0, Width)

AllSlots ==
  [kind : {"int", "float", "stack"}, unit : Registers \cup ToSet(StackUnits), off : Nat, w : Nat, keep : BOOLEAN]

Span(s) == s.off .. s.off + s.w - 1

UnitsAssumption ==
  /\ \A units \in {IntInputs, FloatInputs, Outputs, FloatOutputs, Others, StackUnits} : units \in Seq(ToSet(units))
  /\ Width \in Nat /\ FloatWidth \in Nat

ModulesAssumption ==
  \A m \in Modules :
    /\ "indirect" \notin m.body
    /\ \A c \in DOMAIN m.calls : m.calls[c].caller \in m.body /\ m.calls[c].al \in Int
    /\ \A f \in m.body, r \in Registers :
         m.facts[f][r].read \subseteq 0 .. Width - 1 /\ m.facts[f][r].changed \subseteq 0 .. Width - 1
    /\ \A f \in DOMAIN m.proto :
         /\ {m.proto[f].ints, m.proto[f].floats, m.proto[f].max} \subseteq Nat
         /\ m.proto[f].vararg \in BOOLEAN /\ m.proto[f].returns \subseteq AllSlots

ASSUME SignatureAssumption == UnitsAssumption /\ ModulesAssumption

\* A slot for one run of demanded bits; the whole register otherwise.
SlotForBits(u, S) ==
  IF S # {} /\ Lowest(S) .. Highest(S) = S THEN Slot("int", u, Lowest(S), Cardinality(S)) ELSE IntSlot(u)

SlotForDemand(u, S, floats) ==
  IF u \in ToSet(floats) /\ S # {} /\ S \subseteq 0 .. FloatWidth - 1 THEN FloatSlot(u) ELSE SlotForBits(u, S)

IntSlots(units) == [n \in DOMAIN units |-> IntSlot(units[n])]
FloatSlots(units) == [n \in DOMAIN units |-> FloatSlot(units[n])]
StackSlots(units) == [n \in DOMAIN units |-> StackSlot(units[n])]

\* Parameters in order; of the order of the returns no property is about.
NoShape == [params |-> <<>>, returns |-> {}, vararg |-> FALSE, known |-> FALSE]

---------------------------------------------------------------------------
(* Shapes of the functions with a body.                                      *)
Internal(p, f) == p.convention[f] = "internal"

ReturnEntry(p, f, r) ==
  IF Internal(p, f) /\ r \in ToSet(Outputs) \cup Carrying /\ f \notin p.variadic /\ r \notin ToSet(FloatOutputs)
    THEN p.facts[f][r].exit \cap p.facts[f][r].entry \cap p.facts[f][r].changed ELSE {}

ParamBits(p, f, r) == p.facts[f][r].read \cup ReturnEntry(p, f, r)

\* A parameter needs an entry read, and bits from the lowest on.
TakesParam(p, f, r) ==
  /\ p.facts[f][r].read # {}
  /\ r \in ToSet(IntInputs) \cup ToSet(FloatInputs) \cup (IF Internal(p, f) THEN ToSet(Outputs) \cup Carrying ELSE {})
  /\ 0 \in ParamBits(p, f, r)

ParamOrder ==
  LET inputs == IntInputs \o FloatInputs IN inputs \o Among(Outputs \o Others, Registers \ ToSet(inputs))

InternalParams(p, f) ==
  LET taken == Among(ParamOrder, {r \in Registers : TakesParam(p, f, r)})
  IN [n \in DOMAIN taken |-> SlotForDemand(taken[n], ParamBits(p, f, taken[n]), FloatInputs)]
       \o StackSlots(Among(StackUnits, p.loads[f]))

ReturnBits(p, f, r) == p.facts[f][r].exit \cap p.facts[f][r].changed

\* Only bits that are written and demanded come back.
GivesReturn(p, f, r) ==
  /\ r \in ToSet(Outputs) \/ (Internal(p, f) /\ r \in Carrying)
  /\ ReturnBits(p, f, r) # {}

InternalReturns(p, f) ==
  {SlotForDemand(r, ReturnBits(p, f, r), FloatOutputs) : r \in {q \in Registers : GivesReturn(p, f, q)}}

ShapeForInternal(p, f) ==
  [NoShape EXCEPT !.params = InternalParams(p, f), !.returns = InternalReturns(p, f), !.vararg = f \in p.variadic]

---------------------------------------------------------------------------
(* External functions: a prototype gives fixed arguments, typed or not.      *)
\* The slots of the integer arguments, and those of the float arguments after
\* them: each class in its registers, and once they are used up on the stack.
FirstOf(units, n) == SubSeq(units, 1, Lowest({n, Len(units)}))

Spilled(regs, n) == IF n > Len(regs) THEN n - Len(regs) ELSE 0

ArgumentSlots(ints, floats) ==
  LET spilled == Spilled(IntInputs, ints)
      below == FirstOf(StackUnits, spilled)
      above == FirstOf(StackUnits, spilled + Spilled(FloatInputs, floats))
  IN IntSlots(FirstOf(IntInputs, ints)) \o StackSlots(below)
       \o FloatSlots(FirstOf(FloatInputs, floats)) \o StackSlots(SubSeq(above, Len(below) + 1, Len(above)))

ShapeForExternal(proto) ==
  [NoShape EXCEPT !.params = ArgumentSlots(proto.ints, proto.floats), !.vararg = proto.vararg,
                  !.returns = proto.returns, !.known = proto.returns # {}]

IntEvidence == IntSlots(IntInputs) \o StackSlots(StackUnits)
FloatEvidence == FloatSlots(FloatInputs)

\* The number of slots from n on whose values all come from there.
RunOf(p, c, slots, n, origin) ==
  LET ends == {m \in n .. Len(slots) : p.calls[c].origin[slots[m].unit] # origin}
  IN (IF ends = {} THEN Len(slots) + 1 ELSE Lowest(ends)) - n

\* localDefinitionPrefix: values passed on, then values written here, without
\* those at the end that were read already.
LocalPrefix(p, c, slots) ==
  LET leading == RunOf(p, c, slots, 1, "entry")
      locals == RunOf(p, c, slots, leading + 1, "local")
      kept == {n \in 1 .. locals : slots[leading + n].unit \notin p.calls[c].consumed}
  IN IF locals = 0 THEN 0 ELSE leading + (IF kept = {} THEN 0 ELSE Highest(kept))

Calls(p) == DOMAIN p.calls

CallsTo(p, f) == {c \in Calls(p) : p.calls[c].callee = f}

IsUnknown(p, f) == f \notin p.body \cup DOMAIN p.proto /\ f # "indirect"

Arity(p, c) == <<LocalPrefix(p, c, IntEvidence), LocalPrefix(p, c, FloatEvidence)>>

Total(a) == a[1] + a[2]

\* An unknown function whose callers disagree is variadic: the least they pass
\* is fixed, in integer slots.  Otherwise the call with most floats gives types.
PrototypeFor(arities, least, most) ==
  IF least # most THEN [ints |-> least, floats |-> 0, vararg |-> TRUE, returns |-> {}, max |-> most]
  ELSE LET floats == Highest({a[2] : a \in arities})
       IN [ints |-> most - floats, floats |-> floats, vararg |-> FALSE, returns |-> {}, max |-> 0]

InferredPrototype(arities) ==
  PrototypeFor(arities, Lowest({Total(a) : a \in arities}), Highest({Total(a) : a \in arities}))

Prototype(p, f) ==
  IF IsUnknown(p, f) THEN InferredPrototype({Arity(p, c) : c \in CallsTo(p, f)}) ELSE p.proto[f]

\* Where a known variadic function was called with float arguments, only they
\* follow the fixed ones; else the integers written, as many as are allowed.
Written(p, c, slots) == SubSeq(slots, 1, RunOf(p, c, slots, 1, "local"))

VariadicTail(p, c, proto, ints, floats) ==
  IF p.calls[c].al > 0 THEN FirstOf(Written(p, c, floats), p.calls[c].al)
  ELSE FirstOf(Written(p, c, ints), IF proto.max = 0 THEN Len(ints) ELSE proto.max - proto.ints)

Beyond(slots, fixed) == Among(slots, ToSet(slots) \ ToSet(fixed))

\* The inputs recorded for one call, the fixed ones first.
KnownInputs(p, c, proto, fixed) ==
  fixed \o VariadicTail(p, c, proto, Beyond(IntEvidence, fixed), Beyond(FloatEvidence, fixed))

EvidentInputs(a) == SubSeq(IntEvidence, 1, a[1]) \o SubSeq(FloatEvidence, 1, a[2])

SiteInputs(p, c, f) ==
  CASE f \in p.body \cup {"indirect"}                   -> <<>>
    [] IsUnknown(p, f) /\ Prototype(p, f).vararg        -> EvidentInputs(Arity(p, c))
    [] f \in DOMAIN p.proto /\ p.proto[f].vararg        -> KnownInputs(p, c, p.proto[f], ShapeForExternal(p.proto[f]).params)
    [] OTHER                                            -> <<>>

HasShape(s) == s.params # <<>> \/ s.returns # {} \/ s.vararg

Callees(p) == p.body \cup {p.calls[c].callee : c \in Calls(p)}

InitialShape(p, f) == IF f \in p.body THEN ShapeForInternal(p, f) ELSE ShapeForExternal(Prototype(p, f))

---------------------------------------------------------------------------
(* What is bound at one call.  A value is a token: written before the call in *)
(* the caller, the caller's at its entry, left by an earlier call, or unknown. *)
Value(from, by, u) == [from |-> from, by |-> by, unit |-> u]

Unknown == Value("unknown", "", "")
NoValue == Value("none", "", "")

\* What the pass reads for a slot: on the stack, only what was stored.
ReadSlot(p, c, s) ==
  LET call == p.calls[c]
  IN CASE call.origin[s.unit] = "local"                        -> Value("local", c, s.unit)
       [] s.kind # "stack" /\ call.origin[s.unit] = "entry"    -> Value("entry", call.caller, s.unit)
       [] s.kind # "stack" /\ call.origin[s.unit] = "clobber"  -> Value("clobber", c, s.unit)
       [] OTHER                                                -> NoValue

IsHelper(p, c, r) == r \in ToSet(Outputs) /\ \E use \in p.calls[c].uses : use[1] = r

\* addConservativeUnknownReturnSlots: one class, floats first.
UnknownReturns(p, c) ==
  LET live == {n \in DOMAIN FloatOutputs : IsHelper(p, c, FloatOutputs[n])}
  IN IF live # {} THEN {FloatSlot(FloatOutputs[Lowest(live)])}
     ELSE {IntSlot(r) : r \in {q \in {Outputs[1]} \ ToSet(FloatOutputs) : IsHelper(p, c, q)}}

\* inferIndirectCallInputs and addIndirectCallsiteShapes.
IndirectShape(p, c) ==
  [NoShape EXCEPT !.params = EvidentInputs(Arity(p, c)),
                  !.returns = UnknownReturns(p, c)]

IndirectShapes(p, f) ==
  [c \in {d \in CallsTo(p, "indirect") : p.calls[d].caller = f /\ \E r \in Registers : IsHelper(p, d, r)} |-> IndirectShape(p, c)]

Of(p, m, n, c) == IF p.calls[c].callee = "indirect" THEN n[c] ELSE m[p.calls[c].callee]

Shaped(p, m, n) ==
  {c \in Calls(p) : IF p.calls[c].callee = "indirect" THEN c \in DOMAIN n ELSE p.calls[c].callee \in DOMAIN m}

\* The integer registers a variadic function with a body may take, and then the
\* stack slots stored for it.
AbiTail(p, c, params) ==
  LET covered == {params[n].unit : n \in DOMAIN params}
      regs == IntSlots(Among(IntInputs, ToSet(IntInputs) \ covered))
      stack == StackSlots(Among(StackUnits, ToSet(StackUnits) \ covered))
  IN regs \o SubSeq(stack, 1, RunOf(p, c, stack, 1, "local"))

VariadicSlots(p, c, params, inputs) ==
  IF Len(inputs) > Len(params) THEN SubSeq(inputs, Len(params) + 1, Len(inputs))
  ELSE IF p.calls[c].callee \in p.variadic THEN AbiTail(p, c, params) ELSE <<>>

CallSlots(p, c, shape) ==
  IF shape.vararg THEN shape.params \o VariadicSlots(p, c, shape.params, SiteInputs(p, c, p.calls[c].callee))
  ELSE shape.params

\* Registers, and stack slots: of each the slots up to the first without a value.
Bindable(p, c, slots) ==
  {n \in DOMAIN slots :
     \A m \in 1 .. n : (slots[m].kind = "stack") = (slots[n].kind = "stack") => ReadSlot(p, c, slots[m]) # NoValue}

Binding(p, c, s) == [slot |-> s, value |-> ReadSlot(p, c, s)]

\* Bug: the bindings are numbered as they are found.
BindingsInOrder(p, c, slots) ==
  LET ns == Bindable(p, c, slots) IN [n \in 1 .. Cardinality(ns) |-> Binding(p, c, slots[Nth(ns, n)])]

Bindings(p, c, slots) == [n \in Bindable(p, c, slots) |-> Binding(p, c, slots[n])]

\* A register that is not bound may still have a value, or the one at the entry.
ReadOrEntry(p, c, s, value) ==
  IF value = NoValue /\ s.kind # "stack" THEN Value("entry", p.calls[c].caller, s.unit) ELSE value

Readable(values) == [n \in {m \in DOMAIN values : values[m] # NoValue} |-> values[n]]

Spare(p, c, slots, bindings) ==
  Readable([n \in DOMAIN slots \ DOMAIN bindings |-> ReadOrEntry(p, c, slots[n], ReadSlot(p, c, slots[n]))])

Stores(p, c, bindings) ==
  {<<c, bindings[n].slot.unit>> : n \in {m \in DOMAIN bindings : bindings[m].value.from = "local"}}

Collected(p, c, slots, bindings) ==
  [bound |-> bindings, spare |-> Spare(p, c, slots, bindings),
   stores |-> IF IsUnknown(p, p.calls[c].callee) THEN {} ELSE Stores(p, c, bindings)]

CollectAt(p, c, slots) == Collected(p, c, slots, Bindings(p, c, slots))

---------------------------------------------------------------------------
(* The ranges a function's registers are cut into, one value each.           *)
Lane == 0 .. FloatWidth - 1

\* Where they are cut: at the ends of what the function accesses, of what it
\* reads at its entry and owes at its exit, and of its callees' parameters, but
\* not of their returns.  A parameter not seen here is a register or a lane.
CutParts(p, f, r) ==
  LET calls == {c \in Calls(p) : p.calls[c].caller = f}
      callees == {p.calls[c].callee : c \in calls} \cap p.body
      slots == UNION {ToSet(InternalParams(p, g)) : g \in callees}
  IN {part[2] : part \in {q \in p.parts[f] \cup UNION {p.calls[c].uses : c \in calls} : q[1] = r}}
       \cup {Span(s) : s \in {t \in slots : t.unit = r}}
       \cup {p.facts[f][r].read, p.facts[f][r].exit}
       \cup (IF r \in ToSet(FloatInputs) \cup ToSet(FloatOutputs) THEN {Lane} ELSE {})

Ends(S) == {n \in 0 .. Width : (n \in S) # (n - 1 \in S)}

RangeBoundaries(p, f, r) == {0, Width} \cup UNION {Ends(S) : S \in CutParts(p, f, r)}

PlannedRanges(p, f, r) ==
  LET cuts == RangeBoundaries(p, f, r)
      next == {d \in cuts \X cuts : d[1] < d[2] /\ \A n \in cuts : n <= d[1] \/ d[2] <= n}
  IN {d[1] .. d[2] - 1 : d \in next}

\* The ranges <<r, bits>> of output registers that are read behind a call.
RangeReturnHelpers(p, c) ==
  {h \in UNION {{r} \X PlannedRanges(p, p.calls[c].caller, r) : r \in ToSet(Outputs)} :
     \E use \in p.calls[c].uses : use[1] = h[1] /\ use[2] \cap h[2] # {}}

\* calleeNeverWritesRange: the caller's own value stays.
NeverWrites(p, f, r, R) == R \cap p.facts[f][r].changed = {}

\* What a bit behind a call is if not a bit of the callee's register: the caller's
\* own from before the call, a zero, or a placeholder of unknown value.
Own == -1
Zero == -2
Clobber == -3

---------------------------------------------------------------------------
VARIABLES p,        \* the module
          phase,    \* the step of the driver
          shapes,   \* the shape of each function that has one
          indirect, \* the shape of each indirect call that has one
          todo,     \* the functions whose arguments are still to be collected
          bound,    \* for each call, index -> the slot and value bound there
          spare,    \* for each call, index -> a further value
          erased,   \* stores <<call, unit>> to be erased as arguments
          passed,   \* for each rewritten call, index -> its argument, with the slot
          returned  \* for each bit of a range read behind a call, what it is

vars == <<p, phase, shapes, indirect, todo, bound, spare, erased, passed, returned>>

NoMap == [k \in {} |-> k]

Init ==
  /\ p \in Modules
  /\ phase = "shapes"
  /\ shapes = NoMap
  /\ indirect = NoMap
  /\ todo = {}
  /\ bound = NoMap
  /\ spare = NoMap
  /\ erased = {}
  /\ passed = NoMap
  /\ returned = {}

Keeping(all) == [f \in {g \in DOMAIN all : HasShape(all[g])} |-> all[f]]

BuildInitialSignatureShapes ==
  /\ phase = "shapes"
  /\ shapes' = Keeping([f \in Callees(p) \ {"indirect"} |-> InitialShape(p, f)])
  /\ phase' = "tails"
  /\ UNCHANGED <<p, indirect, todo, bound, spare, erased, passed, returned>>

---------------------------------------------------------------------------
(* propagateTailCallStackParams: a caller that jumps to a callee takes the    *)
(* callee's stack parameters too.                                            *)
StackParams(s) == {n \in DOMAIN s.params : s.params[n].kind = "stack"}

StackUnitsOf(s) == {s.params[n].unit : n \in StackParams(s)}

Kept(slot) == [slot EXCEPT !.keep = TRUE]

\* Bug: a slot the caller has already is not marked.
MarkedUnmarked(s, units) == s.params

Marked(s, units) ==
  [n \in DOMAIN s.params |->
     IF n \in StackParams(s) /\ s.params[n].unit \in units THEN Kept(s.params[n]) ELSE s.params[n]]

\* Those of the callee's stack slots the caller does not have.
Missing(s, callee) ==
  Among(callee.params, {callee.params[n] : n \in {m \in StackParams(callee) : callee.params[m].unit \notin StackUnitsOf(s)}})

Forwarded(s, callee) == LET missing == Missing(s, callee) IN [n \in DOMAIN missing |-> Kept(missing[n])]

TailCalls ==
  {c \in Calls(p) : /\ p.calls[c].tail
                    /\ p.calls[c].callee # p.calls[c].caller
                    /\ {p.calls[c].callee, p.calls[c].caller} \subseteq DOMAIN shapes}

Passes(c) ==
  LET caller == shapes[p.calls[c].caller]
      callee == shapes[p.calls[c].callee]
  IN [caller EXCEPT !.params = Marked(caller, StackUnitsOf(callee)) \o Forwarded(caller, callee)]

PropagateTailCallStackParams ==
  /\ phase = "tails"
  /\ \E c \in TailCalls :
       /\ Passes(c) # shapes[p.calls[c].caller]
       /\ shapes' = [shapes EXCEPT ![p.calls[c].caller] = Passes(c)]
  /\ UNCHANGED <<p, phase, indirect, todo, bound, spare, erased, passed, returned>>

TailsPropagated ==
  /\ phase = "tails"
  /\ \A c \in TailCalls : Passes(c) = shapes[p.calls[c].caller]
  /\ phase' = "collect"
  /\ todo' = p.body
  /\ UNCHANGED <<p, shapes, indirect, bound, spare, erased, passed, returned>>

---------------------------------------------------------------------------
(* collectSignatureCallArgs, per function.                                   *)
Over(old, new) == [k \in DOMAIN old \cup DOMAIN new |-> IF k \in DOMAIN new THEN new[k] ELSE old[k]]

CollectSignatureCallArgs(f) ==
  /\ phase = "collect" /\ f \in todo
  /\ indirect' = Over(indirect, IndirectShapes(p, f))
  /\ \E now \in {[c \in {d \in Shaped(p, shapes, indirect') : p.calls[d].caller = f} |->
                    CollectAt(p, c, CallSlots(p, c, Of(p, shapes, indirect', c)))]} :
       /\ bound' = Over(bound, [c \in DOMAIN now |-> now[c].bound])
       /\ spare' = Over(spare, [c \in DOMAIN now |-> now[c].spare])
       /\ erased' = erased \cup UNION {now[c].stores : c \in DOMAIN now}
  /\ todo' = todo \ {f}
  /\ phase' = IF todo' = {} THEN "refine" ELSE phase
  /\ UNCHANGED <<p, shapes, passed, returned>>

---------------------------------------------------------------------------
(* refineIndirectCallsiteParamShapes and refineInternalStackParamShapes.     *)
Trim(bindings, arity) == [n \in {m \in DOMAIN bindings : m <= arity} |-> bindings[n]]

\* The bindings in their order, registers before stack slots, are at first those
\* of 1 .. k, and none of these is a value a call left.
BoundUpTo(bindings, k) ==
  \A n \in 1 .. k :
    /\ n \in DOMAIN bindings
    /\ bindings[n].value.from # "clobber"
    /\ bindings[n].slot.kind = "stack" => \A m \in DOMAIN bindings : bindings[m].slot.kind = "stack" \/ m < n

BoundPrefix(bindings) == Highest({k \in {0} \cup DOMAIN bindings : BoundUpTo(bindings, k)})

Cut(s, arity) == IF arity < Len(s.params) THEN [s EXCEPT !.params = SubSeq(@, 1, arity)] ELSE s

RefineIndirectCallsiteParamShapes ==
  /\ phase = "refine"
  /\ indirect' = [c \in DOMAIN indirect |-> Cut(indirect[c], BoundPrefix(bound[c]))]
  /\ bound' = [c \in DOMAIN bound |-> IF c \in DOMAIN indirect THEN Trim(bound[c], BoundPrefix(bound[c])) ELSE bound[c]]
  /\ phase' = "refine stack"
  /\ UNCHANGED <<p, shapes, todo, spare, erased, passed, returned>>

\* Bug: the longest prefix of the calls decides instead of the shortest.
FinalArityLongest(f) ==
  Highest({BoundPrefix(bound[c]) : c \in CallsTo(p, f) \cap DOMAIN bound} \cup {0})

FinalArity(f) ==
  Lowest({BoundPrefix(bound[c]) : c \in CallsTo(p, f) \cap DOMAIN bound} \cup {Len(shapes[f].params)})

\* A function with stack parameters that no jump reaches and that keeps none.
Trimmed ==
  {f \in p.body \cap DOMAIN shapes :
     /\ StackParams(shapes[f]) # {}
     /\ CallsTo(p, f) \cap DOMAIN bound # {}
     /\ ~\E c \in CallsTo(p, f) \cap DOMAIN bound : p.calls[c].tail
     /\ ~\E n \in StackParams(shapes[f]) : shapes[f].params[n].keep}

RefineInternalStackParamShapes ==
  /\ phase = "refine stack"
  /\ shapes' = [f \in DOMAIN shapes |-> IF f \in Trimmed THEN Cut(shapes[f], FinalArity(f)) ELSE shapes[f]]
  /\ bound' = [c \in DOMAIN bound |->
                 LET f == p.calls[c].callee
                 IN IF f \in Trimmed /\ FinalArity(f) < Len(shapes[f].params) THEN Trim(bound[c], FinalArity(f)) ELSE bound[c]]
  /\ phase' = "returns"
  /\ UNCHANGED <<p, indirect, todo, spare, erased, passed, returned>>

\* addDemandedExternalReturns, over the calls of each function.
Asked(f) == UNION {UnknownReturns(p, c) : c \in {d \in CallsTo(p, f) : \E r \in Registers : IsHelper(p, d, r)}}

AskedExternals == {f \in Callees(p) \ (p.body \cup {"indirect"}) : Asked(f) # {}}

WithReturns(s, slots) ==
  IF s.known THEN s ELSE [s EXCEPT !.returns = @ \cup {t \in slots : \A u \in @ : u.unit # t.unit}]

AddDemandedExternalReturns ==
  /\ phase = "returns"
  /\ LET old(f) == IF f \in DOMAIN shapes THEN shapes[f] ELSE NoShape
     IN shapes' = [f \in DOMAIN shapes \cup AskedExternals |->
                     IF f \in AskedExternals THEN WithReturns(old(f), Asked(f)) ELSE shapes[f]]
  /\ phase' = "rewrite"
  /\ UNCHANGED <<p, indirect, todo, bound, spare, erased, passed, returned>>

---------------------------------------------------------------------------
(* rewriteSignatureShapes.                                                   *)
\* A jump passes the caller's own stack parameter on.
PassesOwn(c, s) ==
  /\ p.calls[c].tail /\ s.kind = "stack"
  /\ p.calls[c].caller \in DOMAIN shapes /\ s.unit \in StackUnitsOf(shapes[p.calls[c].caller])

ArgumentValue(c, s, n) ==
  IF n \in DOMAIN bound[c] THEN bound[c][n].value
  ELSE IF PassesOwn(c, s) THEN Value("entry", p.calls[c].caller, s.unit)
  ELSE IF n \in DOMAIN spare[c] THEN spare[c][n]
  ELSE Unknown

\* Behind the parameters, the further bindings; of their order, registers first,
\* no property is about.
Arguments(c) ==
  LET shape == Of(p, shapes, indirect, c)
      more == IF shape.vararg THEN DOMAIN bound[c] \ DOMAIN shape.params ELSE {}
  IN [n \in DOMAIN shape.params \cup more |->
        IF n \in more THEN bound[c][n]
        ELSE [slot |-> shape.params[n], value |-> ArgumentValue(c, shape.params[n], n)]]

\* Bug: a slot that holds some bits of the range will do.
HoldingSome(slots, r, R) == {s \in slots : s.unit = r /\ R \cap Span(s) # {}}

\* The slots that hold a range whole; a register has one.
Holding(slots, r, R) == {s \in slots : s.unit = r /\ R \subseteq Span(s)}

\* An integer is widened where it stands, not moved up to its offset.
ReturnedBit(slots, r, R, n) ==
  LET slot == CHOOSE s \in Holding(slots, r, R) : TRUE
  IN IF Holding(slots, r, R) = {} THEN Clobber
     ELSE IF slot.kind = "float" THEN n
     ELSE IF n < slot.w THEN slot.off + n ELSE Zero

\* What bit n of a range is behind a call; where the callee writes some of it,
\* and has no slot for the register, it is lost in any case.
Behind(c, r, R, n) ==
  IF p.calls[c].callee \in p.body /\ NeverWrites(p, p.calls[c].callee, r, R) THEN Own
  ELSE ReturnedBit(Of(p, shapes, indirect, c).returns, r, R, n)

\* Only the ranges of output registers are bound to the call.
Returned(c) ==
  UNION {{[call |-> c, unit |-> h[1], bit |-> n, from |-> Behind(c, h[1], h[2], n)] : n \in h[2]} :
           h \in RangeReturnHelpers(p, c)}

RewriteSignatureShapes ==
  /\ phase = "rewrite"
  /\ passed' = [c \in DOMAIN bound |-> Arguments(c)]
  /\ returned' = UNION {Returned(c) : c \in Shaped(p, shapes, indirect)}
  /\ erased' = erased \cup UNION {Stores(p, c, bound[c]) : c \in DOMAIN bound}
  /\ phase' = "done"
  /\ UNCHANGED <<p, shapes, indirect, todo, bound, spare>>

Next ==
  \/ BuildInitialSignatureShapes
  \/ PropagateTailCallStackParams
  \/ TailsPropagated
  \/ \E f \in p.body : CollectSignatureCallArgs(f)
  \/ RefineIndirectCallsiteParamShapes
  \/ RefineInternalStackParamShapes
  \/ AddDemandedExternalReturns
  \/ RewriteSignatureShapes

Signatures == Init /\ [][Next]_vars /\ WF_vars(Next)

---------------------------------------------------------------------------
\* Where a value may come from so that it is what the slot held at the call.  A
\* register with a value of several places gets the caller's, and a jump leaves
\* the caller's own stack slots in place.
InPlace(c, a) ==
  LET call == p.calls[c]
      origin == call.origin[a.slot.unit]
      entry == Value("entry", call.caller, a.slot.unit)
  IN \/ a.value = Unknown
     \/ a.value = Value("local", c, a.slot.unit) /\ origin = "local"
     \/ a.value = Value("clobber", c, a.slot.unit) /\ origin = "clobber"
     \/ a.value = entry /\ a.slot.kind # "stack" /\ origin \notin {"local", "clobber"}
     \/ a.value = entry /\ a.slot.kind = "stack" /\ call.tail /\ origin # "local"

\* Every argument of a rewritten call, fixed, variadic or on the stack, is the
\* value its slot held there: the indices recorded while the first shapes held
\* are still right after the shapes were cut (rewriteSignatureShapes).
ArgumentsInPlace == \A c \in DOMAIN passed : \A n \in DOMAIN passed[c] : InPlace(c, passed[c][n])

\* The shapes of a caller and its callee agree on the stack: a jump from a
\* function with a shape passes every stack parameter on, and a function that
\* is only called, and whose slots no jump needs, keeps none that some call
\* site leaves open (propagateTailCallStackParams, refineInternalStackParamShapes).
StackArgumentsKnown ==
  \A c \in DOMAIN passed : \A n \in DOMAIN passed[c] :
    LET a == passed[c][n]
        f == p.calls[c].callee
        jumped == \E d \in CallsTo(p, f) : p.calls[d].tail
    IN a.slot.kind = "stack" /\ a.value = Unknown =>
         IF p.calls[c].tail THEN p.calls[c].caller \notin DOMAIN shapes
         ELSE f \notin p.body \/ jumped \/ \E k \in StackParams(shapes[f]) : shapes[f].params[k].keep

\* The slot a function returns a register in stands at its lowest bit.
AtBitZero(f, r) == \A s \in InternalReturns(p, f) : s.unit = r => s.off = 0

\* An access behind a call whose bits are all returned, or that holds the lane
\* of a register of which the callee returns bits of the lane only.
Returns(f, r, part) ==
  LET bits == ReturnBits(p, f, r)
  IN part \subseteq bits \/ (r \in ToSet(FloatOutputs) /\ bits # {} /\ bits \subseteq Lane /\ Lane \subseteq part)

\* What a read behind a call sees of a bit is the callee's at its exit, the
\* caller's own where the callee never writes it, or unknown; an access whose bits
\* are all returned, or never written, sees them.
Arrives(x) ==
  LET f == p.calls[x.call].callee
      changed == p.facts[f][x.unit].changed
      read == {use[2] : use \in {u \in p.calls[x.call].uses : u[1] = x.unit}}
  IN f \in p.body /\ AtBitZero(f, x.unit) =>
       /\ x.from \in {x.bit, Own, Clobber} /\ (x.from = Own => x.bit \notin changed)
       /\ \A part \in read :
            /\ Returns(f, x.unit, part) /\ x.bit \in part \cap ReturnBits(p, f, x.unit) => x.from = x.bit
            /\ x.bit \in part /\ part \cap changed = {} => x.from = Own

\* Behind a rewritten call of a function with a body a read of an output register
\* never sees another bit or a made-up zero, and how the caller's ranges are cut
\* and which slots the callee has fit: nothing is lost of an access that is
\* returned whole, or whole the caller's own (planRegisterRanges,
\* calleeNeverWritesRange, shapeForInternalFunction, extractReturnRange).  A slot
\* in the upper part of a register is left out.
ReturnsArrive == \A x \in returned : Arrives(x)
=============================================================================
