------------------------ MODULE CallSignaturesProofs ------------------------
(***************************************************************************)
(* The signature part of the register SSA pass, for every module, every    *)
(* calling convention and every order of the tail calls and of the         *)
(* functions: the shapes stay well formed, every argument is what its slot *)
(* held, the stack parameters of a caller and its callee fit each other,   *)
(* and a read behind a call never sees another bit than the callee left.   *)
(***************************************************************************)
EXTENDS CallSignatures, FiniteSetTheorems, WellFoundedInduction, TLAPS

-----------------------------------------------------------------------------
(* Lowest and highest numbers.                                              *)

LEMMA LowestOf ==
  ASSUME NEW S, S \subseteq Nat, S # {}
  PROVE  Lowest(S) \in S /\ \A m \in S : Lowest(S) <= m
<1> DEFINE R == {ss \in Nat \X Nat : ss[1] < ss[2]}
<1>1. IsWellFoundedOn(R, Nat)
  BY NatLessThanWellFounded DEF OpToRel
<1> HIDE DEF R
<1>2. PICK x \in S : \A y \in S : ~(<<y, x>> \in R)
  BY <1>1, WFMin, Zenon
<1>3. ASSUME NEW y \in S, y < x PROVE FALSE
  <2>1. <<y, x>> \in Nat \X Nat
    OBVIOUS
  <2>2. <<y, x>> \in R
    BY <2>1, <1>3 DEF R
  <2> QED BY <2>2, <1>2
<1>4. \A y \in S : x <= y
  BY <1>3
<1> QED BY <1>4 DEF Lowest

(* The highest number is the lowest upper bound.                            *)
LEMMA HighestOf ==
  ASSUME NEW S, NEW N \in Nat, S \subseteq 0 .. N, S # {}
  PROVE  Highest(S) \in S /\ \A m \in S : m <= Highest(S)
<1> DEFINE Above == {n \in Nat : \A m \in S : m <= n}
           top == Lowest(Above)
<1>1. N \in Above /\ Above \subseteq Nat
  OBVIOUS
<1>2. top \in Above /\ \A n \in Above : top <= n
  BY <1>1, LowestOf
<1>3. top \in S
  <2>1. ASSUME top \notin S PROVE FALSE
    <3> HIDE DEF top
    <3>1. \A m \in S : m \in Nat /\ m <= top - 1
      BY <1>2, <2>1
    <3>0. PICK m \in S : m \in Nat /\ m <= top - 1
      BY <3>1
    <3>2. top - 1 \in Nat
      BY <1>2, <3>0
    <3>3. top - 1 \in Above
      BY <3>1, <3>2
    <3> QED BY <1>2, <3>2, <3>3
  <2> QED BY <2>1
<1>4. \A m \in S : m <= top
  BY <1>2
<1> HIDE DEF top
<1> QED BY <1>3, <1>4 DEF Highest

LEMMA LowerOf ==
  ASSUME NEW a \in Int, NEW b \in Int
  PROVE  Lowest({a, b}) \in {a, b} /\ Lowest({a, b}) <= a /\ Lowest({a, b}) <= b
<1>1. CASE a <= b
  <2>1. a \in {a, b} /\ \A m \in {a, b} : a <= m
    BY <1>1
  <2> QED BY <2>1 DEF Lowest
<1>2. CASE b < a
  <2>1. b \in {a, b} /\ \A m \in {a, b} : b <= m
    BY <1>2
  <2> QED BY <2>1 DEF Lowest
<1> QED BY <1>1, <1>2

-----------------------------------------------------------------------------
(* The elements of a sequence that are in a set.                            *)

LEMMA NumbersFinite ==
  ASSUME NEW L \in Nat, NEW N, N \subseteq 1 .. L
  PROVE  IsFiniteSet(N) /\ Cardinality(N) \in Nat /\ (Cardinality(N) = 0 <=> N = {})
<1>1. IsFiniteSet(1 .. L)
  BY FS_Interval
<1>2. IsFiniteSet(N)
  BY <1>1, FS_Subset
<1> QED BY <1>2, FS_CardinalityType, FS_EmptySet

(* A finite set of numbers has an n-th lowest one, up to its cardinality.   *)
LEMMA NthOf ==
  ASSUME NEW L \in Nat, NEW N, N \subseteq 1 .. L, NEW n \in 1 .. Cardinality(N)
  PROVE  Nth(N, n) \in N
<1> DEFINE Below(k) == {m \in N : m < k}
           Missed == {i \in 1 .. Cardinality(N) : ~\E k \in N : Cardinality(Below(k)) = i - 1}
<1>0. IsFiniteSet(N) /\ Cardinality(N) \in Nat
  <2> HIDE DEF Missed
  <2> QED BY NumbersFinite
<1>1. IsFiniteSet(N) /\ Cardinality(N) \in Nat /\ N \subseteq Nat
  <2> HIDE DEF Missed
  <2> QED BY <1>0
<1>2. ASSUME NEW k PROVE IsFiniteSet(Below(k)) /\ Cardinality(Below(k)) \in Nat
  <2>1. Below(k) \subseteq N
    OBVIOUS
  <2> QED BY <2>1, <1>1, FS_Subset, FS_CardinalityType
<1>3. ASSUME Missed # {} PROVE FALSE
  <2> DEFINE i == Lowest(Missed)
  <2>1. Missed \subseteq Nat
    BY <1>1
  <2> HIDE DEF Missed
  <2>2. i \in Missed /\ \A m \in Missed : i <= m
    BY <1>3, <2>1, LowestOf
  <2> HIDE DEF i
  <2>3. i \in 1 .. Cardinality(N) /\ ~\E k \in N : Cardinality(Below(k)) = i - 1
    BY <2>2 DEF Missed
  <2>4. CASE i = 1
    <3>1. N # {}
      BY <2>3, <1>1, FS_EmptySet
    <3> DEFINE first == Lowest(N)
    <3>2. first \in N /\ \A m \in N : first <= m
      BY <1>1, <3>1, LowestOf
    <3> HIDE DEF first
    <3>3. Below(first) = {}
      <4>1. \A m \in N : ~(m < first)
        <5> HIDE DEF Below
        <5> QED BY <1>1, <3>2
      <4> QED BY <4>1
    <3>4. Cardinality(Below(first)) = i - 1
      <4> HIDE DEF Below
      <4> QED BY <2>4, <3>3, FS_EmptySet
    <3> QED BY <2>3, <3>2, <3>4
  <2>5. CASE i # 1
    <3>1. i - 1 \in 1 .. Cardinality(N) /\ i - 1 \notin Missed
      BY <1>1, <2>2, <2>3, <2>5
    <3>2. PICK k \in N : Cardinality(Below(k)) = (i - 1) - 1
      BY <3>1 DEF Missed
    <3> DEFINE Upper == {m \in N : k < m}
               next == Lowest(Upper)
               Upto == Below(k) \cup {k}
    <3>3. k \notin Below(k)
      OBVIOUS
    <3>4. Cardinality(Upto) = i - 1
      <4>1. Cardinality(Upto) = Cardinality(Below(k)) + 1
        BY <1>2, <3>3, FS_AddElement
      <4> HIDE DEF Below, Upto
      <4> QED BY <4>1, <3>2, <1>1, <2>3
    <3>5. Upper # {}
      <4>1. SUFFICES ASSUME Upper = {} PROVE FALSE
        OBVIOUS
      <4>2. \A m \in N : m < k \/ m = k
        <5>1. \A m \in N : ~(k < m)
          BY <4>1
        <5> HIDE DEF Below
        <5> QED BY <1>1, <3>2, <5>1
      <4>3. N = Upto
        BY <3>2, <4>2
      <4> HIDE DEF Upto
      <4> QED BY <4>3, <3>4, <2>3, <1>1
    <3>9. Upper \subseteq Nat
      BY <1>1
    <3>6. next \in Upper /\ \A m \in Upper : next <= m
      <4> HIDE DEF Upper
      <4> QED BY <3>5, <3>9, LowestOf
    <3> HIDE DEF next
    <3>7. Below(next) = Upto
      <4>1. \A m \in N : m < next <=> (m < k \/ m = k)
        BY <1>1, <3>2, <3>6
      <4> QED BY <3>2, <4>1
    <3>8. Cardinality(Below(next)) = i - 1
      <4> HIDE DEF Below, Upto
      <4> QED BY <3>7, <3>4
    <3> QED BY <3>6, <3>8, <2>3
  <2> QED BY <2>4, <2>5
<1>4. \E k \in N : Cardinality(Below(k)) = n - 1
  BY <1>3
<1> QED BY <1>4 DEF Nth

LEMMA ListOf ==
  ASSUME NEW T, NEW n \in Nat, NEW f \in [1 .. n -> T]
  PROVE  f \in Seq(T) /\ Len(f) = n /\ DOMAIN f = 1 .. n
OBVIOUS

LEMMA AmongOf ==
  ASSUME NEW T, NEW seq \in Seq(T), NEW S
  PROVE  /\ Among(seq, S) \in Seq(T \cap S)
         /\ Among(seq, S) = <<>> => \A k \in DOMAIN seq : seq[k] \notin S
<1> DEFINE N == {k \in DOMAIN seq : seq[k] \in S}
<1>1. Len(seq) \in Nat /\ DOMAIN seq = 1 .. Len(seq) /\ \A k \in DOMAIN seq : seq[k] \in T
  OBVIOUS
<1>2. N \subseteq 1 .. Len(seq) /\ \A k \in N : k \in DOMAIN seq /\ seq[k] \in T \cap S
  BY <1>1
<1>3. Among(seq, S) = [n \in 1 .. Cardinality(N) |-> seq[Nth(N, n)]]
  BY DEF Among
<1>4. Cardinality(N) \in Nat /\ (Cardinality(N) = 0 => N = {})
  <2> HIDE DEF N
  <2> QED BY <1>1, <1>2, NumbersFinite
<1>6. ASSUME Among(seq, S) = <<>>, NEW k \in DOMAIN seq, seq[k] \in S PROVE FALSE
  <2>1. k \in N
    BY <1>6
  <2> HIDE DEF N
  <2>2. DOMAIN Among(seq, S) = 1 .. Cardinality(N)
    BY <1>3
  <2>3. DOMAIN Among(seq, S) = {}
    BY <1>6
  <2>4. Cardinality(N) = 0
    BY <2>2, <2>3, <1>4
  <2> QED BY <2>1, <2>4, <1>4
<1> HIDE DEF N
<1>7. \A n \in 1 .. Cardinality(N) : Nth(N, n) \in N
  BY <1>1, <1>2, NthOf
<1>8. Among(seq, S) \in Seq(T \cap S)
  <2>1. \A n \in 1 .. Cardinality(N) : seq[Nth(N, n)] \in T \cap S
    BY <1>2, <1>7
  <2>2. Among(seq, S) \in [1 .. Cardinality(N) -> T \cap S]
    BY <1>3, <2>1
  <2> QED BY <1>4, <2>2, ListOf
<1> QED BY <1>6, <1>8

-----------------------------------------------------------------------------
(* Slots.                                                                   *)

Units == Registers \cup ToSet(StackUnits)

LEMMA ToSetOfJoined ==
  ASSUME NEW S, NEW T, NEW s \in Seq(S), NEW t \in Seq(T)
  PROVE  ToSet(s \o t) = ToSet(s) \cup ToSet(t)
<1>1. ASSUME NEW x \in ToSet(s \o t) PROVE x \in ToSet(s) \cup ToSet(t)
  <2>1. PICK i \in 1 .. Len(s) + Len(t) : x = (s \o t)[i]
    BY <1>1 DEF ToSet
  <2>2. CASE i <= Len(s)
    BY <2>1, <2>2 DEF ToSet
  <2>3. CASE i > Len(s)
    <3>1. x = t[i - Len(s)] /\ i - Len(s) \in DOMAIN t
      BY <2>1, <2>3
    <3> QED BY <3>1 DEF ToSet
  <2> QED BY <2>1, <2>2, <2>3
<1>2. ASSUME NEW x \in ToSet(s) PROVE x \in ToSet(s \o t)
  <2>1. PICK i \in 1 .. Len(s) : x = s[i]
    BY <1>2 DEF ToSet
  <2>2. i \in DOMAIN (s \o t) /\ x = (s \o t)[i]
    BY <2>1
  <2> QED BY <2>2 DEF ToSet
<1>3. ASSUME NEW x \in ToSet(t) PROVE x \in ToSet(s \o t)
  <2>1. PICK i \in 1 .. Len(t) : x = t[i]
    BY <1>3 DEF ToSet
  <2>2. i + Len(s) \in DOMAIN (s \o t) /\ x = (s \o t)[i + Len(s)]
    BY <2>1
  <2> QED BY <2>2 DEF ToSet
<1> QED BY <1>1, <1>2, <1>3

LEMMA OfLists ==
  ASSUME NEW S, NEW q \in Seq(S), NEW T, ToSet(q) \subseteq T
  PROVE  q \in Seq(T)
<1>1. \A i \in DOMAIN q : q[i] \in T
  BY DEF ToSet
<1> QED BY <1>1

LEMMA Joined ==
  ASSUME NEW S, NEW s \in Seq(S), NEW t \in Seq(S)
  PROVE  /\ s \o t \in Seq(S) /\ Len(s \o t) = Len(s) + Len(t)
         /\ \A i \in 1 .. Len(s) : (s \o t)[i] = s[i]
         /\ \A i \in Len(s) + 1 .. Len(s) + Len(t) : (s \o t)[i] = t[i - Len(s)]
OBVIOUS

LEMMA ConventionTyped ==
  /\ IntInputs \in Seq(Registers) /\ FloatInputs \in Seq(Registers) /\ Outputs \in Seq(Registers)
  /\ Others \in Seq(Registers) /\ FloatOutputs \in Seq(ToSet(FloatOutputs))
  /\ StackUnits \in Seq(ToSet(StackUnits)) /\ Width \in Nat /\ FloatWidth \in Nat
<1> DEFINE All == ToSet(IntInputs) \cup ToSet(FloatInputs) \cup ToSet(Outputs) \cup ToSet(Others)
<1>1. /\ IntInputs \in Seq(ToSet(IntInputs)) /\ FloatInputs \in Seq(ToSet(FloatInputs))
      /\ Outputs \in Seq(ToSet(Outputs)) /\ Others \in Seq(ToSet(Others))
      /\ FloatOutputs \in Seq(ToSet(FloatOutputs)) /\ StackUnits \in Seq(ToSet(StackUnits))
      /\ Width \in Nat /\ FloatWidth \in Nat
  BY SignatureAssumption DEF UnitsAssumption
<1>2. /\ ToSet(IntInputs) \subseteq All /\ ToSet(FloatInputs) \subseteq All
      /\ ToSet(Outputs) \subseteq All /\ ToSet(Others) \subseteq All
  OBVIOUS
<1> HIDE DEF All
<1>3. /\ IntInputs \in Seq(All) /\ FloatInputs \in Seq(All) /\ Outputs \in Seq(All) /\ Others \in Seq(All)
  BY <1>1, <1>2, OfLists
<1> DEFINE two == IntInputs \o FloatInputs
           three == two \o Outputs
<1>4. two \in Seq(All) /\ ToSet(two) = ToSet(IntInputs) \cup ToSet(FloatInputs)
  BY <1>3, Joined, ToSetOfJoined
<1> HIDE DEF two
<1>5. three \in Seq(All) /\ ToSet(three) = ToSet(two) \cup ToSet(Outputs)
  BY <1>3, <1>4, Joined, ToSetOfJoined
<1> HIDE DEF three
<1>6. ToSet(three \o Others) = ToSet(three) \cup ToSet(Others)
  BY <1>3, <1>5, ToSetOfJoined
<1>9. Registers = All
  <2>1. Registers = ToSet(three \o Others)
    BY DEF Registers, two, three
  <2> QED BY <2>1, <1>4, <1>5, <1>6 DEF All
<1> QED BY <1>1, <1>3, <1>9

LEMMA UnitsTyped ==
  /\ IntInputs \in Seq(Units) /\ FloatInputs \in Seq(Units) /\ StackUnits \in Seq(Units)
  /\ ToSet(Outputs) \subseteq Registers /\ Registers \subseteq Units
<1>1. \A i \in DOMAIN Outputs : Outputs[i] \in Registers
  BY ConventionTyped
<1> QED BY <1>1, ConventionTyped DEF Units, ToSet

LEMMA SlotTyped ==
  ASSUME NEW u \in Units
  PROVE  /\ IntSlot(u) \in AllSlots /\ IntSlot(u).unit = u /\ IntSlot(u).kind = "int"
         /\ FloatSlot(u) \in AllSlots /\ FloatSlot(u).unit = u /\ FloatSlot(u).kind = "float"
         /\ StackSlot(u) \in AllSlots /\ StackSlot(u).unit = u /\ StackSlot(u).kind = "stack"
BY ConventionTyped DEF IntSlot, FloatSlot, StackSlot, Slot, AllSlots, Units

LEMMA SlotsTyped ==
  ASSUME NEW units \in Seq(Units)
  PROVE  /\ IntSlots(units) \in Seq(AllSlots) /\ Len(IntSlots(units)) = Len(units)
         /\ FloatSlots(units) \in Seq(AllSlots) /\ Len(FloatSlots(units)) = Len(units)
         /\ StackSlots(units) \in Seq(AllSlots) /\ Len(StackSlots(units)) = Len(units)
<1>1. Len(units) \in Nat /\ DOMAIN units = 1 .. Len(units) /\ \A n \in DOMAIN units : units[n] \in Units
  OBVIOUS
<1>2. IntSlots(units) \in [1 .. Len(units) -> AllSlots]
  BY <1>1, SlotTyped DEF IntSlots
<1>3. FloatSlots(units) \in [1 .. Len(units) -> AllSlots]
  BY <1>1, SlotTyped DEF FloatSlots
<1>4. StackSlots(units) \in [1 .. Len(units) -> AllSlots]
  BY <1>1, SlotTyped DEF StackSlots
<1> QED BY <1>1, <1>2, <1>3, <1>4, ListOf

(* A slot for some bits of a register is one of that register.              *)
LEMMA DemandSlot ==
  ASSUME NEW u \in Units, NEW S, S \subseteq 0 .. Width - 1, NEW floats
  PROVE  SlotForDemand(u, S, floats) \in AllSlots /\ SlotForDemand(u, S, floats).unit = u
<1>1. ASSUME S # {} PROVE Lowest(S) \in Nat /\ Cardinality(S) \in Nat
  <2>1. S \subseteq Nat
    BY ConventionTyped
  <2>2. Lowest(S) \in Nat
    BY <1>1, <2>1, LowestOf
  <2>3. IsFiniteSet(0 .. Width - 1)
    BY ConventionTyped, FS_Interval
  <2>4. IsFiniteSet(S)
    BY <2>3, FS_Subset
  <2> QED BY <2>2, <2>4, FS_CardinalityType
<1>2. SlotForBits(u, S) \in AllSlots /\ SlotForBits(u, S).unit = u
  <2>1. CASE S # {} /\ Lowest(S) .. Highest(S) = S
    <3>1. SlotForBits(u, S) = Slot("int", u, Lowest(S), Cardinality(S))
      BY <2>1 DEF SlotForBits
    <3> QED BY <1>1, <2>1, <3>1 DEF Slot, AllSlots, Units
  <2>2. CASE ~(S # {} /\ Lowest(S) .. Highest(S) = S)
    <3>1. SlotForBits(u, S) = IntSlot(u)
      BY <2>2 DEF SlotForBits
    <3> QED BY <3>1, SlotTyped
  <2> QED BY <2>1, <2>2
<1> QED BY <1>2, SlotTyped DEF SlotForDemand

-----------------------------------------------------------------------------
(* What a call site shows.                                                  *)

LEMMA RunBounds ==
  ASSUME NEW m, NEW c, NEW slots \in Seq(AllSlots), NEW n \in 1 .. Len(slots) + 1, NEW origin
  PROVE  RunOf(m, c, slots, n, origin) \in 0 .. Len(slots) + 1 - n
<1> DEFINE ends == {k \in n .. Len(slots) : m.calls[c].origin[slots[k].unit] # origin}
<1>1. Len(slots) \in Nat /\ ends \subseteq n .. Len(slots)
  OBVIOUS
<1>2. RunOf(m, c, slots, n, origin) = (IF ends = {} THEN Len(slots) + 1 ELSE Lowest(ends)) - n
  BY DEF RunOf
<1> HIDE DEF ends
<1>3. CASE ends = {}
  BY <1>1, <1>2, <1>3
<1>4. CASE ends # {}
  <2>1. ends \subseteq Nat
    BY <1>1
  <2>2. Lowest(ends) \in ends
    BY <1>4, <2>1, LowestOf
  <2>3. Lowest(ends) \in n .. Len(slots)
    BY <1>1, <2>2
  <2>4. RunOf(m, c, slots, n, origin) = Lowest(ends) - n
    BY <1>2, <1>4
  <2> QED BY <1>1, <2>3, <2>4
<1> QED BY <1>3, <1>4

LEMMA PrefixBounds ==
  ASSUME NEW m, NEW c, NEW slots \in Seq(AllSlots)
  PROVE  LocalPrefix(m, c, slots) \in 0 .. Len(slots)
<1> DEFINE leading == RunOf(m, c, slots, 1, "entry")
           locals == RunOf(m, c, slots, leading + 1, "local")
           kept == {n \in 1 .. locals : slots[leading + n].unit \notin m.calls[c].consumed}
<1>1. Len(slots) \in Nat
  OBVIOUS
<1>2. leading \in 0 .. Len(slots)
  <2>1. leading \in 0 .. Len(slots) + 1 - 1
    BY <1>1, RunBounds
  <2> HIDE DEF leading
  <2> QED BY <1>1, <2>1
<1>3. locals \in 0 .. Len(slots) - leading
  <2> HIDE DEF leading
  <2>1. leading + 1 \in 1 .. Len(slots) + 1
    BY <1>1, <1>2
  <2>2. locals \in 0 .. Len(slots) + 1 - (leading + 1)
    BY <2>1, RunBounds
  <2> HIDE DEF locals
  <2> QED BY <1>1, <1>2, <2>2
<1>4. LocalPrefix(m, c, slots) = IF locals = 0 THEN 0 ELSE leading + (IF kept = {} THEN 0 ELSE Highest(kept))
  BY DEF LocalPrefix
<1>5. kept \subseteq 1 .. locals
  OBVIOUS
<1> HIDE DEF leading, locals, kept
<1>6. ASSUME kept # {} PROVE Highest(kept) \in 1 .. locals
  <2>1. locals \in Nat /\ kept \subseteq 0 .. locals
    BY <1>1, <1>2, <1>3, <1>5
  <2>2. Highest(kept) \in kept
    BY <1>6, <2>1, HighestOf
  <2> QED BY <2>2, <1>5
<1>7. CASE kept = {}
  BY <1>1, <1>2, <1>3, <1>4, <1>7
<1>8. CASE kept # {}
  BY <1>1, <1>2, <1>3, <1>4, <1>6, <1>8
<1> QED BY <1>7, <1>8

LEMMA EvidenceTyped ==
  /\ IntEvidence \in Seq(AllSlots) /\ Len(IntEvidence) \in Nat
  /\ FloatEvidence \in Seq(AllSlots) /\ Len(FloatEvidence) \in Nat
<1>1. /\ IntSlots(IntInputs) \in Seq(AllSlots) /\ StackSlots(StackUnits) \in Seq(AllSlots)
      /\ FloatSlots(FloatInputs) \in Seq(AllSlots)
  BY UnitsTyped, SlotsTyped
<1>2. IntEvidence \in Seq(AllSlots)
  BY <1>1, Joined DEF IntEvidence
<1>3. FloatEvidence \in Seq(AllSlots)
  BY <1>1 DEF FloatEvidence
<1> QED BY <1>2, <1>3

LEMMA ArityBounds ==
  ASSUME NEW m, NEW c
  PROVE  /\ Arity(m, c)[1] \in 0 .. Len(IntEvidence) /\ Arity(m, c)[2] \in 0 .. Len(FloatEvidence)
         /\ Total(Arity(m, c)) = Arity(m, c)[1] + Arity(m, c)[2]
BY EvidenceTyped, PrefixBounds DEF Arity, Total

IsPrototype(proto) ==
  /\ {proto.ints, proto.floats, proto.max} \subseteq Nat
  /\ proto.vararg \in BOOLEAN /\ proto.returns \subseteq AllSlots

(* The arguments inferred for an unknown function are numbers.              *)
LEMMA InferredTyped ==
  ASSUME NEW m, NEW C, C # {}
  PROVE  IsPrototype(InferredPrototype({Arity(m, c) : c \in C}))
<1> DEFINE arities == {Arity(m, c) : c \in C}
           totals == {Total(a) : a \in arities}
           floats == {a[2] : a \in arities}
           least == Lowest(totals)
           most == Highest(totals)
           top == Highest(floats)
           bound1 == Len(IntEvidence) + Len(FloatEvidence)
<1> SUFFICES IsPrototype(InferredPrototype(arities))
  OBVIOUS
<1>1. bound1 \in Nat /\ Len(FloatEvidence) \in Nat
  BY EvidenceTyped
<1>2. arities # {} /\ totals # {} /\ floats # {}
  OBVIOUS
<1>3. \A a \in arities : a[2] \in 0 .. Len(FloatEvidence) /\ Total(a) \in 0 .. bound1 /\ a[2] <= Total(a)
  <2>1. ASSUME NEW c \in C
        PROVE  LET a == Arity(m, c)
               IN a[2] \in 0 .. Len(FloatEvidence) /\ Total(a) \in 0 .. bound1 /\ a[2] <= Total(a)
    <3>1. /\ Arity(m, c)[1] \in 0 .. Len(IntEvidence) /\ Arity(m, c)[2] \in 0 .. Len(FloatEvidence)
          /\ Total(Arity(m, c)) = Arity(m, c)[1] + Arity(m, c)[2]
      BY ArityBounds
    <3> QED BY <3>1, EvidenceTyped
  <2> QED BY <2>1
<1> HIDE DEF arities, bound1
<1>4. totals \subseteq 0 .. bound1 /\ floats \subseteq 0 .. Len(FloatEvidence)
  BY <1>3
<1>5. most \in totals /\ \A n \in totals : n <= most
  BY <1>1, <1>2, <1>4, HighestOf
<1>6. top \in floats
  BY <1>1, <1>2, <1>4, HighestOf
<1>7. least \in totals
  <2>1. totals \subseteq Nat
    BY <1>1, <1>4
  <2> HIDE DEF totals
  <2> QED BY <1>2, <2>1, LowestOf
<1> HIDE DEF least, most, top
<1>8. most \in Nat /\ least \in Nat /\ top \in Nat
  BY <1>1, <1>4, <1>5, <1>6, <1>7
<1>9. most - top \in Nat
  <2>1. PICK a \in arities : top = a[2]
    BY <1>6
  <2>2. Total(a) <= most /\ a[2] <= Total(a) /\ Total(a) \in Int
    BY <1>1, <1>3, <1>5
  <2> QED BY <1>8, <2>1, <2>2
<1>10. InferredPrototype(arities) = PrototypeFor(arities, least, most)
  BY DEF InferredPrototype, least, most
<1>11. CASE least # most
  BY <1>8, <1>10, <1>11 DEF PrototypeFor, IsPrototype
<1>12. CASE least = most
  <2>1. PrototypeFor(arities, least, most) =
          [ints |-> most - top, floats |-> top, vararg |-> FALSE, returns |-> {}, max |-> 0]
    BY <1>12 DEF PrototypeFor, top
  <2> QED BY <1>8, <1>9, <1>10, <2>1 DEF IsPrototype
<1> QED BY <1>11, <1>12

LEMMA Cuts ==
  ASSUME NEW T, NEW s \in Seq(T), NEW a \in Int, NEW b \in Int, 1 <= a, b <= Len(s)
  PROVE  SubSeq(s, a, b) \in Seq(T) /\ (0 <= b => Len(SubSeq(s, 1, b)) = b)
<1>1. Len(s) \in Nat
  OBVIOUS
<1>2. \A i \in a .. b : s[i] \in T
  BY <1>1
<1>3. CASE a <= b
  <2>1. SubSeq(s, a, b) = [i \in 1 .. b - a + 1 |-> s[i + a - 1]]
    BY <1>1, <1>3
  <2>2. \A i \in 1 .. b - a + 1 : i + a - 1 \in a .. b
    BY <1>3
  <2>3. SubSeq(s, a, b) \in [1 .. b - a + 1 -> T]
    BY <1>2, <2>1, <2>2
  <2> QED BY <1>1, <1>3, <2>3, ListOf
<1>4. CASE b < a
  BY <1>1, <1>4
<1> QED BY <1>3, <1>4

LEMMA FirstTyped ==
  ASSUME NEW T, NEW s \in Seq(T), NEW n \in Int
  PROVE  FirstOf(s, n) \in Seq(T)
<1> DEFINE stop == Lowest({n, Len(s)})
<1>1. stop \in Int /\ stop <= Len(s)
  <2>1. Len(s) \in Int
    OBVIOUS
  <2>2. stop \in {n, Len(s)} /\ stop <= Len(s)
    BY <2>1, LowerOf
  <2> HIDE DEF stop
  <2> QED BY <2>1, <2>2
<1>2. FirstOf(s, n) = SubSeq(s, 1, stop)
  BY DEF FirstOf
<1> HIDE DEF stop
<1>3. 1 \in Int /\ 1 <= 1
  OBVIOUS
<1> QED BY <1>1, <1>2, <1>3, Cuts

LEMMA ArgumentsTyped ==
  ASSUME NEW ints \in Nat, NEW floats \in Nat
  PROVE  ArgumentSlots(ints, floats) \in Seq(AllSlots)
<1> DEFINE spilled == Spilled(IntInputs, ints)
           below == FirstOf(StackUnits, spilled)
           above == FirstOf(StackUnits, spilled + Spilled(FloatInputs, floats))
           rest == SubSeq(above, Len(below) + 1, Len(above))
           one == IntSlots(FirstOf(IntInputs, ints))
           two == StackSlots(below)
           three == FloatSlots(FirstOf(FloatInputs, floats))
           four == StackSlots(rest)
<1>1. Len(IntInputs) \in Nat /\ Len(FloatInputs) \in Nat
  BY UnitsTyped
<1>2. /\ spilled \in Int /\ spilled + Spilled(FloatInputs, floats) \in Int
      /\ ints \in Int /\ floats \in Int
  BY <1>1 DEF Spilled
<1> HIDE DEF spilled
<1>3. below \in Seq(Units) /\ above \in Seq(Units)
  <2> HIDE DEF one, two, three, four, rest
  <2> QED BY <1>2, UnitsTyped, FirstTyped
<1> HIDE DEF below, above
<1>4. Len(below) + 1 \in Int /\ 1 <= Len(below) + 1 /\ Len(above) \in Int /\ Len(above) <= Len(above)
  BY <1>3
<1>5. rest \in Seq(Units)
  BY <1>3, <1>4, Cuts
<1>6. FirstOf(IntInputs, ints) \in Seq(Units) /\ FirstOf(FloatInputs, floats) \in Seq(Units)
  <2> HIDE DEF one, two, three, four
  <2> QED BY <1>2, UnitsTyped, FirstTyped
<1> HIDE DEF rest
<1>7. one \in Seq(AllSlots) /\ two \in Seq(AllSlots) /\ three \in Seq(AllSlots) /\ four \in Seq(AllSlots)
  BY <1>3, <1>5, <1>6, SlotsTyped
<1>8. ArgumentSlots(ints, floats) = ((one \o two) \o three) \o four
  BY DEF ArgumentSlots, spilled, below, above, rest
<1> HIDE DEF one, two, three, four
<1>9. one \o two \in Seq(AllSlots)
  BY <1>7, Joined
<1>10. (one \o two) \o three \in Seq(AllSlots)
  BY <1>7, <1>9, Joined
<1> QED BY <1>7, <1>8, <1>10, Joined

IsShape(s) ==
  s \in [params : Seq(AllSlots), returns : SUBSET AllSlots, vararg : BOOLEAN, known : BOOLEAN]

LEMMA ShapeFacts ==
  ASSUME NEW s, IsShape(s)
  PROVE  /\ s.params \in Seq(AllSlots) /\ Len(s.params) \in Nat /\ DOMAIN s.params = 1 .. Len(s.params)
         /\ \A n \in DOMAIN s.params : s.params[n] \in AllSlots
         /\ s.returns \subseteq AllSlots /\ s.vararg \in BOOLEAN
BY DEF IsShape

LEMMA NoShapeTyped == IsShape(NoShape) /\ NoShape.params = <<>>
BY DEF NoShape, IsShape

LEMMA ExternalTyped ==
  ASSUME NEW proto, IsPrototype(proto)
  PROVE  IsShape(ShapeForExternal(proto))
<1>1. ArgumentSlots(proto.ints, proto.floats) \in Seq(AllSlots)
  BY ArgumentsTyped DEF IsPrototype
<1> QED BY <1>1, NoShapeTyped DEF ShapeForExternal, IsShape, IsPrototype

LEMMA OrderTyped == ParamOrder \in Seq(Units)
<1>1. IntInputs \o FloatInputs \in Seq(Units)
  BY UnitsTyped, Joined
<1>2. Outputs \o Others \in Seq(Registers)
  BY ConventionTyped, Joined
<1> DEFINE rest == Among(Outputs \o Others, Registers \ ToSet(IntInputs \o FloatInputs))
<1>3. rest \in Seq(Registers \cap (Registers \ ToSet(IntInputs \o FloatInputs)))
  BY <1>2, AmongOf
<1> HIDE DEF rest
<1>4. rest \in Seq(Units)
  <2>1. \A i \in DOMAIN rest : rest[i] \in Units
    BY <1>3, UnitsTyped
  <2> QED BY <1>3, <2>1
<1> QED BY <1>1, <1>4, Joined DEF ParamOrder, rest

LEMMA FactsTyped ==
  ASSUME NEW m \in Modules, NEW f \in m.body, NEW r \in Registers
  PROVE  ReturnBits(m, f, r) \subseteq 0 .. Width - 1 /\ ParamBits(m, f, r) \subseteq 0 .. Width - 1
<1>1. m.facts[f][r].read \subseteq 0 .. Width - 1 /\ m.facts[f][r].changed \subseteq 0 .. Width - 1
  BY SignatureAssumption DEF ModulesAssumption
<1>2. ReturnEntry(m, f, r) \subseteq m.facts[f][r].changed
  BY DEF ReturnEntry
<1> QED BY <1>1, <1>2 DEF ReturnBits, ParamBits

LEMMA InternalTyped ==
  ASSUME NEW m \in Modules, NEW f \in m.body
  PROVE  IsShape(ShapeForInternal(m, f)) /\ ShapeForInternal(m, f).returns = InternalReturns(m, f)
<1> DEFINE takers == {r \in Registers : TakesParam(m, f, r)}
           taken == Among(ParamOrder, takers)
           first == [n \in DOMAIN taken |-> SlotForDemand(taken[n], ParamBits(m, f, taken[n]), FloatInputs)]
           loaded == Among(StackUnits, m.loads[f])
<1>1. taken \in Seq(Units \cap takers)
  BY OrderTyped, AmongOf
<1>2. takers \subseteq Registers
  OBVIOUS
<1>3. loaded \in Seq(Units \cap m.loads[f])
  BY UnitsTyped, AmongOf
<1> HIDE DEF takers, taken, loaded
<1>4. \A n \in DOMAIN taken : taken[n] \in Units /\ taken[n] \in Registers
  BY <1>1, <1>2
<1>5. \A n \in DOMAIN taken : SlotForDemand(taken[n], ParamBits(m, f, taken[n]), FloatInputs) \in AllSlots
  BY <1>4, FactsTyped, DemandSlot
<1>6. first \in Seq(AllSlots)
  <2>1. Len(taken) \in Nat /\ DOMAIN taken = 1 .. Len(taken)
    BY <1>1
  <2>2. first \in [1 .. Len(taken) -> AllSlots]
    BY <1>5, <2>1
  <2> HIDE DEF first
  <2> QED BY <2>1, <2>2, ListOf
<1>7. loaded \in Seq(Units)
  BY <1>3
<1>8. StackSlots(loaded) \in Seq(AllSlots)
  BY <1>7, SlotsTyped
<1> HIDE DEF first
<1>9. InternalParams(m, f) \in Seq(AllSlots)
  <2>1. InternalParams(m, f) = first \o StackSlots(loaded)
    BY DEF InternalParams, first, taken, takers, loaded
  <2> QED BY <1>6, <1>8, <2>1, Joined
<1>10. InternalReturns(m, f) \subseteq AllSlots
  <2>1. ASSUME NEW r \in Registers PROVE SlotForDemand(r, ReturnBits(m, f, r), FloatOutputs) \in AllSlots
    BY UnitsTyped, FactsTyped, DemandSlot
  <2> QED BY <2>1 DEF InternalReturns
<1>11. (f \in m.variadic) \in BOOLEAN
  OBVIOUS
<1> QED BY <1>9, <1>10, <1>11, Zenon, NoShapeTyped DEF ShapeForInternal, IsShape

LEMMA PrototypeTyped ==
  ASSUME NEW m \in Modules, NEW f, f # "indirect", f \notin m.body, CallsTo(m, f) # {} \/ f \in DOMAIN m.proto
  PROVE  IsPrototype(Prototype(m, f))
<1>1. CASE IsUnknown(m, f)
  <2>1. CallsTo(m, f) # {}
    BY <1>1 DEF IsUnknown
  <2>2. Prototype(m, f) = InferredPrototype({Arity(m, c) : c \in CallsTo(m, f)})
    BY <1>1 DEF Prototype
  <2> QED BY <2>1, <2>2, InferredTyped
<1>2. CASE ~IsUnknown(m, f)
  <2>1. f \in DOMAIN m.proto /\ Prototype(m, f) = m.proto[f]
    BY <1>2 DEF IsUnknown, Prototype
  <2> QED BY <2>1, SignatureAssumption DEF ModulesAssumption, IsPrototype
<1> QED BY <1>1, <1>2

LEMMA InitialTyped ==
  ASSUME NEW m \in Modules, NEW f \in Callees(m) \ {"indirect"}
  PROVE  /\ IsShape(InitialShape(m, f))
         /\ f \in m.body => InitialShape(m, f).returns = InternalReturns(m, f)
<1>1. CASE f \in m.body
  BY <1>1, InternalTyped DEF InitialShape
<1>2. CASE f \notin m.body
  <2>1. CallsTo(m, f) # {}
    BY <1>2 DEF Callees, CallsTo
  <2> QED BY <1>2, <2>1, PrototypeTyped, ExternalTyped DEF InitialShape
<1> QED BY <1>1, <1>2

LEMMA AmongTyped ==
  ASSUME NEW T, NEW seq \in Seq(T), NEW S
  PROVE  Among(seq, S) \in Seq(T)
<1>1. Among(seq, S) \in Seq(T \cap S)
  BY AmongOf
<1> QED BY <1>1

LEMMA WrittenTyped ==
  ASSUME NEW m, NEW c, NEW slots \in Seq(AllSlots)
  PROVE  SubSeq(slots, 1, RunOf(m, c, slots, 1, "local")) \in Seq(AllSlots)
<1> DEFINE stop == RunOf(m, c, slots, 1, "local")
<1>1. Len(slots) \in Nat /\ 1 \in 1 .. Len(slots) + 1
  OBVIOUS
<1>2. stop \in 0 .. Len(slots) + 1 - 1
  BY <1>1, RunBounds
<1> HIDE DEF stop
<1>3. stop \in Int /\ stop <= Len(slots) /\ 1 \in Int /\ 1 <= 1
  BY <1>1, <1>2
<1> QED BY <1>3, Cuts DEF stop

LEMMA EvidentTyped ==
  ASSUME NEW m, NEW c
  PROVE  EvidentInputs(Arity(m, c)) \in Seq(AllSlots)
<1> DEFINE a == Arity(m, c)
<1>1. a[1] \in 0 .. Len(IntEvidence) /\ a[2] \in 0 .. Len(FloatEvidence)
  BY ArityBounds
<1> HIDE DEF a
<1>2. SubSeq(IntEvidence, 1, a[1]) \in Seq(AllSlots) /\ SubSeq(FloatEvidence, 1, a[2]) \in Seq(AllSlots)
  <2>1. /\ a[1] \in Int /\ a[2] \in Int /\ a[1] <= Len(IntEvidence) /\ a[2] <= Len(FloatEvidence)
        /\ 1 \in Int /\ 1 <= 1
    BY <1>1, EvidenceTyped
  <2> QED BY <2>1, EvidenceTyped, Cuts
<1> QED BY <1>2, Joined DEF EvidentInputs, a

LEMMA KnownTyped ==
  ASSUME NEW m \in Modules, NEW c \in Calls(m), NEW proto, IsPrototype(proto), NEW fixed \in Seq(AllSlots)
  PROVE  KnownInputs(m, c, proto, fixed) \in Seq(AllSlots)
<1> DEFINE ints == Beyond(IntEvidence, fixed)
           floats == Beyond(FloatEvidence, fixed)
           allowed == IF proto.max = 0 THEN Len(ints) ELSE proto.max - proto.ints
<1>1. ints \in Seq(AllSlots) /\ floats \in Seq(AllSlots)
  BY EvidenceTyped, AmongTyped DEF Beyond
<1> HIDE DEF ints, floats
<1>2. Written(m, c, ints) \in Seq(AllSlots) /\ Written(m, c, floats) \in Seq(AllSlots)
  BY <1>1, WrittenTyped DEF Written
<1>3. m.calls[c].al \in Int
  BY SignatureAssumption DEF ModulesAssumption, Calls
<1>4. allowed \in Int
  BY <1>1 DEF IsPrototype
<1> HIDE DEF allowed
<1>5. /\ FirstOf(Written(m, c, floats), m.calls[c].al) \in Seq(AllSlots)
      /\ FirstOf(Written(m, c, ints), allowed) \in Seq(AllSlots)
  BY <1>2, <1>3, <1>4, FirstTyped
<1>6. VariadicTail(m, c, proto, ints, floats) \in Seq(AllSlots)
  BY <1>5 DEF VariadicTail, allowed
<1> QED BY <1>6, Joined DEF KnownInputs, ints, floats

LEMMA SiteTyped ==
  ASSUME NEW m \in Modules, NEW c \in Calls(m), NEW f
  PROVE  SiteInputs(m, c, f) \in Seq(AllSlots)
<1>1. <<>> \in Seq(AllSlots)
  OBVIOUS
<1>2. EvidentInputs(Arity(m, c)) \in Seq(AllSlots)
  BY EvidentTyped
<1>3. ASSUME f \in DOMAIN m.proto
      PROVE  KnownInputs(m, c, m.proto[f], ShapeForExternal(m.proto[f]).params) \in Seq(AllSlots)
  <2>1. IsPrototype(m.proto[f])
    BY <1>3, SignatureAssumption DEF ModulesAssumption, IsPrototype
  <2>2. ShapeForExternal(m.proto[f]).params \in Seq(AllSlots)
    BY <2>1, ExternalTyped DEF IsShape
  <2> QED BY <2>1, <2>2, KnownTyped
<1> QED BY <1>1, <1>2, <1>3 DEF SiteInputs

(* The slots of a call start with the parameters of the shape.              *)
LEMMA CallSlotsExtend ==
  ASSUME NEW m \in Modules, NEW c \in Calls(m), NEW s, IsShape(s)
  PROVE  /\ CallSlots(m, c, s) \in Seq(AllSlots)
         /\ Len(s.params) <= Len(CallSlots(m, c, s))
         /\ \A n \in DOMAIN s.params : CallSlots(m, c, s)[n] = s.params[n]
<1> DEFINE params == s.params
           inputs == SiteInputs(m, c, m.calls[c].callee)
           further == SubSeq(inputs, Len(params) + 1, Len(inputs))
           tail == AbiTail(m, c, params)
<1>1. params \in Seq(AllSlots) /\ s.vararg \in BOOLEAN
  BY DEF IsShape
<1>2. inputs \in Seq(AllSlots)
  BY SiteTyped
<1>3. further \in Seq(AllSlots)
  <2> HIDE DEF params, inputs
  <2>1. Len(params) + 1 \in Int /\ 1 <= Len(params) + 1 /\ Len(inputs) \in Int /\ Len(inputs) <= Len(inputs)
    BY <1>1, <1>2
  <2> QED BY <1>2, <2>1, Cuts
<1>4. tail \in Seq(AllSlots)
  <2> DEFINE covered == {params[n].unit : n \in DOMAIN params}
             free == Among(IntInputs, ToSet(IntInputs) \ covered)
             open == Among(StackUnits, ToSet(StackUnits) \ covered)
             regs == IntSlots(free)
             stack == StackSlots(open)
  <2>1. free \in Seq(Units) /\ open \in Seq(Units)
    BY UnitsTyped, AmongTyped
  <2> HIDE DEF free, open
  <2>2. regs \in Seq(AllSlots) /\ stack \in Seq(AllSlots)
    BY <2>1, SlotsTyped
  <2> HIDE DEF regs, stack
  <2>3. SubSeq(stack, 1, RunOf(m, c, stack, 1, "local")) \in Seq(AllSlots)
    BY <2>2, WrittenTyped
  <2>4. tail = regs \o SubSeq(stack, 1, RunOf(m, c, stack, 1, "local"))
    BY DEF AbiTail, regs, stack, free, open
  <2> HIDE DEF tail
  <2> QED BY <2>2, <2>3, <2>4, Joined
<1> HIDE DEF inputs, further, tail
<1>5. VariadicSlots(m, c, params, inputs) \in Seq(AllSlots)
  BY <1>3, <1>4 DEF VariadicSlots, further, tail
<1>6. ASSUME NEW t \in Seq(AllSlots)
      PROVE  /\ params \o t \in Seq(AllSlots) /\ Len(params) <= Len(params \o t)
             /\ \A n \in DOMAIN params : (params \o t)[n] = params[n]
  <2> HIDE DEF params
  <2>1. Len(params) \in Nat /\ Len(t) \in Nat /\ DOMAIN params = 1 .. Len(params)
    BY <1>1, <1>6
  <2> QED BY <1>1, <1>6, <2>1, Joined
<1>7. Len(params) <= Len(params)
  BY <1>1
<1>8. CASE ~s.vararg
  BY <1>1, <1>7, <1>8 DEF CallSlots
<1>9. CASE s.vararg
  <2>1. CallSlots(m, c, s) = params \o VariadicSlots(m, c, params, inputs)
    BY <1>9 DEF CallSlots, inputs
  <2> QED BY <1>5, <1>6, <2>1
<1> QED BY <1>1, <1>8, <1>9

LEMMA UnknownReturnsTyped ==
  ASSUME NEW m, NEW c
  PROVE  UnknownReturns(m, c) \subseteq AllSlots
<1> DEFINE live == {n \in DOMAIN FloatOutputs : IsHelper(m, c, FloatOutputs[n])}
<1>1. \A r : IsHelper(m, c, r) => r \in Units
  BY UnitsTyped DEF IsHelper
<1>2. CASE live # {}
  <2>1. live \subseteq Nat
    BY ConventionTyped
  <2>2. Lowest(live) \in live
    <3> HIDE DEF live
    <3> QED BY <1>2, <2>1, LowestOf
  <2>3. FloatOutputs[Lowest(live)] \in Units
    BY <1>1, <2>2
  <2>4. UnknownReturns(m, c) = {FloatSlot(FloatOutputs[Lowest(live)])}
    BY <1>2 DEF UnknownReturns
  <2> HIDE DEF live
  <2> QED BY <2>3, <2>4, SlotTyped
<1>3. CASE live = {}
  BY <1>1, <1>3, SlotTyped DEF UnknownReturns
<1> QED BY <1>2, <1>3

LEMMA IndirectTyped ==
  ASSUME NEW m, NEW c
  PROVE  IsShape(IndirectShape(m, c))
BY EvidentTyped, UnknownReturnsTyped, NoShapeTyped DEF IndirectShape, IsShape

-----------------------------------------------------------------------------
(* What is recorded for one call.                                           *)

(* The value bound to a parameter is the one read for its slot; a parameter *)
(* that is not bound is one whose class has no value for a slot up to it.   *)
Recorded(m, c, params, binding, further) ==
  /\ \E N \in Nat : DOMAIN binding \subseteq 1 .. N
  /\ \A n \in DOMAIN binding : binding[n] = Binding(m, c, binding[n].slot) /\ binding[n].value # NoValue
  /\ \A n \in DOMAIN params \cap DOMAIN binding : binding[n].slot = params[n]
  /\ \A n \in DOMAIN params \cap DOMAIN further :
       /\ further[n] # NoValue
       /\ further[n] = ReadOrEntry(m, c, params[n], ReadSlot(m, c, params[n]))
  /\ \A n \in DOMAIN params \ DOMAIN binding :
       \E k \in 1 .. n : /\ (params[k].kind = "stack") = (params[n].kind = "stack")
                         /\ ReadSlot(m, c, params[k]) = NoValue

LEMMA CollectRecorded ==
  ASSUME NEW m \in Modules, NEW c \in Calls(m), NEW s, IsShape(s)
  PROVE  LET now == CollectAt(m, c, CallSlots(m, c, s)) IN Recorded(m, c, s.params, now.bound, now.spare)
<1> DEFINE params == s.params
           slots == CallSlots(m, c, s)
           binding == Bindings(m, c, slots)
           further == Spare(m, c, slots, binding)
<1>1. params \in Seq(AllSlots)
  BY DEF IsShape
<1>2. /\ slots \in Seq(AllSlots) /\ Len(params) <= Len(slots)
      /\ \A n \in DOMAIN params : slots[n] = params[n]
  BY CallSlotsExtend
<1> HIDE DEF params, slots
<1>3. /\ Len(slots) \in Nat /\ Len(params) \in Nat
      /\ DOMAIN slots = 1 .. Len(slots) /\ DOMAIN params = 1 .. Len(params) /\ DOMAIN params \subseteq DOMAIN slots
  BY <1>1, <1>2
<1>4. /\ DOMAIN binding = Bindable(m, c, slots)
      /\ \A n \in DOMAIN binding : binding[n] = Binding(m, c, slots[n])
  BY DEF Bindings
<1>5. Bindable(m, c, slots) \subseteq DOMAIN slots
  BY DEF Bindable
<1>6. \A n \in Bindable(m, c, slots) : ReadSlot(m, c, slots[n]) # NoValue
  <2>1. ASSUME NEW n \in Bindable(m, c, slots) PROVE ReadSlot(m, c, slots[n]) # NoValue
    <3>1. n \in 1 .. n
      BY <1>3, <1>5, <2>1
    <3> QED BY <2>1, <3>1 DEF Bindable
  <2> QED BY <2>1
<1>7. \A t : Binding(m, c, t).slot = t /\ Binding(m, c, t).value = ReadSlot(m, c, t)
  BY DEF Binding
<1> HIDE DEF binding
<1>8. \A n \in DOMAIN further :
         further[n] # NoValue /\ further[n] = ReadOrEntry(m, c, slots[n], ReadSlot(m, c, slots[n]))
  BY DEF Spare, Readable
<1> HIDE DEF further
<1>9. \E N \in Nat : DOMAIN binding \subseteq 1 .. N
  BY <1>3, <1>4, <1>5
<1>10. \A n \in DOMAIN binding : binding[n] = Binding(m, c, binding[n].slot) /\ binding[n].value # NoValue
  <2>1. ASSUME NEW n \in DOMAIN binding
        PROVE  binding[n] = Binding(m, c, binding[n].slot) /\ binding[n].value # NoValue
    <3>1. binding[n] = Binding(m, c, slots[n]) /\ binding[n].slot = slots[n]
      BY <1>4, <1>7
    <3> QED BY <1>4, <1>6, <1>7, <3>1
  <2> QED BY <2>1
<1>11. \A n \in DOMAIN params \cap DOMAIN binding : binding[n].slot = params[n]
  BY <1>2, <1>4, <1>7
<1>12. \A n \in DOMAIN params \cap DOMAIN further :
         /\ further[n] # NoValue
         /\ further[n] = ReadOrEntry(m, c, params[n], ReadSlot(m, c, params[n]))
  BY <1>2, <1>8
<1>13. ASSUME NEW n \in DOMAIN params \ DOMAIN binding
       PROVE  \E k \in 1 .. n : /\ (params[k].kind = "stack") = (params[n].kind = "stack")
                                /\ ReadSlot(m, c, params[k]) = NoValue
  <2>1. n \in DOMAIN slots /\ n \notin Bindable(m, c, slots)
    BY <1>3, <1>4
  <2>2. PICK k \in 1 .. n : (slots[k].kind = "stack") = (slots[n].kind = "stack") /\ ReadSlot(m, c, slots[k]) = NoValue
    BY <2>1 DEF Bindable
  <2>3. k \in DOMAIN params
    BY <1>3
  <2> QED BY <1>2, <2>2, <2>3
<1>14. Recorded(m, c, params, binding, further)
  BY <1>9, <1>10, <1>11, <1>12, <1>13 DEF Recorded
<1> QED BY <1>14 DEF CollectAt, Collected, params, slots, binding, further

LEMMA CutShape ==
  ASSUME NEW s, IsShape(s), NEW arity \in Nat
  PROVE  /\ IsShape(Cut(s, arity)) /\ Len(Cut(s, arity).params) <= arity
         /\ DOMAIN Cut(s, arity).params \subseteq DOMAIN s.params
         /\ \A n \in DOMAIN Cut(s, arity).params : Cut(s, arity).params[n] = s.params[n]
         /\ Cut(s, arity).returns = s.returns
<1>1. s.params \in Seq(AllSlots) /\ Len(s.params) \in Nat /\ DOMAIN s.params = 1 .. Len(s.params)
  BY DEF IsShape
<1>2. CASE arity < Len(s.params)
  <2> DEFINE new == SubSeq(s.params, 1, arity)
  <2>1. new \in Seq(AllSlots) /\ Len(new) = arity
    <3>1. arity \in Int /\ arity <= Len(s.params) /\ 0 <= arity /\ 1 \in Int /\ 1 <= 1
      BY <1>1, <1>2
    <3> QED BY <1>1, <3>1, Cuts
  <2>2. \A n \in 1 .. arity : new[n] = s.params[n]
    BY <1>1, <1>2
  <2> HIDE DEF new
  <2>3. Cut(s, arity) = [s EXCEPT !.params = new]
    BY <1>2 DEF Cut, new
  <2>4. IsShape(Cut(s, arity)) /\ Cut(s, arity).params = new /\ Cut(s, arity).returns = s.returns
    BY <2>1, <2>3 DEF IsShape
  <2>5. DOMAIN new = 1 .. arity
    BY <2>1
  <2> QED BY <1>1, <1>2, <2>1, <2>2, <2>4, <2>5
<1>3. CASE ~(arity < Len(s.params))
  BY <1>1, <1>3 DEF Cut
<1> QED BY <1>2, <1>3

LEMMA RecordedCut ==
  ASSUME NEW m, NEW c, NEW s, IsShape(s), NEW binding, NEW further, NEW arity \in Nat,
         Recorded(m, c, s.params, binding, further)
  PROVE  Recorded(m, c, Cut(s, arity).params, Trim(binding, arity), further)
<1> DEFINE new == Trim(binding, arity)
           params == Cut(s, arity).params
<1>1. /\ DOMAIN new = {n \in DOMAIN binding : n <= arity}
      /\ \A n \in DOMAIN new : new[n] = binding[n]
  BY DEF Trim
<1>2. /\ params \in Seq(AllSlots) /\ Len(params) <= arity /\ DOMAIN params \subseteq DOMAIN s.params
      /\ \A n \in DOMAIN params : params[n] = s.params[n]
  BY CutShape DEF IsShape
<1> HIDE DEF new, params
<1>3. \A n \in DOMAIN params : n \in Nat /\ n <= arity /\ 1 .. n \subseteq DOMAIN params
  BY <1>2
<1>4. \E N \in Nat : DOMAIN new \subseteq 1 .. N
  BY <1>1 DEF Recorded
<1>5. \A n \in DOMAIN new : new[n] = Binding(m, c, new[n].slot) /\ new[n].value # NoValue
  BY <1>1 DEF Recorded
<1>6. \A n \in DOMAIN params \cap DOMAIN new : new[n].slot = params[n]
  BY <1>1, <1>2 DEF Recorded
<1>7. \A n \in DOMAIN params \cap DOMAIN further :
        /\ further[n] # NoValue
        /\ further[n] = ReadOrEntry(m, c, params[n], ReadSlot(m, c, params[n]))
  BY <1>2 DEF Recorded
<1>8. ASSUME NEW n \in DOMAIN params \ DOMAIN new
      PROVE  \E k \in 1 .. n : /\ (params[k].kind = "stack") = (params[n].kind = "stack")
                               /\ ReadSlot(m, c, params[k]) = NoValue
  <2>1. n \in DOMAIN s.params \ DOMAIN binding
    BY <1>1, <1>2, <1>3
  <2>2. PICK k \in 1 .. n : /\ (s.params[k].kind = "stack") = (s.params[n].kind = "stack")
                            /\ ReadSlot(m, c, s.params[k]) = NoValue
    BY <2>1 DEF Recorded
  <2> QED BY <1>2, <1>3, <2>2
<1>9. Recorded(m, c, params, new, further)
  BY <1>4, <1>5, <1>6, <1>7, <1>8 DEF Recorded
<1> QED BY <1>9 DEF new, params

(* The bindings counted as a prefix are all there.                          *)
LEMMA PrefixBound ==
  ASSUME NEW binding, NEW N \in Nat, DOMAIN binding \subseteq 1 .. N
  PROVE  BoundPrefix(binding) \in Nat /\ \A n \in 1 .. BoundPrefix(binding) : n \in DOMAIN binding
<1> DEFINE K == {k \in {0} \cup DOMAIN binding : BoundUpTo(binding, k)}
<1>1. K \subseteq 0 .. N
  OBVIOUS
<1>2. 0 \in K
  <2>1. BoundUpTo(binding, 0)
    BY DEF BoundUpTo
  <2> QED BY <2>1
<1>3. BoundPrefix(binding) = Highest(K)
  BY DEF BoundPrefix
<1>4. \A k \in K : BoundUpTo(binding, k)
  OBVIOUS
<1> HIDE DEF K
<1>5. Highest(K) \in K
  BY <1>1, <1>2, HighestOf
<1>6. BoundPrefix(binding) \in Nat
  <2>1. 0 .. N \subseteq Nat
    OBVIOUS
  <2> QED BY <1>1, <1>3, <1>5, <2>1, Zenon
<1>7. BoundUpTo(binding, BoundPrefix(binding))
  BY <1>3, <1>4, <1>5
<1>8. \A n \in 1 .. BoundPrefix(binding) : n \in DOMAIN binding
  BY <1>7 DEF BoundUpTo
<1> QED BY <1>6, <1>8

-----------------------------------------------------------------------------
(* The invariant.                                                           *)

Callee(c) == p.calls[c].callee
ParamsOf(c) == Of(p, shapes, indirect, c).params
Keeps(s, u) == \E k \in StackParams(s) : s.params[k].unit = u /\ s.params[k].keep

SignatureTypeOK ==
  /\ p \in Modules
  /\ phase \in {"shapes", "tails", "collect", "refine", "refine stack", "returns", "rewrite", "done"}
  /\ \A f \in DOMAIN shapes : IsShape(shapes[f])
  /\ \A c \in DOMAIN indirect : c \in Calls(p) /\ Callee(c) = "indirect" /\ IsShape(indirect[c])
  /\ DOMAIN indirect \subseteq DOMAIN bound
  /\ DOMAIN bound \subseteq Shaped(p, shapes, indirect)
  /\ DOMAIN spare = DOMAIN bound

(* The driver: nothing is bound before the tail calls are settled, nothing  *)
(* rewritten before the end.                                                *)
InOrder ==
  /\ phase \in {"shapes", "tails"} => DOMAIN bound = {}
  /\ phase # "done" => DOMAIN passed = {} /\ returned = {}

AllRecorded == \A c \in DOMAIN bound : Recorded(p, c, ParamsOf(c), bound[c], spare[c])

(* Once the shapes of the indirect calls were cut, they have every argument. *)
IndirectBound ==
  phase \in {"refine stack", "returns", "rewrite", "done"} =>
    \A c \in DOMAIN bound : Callee(c) = "indirect" => DOMAIN indirect[c].params \subseteq DOMAIN bound[c]

(* A caller that jumps has the stack parameters of the callee, for good.    *)
JumpsKept ==
  phase \notin {"shapes", "tails"} =>
    \A c \in TailCalls : \A u \in StackUnitsOf(shapes[Callee(c)]) : Keeps(shapes[p.calls[c].caller], u)

(* Once the stack parameters were cut, those that were left to be cut are   *)
(* bound at every call.                                                     *)
CallsBound ==
  phase \in {"returns", "rewrite", "done"} =>
    \A c \in DOMAIN bound :
      Callee(c) \in p.body =>
        \/ \E d \in CallsTo(p, Callee(c)) : p.calls[d].tail
        \/ \E k \in StackParams(shapes[Callee(c)]) : shapes[Callee(c)].params[k].keep
        \/ StackParams(shapes[Callee(c)]) \subseteq DOMAIN bound[c]

ReturnsKept == \A f \in p.body \cap DOMAIN shapes : shapes[f].returns = InternalReturns(p, f)

SignatureInv ==
  SignatureTypeOK /\ InOrder /\ AllRecorded /\ IndirectBound /\ JumpsKept /\ CallsBound /\ ReturnsKept

\* At a jump the stack slots of the callee are stored in the order of its parameters.
JumpsStoreInOrder ==
  \A c \in DOMAIN bound :
    p.calls[c].tail /\ Callee(c) # "indirect" =>
      \A n, k \in StackParams(shapes[Callee(c)]) :
        k < n /\ p.calls[c].origin[shapes[Callee(c)].params[n].unit] = "local"
          => p.calls[c].origin[shapes[Callee(c)].params[k].unit] = "local"

LEMMA CallersInside ==
  ASSUME NEW m \in Modules
  PROVE  "indirect" \notin m.body /\ \A c \in Calls(m) : m.calls[c].caller \in m.body
BY SignatureAssumption DEF ModulesAssumption, Calls

LEMMA InvInit == Init => SignatureInv
<1> SUFFICES ASSUME Init PROVE SignatureInv
  OBVIOUS
<1>1. DOMAIN NoMap = {}
  BY DEF NoMap
<1>2. SignatureTypeOK /\ InOrder
  BY <1>1 DEF Init, SignatureTypeOK, InOrder
<1>3. AllRecorded /\ ReturnsKept
  BY <1>1 DEF Init, AllRecorded, ReturnsKept
<1>4. IndirectBound /\ JumpsKept /\ CallsBound
  BY DEF Init, IndirectBound, JumpsKept, CallsBound
<1> QED BY <1>2, <1>3, <1>4 DEF SignatureInv

(* Nothing of the invariant depends on the arguments and returns, and until *)
(* the end there are none.                                                  *)
LEMMA InvStutters ==
  ASSUME SignatureInv, UNCHANGED vars
  PROVE  SignatureInv'
<1>1. p' = p /\ phase' = phase /\ shapes' = shapes /\ indirect' = indirect /\ bound' = bound /\ spare' = spare
      /\ passed' = passed /\ returned' = returned
  BY DEF vars
<1>2. SignatureTypeOK' /\ InOrder'
  BY <1>1 DEF SignatureInv, SignatureTypeOK, InOrder, Callee
<1>3. AllRecorded' /\ IndirectBound' /\ ReturnsKept'
  BY <1>1 DEF SignatureInv, AllRecorded, IndirectBound, ReturnsKept, ParamsOf, Callee
<1>4. JumpsKept' /\ CallsBound'
  BY <1>1 DEF SignatureInv, JumpsKept, CallsBound, TailCalls, Callee
<1> QED BY <1>2, <1>3, <1>4 DEF SignatureInv

LEMMA BuildStep ==
  ASSUME SignatureInv, BuildInitialSignatureShapes
  PROVE  SignatureInv'
<1>1. /\ phase = "shapes" /\ phase' = "tails" /\ p' = p /\ indirect' = indirect /\ bound' = bound /\ spare' = spare
      /\ passed' = passed /\ returned' = returned
      /\ shapes' = Keeping([f \in Callees(p) \ {"indirect"} |-> InitialShape(p, f)])
  BY DEF BuildInitialSignatureShapes
<1>2. p \in Modules /\ DOMAIN bound = {} /\ DOMAIN indirect = {} /\ DOMAIN spare = {}
  BY <1>1 DEF SignatureInv, SignatureTypeOK, InOrder
<1>3. \A f \in DOMAIN shapes' : f \in Callees(p) \ {"indirect"} /\ shapes'[f] = InitialShape(p, f)
  BY <1>1 DEF Keeping
<1>4. \A f \in DOMAIN shapes' : IsShape(shapes'[f]) /\ (f \in p.body => shapes'[f].returns = InternalReturns(p, f))
  BY <1>2, <1>3, InitialTyped
<1>5. SignatureTypeOK'
  BY <1>1, <1>2, <1>4 DEF SignatureTypeOK
<1>6. InOrder' /\ AllRecorded' /\ IndirectBound' /\ JumpsKept' /\ CallsBound'
  BY <1>1, <1>2 DEF SignatureInv, InOrder, AllRecorded, IndirectBound, JumpsKept, CallsBound
<1>7. ReturnsKept'
  BY <1>1, <1>4 DEF ReturnsKept
<1> QED BY <1>5, <1>6, <1>7 DEF SignatureInv

(* A caller takes the stack parameters of a callee.                         *)
LEMMA KeptTyped ==
  ASSUME NEW s \in AllSlots
  PROVE  Kept(s) \in AllSlots /\ Kept(s).unit = s.unit /\ Kept(s).kind = s.kind /\ Kept(s).keep
BY DEF Kept, AllSlots

LEMMA PassesTyped ==
  ASSUME NEW s, IsShape(s), NEW t, IsShape(t)
  PROVE  /\ Marked(s, StackUnitsOf(t)) \in Seq(AllSlots) /\ Forwarded(s, t) \in Seq(AllSlots)
         /\ Len(Marked(s, StackUnitsOf(t))) = Len(s.params)
<1> DEFINE marked == Marked(s, StackUnitsOf(t))
           missing == Missing(s, t)
           forwarded == [n \in DOMAIN missing |-> Kept(missing[n])]
<1>1. /\ s.params \in Seq(AllSlots) /\ t.params \in Seq(AllSlots) /\ Len(s.params) \in Nat
      /\ DOMAIN s.params = 1 .. Len(s.params) /\ \A n \in DOMAIN s.params : s.params[n] \in AllSlots
  BY DEF IsShape
<1>2. marked \in [1 .. Len(s.params) -> AllSlots]
  <2>1. \A n \in DOMAIN s.params : Kept(s.params[n]) \in AllSlots
    BY <1>1, KeptTyped
  <2> QED BY <1>1, <2>1 DEF Marked
<1>3. missing \in Seq(AllSlots)
  BY <1>1, AmongTyped DEF Missing
<1> HIDE DEF missing
<1>4. Len(missing) \in Nat /\ DOMAIN missing = 1 .. Len(missing) /\ \A n \in DOMAIN missing : missing[n] \in AllSlots
  BY <1>3
<1>5. forwarded \in [1 .. Len(missing) -> AllSlots]
  BY <1>4, KeptTyped
<1>6. Forwarded(s, t) = forwarded
  BY DEF Forwarded, missing
<1> HIDE DEF marked, forwarded
<1>7. marked \in Seq(AllSlots) /\ Len(marked) = Len(s.params)
  BY <1>1, <1>2, ListOf
<1>8. forwarded \in Seq(AllSlots)
  BY <1>4, <1>5, ListOf
<1> QED BY <1>6, <1>7, <1>8 DEF marked

LEMMA PropagateStep ==
  ASSUME SignatureInv, PropagateTailCallStackParams
  PROVE  SignatureInv'
<1>1. /\ phase = "tails" /\ phase' = phase /\ p' = p /\ indirect' = indirect /\ bound' = bound /\ spare' = spare
      /\ passed' = passed /\ returned' = returned
  BY DEF PropagateTailCallStackParams
<1>2. PICK c \in TailCalls : shapes' = [shapes EXCEPT ![p.calls[c].caller] = Passes(c)]
  BY DEF PropagateTailCallStackParams
<1> DEFINE s == shapes[p.calls[c].caller]
           t == shapes[p.calls[c].callee]
<1>3. p.calls[c].caller \in DOMAIN shapes /\ p.calls[c].callee \in DOMAIN shapes
  BY DEF TailCalls
<1>4. IsShape(s) /\ IsShape(t)
  BY <1>3 DEF SignatureInv, SignatureTypeOK
<1>5. Passes(c) = [s EXCEPT !.params = Marked(s, StackUnitsOf(t)) \o Forwarded(s, t)]
  BY DEF Passes
<1> HIDE DEF s, t
<1>6. Marked(s, StackUnitsOf(t)) \o Forwarded(s, t) \in Seq(AllSlots)
  BY <1>4, PassesTyped, Joined
<1>7. IsShape(Passes(c)) /\ Passes(c).returns = s.returns
  BY <1>4, <1>5, <1>6 DEF IsShape
<1>8. /\ DOMAIN shapes' = DOMAIN shapes
      /\ \A f \in DOMAIN shapes : IsShape(shapes'[f]) /\ shapes'[f].returns = shapes[f].returns
  BY <1>2, <1>7 DEF SignatureInv, SignatureTypeOK, s
<1>9. DOMAIN bound = {} /\ DOMAIN indirect = {}
  BY <1>1 DEF SignatureInv, SignatureTypeOK, InOrder
<1>10. SignatureTypeOK'
  BY <1>1, <1>8, <1>9 DEF SignatureInv, SignatureTypeOK
<1>11. InOrder' /\ AllRecorded' /\ IndirectBound' /\ JumpsKept' /\ CallsBound'
  BY <1>1, <1>9 DEF SignatureInv, InOrder, AllRecorded, IndirectBound, JumpsKept, CallsBound
<1>12. ReturnsKept'
  BY <1>1, <1>8 DEF SignatureInv, ReturnsKept
<1> QED BY <1>10, <1>11, <1>12 DEF SignatureInv

(* When nothing is left to take, the caller keeps every stack parameter of  *)
(* the callee.                                                              *)
LEMMA NothingLeft ==
  ASSUME NEW s, IsShape(s), NEW t, IsShape(t),
         s.params = Marked(s, StackUnitsOf(t)) \o Forwarded(s, t)
  PROVE  \A u \in StackUnitsOf(t) : Keeps(s, u)
<1> DEFINE marked == Marked(s, StackUnitsOf(t))
           absent == {t.params[n] : n \in {k \in StackParams(t) : t.params[k].unit \notin StackUnitsOf(s)}}
<1>1. /\ s.params \in Seq(AllSlots) /\ t.params \in Seq(AllSlots) /\ Len(s.params) \in Nat
      /\ \A n \in DOMAIN s.params : s.params[n] \in AllSlots
  BY ShapeFacts, Zenon
<1>2. marked \in Seq(AllSlots) /\ Forwarded(s, t) \in Seq(AllSlots) /\ Len(marked) = Len(s.params)
  BY PassesTyped
<1>3. Forwarded(s, t) = <<>> /\ s.params = marked
  <2> HIDE DEF marked
  <2>1. Len(s.params) = Len(marked) + Len(Forwarded(s, t)) /\ Len(Forwarded(s, t)) \in Nat
    BY <1>2, Joined DEF marked
  <2>2. Forwarded(s, t) = <<>>
    BY <1>1, <1>2, <2>1
  <2> QED BY <1>2, <2>2 DEF marked
<1>4. Missing(s, t) = <<>>
  <2>1. Missing(s, t) \in Seq(AllSlots)
    BY <1>1, AmongTyped DEF Missing
  <2>2. DOMAIN Forwarded(s, t) = DOMAIN Missing(s, t)
    BY DEF Forwarded
  <2> QED BY <1>3, <2>1, <2>2
<1>5. \A k \in DOMAIN t.params : t.params[k] \notin absent
  <2>1. Among(t.params, absent) = <<>>
    BY <1>4 DEF Missing
  <2> HIDE DEF absent
  <2> QED BY <1>1, <2>1, AmongOf
<1>6. ASSUME NEW k \in StackParams(t) PROVE Keeps(s, t.params[k].unit)
  <2>1. t.params[k].unit \in StackUnitsOf(s)
    BY <1>5 DEF StackParams
  <2>2. PICK n \in StackParams(s) : s.params[n].unit = t.params[k].unit
    BY <2>1 DEF StackUnitsOf
  <2>3. s.params[n].unit \in StackUnitsOf(t)
    BY <2>2 DEF StackUnitsOf
  <2>4. n \in DOMAIN s.params
    BY DEF StackParams
  <2>5. marked[n] = Kept(s.params[n])
    BY <2>3, <2>4 DEF Marked
  <2>6. s.params[n].keep
    BY <1>1, <1>3, <2>4, <2>5, KeptTyped
  <2> QED BY <2>2, <2>6 DEF Keeps
<1> QED BY <1>6 DEF StackUnitsOf

LEMMA PropagatedStep ==
  ASSUME SignatureInv, TailsPropagated
  PROVE  SignatureInv'
<1>1. /\ phase = "tails" /\ phase' = "collect" /\ p' = p /\ shapes' = shapes /\ indirect' = indirect
      /\ bound' = bound /\ spare' = spare /\ passed' = passed /\ returned' = returned
      /\ \A c \in TailCalls : Passes(c) = shapes[p.calls[c].caller]
  BY DEF TailsPropagated
<1>2. DOMAIN bound = {} /\ DOMAIN indirect = {}
  BY <1>1 DEF SignatureInv, SignatureTypeOK, InOrder
<1>3. SignatureTypeOK'
  BY <1>1, <1>2 DEF SignatureInv, SignatureTypeOK
<1>4. InOrder' /\ AllRecorded' /\ IndirectBound' /\ CallsBound'
  BY <1>1, <1>2 DEF SignatureInv, InOrder, AllRecorded, IndirectBound, CallsBound
<1>5. ASSUME NEW c \in TailCalls
      PROVE  \A u \in StackUnitsOf(shapes[Callee(c)]) : Keeps(shapes[p.calls[c].caller], u)
  <2> DEFINE s == shapes[p.calls[c].caller]
             t == shapes[p.calls[c].callee]
  <2>1. IsShape(s) /\ IsShape(t)
    BY DEF TailCalls, SignatureInv, SignatureTypeOK
  <2>2. s = [s EXCEPT !.params = Marked(s, StackUnitsOf(t)) \o Forwarded(s, t)]
    BY <1>1 DEF Passes
  <2> HIDE DEF s, t
  <2>3. s.params = Marked(s, StackUnitsOf(t)) \o Forwarded(s, t)
    BY <2>1, <2>2 DEF IsShape
  <2>4. \A u \in StackUnitsOf(t) : Keeps(s, u)
    BY <2>1, <2>3, NothingLeft
  <2> QED BY <2>4 DEF s, t, Callee
<1>6. JumpsKept'
  <2>1. TailCalls' = TailCalls
    BY <1>1 DEF TailCalls
  <2> QED BY <1>1, <1>5, <2>1 DEF JumpsKept, Callee
<1>7. ReturnsKept'
  BY <1>1 DEF SignatureInv, ReturnsKept
<1> QED BY <1>3, <1>4, <1>6, <1>7 DEF SignatureInv

(* The calls of one function: what was recorded for the others stays.       *)
LEMMA CollectStep ==
  ASSUME SignatureInv, NEW f \in p.body, CollectSignatureCallArgs(f)
  PROVE  SignatureInv'
<1>1. /\ phase = "collect" /\ p' = p /\ shapes' = shapes /\ passed' = passed /\ returned' = returned
      /\ phase' \in {"collect", "refine"}
      /\ indirect' = Over(indirect, IndirectShapes(p, f))
  BY DEF CollectSignatureCallArgs
<1> DEFINE at(c) == CollectAt(p, c, CallSlots(p, c, Of(p, shapes, indirect', c)))
           here == {d \in Shaped(p, shapes, indirect') : p.calls[d].caller = f}
           now == [c \in here |-> at(c)]
<1>2. /\ bound' = Over(bound, [c \in here |-> now[c].bound])
      /\ spare' = Over(spare, [c \in here |-> now[c].spare])
  BY DEF CollectSignatureCallArgs
<1>3. p \in Modules
  BY DEF SignatureInv, SignatureTypeOK
<1>4. ASSUME NEW c \in DOMAIN indirect'
      PROVE  c \in Calls(p) /\ Callee(c) = "indirect" /\ IsShape(indirect'[c])
  <2>1. CASE c \in DOMAIN IndirectShapes(p, f)
    <3>1. indirect'[c] = IndirectShape(p, c)
      BY <1>1, <2>1 DEF Over, IndirectShapes
    <3> QED BY <2>1, <3>1, IndirectTyped DEF IndirectShapes, CallsTo, Callee
  <2>2. CASE c \notin DOMAIN IndirectShapes(p, f)
    <3>1. c \in DOMAIN indirect /\ indirect'[c] = indirect[c]
      BY <1>1, <1>4, <2>2 DEF Over
    <3> QED BY <3>1 DEF SignatureInv, SignatureTypeOK
  <2> QED BY <2>1, <2>2
<1>5. ASSUME NEW c \in Shaped(p, shapes, indirect')
      PROVE  c \in Calls(p) /\ IsShape(Of(p, shapes, indirect', c))
  <2>1. c \in Calls(p)
    BY DEF Shaped
  <2>2. CASE Callee(c) = "indirect"
    BY <1>4, <2>1, <2>2 DEF Shaped, Of, Callee
  <2>3. CASE Callee(c) # "indirect"
    BY <2>1, <2>3 DEF Shaped, Of, Callee, SignatureInv, SignatureTypeOK
  <2> QED BY <2>1, <2>2, <2>3
<1>6. DOMAIN indirect \subseteq DOMAIN indirect'
  BY <1>1 DEF Over
<1>7. DOMAIN bound' = DOMAIN bound \cup here
  BY <1>2 DEF Over
<1>8. DOMAIN indirect' \subseteq DOMAIN bound'
  <2>1. ASSUME NEW c \in DOMAIN indirect' PROVE c \in DOMAIN bound'
    <3>1. CASE c \in DOMAIN IndirectShapes(p, f)
      <4>1. c \in here
        BY <1>4, <2>1, <3>1 DEF IndirectShapes, Shaped, Callee
      <4> QED BY <1>7, <4>1
    <3>2. CASE c \notin DOMAIN IndirectShapes(p, f)
      <4>1. c \in DOMAIN indirect
        BY <1>1, <2>1, <3>2 DEF Over
      <4> QED BY <1>7, <4>1 DEF SignatureInv, SignatureTypeOK
    <3> QED BY <3>1, <3>2
  <2> QED BY <2>1
<1>9. DOMAIN bound' \subseteq Shaped(p, shapes, indirect')
  <2>1. Shaped(p, shapes, indirect) \subseteq Shaped(p, shapes, indirect')
    BY <1>6 DEF Shaped
  <2> QED BY <1>7, <2>1 DEF SignatureInv, SignatureTypeOK
<1>10. ASSUME NEW c \in here
       PROVE  Recorded(p, c, Of(p, shapes, indirect', c).params, bound'[c], spare'[c])
  <2> DEFINE s == Of(p, shapes, indirect', c)
  <2>1. c \in Calls(p) /\ IsShape(s)
    BY <1>5
  <2>2. bound'[c] = CollectAt(p, c, CallSlots(p, c, s)).bound /\ spare'[c] = CollectAt(p, c, CallSlots(p, c, s)).spare
    BY <1>2 DEF Over
  <2> HIDE DEF s
  <2>3. Recorded(p, c, s.params, bound'[c], spare'[c])
    BY <1>3, <2>1, <2>2, CollectRecorded
  <2> QED BY <2>3 DEF s
<1>11. ASSUME NEW c \in DOMAIN bound', c \notin here
       PROVE  Recorded(p, c, Of(p, shapes, indirect', c).params, bound'[c], spare'[c])
  <2>1. c \in DOMAIN bound /\ bound'[c] = bound[c]
    BY <1>2, <1>7, <1>11 DEF Over
  <2>2. c \in Shaped(p, shapes, indirect') /\ c \in Shaped(p, shapes, indirect)
    BY <1>9, <2>1 DEF SignatureInv, SignatureTypeOK
  <2>3. p.calls[c].caller # f
    BY <1>11, <2>2
  <2>4. c \notin DOMAIN IndirectShapes(p, f)
    BY <2>3 DEF IndirectShapes
  <2>5. ASSUME c \in DOMAIN indirect PROVE indirect'[c] = indirect[c]
    BY <1>1, <2>4, <2>5 DEF Over
  <2>6. Of(p, shapes, indirect', c) = Of(p, shapes, indirect, c)
    BY <2>2, <2>5 DEF Of, Shaped
  <2>7. c \in DOMAIN spare
    BY <2>1 DEF SignatureInv, SignatureTypeOK
  <2>8. spare'[c] = spare[c]
    BY <1>2, <1>11, <2>7 DEF Over
  <2> QED BY <2>1, <2>6, <2>8 DEF SignatureInv, AllRecorded, ParamsOf
<1>17. DOMAIN spare' = DOMAIN bound'
  <2>1. DOMAIN spare' = DOMAIN spare \cup here
    BY <1>2 DEF Over
  <2> QED BY <1>7, <2>1 DEF SignatureInv, SignatureTypeOK
<1>12. SignatureTypeOK'
  BY <1>17, <1>1, <1>3, <1>4, <1>8, <1>9 DEF SignatureInv, SignatureTypeOK, Callee
<1>13. AllRecorded'
  BY <1>1, <1>10, <1>11 DEF AllRecorded, ParamsOf
<1>14. InOrder' /\ IndirectBound' /\ CallsBound'
  BY <1>1 DEF SignatureInv, InOrder, IndirectBound, CallsBound
<1>15. JumpsKept'
  <2>1. TailCalls' = TailCalls
    BY <1>1 DEF TailCalls
  <2> QED BY <1>1, <2>1 DEF SignatureInv, JumpsKept, Callee
<1>16. ReturnsKept'
  BY <1>1 DEF SignatureInv, ReturnsKept
<1> QED BY <1>12, <1>13, <1>14, <1>15, <1>16 DEF SignatureInv

LEMMA PrefixOfCall ==
  ASSUME SignatureInv, NEW c \in DOMAIN bound
  PROVE  BoundPrefix(bound[c]) \in Nat /\ \A n \in 1 .. BoundPrefix(bound[c]) : n \in DOMAIN bound[c]
<1>1. PICK N \in Nat : DOMAIN bound[c] \subseteq 1 .. N
  BY DEF SignatureInv, AllRecorded, Recorded
<1> QED BY <1>1, PrefixBound

LEMMA RefineIndirectStep ==
  ASSUME SignatureInv, RefineIndirectCallsiteParamShapes
  PROVE  SignatureInv'
<1> DEFINE arity(c) == BoundPrefix(bound[c])
<1>1. /\ phase = "refine" /\ phase' = "refine stack" /\ p' = p /\ shapes' = shapes /\ spare' = spare
      /\ passed' = passed /\ returned' = returned
      /\ indirect' = [c \in DOMAIN indirect |-> Cut(indirect[c], arity(c))]
      /\ bound' = [c \in DOMAIN bound |-> IF c \in DOMAIN indirect THEN Trim(bound[c], arity(c)) ELSE bound[c]]
  BY DEF RefineIndirectCallsiteParamShapes
<1>2. /\ \A c \in DOMAIN indirect : c \in Calls(p) /\ Callee(c) = "indirect" /\ IsShape(indirect[c])
      /\ DOMAIN indirect \subseteq DOMAIN bound /\ DOMAIN bound \subseteq Shaped(p, shapes, indirect)
      /\ DOMAIN spare = DOMAIN bound
  BY DEF SignatureInv, SignatureTypeOK
<1>3. ASSUME NEW c \in DOMAIN bound
      PROVE  arity(c) \in Nat /\ \A n \in 1 .. arity(c) : n \in DOMAIN bound[c]
  BY PrefixOfCall
<1> HIDE DEF arity
<1>4. ASSUME NEW c \in DOMAIN indirect
      PROVE  /\ indirect'[c] = Cut(indirect[c], arity(c)) /\ bound'[c] = Trim(bound[c], arity(c))
             /\ IsShape(indirect'[c])
             /\ \A n \in DOMAIN indirect'[c].params : n \in 1 .. arity(c)
  <2>1. indirect'[c] = Cut(indirect[c], arity(c)) /\ bound'[c] = Trim(bound[c], arity(c))
    BY <1>1, <1>2
  <2>2. arity(c) \in Nat
    BY <1>2, <1>3
  <2>3. IsShape(indirect'[c]) /\ Len(indirect'[c].params) <= arity(c)
    BY <1>2, <2>1, <2>2, CutShape
  <2>4. \A n \in DOMAIN indirect'[c].params : n \in 1 .. arity(c)
    BY <2>2, <2>3, ShapeFacts
  <2> QED BY <2>1, <2>3, <2>4
<1>5. DOMAIN bound' = DOMAIN bound /\ DOMAIN indirect' = DOMAIN indirect
  BY <1>1
<1>6. Shaped(p, shapes, indirect') = Shaped(p, shapes, indirect)
  BY <1>5 DEF Shaped
<1>7. SignatureTypeOK'
  BY <1>1, <1>2, <1>4, <1>5, <1>6 DEF SignatureInv, SignatureTypeOK, Callee
<1>8. ASSUME NEW c \in DOMAIN bound
      PROVE  Recorded(p, c, Of(p, shapes, indirect', c).params, bound'[c], spare[c])
  <2>1. c \in Shaped(p, shapes, indirect) /\ Recorded(p, c, Of(p, shapes, indirect, c).params, bound[c], spare[c])
    BY <1>2 DEF SignatureInv, AllRecorded, ParamsOf
  <2>2. CASE Callee(c) = "indirect"
    <3>1. /\ c \in DOMAIN indirect /\ Of(p, shapes, indirect', c) = indirect'[c]
          /\ Of(p, shapes, indirect, c) = indirect[c]
      BY <2>1, <2>2 DEF Shaped, Of, Callee
    <3>2. Recorded(p, c, Cut(indirect[c], arity(c)).params, Trim(bound[c], arity(c)), spare[c])
      BY <1>2, <1>3, <2>1, <3>1, RecordedCut
    <3> QED BY <1>4, <3>1, <3>2
  <2>3. CASE Callee(c) # "indirect"
    <3>1. c \notin DOMAIN indirect /\ Of(p, shapes, indirect', c) = Of(p, shapes, indirect, c)
      BY <1>2, <2>3 DEF Of, Callee
    <3> QED BY <1>1, <2>1, <3>1
  <2> QED BY <2>2, <2>3
<1>9. AllRecorded'
  BY <1>1, <1>5, <1>8 DEF AllRecorded, ParamsOf
<1>10. IndirectBound'
  <2>1. ASSUME NEW c \in DOMAIN bound, Callee(c) = "indirect"
        PROVE  DOMAIN indirect'[c].params \subseteq DOMAIN bound'[c]
    <3>1. c \in DOMAIN indirect
      BY <1>2, <2>1 DEF Shaped, Callee
    <3>2. DOMAIN bound'[c] = {n \in DOMAIN bound[c] : n <= arity(c)}
      BY <1>4, <3>1 DEF Trim
    <3>3. \A n \in DOMAIN indirect'[c].params : n \in DOMAIN bound[c] /\ n <= arity(c)
      BY <1>3, <1>4, <3>1
    <3> QED BY <3>2, <3>3
  <2> QED BY <1>1, <1>5, <2>1 DEF IndirectBound, Callee
<1>11. InOrder' /\ CallsBound' /\ ReturnsKept'
  BY <1>1 DEF SignatureInv, InOrder, CallsBound, ReturnsKept
<1>12. JumpsKept'
  <2>1. TailCalls' = TailCalls
    BY <1>1 DEF TailCalls
  <2> QED BY <1>1, <2>1 DEF SignatureInv, JumpsKept, Callee
<1> QED BY <1>7, <1>9, <1>10, <1>11, <1>12 DEF SignatureInv

(* The arity left to a function is bound at every one of its calls.         *)
LEMMA ArityLeft ==
  ASSUME SignatureInv, NEW f \in DOMAIN shapes
  PROVE  /\ FinalArity(f) \in Nat /\ FinalArity(f) <= Len(shapes[f].params)
         /\ \A c \in CallsTo(p, f) \cap DOMAIN bound : FinalArity(f) <= BoundPrefix(bound[c])
<1> DEFINE S == {BoundPrefix(bound[c]) : c \in CallsTo(p, f) \cap DOMAIN bound} \cup {Len(shapes[f].params)}
<1>1. IsShape(shapes[f])
  BY DEF SignatureInv, SignatureTypeOK
<1>2. Len(shapes[f].params) \in Nat
  BY <1>1, ShapeFacts
<1>3. \A c \in CallsTo(p, f) \cap DOMAIN bound : BoundPrefix(bound[c]) \in Nat
  BY PrefixOfCall
<1>4. S \subseteq Nat /\ S # {} /\ Len(shapes[f].params) \in S
      /\ \A c \in CallsTo(p, f) \cap DOMAIN bound : BoundPrefix(bound[c]) \in S
  BY <1>2, <1>3
<1>5. FinalArity(f) = Lowest(S)
  BY DEF FinalArity
<1> HIDE DEF S
<1>6. Lowest(S) \in S /\ \A n \in S : Lowest(S) <= n
  BY <1>4, LowestOf
<1> QED BY <1>4, <1>5, <1>6

LEMMA RefineInternalStep ==
  ASSUME SignatureInv, RefineInternalStackParamShapes
  PROVE  SignatureInv'
<1> DEFINE arity(f) == FinalArity(f)
           shorter(f) == f \in Trimmed /\ arity(f) < Len(shapes[f].params)
<1>1. /\ phase = "refine stack" /\ phase' = "returns" /\ p' = p /\ indirect' = indirect /\ spare' = spare
      /\ passed' = passed /\ returned' = returned
      /\ shapes' = [f \in DOMAIN shapes |-> IF f \in Trimmed THEN Cut(shapes[f], arity(f)) ELSE shapes[f]]
      /\ DOMAIN bound' = DOMAIN bound
      /\ \A c \in DOMAIN bound :
           bound'[c] = IF shorter(Callee(c)) THEN Trim(bound[c], arity(Callee(c))) ELSE bound[c]
  BY DEF RefineInternalStackParamShapes, Callee
<1>2. /\ p \in Modules /\ \A f \in DOMAIN shapes : IsShape(shapes[f])
      /\ DOMAIN indirect \subseteq DOMAIN bound /\ DOMAIN bound \subseteq Shaped(p, shapes, indirect)
      /\ DOMAIN spare = DOMAIN bound
      /\ \A c \in DOMAIN indirect : c \in Calls(p) /\ Callee(c) = "indirect" /\ IsShape(indirect[c])
  BY DEF SignatureInv, SignatureTypeOK
<1>3. ASSUME NEW f \in DOMAIN shapes
      PROVE  /\ arity(f) \in Nat /\ arity(f) <= Len(shapes[f].params) /\ Len(shapes[f].params) \in Nat
             /\ \A c \in CallsTo(p, f) \cap DOMAIN bound : arity(f) <= BoundPrefix(bound[c])
  BY <1>2, ArityLeft, ShapeFacts
<1> HIDE DEF arity
<1>4. ASSUME NEW f \in DOMAIN shapes
      PROVE  /\ f \notin Trimmed => shapes'[f] = shapes[f]
             /\ f \in Trimmed => shapes'[f] = Cut(shapes[f], arity(f)) /\ Len(shapes'[f].params) <= arity(f)
             /\ IsShape(shapes'[f]) /\ shapes'[f].returns = shapes[f].returns
             /\ DOMAIN shapes'[f].params \subseteq DOMAIN shapes[f].params
             /\ \A n \in DOMAIN shapes'[f].params : shapes'[f].params[n] = shapes[f].params[n]
  <2>1. CASE f \in Trimmed
    <3>1. shapes'[f] = Cut(shapes[f], arity(f))
      BY <1>1, <2>1
    <3> QED BY <1>2, <1>3, <2>1, <3>1, CutShape
  <2>2. CASE f \notin Trimmed
    <3>1. shapes'[f] = shapes[f]
      BY <1>1, <2>2
    <3> QED BY <1>2, <2>2, <3>1
  <2> QED BY <2>1, <2>2
<1>5. DOMAIN shapes' = DOMAIN shapes
  BY <1>1
<1>6. Shaped(p, shapes', indirect) = Shaped(p, shapes, indirect)
  BY <1>5 DEF Shaped
<1>7. SignatureTypeOK'
  BY <1>1, <1>2, <1>4, <1>5, <1>6 DEF SignatureInv, SignatureTypeOK, Callee
<1>8. "indirect" \notin p.body
  BY <1>2, CallersInside
<1>9. ASSUME NEW c \in DOMAIN bound
      PROVE  Recorded(p, c, Of(p, shapes', indirect, c).params, bound'[c], spare[c])
  <2> DEFINE f == Callee(c)
  <2>1. c \in Shaped(p, shapes, indirect) /\ Recorded(p, c, Of(p, shapes, indirect, c).params, bound[c], spare[c])
    BY <1>2 DEF SignatureInv, AllRecorded, ParamsOf
  <2>2. CASE f = "indirect"
    <3>1. f \notin Trimmed
      BY <1>8, <2>2 DEF Trimmed
    <3> QED BY <1>1, <2>1, <2>2, <3>1 DEF Of, Callee
  <2>3. CASE f # "indirect"
    <3>1. /\ f \in DOMAIN shapes /\ Of(p, shapes', indirect, c) = shapes'[f]
          /\ Of(p, shapes, indirect, c) = shapes[f]
      BY <2>1, <2>3 DEF Shaped, Of, Callee
    <3>2. CASE shorter(f)
      <4>1. shapes'[f] = Cut(shapes[f], arity(f)) /\ bound'[c] = Trim(bound[c], arity(f))
        BY <1>1, <1>4, <3>1, <3>2
      <4>2. Recorded(p, c, Cut(shapes[f], arity(f)).params, Trim(bound[c], arity(f)), spare[c])
        BY <1>2, <1>3, <2>1, <3>1, RecordedCut
      <4> QED BY <3>1, <4>1, <4>2
    <3>3. CASE ~shorter(f)
      <4>1. bound'[c] = bound[c]
        BY <1>1, <3>3
      <4>2. shapes'[f] = shapes[f]
        BY <1>4, <3>1, <3>3 DEF Cut
      <4> QED BY <2>1, <3>1, <4>1, <4>2
    <3> QED BY <3>2, <3>3
  <2> QED BY <2>2, <2>3
<1>10. AllRecorded'
  BY <1>1, <1>9 DEF AllRecorded, ParamsOf
<1>11. IndirectBound'
  <2>1. ASSUME NEW c \in DOMAIN bound, Callee(c) = "indirect" PROVE bound'[c] = bound[c]
    <3>1. Callee(c) \notin Trimmed
      BY <1>8, <2>1 DEF Trimmed
    <3> QED BY <1>1, <3>1
  <2> QED BY <1>1, <2>1 DEF SignatureInv, IndirectBound, Callee
<1>12. ASSUME NEW f \in DOMAIN shapes, NEW k \in StackParams(shapes[f]), shapes[f].params[k].keep
       PROVE  f \notin Trimmed /\ shapes'[f] = shapes[f]
  <2>1. f \notin Trimmed
    BY <1>12 DEF Trimmed
  <2> QED BY <1>4, <2>1
<1>13. JumpsKept'
  <2>1. TailCalls' = TailCalls
    BY <1>1, <1>5 DEF TailCalls
  <2>2. ASSUME NEW c \in TailCalls, NEW u \in StackUnitsOf(shapes'[Callee(c)])
        PROVE  Keeps(shapes'[p.calls[c].caller], u)
    <3>1. Callee(c) \in DOMAIN shapes /\ p.calls[c].caller \in DOMAIN shapes
      BY DEF TailCalls, Callee
    <3>2. u \in StackUnitsOf(shapes[Callee(c)])
      BY <1>4, <3>1 DEF StackUnitsOf, StackParams
    <3>3. Keeps(shapes[p.calls[c].caller], u)
      BY <1>1, <3>2 DEF SignatureInv, JumpsKept
    <3>4. shapes'[p.calls[c].caller] = shapes[p.calls[c].caller]
      BY <1>12, <3>1, <3>3 DEF Keeps
    <3> QED BY <3>3, <3>4
  <2> QED BY <1>1, <2>1, <2>2 DEF JumpsKept, Callee
<1>14. ASSUME NEW c \in DOMAIN bound, Callee(c) \in p.body,
              ~\E d \in CallsTo(p, Callee(c)) : p.calls[d].tail,
              ~\E k \in StackParams(shapes'[Callee(c)]) : shapes'[Callee(c)].params[k].keep
       PROVE  StackParams(shapes'[Callee(c)]) \subseteq DOMAIN bound'[c]
  <2> DEFINE f == Callee(c)
  <2>1. c \in Calls(p) /\ f \in DOMAIN shapes
    BY <1>2, <1>8, <1>14 DEF Shaped, Callee
  <2>2. ASSUME NEW n \in StackParams(shapes'[f]) PROVE n \in DOMAIN bound'[c]
    <3>1. n \in StackParams(shapes[f]) /\ n \in DOMAIN shapes'[f].params
      BY <1>4, <2>1, <2>2 DEF StackParams
    <3>2. c \in CallsTo(p, f) \cap DOMAIN bound
      BY <2>1 DEF CallsTo, Callee
    <3>3. ASSUME NEW k \in StackParams(shapes[f]), shapes[f].params[k].keep PROVE FALSE
      BY <1>12, <1>14, <2>1, <3>3
    <3>4. f \in Trimmed
      BY <1>14, <2>1, <3>1, <3>2, <3>3 DEF Trimmed
    <3>5. IsShape(shapes'[f]) /\ Len(shapes'[f].params) <= arity(f) /\ arity(f) \in Nat
          /\ arity(f) <= BoundPrefix(bound[c]) /\ BoundPrefix(bound[c]) \in Nat
      BY <1>3, <1>4, <2>1, <3>2, <3>4, PrefixOfCall
    <3>6. n \in 1 .. Len(shapes'[f].params) /\ Len(shapes'[f].params) \in Nat
      BY <3>1, <3>5, ShapeFacts
    <3>7. n <= arity(f) /\ n \in 1 .. BoundPrefix(bound[c])
      BY <3>5, <3>6
    <3>8. n \in DOMAIN bound[c]
      BY <3>7, PrefixOfCall
    <3> QED BY <1>1, <3>7, <3>8 DEF Trim
  <2> QED BY <2>2
<1>15. CallsBound'
  BY <1>1, <1>14 DEF CallsBound, Callee
<1>16. InOrder'
  BY <1>1 DEF SignatureInv, InOrder
<1>17. ReturnsKept'
  BY <1>1, <1>4, <1>5 DEF SignatureInv, ReturnsKept
<1> QED BY <1>7, <1>10, <1>11, <1>13, <1>15, <1>16, <1>17 DEF SignatureInv

LEMMA ReturnsStep ==
  ASSUME SignatureInv, AddDemandedExternalReturns
  PROVE  SignatureInv'
<1> DEFINE old(f) == IF f \in DOMAIN shapes THEN shapes[f] ELSE NoShape
<1>1. /\ phase = "returns" /\ phase' = "rewrite" /\ p' = p /\ indirect' = indirect /\ bound' = bound
      /\ spare' = spare /\ passed' = passed /\ returned' = returned
      /\ shapes' = [f \in DOMAIN shapes \cup AskedExternals |->
                      IF f \in AskedExternals THEN WithReturns(old(f), Asked(f)) ELSE shapes[f]]
  BY DEF AddDemandedExternalReturns
<1>2. /\ p \in Modules /\ \A f \in DOMAIN shapes : IsShape(shapes[f])
      /\ DOMAIN bound \subseteq Shaped(p, shapes, indirect)
  BY DEF SignatureInv, SignatureTypeOK
<1>3. \A f \in AskedExternals : f \notin p.body /\ f # "indirect"
  BY DEF AskedExternals
<1>4. ASSUME NEW s, IsShape(s), NEW slots, slots \subseteq AllSlots
      PROVE  IsShape(WithReturns(s, slots)) /\ WithReturns(s, slots).params = s.params
  BY <1>4 DEF WithReturns, IsShape
<1>5. ASSUME NEW f PROVE Asked(f) \subseteq AllSlots
  BY UnknownReturnsTyped DEF Asked
<1>6. ASSUME NEW f PROVE IsShape(old(f))
  BY <1>2, NoShapeTyped
<1> HIDE DEF old
<1>7. ASSUME NEW f \in DOMAIN shapes'
      PROVE  IsShape(shapes'[f]) /\ shapes'[f].params = old(f).params
             /\ (f \in p.body => f \in DOMAIN shapes /\ shapes'[f] = shapes[f])
  <2>1. CASE f \in AskedExternals
    <3>1. shapes'[f] = WithReturns(old(f), Asked(f))
      BY <1>1, <2>1
    <3> QED BY <1>3, <1>4, <1>5, <1>6, <2>1, <3>1
  <2>2. CASE f \notin AskedExternals
    <3>1. f \in DOMAIN shapes /\ shapes'[f] = shapes[f]
      BY <1>1, <2>2
    <3> QED BY <1>2, <3>1 DEF old
  <2> QED BY <2>1, <2>2
<1>8. DOMAIN shapes \subseteq DOMAIN shapes'
  BY <1>1
<1>9. \A f \in DOMAIN shapes : shapes'[f].params = shapes[f].params
  BY <1>7, <1>8 DEF old
<1>10. \A f \in DOMAIN shapes' \ DOMAIN shapes : shapes'[f].params = <<>>
  BY <1>7, NoShapeTyped DEF old
<1>11. Shaped(p, shapes, indirect) \subseteq Shaped(p, shapes', indirect)
  BY <1>8 DEF Shaped
<1>12. SignatureTypeOK'
  BY <1>1, <1>7, <1>11 DEF SignatureInv, SignatureTypeOK, Callee
<1>13. ASSUME NEW c \in DOMAIN bound
       PROVE  /\ Callee(c) # "indirect" => Callee(c) \in DOMAIN shapes
              /\ Of(p, shapes', indirect, c).params = Of(p, shapes, indirect, c).params
  BY <1>2, <1>9 DEF Shaped, Of, Callee
<1>14. AllRecorded'
  BY <1>1, <1>13 DEF SignatureInv, AllRecorded, ParamsOf
<1>15. IndirectBound' /\ InOrder'
  BY <1>1 DEF SignatureInv, IndirectBound, InOrder, Callee
<1>16. JumpsKept'
  <2>1. ASSUME NEW c \in Calls(p), p.calls[c].tail, Callee(c) # p.calls[c].caller,
               Callee(c) \in DOMAIN shapes', p.calls[c].caller \in DOMAIN shapes',
               NEW u \in StackUnitsOf(shapes'[Callee(c)])
        PROVE  Keeps(shapes'[p.calls[c].caller], u)
    <3>1. p.calls[c].caller \in p.body
      BY <1>2, CallersInside
    <3>2. p.calls[c].caller \in DOMAIN shapes /\ shapes'[p.calls[c].caller] = shapes[p.calls[c].caller]
      BY <1>7, <2>1, <3>1
    <3>3. Callee(c) \in DOMAIN shapes
      BY <1>10, <2>1 DEF StackUnitsOf, StackParams
    <3>4. StackUnitsOf(shapes'[Callee(c)]) = StackUnitsOf(shapes[Callee(c)])
      BY <1>9, <3>3 DEF StackUnitsOf, StackParams
    <3>5. c \in TailCalls
      BY <2>1, <3>2, <3>3 DEF TailCalls, Callee
    <3> QED BY <1>1, <2>1, <3>2, <3>4, <3>5 DEF SignatureInv, JumpsKept
  <2> QED BY <1>1, <2>1 DEF JumpsKept, TailCalls, Callee
<1>17. CallsBound'
  <2>1. ASSUME NEW c \in DOMAIN bound, Callee(c) \in p.body PROVE shapes'[Callee(c)] = shapes[Callee(c)]
    <3>1. Callee(c) \in DOMAIN shapes'
      BY <1>2, <1>8, <1>13, <2>1, CallersInside
    <3> QED BY <1>7, <2>1, <3>1
  <2> QED BY <1>1, <2>1 DEF SignatureInv, CallsBound, Callee
<1>18. ReturnsKept'
  BY <1>1, <1>7 DEF SignatureInv, ReturnsKept
<1> QED BY <1>12, <1>14, <1>15, <1>16, <1>17, <1>18 DEF SignatureInv

LEMMA RewriteStep ==
  ASSUME SignatureInv, RewriteSignatureShapes
  PROVE  SignatureInv'
<1>1. /\ phase = "rewrite" /\ phase' = "done" /\ p' = p /\ shapes' = shapes /\ indirect' = indirect
      /\ bound' = bound /\ spare' = spare
  BY DEF RewriteSignatureShapes
<1>2. SignatureTypeOK' /\ InOrder'
  BY <1>1 DEF SignatureInv, SignatureTypeOK, InOrder, Callee
<1>3. AllRecorded' /\ IndirectBound' /\ ReturnsKept'
  BY <1>1 DEF SignatureInv, AllRecorded, IndirectBound, ReturnsKept, ParamsOf, Callee
<1>4. JumpsKept' /\ CallsBound'
  BY <1>1 DEF SignatureInv, JumpsKept, CallsBound, TailCalls, Callee
<1> QED BY <1>2, <1>3, <1>4 DEF SignatureInv

LEMMA InvStep == SignatureInv /\ [Next]_vars => SignatureInv'
<1> SUFFICES ASSUME SignatureInv, [Next]_vars PROVE SignatureInv'
  OBVIOUS
<1> QED BY BuildStep, PropagateStep, PropagatedStep, CollectStep, RefineIndirectStep, RefineInternalStep,
           ReturnsStep, RewriteStep, InvStutters DEF Next

-----------------------------------------------------------------------------
(* The shapes are well formed at every step: lists of slots of registers    *)
(* and stack units, a shape for every call whose arguments were collected,  *)
(* and what was recorded for a call fits its shape however it was cut.      *)
THEOREM SignaturesWellFormed == Signatures => []SignatureInv
BY InvInit, InvStep, PTL DEF Signatures

\* Nothing happens behind the last step.
LEMMA DoneStutters ==
  ASSUME phase = "done", [Next]_vars
  PROVE  UNCHANGED vars
BY DEF Next, BuildInitialSignatureShapes, PropagateTailCallStackParams, TailsPropagated,
       CollectSignatureCallArgs, RefineIndirectCallsiteParamShapes, RefineInternalStackParamShapes,
       AddDemandedExternalReturns, RewriteSignatureShapes

\* Until the last step there is nothing to pass.
LEMMA NothingPassed ==
  ASSUME SignatureInv', phase' # "done"
  PROVE  DOMAIN passed' = {} /\ returned' = {}
BY DEF SignatureInv, InOrder

\* Only the last step reaches the end.
LEMMA LastStep ==
  ASSUME SignatureInv, [Next]_vars, phase' = "done", phase # "done"
  PROVE  RewriteSignatureShapes
BY DEF Next, BuildInitialSignatureShapes, PropagateTailCallStackParams, TailsPropagated,
       CollectSignatureCallArgs, RefineIndirectCallsiteParamShapes, RefineInternalStackParamShapes,
       AddDemandedExternalReturns, RewriteSignatureShapes, vars

-----------------------------------------------------------------------------
(* The arguments.                                                           *)

(* What the pass reads for a slot, and when it finds nothing.               *)
LEMMA ReadCases ==
  ASSUME NEW m, NEW c, NEW s
  PROVE  LET v == ReadSlot(m, c, s)
             from == m.calls[c].origin[s.unit]
         IN /\ \/ v = Value("local", c, s.unit) /\ from = "local"
               \/ v = Value("entry", m.calls[c].caller, s.unit) /\ from = "entry" /\ s.kind # "stack"
               \/ v = Value("clobber", c, s.unit) /\ from = "clobber" /\ s.kind # "stack"
               \/ v = NoValue /\ from # "local" /\ (s.kind # "stack" => from \notin {"entry", "clobber"})
            /\ v # Unknown
<1> DEFINE from == m.calls[c].origin[s.unit]
<1>1. CASE from = "local"
  BY <1>1 DEF ReadSlot, Value, Unknown
<1>2. CASE from = "entry" /\ s.kind # "stack"
  BY <1>2 DEF ReadSlot, Value, Unknown
<1>3. CASE from = "clobber" /\ s.kind # "stack"
  BY <1>3 DEF ReadSlot, Value, Unknown
<1>4. CASE from # "local" /\ (s.kind # "stack" => from \notin {"entry", "clobber"})
  BY <1>4 DEF ReadSlot, Value, Unknown, NoValue
<1> QED BY <1>1, <1>2, <1>3, <1>4

(* The local values are told from the others by where they come from.       *)
LEMMA NoneOrLocal ==
  ASSUME NEW m, NEW c, NEW s, ReadSlot(m, c, s) # NoValue, s.kind = "stack"
  PROVE  m.calls[c].origin[s.unit] = "local"
BY ReadCases

LEMMA LocalFound ==
  ASSUME NEW m, NEW c, NEW s, m.calls[c].origin[s.unit] = "local"
  PROVE  ReadSlot(m, c, s) # NoValue
BY DEF ReadSlot, Value, NoValue

LEMMA NothingFound ==
  ASSUME NEW m, NEW c, NEW s, ReadSlot(m, c, s) = NoValue, s.kind # "stack"
  PROVE  m.calls[c].origin[s.unit] \notin {"local", "clobber"}
BY DEF ReadSlot, Value, NoValue

LEMMA BindingInPlace ==
  ASSUME NEW c, NEW s, ReadSlot(p, c, s) # NoValue
  PROVE  InPlace(c, [slot |-> s, value |-> ReadSlot(p, c, s)])
BY ReadCases DEF InPlace

(* A parameter that is not bound: the argument is the caller's own slot at  *)
(* a jump, the spare value, or nothing.                                     *)
LEMMA OpenArgument ==
  ASSUME SignatureInv, phase = "rewrite", NEW c \in DOMAIN bound,
         NEW n \in DOMAIN ParamsOf(c) \ DOMAIN bound[c]
  PROVE  LET s == ParamsOf(c)[n]
             v == ArgumentValue(c, s, n)
         IN \/ PassesOwn(c, s) /\ v = Value("entry", p.calls[c].caller, s.unit)
            \/ ~PassesOwn(c, s) /\ v = ReadOrEntry(p, c, s, ReadSlot(p, c, s)) /\ v # NoValue
            \/ ~PassesOwn(c, s) /\ v = Unknown
<1> DEFINE s == ParamsOf(c)[n]
<1>1. Recorded(p, c, ParamsOf(c), bound[c], spare[c])
  BY DEF SignatureInv, AllRecorded
<1>2. ASSUME n \in DOMAIN spare[c]
      PROVE  spare[c][n] = ReadOrEntry(p, c, s, ReadSlot(p, c, s)) /\ spare[c][n] # NoValue
  BY <1>1, <1>2 DEF Recorded
<1> HIDE DEF s
<1>3. n \notin DOMAIN bound[c]
  OBVIOUS
<1>4. CASE PassesOwn(c, s)
  BY <1>3, <1>4 DEF ArgumentValue, s
<1>5. CASE ~PassesOwn(c, s) /\ n \in DOMAIN spare[c]
  <2>1. ArgumentValue(c, s, n) = spare[c][n]
    BY <1>3, <1>5 DEF ArgumentValue
  <2> QED BY <1>2, <1>5, <2>1 DEF s
<1>6. CASE ~PassesOwn(c, s) /\ n \notin DOMAIN spare[c]
  <2>1. ArgumentValue(c, s, n) = Unknown
    BY <1>3, <1>6 DEF ArgumentValue
  <2> QED BY <1>6, <2>1 DEF s
<1> QED BY <1>4, <1>5, <1>6

(* An argument is a binding, or one of the parameters that are not bound.   *)
LEMMA ArgumentCases ==
  ASSUME SignatureInv, NEW c \in DOMAIN bound, NEW n \in DOMAIN Arguments(c)
  PROVE  \/ \E s : /\ Arguments(c)[n] = [slot |-> s, value |-> ReadSlot(p, c, s)]
                   /\ ReadSlot(p, c, s) # NoValue
         \/ /\ n \in DOMAIN ParamsOf(c) \ DOMAIN bound[c]
            /\ Arguments(c)[n] = [slot |-> ParamsOf(c)[n], value |-> ArgumentValue(c, ParamsOf(c)[n], n)]
<1> DEFINE shape == Of(p, shapes, indirect, c)
           more == IF shape.vararg THEN DOMAIN bound[c] \ DOMAIN shape.params ELSE {}
<1>1. Recorded(p, c, ParamsOf(c), bound[c], spare[c]) /\ ParamsOf(c) = shape.params
  BY DEF SignatureInv, AllRecorded, ParamsOf
<1>2. /\ DOMAIN Arguments(c) = DOMAIN shape.params \cup more
      /\ \A k \in DOMAIN Arguments(c) :
           Arguments(c)[k] = IF k \in more THEN bound[c][k]
                             ELSE [slot |-> shape.params[k], value |-> ArgumentValue(c, shape.params[k], k)]
  BY DEF Arguments
<1>3. more \subseteq DOMAIN bound[c] \ DOMAIN shape.params
  OBVIOUS
<1> HIDE DEF shape, more
<1>4. ASSUME NEW k \in DOMAIN bound[c]
      PROVE  /\ bound[c][k] = [slot |-> bound[c][k].slot, value |-> ReadSlot(p, c, bound[c][k].slot)]
             /\ ReadSlot(p, c, bound[c][k].slot) # NoValue
             /\ bound[c][k].value = ReadSlot(p, c, bound[c][k].slot)
  <2> DEFINE s == bound[c][k].slot
  <2>1. bound[c][k] = Binding(p, c, s) /\ bound[c][k].value # NoValue
    BY <1>1 DEF Recorded
  <2> HIDE DEF s
  <2>2. Binding(p, c, s) = [slot |-> s, value |-> ReadSlot(p, c, s)]
    BY DEF Binding
  <2>3. bound[c][k].value = ReadSlot(p, c, s)
    BY <2>1, <2>2
  <2> QED BY <2>1, <2>2, <2>3 DEF s
<1>5. CASE n \in more
  BY <1>2, <1>3, <1>4, <1>5
<1>6. CASE n \notin more /\ n \in DOMAIN bound[c]
  <2>1. n \in DOMAIN shape.params
    BY <1>2, <1>6
  <2>2. bound[c][n].slot = shape.params[n]
    BY <1>1, <1>6, <2>1 DEF Recorded
  <2>3. ArgumentValue(c, shape.params[n], n) = bound[c][n].value
    BY <1>6 DEF ArgumentValue
  <2>4. Arguments(c)[n] = [slot |-> shape.params[n], value |-> ReadSlot(p, c, shape.params[n])]
    BY <1>2, <1>4, <1>6, <2>2, <2>3
  <2>5. ReadSlot(p, c, shape.params[n]) # NoValue
    BY <1>4, <1>6, <2>2
  <2> QED BY <2>4, <2>5
<1>7. CASE n \notin more /\ n \notin DOMAIN bound[c]
  BY <1>1, <1>2, <1>7
<1> QED BY <1>5, <1>6, <1>7

(* At a jump a stack parameter that is not bound was not stored.            *)
LEMMA NotStored ==
  ASSUME SignatureInv, phase = "rewrite", JumpsStoreInOrder,
         NEW c \in DOMAIN bound, p.calls[c].tail,
         NEW n \in DOMAIN ParamsOf(c) \ DOMAIN bound[c], ParamsOf(c)[n].kind = "stack"
  PROVE  p.calls[c].origin[ParamsOf(c)[n].unit] # "local"
<1>1. Callee(c) # "indirect"
  BY DEF SignatureInv, IndirectBound, ParamsOf, Of, Callee
<1>2. ParamsOf(c) = shapes[Callee(c)].params /\ Callee(c) \in DOMAIN shapes
  BY <1>1 DEF SignatureInv, SignatureTypeOK, Shaped, ParamsOf, Of, Callee
<1>3. DOMAIN ParamsOf(c) = 1 .. Len(ParamsOf(c)) /\ Len(ParamsOf(c)) \in Nat
  BY <1>2, ShapeFacts DEF SignatureInv, SignatureTypeOK
<1>4. PICK k \in 1 .. n : /\ (ParamsOf(c)[k].kind = "stack") = (ParamsOf(c)[n].kind = "stack")
                          /\ ReadSlot(p, c, ParamsOf(c)[k]) = NoValue
  BY DEF SignatureInv, AllRecorded, Recorded
<1>5. n \in StackParams(shapes[Callee(c)]) /\ k \in StackParams(shapes[Callee(c)])
  BY <1>2, <1>3, <1>4 DEF StackParams
<1>6. p.calls[c].origin[ParamsOf(c)[k].unit] # "local"
  BY <1>4, LocalFound
<1>7. CASE k = n
  BY <1>6, <1>7
<1>8. CASE k < n
  BY <1>1, <1>2, <1>5, <1>6, <1>8 DEF JumpsStoreInOrder
<1> QED BY <1>3, <1>4, <1>7, <1>8

LEMMA EveryArgument ==
  ASSUME SignatureInv, phase = "rewrite", JumpsStoreInOrder, NEW c \in DOMAIN bound, NEW n \in DOMAIN Arguments(c)
  PROVE  InPlace(c, Arguments(c)[n])
<1>1. CASE \E s : /\ Arguments(c)[n] = [slot |-> s, value |-> ReadSlot(p, c, s)]
                  /\ ReadSlot(p, c, s) # NoValue
  BY <1>1, BindingInPlace
<1> DEFINE s == ParamsOf(c)[n]
           v == ArgumentValue(c, s, n)
           from == p.calls[c].origin[s.unit]
<1>2. CASE n \in DOMAIN ParamsOf(c) \ DOMAIN bound[c] /\ Arguments(c)[n] = [slot |-> s, value |-> v]
  <2>1. \/ PassesOwn(c, s) /\ v = Value("entry", p.calls[c].caller, s.unit)
        \/ v = ReadOrEntry(p, c, s, ReadSlot(p, c, s)) /\ v # NoValue
        \/ v = Unknown
    BY <1>2, OpenArgument
  <2>2. PassesOwn(c, s) => p.calls[c].tail /\ s.kind = "stack"
    BY DEF PassesOwn
  <2>3. p.calls[c].tail /\ s.kind = "stack" => from # "local"
    BY <1>2, NotStored
  <2> DEFINE a == [slot |-> s, value |-> v]
  <2>4. a.slot = s /\ a.value = v
    OBVIOUS
  <2> SUFFICES InPlace(c, a)
    BY <1>2
  <2> HIDE DEF s, v, a
  <2>5. CASE PassesOwn(c, s) /\ v = Value("entry", p.calls[c].caller, s.unit)
    BY <2>2, <2>3, <2>4, <2>5 DEF InPlace
  <2>6. CASE v = ReadOrEntry(p, c, s, ReadSlot(p, c, s)) /\ v # NoValue
    <3>1. CASE ReadSlot(p, c, s) # NoValue
      <4>1. v = ReadSlot(p, c, s)
        BY <2>6, <3>1 DEF ReadOrEntry
      <4> QED BY <3>1, <4>1, BindingInPlace DEF a
    <3>2. CASE ReadSlot(p, c, s) = NoValue
      <4>1. s.kind # "stack" /\ v = Value("entry", p.calls[c].caller, s.unit)
        BY <2>6, <3>2 DEF ReadOrEntry
      <4>2. from \notin {"local", "clobber"}
        BY <3>2, <4>1, NothingFound
      <4> QED BY <2>4, <4>1, <4>2 DEF InPlace
    <3> QED BY <3>1, <3>2
  <2>7. CASE v = Unknown
    BY <2>4, <2>7 DEF InPlace
  <2> QED BY <2>1, <2>5, <2>6, <2>7
<1> QED BY <1>1, <1>2, ArgumentCases

(* A stack parameter without a value is one of a jump out of a function     *)
(* without a shape, or one that some jump needs or that leaves the module.  *)
LEMMA EveryStackArgument ==
  ASSUME SignatureInv, phase = "rewrite", NEW c \in DOMAIN bound, NEW n \in DOMAIN Arguments(c),
         Arguments(c)[n].slot.kind = "stack", Arguments(c)[n].value = Unknown
  PROVE  IF p.calls[c].tail THEN p.calls[c].caller \notin DOMAIN shapes
         ELSE \/ Callee(c) \notin p.body
              \/ \E d \in CallsTo(p, Callee(c)) : p.calls[d].tail
              \/ \E k \in StackParams(shapes[Callee(c)]) : shapes[Callee(c)].params[k].keep
<1> DEFINE s == ParamsOf(c)[n]
           v == ArgumentValue(c, s, n)
<1>1. n \in DOMAIN ParamsOf(c) \ DOMAIN bound[c] /\ Arguments(c)[n] = [slot |-> s, value |-> v]
  <2>1. ASSUME NEW t, Arguments(c)[n] = [slot |-> t, value |-> ReadSlot(p, c, t)] PROVE FALSE
    <3>1. Arguments(c)[n].value = ReadSlot(p, c, t)
      BY <2>1
    <3> QED BY <3>1, ReadCases
  <2> QED BY <2>1, ArgumentCases
<1>2. s.kind = "stack" /\ v = Unknown
  <2> HIDE DEF s, v
  <2> QED BY <1>1
<1>3. ~PassesOwn(c, s)
  <2>1. Unknown # Value("entry", p.calls[c].caller, s.unit)
    BY DEF Unknown, Value
  <2> QED BY <1>1, <1>2, <2>1, OpenArgument
<1>4. c \in Calls(p) /\ p \in Modules
  BY DEF SignatureInv, SignatureTypeOK, Shaped
<1>5. Callee(c) # "indirect"
  BY <1>1 DEF SignatureInv, IndirectBound, ParamsOf, Of, Callee
<1>6. ParamsOf(c) = shapes[Callee(c)].params /\ Callee(c) \in DOMAIN shapes
  BY <1>5 DEF SignatureInv, SignatureTypeOK, Shaped, ParamsOf, Of, Callee
<1>7. n \in StackParams(shapes[Callee(c)]) /\ s = shapes[Callee(c)].params[n]
  BY <1>1, <1>2, <1>6 DEF StackParams
<1> HIDE DEF v
<1>8. s.unit \in StackUnitsOf(shapes[Callee(c)])
  BY <1>7 DEF StackUnitsOf
<1>9. CASE p.calls[c].tail
  <2>1. ASSUME p.calls[c].caller \in DOMAIN shapes PROVE FALSE
    <3>1. s.unit \notin StackUnitsOf(shapes[p.calls[c].caller])
      BY <1>2, <1>3, <1>9, <2>1 DEF PassesOwn
    <3>2. Callee(c) # p.calls[c].caller
      BY <1>8, <3>1
    <3>3. c \in TailCalls
      BY <1>4, <1>6, <1>9, <2>1, <3>2 DEF TailCalls, Callee
    <3>4. Keeps(shapes[p.calls[c].caller], s.unit)
      BY <1>8, <3>3 DEF SignatureInv, JumpsKept
    <3> QED BY <3>1, <3>4 DEF Keeps, StackUnitsOf
  <2> QED BY <1>9, <2>1
<1>10. CASE ~p.calls[c].tail
  <2>1. n \notin DOMAIN bound[c]
    BY <1>1
  <2> QED BY <1>7, <1>10, <2>1 DEF SignatureInv, CallsBound
<1> QED BY <1>9, <1>10

-----------------------------------------------------------------------------
(* The returns.                                                             *)

(* The slot for the bits a function returns holds all of them.              *)
LEMMA ReturnSlot ==
  ASSUME NEW r, NEW S, S \subseteq 0 .. Width - 1, S # {}, NEW floats
  PROVE  S \subseteq Span(SlotForDemand(r, S, floats))
<1> DEFINE t == SlotForDemand(r, S, floats)
           low == Lowest(S)
           high == Highest(S)
<1>1. Width \in Nat /\ FloatWidth \in Nat /\ S \subseteq Nat
  BY ConventionTyped
<1>2. CASE t = FloatSlot(r) /\ S \subseteq 0 .. FloatWidth - 1
  <2>1. t.off = 0 /\ t.w = FloatWidth
    BY <1>2 DEF FloatSlot, Slot
  <2> HIDE DEF t
  <2> QED BY <1>1, <1>2, <2>1 DEF Span, t
<1>3. CASE t = IntSlot(r)
  <2>1. t.off = 0 /\ t.w = Width
    BY <1>3 DEF IntSlot, Slot
  <2> HIDE DEF t
  <2> QED BY <1>1, <2>1 DEF Span, t
<1>4. CASE t = Slot("int", r, low, Cardinality(S)) /\ low .. high = S
  <2>1. low \in S
    BY <1>1, LowestOf
  <2>2. high \in S
    <3>1. PICK n \in S : n \in 0 .. Width - 1
      OBVIOUS
    <3>2. Width - 1 \in Nat
      BY <1>1, <3>1
    <3> QED BY <3>2, HighestOf
  <2>3. low \in Nat /\ high \in Nat
    BY <1>1, <2>1, <2>2
  <2> HIDE DEF low, high
  <2>4. low <= high
    BY <1>4, <2>1, <2>3
  <2>5. Cardinality(low .. high) = high - low + 1
    BY <2>3, <2>4, FS_Interval
  <2>6. t.off = low /\ t.w = high - low + 1
    BY <1>4, <2>5 DEF Slot
  <2> HIDE DEF t
  <2>7. Span(t) = low .. high
    BY <2>3, <2>6 DEF Span
  <2> QED BY <1>4, <2>7 DEF t
<1>5. \/ t = FloatSlot(r) /\ S \subseteq 0 .. FloatWidth - 1
      \/ t = IntSlot(r)
      \/ t = Slot("int", r, low, Cardinality(S)) /\ low .. high = S
  BY DEF SlotForDemand, SlotForBits
<1> QED BY <1>2, <1>3, <1>4, <1>5

LEMMA ReturnsTyped ==
  ASSUME NEW m \in Modules, NEW f \in m.body
  PROVE  InternalReturns(m, f) \subseteq AllSlots
<1>1. ASSUME NEW r \in Registers PROVE SlotForDemand(r, ReturnBits(m, f, r), FloatOutputs) \in AllSlots
  BY UnitsTyped, FactsTyped, DemandSlot
<1> QED BY <1>1 DEF InternalReturns

(* What is taken out of slots at the lowest bit is the callee's, or nothing. *)
LEMMA BitSeen ==
  ASSUME NEW slots, slots \subseteq AllSlots, NEW r, \A s \in slots : s.unit = r => s.off = 0,
         NEW R, NEW n \in R
  PROVE  /\ ReturnedBit(slots, r, R, n) \in {n, Clobber}
         /\ Holding(slots, r, R) # {} => ReturnedBit(slots, r, R, n) = n
<1> DEFINE slot == CHOOSE s \in Holding(slots, r, R) : TRUE
<1>1. CASE Holding(slots, r, R) = {}
  BY <1>1 DEF ReturnedBit
<1>2. CASE Holding(slots, r, R) # {}
  <2>1. slot \in Holding(slots, r, R)
    BY <1>2
  <2>2. ReturnedBit(slots, r, R, n) = IF slot.kind = "float" THEN n ELSE IF n < slot.w THEN slot.off + n ELSE Zero
    BY <1>2 DEF ReturnedBit
  <2> HIDE DEF slot
  <2>3. slot \in slots /\ slot.unit = r /\ n \in Span(slot)
    BY <2>1 DEF Holding
  <2>4. slot.off = 0 /\ slot.w \in Nat
    BY <2>3 DEF AllSlots
  <2>5. n < slot.w /\ slot.off + n = n
    BY <2>3, <2>4 DEF Span
  <2> QED BY <2>2, <2>5
<1> QED BY <1>1, <1>2

LEMMA RangeBits ==
  ASSUME NEW m, NEW f, NEW r, NEW R \in PlannedRanges(m, f, r)
  PROVE  \E low, high \in 0 .. Width :
           /\ R = low .. high - 1
           /\ \A n \in RangeBoundaries(m, f, r) : n <= low \/ high <= n
<1> DEFINE cuts == RangeBoundaries(m, f, r)
<1>1. Width \in Nat
  BY ConventionTyped
<1>2. cuts \subseteq 0 .. Width
  BY <1>1 DEF RangeBoundaries, Ends
<1>3. PICK d \in cuts \X cuts : R = d[1] .. d[2] - 1 /\ \A n \in cuts : n <= d[1] \/ d[2] <= n
  <2> HIDE DEF cuts
  <2> QED BY DEF PlannedRanges, cuts
<1> HIDE DEF cuts
<1>4. d[1] \in 0 .. Width /\ d[2] \in 0 .. Width
  BY <1>2, <1>3
<1> QED BY <1>3, <1>4 DEF cuts

(* No range crosses an end of a part at whose ends it is cut.               *)
LEMMA RangeInPart ==
  ASSUME NEW m, NEW f, NEW r, NEW R \in PlannedRanges(m, f, r),
         NEW part \in CutParts(m, f, r), NEW n \in R, n \in part
  PROVE  R \subseteq part
<1>1. PICK low, high \in 0 .. Width :
        R = low .. high - 1 /\ \A e \in RangeBoundaries(m, f, r) : e <= low \/ high <= e
  BY RangeBits
<1>2. \A e \in Ends(part) : e <= low \/ high <= e
  BY <1>1 DEF RangeBoundaries
<1>3. Width \in Nat /\ low \in Nat /\ high \in Nat /\ high <= Width
  BY <1>1, ConventionTyped
<1> SUFFICES ASSUME NEW k \in R, k \notin part PROVE FALSE
  OBVIOUS
<1>4. n \in Nat /\ k \in Nat /\ low <= n /\ n < high /\ low <= k /\ k < high
  BY <1>1, <1>3
<1>5. ASSUME NEW e \in Nat, low < e, e < high, (e \in part) # (e - 1 \in part) PROVE FALSE
  <2>1. e \in 0 .. Width
    BY <1>3, <1>5
  <2>2. e \in Ends(part)
    BY <1>5, <2>1 DEF Ends
  <2> QED BY <1>2, <1>3, <1>5, <2>2
<1>6. CASE n < k
  <2> DEFINE Out == {e \in Nat : n < e /\ e <= k /\ e \notin part}
             first == Lowest(Out)
  <2>1. k \in Out /\ Out \subseteq Nat
    BY <1>4, <1>6
  <2>2. first \in Out /\ \A e \in Out : first <= e
    <3> HIDE DEF Out
    <3> QED BY <2>1, LowestOf
  <2> HIDE DEF first
  <2>3. first \in Nat /\ n < first /\ first <= k /\ first \notin part
    BY <2>2
  <2>4. first - 1 \in part
    <3>1. first - 1 \in Nat /\ first - 1 <= k /\ n <= first - 1 /\ ~(first <= first - 1)
      BY <1>4, <2>3
    <3>2. CASE first - 1 = n
      BY <3>2
    <3>3. CASE n < first - 1
      BY <2>2, <3>1, <3>3
    <3> QED BY <1>4, <3>1, <3>2, <3>3
  <2>5. low < first /\ first < high
    BY <1>3, <1>4, <2>3
  <2> QED BY <1>5, <2>3, <2>4, <2>5
<1>7. CASE k < n
  <2> DEFINE In == {e \in Nat : k < e /\ e <= n /\ e \in part}
             first == Lowest(In)
  <2>1. n \in In /\ In \subseteq Nat
    BY <1>4, <1>7
  <2>2. first \in In /\ \A e \in In : first <= e
    <3> HIDE DEF In
    <3> QED BY <2>1, LowestOf
  <2> HIDE DEF first
  <2>3. first \in Nat /\ k < first /\ first <= n /\ first \in part
    BY <2>2
  <2>4. first - 1 \notin part
    <3>1. first - 1 \in Nat /\ first - 1 <= n /\ k <= first - 1 /\ ~(first <= first - 1)
      BY <1>4, <2>3
    <3>2. CASE first - 1 = k
      BY <3>2
    <3>3. CASE k < first - 1
      BY <2>2, <3>1, <3>3
    <3> QED BY <1>4, <3>1, <3>2, <3>3
  <2>5. low < first /\ first < high
    BY <1>3, <1>4, <2>3
  <2> QED BY <1>5, <2>3, <2>4, <2>5
<1>8. n # k
  OBVIOUS
<1> QED BY <1>4, <1>6, <1>7, <1>8

(* The slot of the bits a function returns holds every range of an access   *)
(* whose bits are all returned, and the lane.                               *)
LEMMA RangeHeld ==
  ASSUME NEW m \in Modules, NEW c \in Calls(m), m.calls[c].callee \in m.body, NEW r \in ToSet(Outputs),
         NEW R \in PlannedRanges(m, m.calls[c].caller, r), NEW n \in R, n \in ReturnBits(m, m.calls[c].callee, r),
         NEW part \in CutParts(m, m.calls[c].caller, r), n \in part,
         \/ part \subseteq ReturnBits(m, m.calls[c].callee, r)
         \/ r \in ToSet(FloatOutputs) /\ ReturnBits(m, m.calls[c].callee, r) \subseteq Lane
  PROVE  Holding(InternalReturns(m, m.calls[c].callee), r, R) # {}
<1> DEFINE f == m.calls[c].callee
           S == ReturnBits(m, f, r)
           t == SlotForDemand(r, S, FloatOutputs)
<1>1. r \in Registers
  BY UnitsTyped
<1>2. S \subseteq 0 .. Width - 1 /\ S # {} /\ n \in S
  BY <1>1, FactsTyped
<1>3. t \in InternalReturns(m, f)
  <2>1. GivesReturn(m, f, r)
    BY <1>2 DEF GivesReturn
  <2> QED BY <1>1, <2>1 DEF InternalReturns
<1> HIDE DEF S
<1>4. t.unit = r
  BY <1>1, <1>2, UnitsTyped, DemandSlot
<1>5. CASE part \subseteq S
  <2>1. R \subseteq part
    BY RangeInPart
  <2>2. S \subseteq Span(t)
    BY <1>2, ReturnSlot
  <2> HIDE DEF t
  <2> QED BY <1>3, <1>4, <1>5, <2>1, <2>2 DEF Holding
<1>6. CASE r \in ToSet(FloatOutputs) /\ S \subseteq Lane
  <2>1. Lane \in CutParts(m, m.calls[c].caller, r)
    BY <1>6 DEF CutParts
  <2>0. n \in Lane
    BY <1>2, <1>6
  <2>2. R \subseteq Lane
    <3> HIDE DEF t, f
    <3> QED BY <2>0, <2>1, RangeInPart
  <2>3. t = FloatSlot(r)
    BY <1>2, <1>6 DEF SlotForDemand, Lane
  <2>4. Span(t) = Lane
    <3>1. t.off = 0 /\ t.w = FloatWidth
      BY <2>3 DEF FloatSlot, Slot
    <3> HIDE DEF t
    <3> QED BY <3>1, ConventionTyped DEF Span, Lane
  <2> HIDE DEF t
  <2> QED BY <1>3, <1>4, <2>2, <2>4 DEF Holding
<1>7. part \subseteq S \/ (r \in ToSet(FloatOutputs) /\ S \subseteq Lane)
  BY DEF S
<1> QED BY <1>5, <1>6, <1>7

LEMMA EveryReturn ==
  ASSUME SignatureInv, NEW c \in Shaped(p, shapes, indirect), NEW x \in Returned(c)
  PROVE  Arrives(x)
<1> DEFINE f == p.calls[c].callee
           slots == Of(p, shapes, indirect, c).returns
<1>1. PICK h \in RangeReturnHelpers(p, c) : \E n \in h[2] :
        x = [call |-> c, unit |-> h[1], bit |-> n, from |-> Behind(c, h[1], h[2], n)]
  BY DEF Returned
<1>2. PICK n \in h[2] : x = [call |-> c, unit |-> h[1], bit |-> n, from |-> Behind(c, h[1], h[2], n)]
  BY <1>1
<1> DEFINE r == h[1]
           R == h[2]
           changed == p.facts[f][r].changed
<1>3. x.call = c /\ x.unit = r /\ x.bit = n /\ x.from = Behind(c, r, R, n)
  BY <1>2
<1>4. r \in ToSet(Outputs) /\ R \in PlannedRanges(p, p.calls[c].caller, r)
  BY <1>1 DEF RangeReturnHelpers
<1>5. p \in Modules /\ c \in Calls(p)
  BY DEF SignatureInv, SignatureTypeOK, Shaped
<1> HIDE DEF r, R, f
<1>6. n \in R /\ n \in Nat
  <2>1. n \in R
    BY <1>2 DEF R
  <2>2. \E low, high \in 0 .. Width : R = low .. high - 1
    BY <1>4, RangeBits
  <2> QED BY <2>1, <2>2, ConventionTyped
<1> SUFFICES ASSUME f \in p.body, AtBitZero(f, r)
             PROVE  /\ x.from \in {n, Own, Clobber} /\ (x.from = Own => n \notin changed)
                    /\ \A part \in {use[2] : use \in {u \in p.calls[c].uses : u[1] = r}} :
                         /\ Returns(f, r, part) /\ n \in part \cap ReturnBits(p, f, r) => x.from = n
                         /\ n \in part /\ part \cap changed = {} => x.from = Own
  BY <1>3 DEF Arrives, f
<1>7. slots = InternalReturns(p, f) /\ f # "indirect"
  <2>1. f # "indirect"
    BY <1>5, CallersInside
  <2> QED BY <2>1 DEF SignatureInv, ReturnsKept, Shaped, Of, f
<1>8. x.from = IF NeverWrites(p, f, r, R) THEN Own ELSE ReturnedBit(slots, r, R, n)
  BY <1>3 DEF Behind, f
<1> HIDE DEF slots
<1>9. /\ ReturnedBit(slots, r, R, n) \in {n, Clobber}
      /\ Holding(slots, r, R) # {} => ReturnedBit(slots, r, R, n) = n
  <2>1. slots \subseteq AllSlots
    BY <1>5, <1>7, ReturnsTyped
  <2>2. \A s \in slots : s.unit = r => s.off = 0
    BY <1>7 DEF AtBitZero
  <2> QED BY <1>6, <2>1, <2>2, BitSeen
<1>10. n # Own /\ Clobber # Own
  BY <1>6 DEF Own, Clobber
<1>11. NeverWrites(p, f, r, R) => n \notin changed
  BY <1>6 DEF NeverWrites
<1>12. x.from \in {n, Own, Clobber} /\ (x.from = Own => n \notin changed)
  BY <1>8, <1>9, <1>10, <1>11, Zenon
<1>13. ASSUME NEW use \in p.calls[c].uses, use[1] = r PROVE use[2] \in CutParts(p, p.calls[c].caller, r)
  <2>1. use \in UNION {p.calls[d].uses : d \in {e \in Calls(p) : p.calls[e].caller = p.calls[c].caller}}
    BY <1>5, <1>13
  <2> QED BY <1>13, <2>1 DEF CutParts
<1>14. ASSUME NEW part \in CutParts(p, p.calls[c].caller, r), Returns(f, r, part), n \in part, n \in ReturnBits(p, f, r)
       PROVE  x.from = n
  <2>1. ~NeverWrites(p, f, r, R)
    BY <1>6, <1>14 DEF NeverWrites, ReturnBits
  <2>2. part \subseteq ReturnBits(p, f, r) \/ (r \in ToSet(FloatOutputs) /\ ReturnBits(p, f, r) \subseteq Lane)
    BY <1>14 DEF Returns
  <2>3. Holding(slots, r, R) # {}
    BY <1>4, <1>5, <1>6, <1>7, <1>14, <2>2, RangeHeld DEF f
  <2> QED BY <1>8, <1>9, <2>1, <2>3
<1>15. ASSUME NEW part \in CutParts(p, p.calls[c].caller, r), n \in part, part \cap changed = {}
       PROVE  x.from = Own
  <2>1. R \subseteq part
    BY <1>4, <1>6, <1>15, RangeInPart
  <2>2. NeverWrites(p, f, r, R)
    BY <1>15, <2>1 DEF NeverWrites
  <2> QED BY <1>8, <2>2
<1> HIDE DEF changed
<1> QED BY <1>12, <1>13, <1>14, <1>15

-----------------------------------------------------------------------------
(* What the rewritten calls get.                                            *)

LEMMA Rewritten ==
  ASSUME SignatureInv, RewriteSignatureShapes
  PROVE  /\ phase = "rewrite" /\ p' = p /\ shapes' = shapes /\ DOMAIN passed' = DOMAIN bound
         /\ \A c \in DOMAIN bound : passed'[c] = Arguments(c)
         /\ \A x \in returned' : \E c \in Shaped(p, shapes, indirect) : x \in Returned(c)
BY DEF RewriteSignatureShapes

\* Every argument is what its slot held at the call, for every module, every
\* calling convention and every order of the steps, provided that a jump stores
\* the stack parameters of its target from the first one on.
THEOREM EveryArgumentInPlace == Signatures /\ []JumpsStoreInOrder => []ArgumentsInPlace
<1> DEFINE Inv == SignatureInv /\ ArgumentsInPlace
<1>1. Init => Inv
  <2>1. Init => DOMAIN passed = {}
    BY DEF Init, NoMap
  <2> QED BY <2>1, InvInit DEF ArgumentsInPlace
<1>2. Inv /\ JumpsStoreInOrder /\ [Next]_vars => Inv'
  <2> SUFFICES ASSUME Inv, JumpsStoreInOrder, [Next]_vars PROVE Inv'
    OBVIOUS
  <2>1. SignatureInv'
    BY InvStep
  <2>2. CASE phase' # "done"
    BY <2>1, <2>2, NothingPassed DEF ArgumentsInPlace
  <2>3. CASE UNCHANGED vars
    BY <2>1, <2>3 DEF vars, ArgumentsInPlace, InPlace
  <2>4. CASE RewriteSignatureShapes
    <3>1. \A c \in DOMAIN bound : \A n \in DOMAIN Arguments(c) : InPlace(c, Arguments(c)[n])
      BY <2>4, Rewritten, EveryArgument
    <3>2. \A c, a : InPlace(c, a)' <=> InPlace(c, a)
      BY <2>4, Rewritten DEF InPlace
    <3>3. ArgumentsInPlace'
      BY <2>4, <3>1, <3>2, Rewritten DEF ArgumentsInPlace
    <3> QED BY <2>1, <3>3
  <2> QED BY <2>2, <2>3, <2>4, DoneStutters, LastStep
<1>3. Inv => ArgumentsInPlace
  OBVIOUS
<1> HIDE DEF Inv
<1> QED BY <1>1, <1>2, <1>3, PTL DEF Signatures

\* The shapes of a caller and its callee agree on the stack, for every module and
\* every order in which the tail calls are worked off.
THEOREM EveryStackArgumentKnown == Signatures => []StackArgumentsKnown
<1> DEFINE Inv == SignatureInv /\ StackArgumentsKnown
<1>1. Init => Inv
  <2>1. Init => DOMAIN passed = {}
    BY DEF Init, NoMap
  <2> QED BY <2>1, InvInit DEF StackArgumentsKnown
<1>2. Inv /\ [Next]_vars => Inv'
  <2> SUFFICES ASSUME Inv, [Next]_vars PROVE Inv'
    OBVIOUS
  <2>1. SignatureInv'
    BY InvStep
  <2>2. CASE phase' # "done"
    BY <2>1, <2>2, NothingPassed DEF StackArgumentsKnown
  <2>3. CASE UNCHANGED vars
    BY <2>1, <2>3 DEF vars, StackArgumentsKnown
  <2>4. CASE RewriteSignatureShapes
    <3>1. ASSUME NEW c \in DOMAIN bound, NEW n \in DOMAIN Arguments(c),
                 Arguments(c)[n].slot.kind = "stack", Arguments(c)[n].value = Unknown
          PROVE  IF p.calls[c].tail THEN p.calls[c].caller \notin DOMAIN shapes
                 ELSE \/ p.calls[c].callee \notin p.body
                      \/ \E d \in CallsTo(p, p.calls[c].callee) : p.calls[d].tail
                      \/ \E k \in StackParams(shapes[p.calls[c].callee]) : shapes[p.calls[c].callee].params[k].keep
      BY <2>4, <3>1, Rewritten, EveryStackArgument DEF Callee
    <3>2. StackArgumentsKnown'
      BY <2>4, <3>1, Rewritten DEF StackArgumentsKnown
    <3> QED BY <2>1, <3>2
  <2> QED BY <2>2, <2>3, <2>4, DoneStutters, LastStep
<1>3. Inv => StackArgumentsKnown
  OBVIOUS
<1> HIDE DEF Inv
<1> QED BY <1>1, <1>2, <1>3, PTL DEF Signatures

\* Behind a rewritten call of a function of the module, for every module, every
\* way the caller's ranges are cut and whatever the callee writes: a bit read is
\* the callee's at its exit, the caller's own if the callee never writes it, or
\* unknown; and it is the callee's in an access the callee returns whole and the
\* caller's own in one it never writes.  A slot above the lowest bit is left out.
THEOREM EveryReturnArrives == Signatures => []ReturnsArrive
<1> DEFINE Inv == SignatureInv /\ ReturnsArrive
<1>1. Init => Inv
  BY InvInit DEF Init, ReturnsArrive
<1>2. Inv /\ [Next]_vars => Inv'
  <2> SUFFICES ASSUME Inv, [Next]_vars PROVE Inv'
    OBVIOUS
  <2>1. SignatureInv'
    BY InvStep
  <2>2. CASE phase' # "done"
    BY <2>1, <2>2, NothingPassed DEF ReturnsArrive
  <2>3. CASE UNCHANGED vars
    BY <2>1, <2>3 DEF vars, ReturnsArrive, Arrives, AtBitZero, Returns
  <2>4. CASE RewriteSignatureShapes
    <3>1. ASSUME NEW x \in returned' PROVE Arrives(x)
      BY <2>4, Rewritten, EveryReturn
    <3>2. ASSUME NEW x PROVE Arrives(x)' <=> Arrives(x)
      BY <2>4, Rewritten DEF Arrives, AtBitZero, Returns
    <3>3. ReturnsArrive'
      <4>1. \A x \in returned' : Arrives(x)'
        BY <3>1, <3>2
      <4> QED BY <4>1 DEF ReturnsArrive
    <3> QED BY <2>1, <3>3
  <2> QED BY <2>2, <2>3, <2>4, DoneStutters, LastStep
<1>3. Inv => ReturnsArrive
  OBVIOUS
<1> HIDE DEF Inv
<1> QED BY <1>1, <1>2, <1>3, PTL DEF Signatures
=============================================================================
