---------------------------- MODULE MagicDivision ----------------------------
(***************************************************************************)
(* NativeRegisterPeephole.cpp recognises the multiplications by a magic    *)
(* number that a compiler emits for a division by a constant, solves for   *)
(* the divisor and replaces the root of the chain by udiv or sdiv.         *)
(*                                                                         *)
(* The shapes: with h the high half of the 2W-bit product of the dividend  *)
(* x and the magic number M,                                               *)
(*   unsigned          h >> s                                              *)
(*   with correction   (((x - h) >> 1) + h) >> s                           *)
(*   signed            (h >> s) + [x < 0], as add or as sub of a mask, or  *)
(*                     with x + h for h when M is negative                 *)
(*   narrow product    the whole product fits in W bits.                   *)
(***************************************************************************)
EXTENDS LiftedCode, MagicNumbers

CONSTANT RootWidths        \* the widths of chain roots the scan considers

NoChain == [scaled |-> PoisonOperand, magic |-> 0, shift |-> 0, inputBits |-> 0,
            width |-> 0, signed |-> FALSE, extra |-> 0, narrow |-> FALSE]
Chain(scaled, magic, shift, inputBits, width, signed) ==
    [NoChain EXCEPT !.scaled = scaled, !.magic = magic, !.shift = shift,
        !.inputBits = inputBits, !.width = width, !.signed = signed]

-----------------------------------------------------------------------------
(* Looking through the code *)

Only(condition, x) == IF condition THEN {x} ELSE {}
ConstantAmount(ins) ==
    IF ins.args[2].kind = "constant" THEN {ins.args[2].n} ELSE {}

(* trunc (zext | sext v) back to the width of v is v.                      *)
RECURSIVE StripWidthRoundTrip(_, _, _)
StripWidthRoundTrip(fn, operand, depth) ==
    LET trunc == DefOf(fn, operand)
        extend == DefOf(fn, trunc.args[1])
    IN  IF /\ depth > 0 /\ trunc.op = "trunc"
           /\ extend.op \in {"zext", "sext"} /\ extend.from = trunc.bits
        THEN StripWidthRoundTrip(fn, extend.args[1], depth - 1)
        ELSE operand
Stripped(fn, operand) == StripWidthRoundTrip(fn, operand, 4)

(* The value whose low bits the operand shows.                             *)
RECURSIVE LowBitsView(_, _, _)
LowBitsView(fn, operand, depth) ==
    LET ins == DefOf(fn, operand)
    IN  CASE depth > 0 /\ Stripped(fn, operand) # operand ->
                LowBitsView(fn, Stripped(fn, operand), depth - 1)
          [] depth > 0 /\ Stripped(fn, operand) = operand
                /\ (ins.op = "trunc" \/ (ins.op = "extract" /\ ins.lo = 0)) ->
                LowBitsView(fn, ins.args[1], depth - 1)
          [] OTHER -> operand
SameLowBits(fn, a, b) == a = b \/ LowBitsView(fn, a, 6) = LowBitsView(fn, b, 6)

(* The factors of a multiplication of one value by one constant.           *)
Factors(mul) ==
    {[value |-> mul.args[k], magic |-> mul.args[3 - k].n] :
        k \in {j \in 1 .. 2 : /\ mul.op = "mul"
                              /\ mul.args[j].kind = "value"
                              /\ mul.args[3 - j].kind = "constant"}}

(* parseMagicProduct: mul i2W (zext | sext x), constant.                   *)
MagicProducts(fn, mul, width) ==
    LET extend(f) == DefOf(fn, f.value)
    IN  {[scaled |-> extend(f).args[1], magic |-> f.magic,
          signed |-> extend(f).op = "sext", sourceBits |-> extend(f).from] :
            f \in {g \in Factors(mul) : /\ mul.bits = 2 * width
                                        /\ extend(g).op \in {"zext", "sext"}
                                        /\ extend(g).from <= width}}

(* parseHighHalf: trunc iW (lshr i2W product, N), N >= W.                  *)
HighHalves(fn, trunc, width) ==
    LET high == DefOf(fn, trunc.args[1])
        mul == DefOf(fn, high.args[1])
    IN  {[mul |-> mul, shift |-> n] :
            n \in {k \in width .. 2 * width :
                    /\ trunc.op = "trunc" /\ trunc.bits = width
                    /\ high.op = "lshr" /\ k \in ConstantAmount(high)
                    /\ mul.op = "mul"}}

(* lshr y, k is below 2^(W - k).                                           *)
DividendBitBound(fn, dividend, width) ==
    LET ins == DefOf(fn, dividend)
    IN  IF ins.op = "lshr" /\ ConstantAmount(ins) \cap 1 .. width - 1 # {}
        THEN width - ins.args[2].n ELSE width

-----------------------------------------------------------------------------
(* The chains: each matcher gives the set of its matches, none or one *)

(* matchMagicMulChain: lshr (trunc (lshr (mul (zext x), M), N)), s, or     *)
(* the same without the last shift.                                        *)
PlainChains(fn, root) ==
    LET width == root.bits
        Matches(trunc, s) ==
            {Chain(p.scaled, p.magic, h.shift + s,
                   DividendBitBound(fn, p.scaled, width), width, FALSE) :
                <<h, p>> \in UNION {{h} \X {q \in MagicProducts(fn, h.mul, width) :
                                                ~q.signed /\ q.sourceBits = width} :
                                        h \in HighHalves(fn, trunc, width)}}
    IN  {c \in IF root.op = "lshr"
               THEN UNION {Matches(DefOf(fn, root.args[1]), s) :
                            s \in ConstantAmount(root) \cap 1 .. width - 1}
               ELSE Matches(root, 0) :
            c.shift <= 2 * width}

(* The operands of a signed root: one is the shifted high half and one the *)
(* sign, 0/1 to be added or a mask 0/-1 to be subtracted.                  *)
IsSign(fn, ins, root) ==
    LET inner == DefOf(fn, ins.args[1])
    IN  \/ /\ ins.op = IF root.op = "sub" THEN "ashr" ELSE "lshr"
           /\ root.bits - 1 \in ConstantAmount(ins)
        \/ /\ ins.op = "trunc" /\ inner.op = "lshr"
           /\ 2 * root.bits - 1 \in ConstantAmount(inner)
IsShifted(fn, ins, root) == ins.op \in {"ashr", "trunc"} /\ ~IsSign(fn, ins, root)
SignedSplits(fn, root) ==
    {[shifted |-> DefOf(fn, Stripped(fn, root.args[k])),
      sign |-> DefOf(fn, Stripped(fn, root.args[3 - k]))] :
        k \in {j \in 1 .. 2 :
            /\ root.op \in {"add", "sub"} /\ root.bits >= 2
            /\ IsShifted(fn, DefOf(fn, Stripped(fn, root.args[j])), root)
            /\ IsSign(fn, DefOf(fn, Stripped(fn, root.args[3 - j])), root)}}

(* The product under the shifted operand: shifted in 2W bits, or its high  *)
(* half shifted in W bits.                                                 *)
SignedHighs(fn, trunc, s, width) ==
    LET source == DefOf(fn, trunc.args[1])
    IN  IF source.op = "ashr"
        THEN {[mul |-> DefOf(fn, source.args[1]), extra |-> n - width] :
                n \in ConstantAmount(source) \cap width .. 2 * width}
        ELSE {[mul |-> h.mul, extra |-> s] :
                h \in {g \in HighHalves(fn, trunc, width) : g.shift = width}}

(* The sign must be that of the product, of its high half or of the        *)
(* dividend; a dividend narrower than W is divided in its W-bit extension. *)
SignedDividends(fn, sign, trunc, mul, product, width) ==
    LET inner == DefOf(fn, sign.args[1])
        ofProduct == sign.op = "trunc"
        source == IF ofProduct THEN product.scaled ELSE sign.args[1]
        wide == DefOf(fn, source)
    IN  IF ofProduct /\ ~SameLowBits(fn, inner.args[1], V(mul.id))
        THEN {}
        ELSE IF product.sourceBits = width
             THEN Only(\/ SameLowBits(fn, source, V(trunc.id))
                       \/ SameLowBits(fn, source, product.scaled),
                       [value |-> product.scaled, bits |-> width - 1])
             ELSE Only(/\ wide.op = "sext" /\ wide.bits = width
                       /\ wide.args[1] = product.scaled,
                       [value |-> source, bits |-> product.sourceBits - 1])

SimpleSignedChains(fn, trunc, s, sign, width) ==
    UNION {UNION {{Chain(d.value, p.magic, width + h.extra, d.bits, width, TRUE) :
                    d \in SignedDividends(fn, sign, trunc, h.mul, p, width)} :
                p \in {q \in MagicProducts(fn, h.mul, width) :
                        q.signed /\ q.magic < 2^(2 * width - 1)}} :
            h \in {g \in SignedHighs(fn, trunc, s, width) : trunc.bits = width}}

(* A negative magic number: x + high half, whose sign is used.             *)
NegativeMagicChains(fn, sum, s, root, sign, width) ==
    {Chain(x, p.magic % 2^width, width + s, width - 1, width, TRUE) :
        <<x, p>> \in UNION {
            LET high == DefOf(fn, Stripped(fn, sum.args[k]))
                x == Stripped(fn, sum.args[3 - k])
            IN  {x} \X {p \in UNION {MagicProducts(fn, h.mul, width) :
                                h \in {g \in HighHalves(fn, high, width) : g.shift = width}} :
                    /\ DefOf(fn, x).op # "trunc"
                    /\ p.signed /\ p.magic >= 2^(2 * width - 1)
                    /\ SameLowBits(fn, p.scaled, x)} :
            k \in {j \in 1 .. 2 : /\ root.op = "add" /\ sum.op = "add"
                                  /\ SameLowBits(fn, sign.args[1], V(sum.id))}}}

(* matchSignedMagicMulChain *)
SignedChains(fn, root) ==
    LET Shift(shifted) ==
            IF shifted.op = "ashr" THEN ConstantAmount(shifted) \cap 1 .. root.bits - 1
            ELSE {0}
        Base(shifted) ==
            DefOf(fn, Stripped(fn, IF shifted.op = "ashr" THEN shifted.args[1]
                                   ELSE V(shifted.id)))
        Matches(base, s, sign) ==
            IF base.op = "trunc"
            THEN SimpleSignedChains(fn, base, s, sign, root.bits)
            ELSE NegativeMagicChains(fn, base, s, root, sign, root.bits)
    IN  UNION {UNION {Matches(Base(split.shifted), s, split.sign) :
                        s \in Shift(split.shifted)} :
                split \in SignedSplits(fn, root)}

(* matchUnsignedAddMagicMulChain: (((x - h) >> 1) + h) >> s.               *)
AddChains(fn, root) ==
    LET width == root.bits
        sum == DefOf(fn, Stripped(fn, root.args[1]))
        Halved(k) == DefOf(fn, Stripped(fn, sum.args[3 - k]))
        High(k) == DefOf(fn, Stripped(fn, sum.args[k]))
        Difference(k) == DefOf(fn, Stripped(fn, Halved(k).args[1]))
        Matches(k, j, s) ==
            LET dividend == Difference(k).args[3 - j]
            IN  UNION {{[Chain(dividend, p.magic, h.shift,
                               DividendBitBound(fn, dividend, width), width, FALSE)
                            EXCEPT !.extra = s + 1] :
                        p \in {q \in MagicProducts(fn, h.mul, width) :
                                ~q.signed /\ SameLowBits(fn, q.scaled, dividend)}} :
                    h \in HighHalves(fn, High(k), width)}
    IN  IF root.op # "lshr" \/ sum.op # "add" THEN {}
        ELSE UNION {Matches(c[1], c[2], s) :
                c \in {d \in (1 .. 2) \X (1 .. 2) :
                        /\ High(d[1]).op = "trunc"
                        /\ Halved(d[1]).op = "lshr" /\ 1 \in ConstantAmount(Halved(d[1]))
                        /\ Difference(d[1]).op = "sub"
                        /\ Difference(d[1]).args[d[2]] = V(High(d[1]).id)
                        /\ Difference(d[1]).args[3 - d[2]] # V(High(d[1]).id)},
                s \in ConstantAmount(root) \cap 1 .. width - 1}

(* matchNarrowProductMagicChain: the product of a promoted narrow dividend *)
(* fits in W bits.                                                         *)
NarrowRoots(fn, root) ==
    LET a(k) == DefOf(fn, root.args[k])
    IN  IF root.op = "lshr"
        THEN {[mul |-> a(1), shift |-> n, signed |-> FALSE] : n \in ConstantAmount(root)}
        ELSE {[mul |-> DefOf(fn, a(k).args[1]), shift |-> a(k).args[2].n, signed |-> TRUE] :
                k \in {j \in 1 .. 2 :
                        /\ root.op = "add"
                        /\ a(j).op = "lshr" /\ a(3 - j).op = "lshr"
                        /\ ConstantAmount(a(j)) \notin {{}, {root.bits - 1}}
                        /\ root.bits - 1 \in ConstantAmount(a(3 - j))
                        /\ a(j).args[1] = a(3 - j).args[1]}}
NarrowChains(fn, root) ==
    LET width == root.bits
        Extend(f) == DefOf(fn, f.value)
        Fits(f, r) ==
            IF r.signed THEN 2^(Extend(f).from - 1) * f.magic < 2^(width - 1)
            ELSE (2^Extend(f).from - 1) * f.magic < 2^width
    IN  UNION {{[Chain(f.value, f.magic, r.shift,
                       IF r.signed THEN Extend(f).from - 1 ELSE Extend(f).from,
                       width, r.signed) EXCEPT !.narrow = TRUE] :
                f \in {g \in Factors(r.mul) :
                        /\ r.mul.bits = width /\ r.shift \in 1 .. width - 1
                        /\ Extend(g).op = IF r.signed THEN "sext" ELSE "zext"
                        /\ Extend(g).from < width
                        /\ Fits(g, r)}} :
            r \in NarrowRoots(fn, root)}

-----------------------------------------------------------------------------
(* rewriteConstantDivision *)

(* The matchers in the order they are tried; the first match is taken.     *)
FirstNonEmpty(choices) ==
    UNION {choices[k] : k \in {j \in DOMAIN choices :
                /\ choices[j] # {}
                /\ \A i \in 1 .. j - 1 : choices[i] = {}}}
FirstMatch(fn, root) ==
    FirstNonEmpty(<<SignedChains(fn, root), AddChains(fn, root),
                    PlainChains(fn, root), NarrowChains(fn, root)>>)

Divisor(c) ==
    IF c.extra > 0
    THEN SolveUnsignedAddMagicDivisor(c.magic, c.shift, c.extra, c.inputBits, c.width)
    ELSE SolveMagicDivisor(c.magic, c.shift, c.inputBits, c.width, c.narrow)

ReplaceRoot(fn, root, c) ==
    EraseUnused(Splice(fn, root.id, <<Ins(root.id, IF c.signed THEN "sdiv" ELSE "udiv",
                                          c.width, <<c.scaled, C(Divisor(c))>>)>>),
                ToSet(root.args), SideEffects \cup {"read"})
RewriteRoot(fn, root, solved) ==
    IF solved = {} THEN fn ELSE ReplaceRoot(fn, root, CHOOSE c \in solved : TRUE)
SolvedChains(fn, root) == {c \in FirstMatch(fn, root) : Divisor(c) # NoDivisor}
TryRoot(fn, root) == RewriteRoot(fn, root, SolvedChains(fn, root))
RewriteDivision(fn, rootId) ==
    IF Exists(fn, rootId) THEN TryRoot(fn, Def(fn, rootId)) ELSE fn

DivisionRoots(fn) ==
    LET candidates(block) ==
            SelectSeq(block, LAMBDA ins : /\ ins.bits \in RootWidths
                                          /\ ins.op \in {"trunc", "lshr", "add", "sub"})
    IN  FlattenSeq([b \in DOMAIN fn |->
            [i \in DOMAIN candidates(fn[b]) |-> candidates(fn[b])[i].id]])

RewriteDivisions(fn) == FoldLeft(RewriteDivision, fn, DivisionRoots(fn))
=============================================================================
