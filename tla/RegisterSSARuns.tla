-------------------------- MODULE RegisterSSARuns --------------------------
(* A function before the register SSA pass and after it, executed side by    *)
(* side: every bit of a register or of a value is a token that tells where it *)
(* was made.                                                                 *)
EXTENDS RegisterSSA

CONSTANT Functions

\* What the pass makes of each function.
Rewritten == RewriteAll(Functions)

Bits == 0 .. Width - 1

Token(by, r, n, t) == [by |-> by, reg |-> r, bit |-> n, turn |-> t]

Unknown == Token(None, "unknown", 0, 0)
Lost == Token(None, "lost", 0, 0)
EntryBit(r, n) == Token(None, r, n, 0)

VARIABLES fun, built, dead,  \* the function, its values and its erased stores
          place, old, new,    \* the place, and the registers before and after
          env,             \* the values of the terms computed so far
          turn,            \* tells two executions of an instruction apart
          clouded,         \* bits whose value a call with mixed effect hid
          seen,            \* what the instruction executed last saw, twice
          passed           \* what it passed as arguments or returned, twice

vars == <<fun, built, dead, place, old, new, env, turn, clouded, seen, passed>>

Slice(word, off, w) == [n \in 0 .. w - 1 |-> word[off + n]]

RECURSIVE Eval(_, _)
Eval(e, t) ==
  LET u == Resolve(built, t)
  IN CASE u[1] = "entry"   -> [n \in 0 .. u[2].w - 1 |-> EntryBit(u[2].reg, u[2].off + n)]
       [] u[1] = "bits"    -> Slice(Eval(e, u[2]), u[3], u[4])
       [] u[1] = "unknown" -> [n \in 0 .. u[3].w - 1 |-> Unknown]
       [] u \in DOMAIN e   -> e[u]
       [] OTHER            -> [n \in Bits |-> Lost]

PhisOf(b) == {k \in DOMAIN built.phis : k[1] = b /\ Phi(b, k[2]) \notin DOMAIN built.repl}

\* All PHIs of a block take their values from the edge taken.
Enter(c, b, e) ==
  LET value(k) == Eval(e, (CHOOSE n \in {built.phis[k][m] : m \in DOMAIN built.phis[k]} : n.pred = c).value)
      phis == {Phi(b, k[2]) : k \in PhisOf(b)}
  IN [t \in DOMAIN e \cup phis |-> IF t \in phis THEN value(<<b, t[3]>>) ELSE e[t]]

\* What an instruction sees: a register's bits before and after the pass, and
\* the bits an unknown value may stand for.
Sight(r, off, was, is, hidden) == {<<was[n], is[n], off + n \in hidden>> : n \in DOMAIN was}

Written(word, off, bits) ==
  [n \in Bits |-> IF n - off \in DOMAIN bits THEN bits[n - off] ELSE word[n]]

Init ==
  /\ fun \in DOMAIN Rewritten
  /\ built = Rewritten[fun].built
  /\ dead = Rewritten[fun].dead
  /\ place = <<1, 1>>
  /\ old = [r \in Regs |-> [n \in Bits |-> EntryBit(r, n)]]
  /\ new = old
  /\ env = EmptyMap
  /\ turn = 0
  /\ clouded = [r \in Regs |-> {}]
  /\ seen = {}
  /\ passed = {}

Here == Ins(fun, place)

ReadIt ==
  /\ Here.op = "read"
  /\ LET span == Here.off .. Here.off + Here.w - 1
         part(n) == CHOOSE y \in built.parts[place] : n \in y[1].off .. y[1].off + y[1].w - 1
         joined == [n \in 0 .. Here.w - 1 |-> Eval(env, part(Here.off + n)[2])[Here.off + n - part(Here.off + n)[1].off]]
         e == IF place \in DOMAIN built.parts THEN Put(env, Joined(place), joined) ELSE env
         was == Slice(old[Here.reg], Here.off, Here.w)
         is == IF Replaced(built, place) THEN Eval(e, Read(place)) ELSE Slice(new[Here.reg], Here.off, Here.w)
         hidden == {n - Here.off : n \in clouded[Here.reg] \cap span}
     IN /\ env' = Put(Put(Put(e, <<"was", place>>, was), Read(place), is), <<"hidden", place>>, hidden)
        /\ seen' = Sight(Here.reg, 0, was, is, hidden)
  /\ UNCHANGED <<old, new, clouded>>

WriteIt ==
  /\ Here.op = "write"
  /\ LET span == Here.off .. Here.off + Here.w - 1
         fresh == [n \in 0 .. Here.w - 1 |-> Token(place, Here.reg, n, turn)]
         was == IF Here.from = None THEN fresh ELSE env[<<"was", Here.from>>]
         hidden == IF Here.from = None THEN {} ELSE {n + Here.off : n \in env[<<"hidden", Here.from>>]}
     IN /\ env' = Put(env, Def(place), fresh)
        /\ old' = [old EXCEPT ![Here.reg] = Written(@, Here.off, was)]
        /\ new' = IF place \in dead THEN new
                  ELSE [new EXCEPT ![Here.reg] = Written(@, Here.off, Eval(env', Source(fun, place)))]
        /\ clouded' = [clouded EXCEPT ![Here.reg] = (@ \ span) \cup hidden]
  /\ seen' = {}

XorIt ==
  /\ Here.op = "xor"
  /\ LET zero(t) == env[<<t, Here.x>>] = env[<<t, Here.y>>]
     IN seen' = {<<zero("was"), FoldedToZero(fun, place) \/ zero("read"), FALSE>>}
  /\ UNCHANGED <<old, new, env, clouded>>

\* The bits a callee changes; on some paths it leaves the registers of mayEntry.
Changes(r, changed) ==
  CASE r \in AbiPreserved                                          -> {}
    [] Here.callee # "known"                                       -> IF changed \/ Here.callee = "external" THEN Bits ELSE {}
    [] OTHER -> IF changed \/ r \notin Here.mayEntry THEN Here.nonEntry[r] ELSE {}

CallIt(changed) ==
  /\ Here.op = "call"
  /\ LET after(w, r) == [n \in Bits |-> IF n \in Changes(r, changed) THEN Token(place, r, n, turn) ELSE w[n]]
         ranges == {x \in AllRanges(fun) : ~Keeps(fun, place, x)}
         values == {CallValue(place, x) : x \in ranges}
         bits(r, S) == UNION {x.off .. x.off + x.w - 1 : x \in {y \in S : y.reg = r}}
     IN /\ old' = [r \in Regs |-> after(old[r], r)]
        /\ new' = [r \in Regs |-> after(new[r], r)]
        /\ env' = [t \in DOMAIN env \cup values |->
                      IF t \in values THEN Slice(old'[t[3].reg], t[3].off, t[3].w) ELSE env[t]]
        /\ clouded' = [r \in Regs |->
                         (clouded[r] \ bits(r, ranges)) \cup bits(r, {x \in ranges : Loses(fun, place, x)})]
  /\ seen' = UNION {Sight(r, 0, old[r], new[r], clouded[r]) : r \in Here.reads}

\* The bits of a slot, of which all may be unknown if one is.
SlotSights(s) ==
  LET parts == built.slots[<<place, s>>]
      part(n) == CHOOSE y \in parts : n \in y[1].off .. y[1].off + y[1].w - 1
      value(n) == IF parts = {} THEN Unknown ELSE Eval(env, part(n)[2])[n - part(n)[1].off]
      span == s.off .. s.off + s.w - 1
  IN {<<old[s.reg][n], value(n), clouded[s.reg] \cap span # {}>> : n \in span}

PassArguments == Here.op = "call" /\ passed' = UNION {SlotSights(s) : s \in Here.args}

AtEnd == place[2] > Len(fun.code[place[1]])

Execute ==
  /\ ~AtEnd
  /\ \/ (ReadIt \/ WriteIt \/ XorIt) /\ passed' = {}
     \/ PassArguments /\ \E changed \in BOOLEAN : CallIt(changed)
  /\ place' = <<place[1], place[2] + 1>>
  /\ turn' = 1 - turn

Leave ==
  /\ AtEnd
  /\ \E n \in DOMAIN fun.succ[place[1]] : place' = <<fun.succ[place[1]][n], 1>>
  /\ env' = Enter(place[1], place'[1], env)
  /\ seen' = {}
  /\ passed' = {}
  /\ UNCHANGED <<old, new, turn, clouded>>

Next == (Execute \/ Leave) /\ UNCHANGED <<fun, built, dead>>

SSASpec == Init /\ [][Next]_vars

---------------------------------------------------------------------------
Agrees(sight) == sight[1] = sight[2] \/ (sight[2] = Unknown /\ sight[3])

\* Every read, every folded XOR and every callee sees after the pass what it
\* saw before it, except that a bit may be unknown behind a call of mixed effect
\* that the signature does not return: readRangeBefore, completeRangePhi,
\* simplifyRangePhi, callEffect, removeDeadStoresByLiveness.
ReadsAgree == \A sight \in seen : Agrees(sight)

\* Where the function ends, the registers its callers demand hold what they held
\* before the pass erased stores, and the values collected for its return are
\* theirs: addExitLiveRegisters, eraseDeadStoresInBlock, collectFunctionReturnValues.
ExitsAgree ==
  AtEnd /\ fun.succ[place[1]] = <<>> =>
    \A s \in fun.exits :
      /\ \A n \in s.off .. s.off + s.w - 1 : Agrees(<<old[s.reg][n], new[s.reg][n], n \in clouded[s.reg]>>)
      /\ \A sight \in SlotSights(s) : Agrees(sight)

\* A call gets the register's value as its argument, however the slot and the
\* planned ranges overlap; behind a call of mixed effect it may be the value the
\* register had at the entry: readSlotRangeBefore, composePlannedRangeRead.
ArgumentsAgree ==
  \A sight \in passed : Agrees(sight) \/ (sight[3] /\ sight[2] \in {EntryBit(r, n) : r \in Regs, n \in Bits})

=============================================================================
