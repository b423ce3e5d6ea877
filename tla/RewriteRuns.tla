----------------------------- MODULE RewriteRuns -----------------------------
(***************************************************************************)
(* Functions of lifted code executed before and after a rewriting pass,    *)
(* from the same registers and the same inputs.  A program names the pass  *)
(* it is for:                                                              *)
(*   "pre"     the peephole before the summaries (RegisterPeephole)        *)
(*   "demand"  the partial-demand rewrite (PartialDemand)                  *)
(*   "post"    the peephole after the SSA rewrite, divisions included      *)
(*   "final"   the final cleanup (FinalCleanup)                            *)
(*   "frame"   the native frame (StackFrames), "late" its late cleanup too *)
(*   "canary"  the frame, then the stack canary cleanup (CanaryCleanup)    *)
(* What can be told apart is the sequence of observations: values stored   *)
(* to memory, arguments of calls, branch conditions, returned values and,  *)
(* at calls and returns, the registers the program has others watch; the   *)
(* canary cleanup removes branches, so conditions are not observed there.  *)
(***************************************************************************)
EXTENDS RegisterPeephole, PartialDemand, FinalCleanup, CanaryCleanup

CONSTANTS Programs,      \* a sequence of records [pass, code, entries, inputs, watched, bound]
          MaxBlocks,     \* the blocks a run executes at most
          ByteBits,      \* the bits of a byte of memory
          FrameStart     \* where an "alloca" lies

RewrittenCode(p) ==
    CASE p.pass = "pre" -> PreSummary(p.code)
      [] p.pass = "demand" -> RewritePartialWrites(p.code, p.bound)
      [] p.pass = "post" -> PostRewrite(p.code)
      [] p.pass = "final" -> FinalCleanup(p.code)
      [] p.pass = "frame" -> StackFrameRewrite(p.code)
      [] p.pass = "canary" -> StackCanaryCleanup(StackFrameRewrite(p.code))
      [] p.pass = "late" -> StackFrameCleanup(StackFrameRewrite(p.code), {StackPointer})

(* What the stack address analysis says of the values of a program:        *)
(* claim.id is claim.off above the stack pointer of the entry.             *)
StackClaims(p) ==
    LET before == StackAddresses(p.code)
        address(ins) == AddressForInteger(p.code, before, V(ins.id))
    IN  IF p.pass \notin {"frame", "late"} THEN {}
        ELSE {[id |-> ins.id, off |-> address(ins).off] :
                ins \in {i \in Instructions(p.code) : address(i).kind = "entry"}}

VARIABLES
    program,       \* the program executed
    rewritten,     \* its code behind the pass
    claims,        \* what the stack address analysis says of its values
    inputs,        \* the values of its inputs, by instruction
    entry,         \* the registers at its entry
    side,          \* "original", "rewritten" or "done"
    pc, at,        \* the block and the place in it executed next
    came,          \* the block executed before this one
    registers,
    memory,        \* the bytes stored so far, by address
    values,        \* the values computed so far, by instruction
    observed,          \* the observations of this side
    expected,      \* the observations of the original
    steps         \* the blocks left so far

vars == <<program, rewritten, claims, inputs, entry, side, pc, at, came, registers, memory, values,
          observed, expected, steps>>

-----------------------------------------------------------------------------
(* Executing an instruction *)

OperandValue(m, operand) ==
    CASE operand.kind = "constant" -> operand.n
      [] operand.kind = "poison" -> Poison
      [] operand.kind = "value" -> m.values[operand.n]

Computes(m, ins, value) == [m EXCEPT !.values = (ins.id :> value) @@ @]
Sets(m, ins, value) == [m EXCEPT !.registers[ins.reg] = value]
Sees(m, observation) == [m EXCEPT !.observed = Append(@, observation)]

(* Bytes nobody stored: the stack below the entry and a new frame hold     *)
(* nothing, what lies above the entry was written by the caller.           *)
ByteAt(m, a) ==
    IF a \in DOMAIN m.memory THEN m.memory[a]
    ELSE IF StackPointer \in DOMAIN entry /\ a \in entry[StackPointer] .. FrameStart - 1
    THEN 1 + (a % (2^ByteBits - 1)) ELSE Poison
Bytes(m, a, n) == [k \in 1 .. n |-> ByteAt(m, a + k - 1)]
Joined(bytes) ==
    IF Poison \in ToSet(bytes) THEN Poison
    ELSE MapThenSumSet(LAMBDA k : bytes[k] * 2^(ByteBits * (k - 1)), DOMAIN bytes)
StoresBytes(m, a, n, value) ==
    [m EXCEPT !.memory = [b \in a .. a + n - 1 |->
        IF value = Poison THEN Poison ELSE Field(value, ByteBits * (b - a), ByteBits)] @@ @]

Watched(m, watched) == [k \in DOMAIN watched |-> m.registers[watched[k]]]

(* The effect of one instruction; x are the values of its operands.        *)
Effect(m, ins, x, given, watched) ==
    LET poisoned == Poison \in ToSet(x)
        old == m.registers[ins.reg]
    IN  CASE ins.op \in {"input", "unknown"} -> Computes(m, ins, given[ins.id])
          [] ins.op = "vararg" -> Computes(m, ins, Poison)
          [] ins.op = "load" -> Computes(m, ins, old)
          [] ins.op = "read" ->
                Computes(m, ins, IF old = Poison THEN Poison
                                 ELSE Field(old, ins.lo, ins.bits))
          [] ins.op = "store" -> Sets(m, ins, x[1])
          [] ins.op = "write" ->
                Sets(m, ins, IF poisoned \/ old = Poison THEN Poison
                             ELSE Replaced(old, ins.lo, ins.bits, x[1]))
          [] ins.op = "unreachable" -> m
          [] ins.op = "br" /\ program.pass = "canary" -> m
          [] ins.op = "br" /\ program.pass # "canary" -> Sees(m, x)
          [] ins.op = "observe" -> Sees(m, x)
          [] ins.op = "fail" -> Sees(m, <<ins.id>>)
          [] ins.op = "ret" -> Sees(m, x \o Watched(m, watched))
          [] ins.op = "call" ->
                [Sees(m, x \o Watched(m, watched)) EXCEPT
                    !.registers = [r \in DOMAIN @ |-> IF r \in Flags THEN 0 ELSE @[r]]]
          [] ins.op = "alloca" -> Computes(m, ins, FrameStart)
          [] ins.op = "gep" -> Computes(m, ins, x[1] + ins.lo)
          [] ins.op \in {"inttoptr", "ptrtoint"} -> Computes(m, ins, x[1])
          [] ins.op = "memload" -> Computes(m, ins, Joined(Bytes(m, x[1], ins.lo)))
          [] ins.op = "memstore" -> StoresBytes(m, x[2], ins.lo, x[1])
          [] ins.op = "pass" -> StoresBytes(Sees(m, Bytes(m, x[1], ins.lo)), x[1], 1, 1)
          [] ins.op = "keep" -> m
          [] ins.op = "phi" ->
                Computes(m, ins, x[CHOOSE k \in DOMAIN x : ins.to[k] = m.came])
          [] OTHER -> Computes(m, ins, IF poisoned THEN Poison ELSE Pure(ins, x))

Machine == [values |-> values, registers |-> registers, memory |-> memory,
            observed |-> observed, came |-> came]

(* The machine behind an instruction.                                      *)
Operate(m, ins, given, watched) ==
    LET x(k) == IF ins.op = "phi" /\ ins.to[k] # m.came THEN 0
                ELSE OperandValue(m, ins.args[k])
    IN  Effect(m, ins, [k \in DOMAIN ins.args |-> x(k)], given, watched)

(* The block a block leaves to.                                            *)
Target(m, last) ==
    IF last.args = <<>> THEN last.to[1]
    ELSE IF OperandValue(m, last.args[1]) = 1 THEN last.to[1] ELSE last.to[2]

-----------------------------------------------------------------------------
Init ==
    /\ program \in ToSet(Programs)
    /\ rewritten = RewrittenCode(program)
    /\ rewritten # program.code
    /\ claims = StackClaims(program)
    /\ inputs \in program.inputs
    /\ entry \in program.entries
    /\ side = "original"
    /\ pc = 1 /\ at = 1 /\ came = 0 /\ steps = 0
    /\ registers = entry
    /\ memory = <<>> /\ values = <<>>
    /\ observed = <<>> /\ expected = <<>>

CodeOf(s) == IF s = "original" THEN program.code ELSE rewritten
Instruction == CodeOf(side)[pc][at]
Behind == Operate(Machine, Instruction, inputs, program.watched)

(* The instruction after this one, or the block this one leaves to.        *)
Continue ==
    /\ Instruction.op \notin {"ret", "unreachable"}
    /\ IF Instruction.op # "br" THEN at' = at + 1 /\ UNCHANGED <<pc, came, steps>>
       ELSE /\ steps + 1 < MaxBlocks
            /\ pc' = Target(Machine, Instruction) /\ at' = 1
            /\ came' = pc /\ steps' = steps + 1
    /\ registers' = Behind.registers /\ memory' = Behind.memory
    /\ values' = Behind.values /\ observed' = Behind.observed
    /\ UNCHANGED <<side, expected>>

Ends == Instruction.op \in {"ret", "unreachable"} \/ (Instruction.op = "br" /\ steps + 1 = MaxBlocks)

(* The original ends: the rewritten code starts from the same state.       *)
Restart ==
    /\ side = "original" /\ Ends
    /\ side' = "rewritten" /\ expected' = Behind.observed
    /\ pc' = 1 /\ at' = 1 /\ came' = 0 /\ steps' = 0
    /\ registers' = entry /\ memory' = <<>> /\ values' = <<>> /\ observed' = <<>>

Finish ==
    /\ side = "rewritten" /\ Ends
    /\ side' = "done" /\ observed' = Behind.observed
    /\ registers' = Behind.registers /\ memory' = <<>> /\ values' = <<>>
    /\ UNCHANGED <<pc, at, came, steps, expected>>

Next ==
    /\ side # "done"
    /\ Continue \/ Restart \/ Finish
    /\ UNCHANGED <<program, rewritten, claims, inputs, entry>>

Spec == Init /\ [][Next]_vars

-----------------------------------------------------------------------------
(* Properties *)

(* Where the original saw a value that is not poison, the rewritten code   *)
(* saw the same one.                                                       *)
SameObservation(a, b) ==
    /\ Len(a) = Len(b)
    /\ \A k \in DOMAIN a : a[k] = Poison \/ a[k] = b[k]
SameObservations ==
    /\ Len(observed) = Len(expected)
    /\ \A k \in DOMAIN observed : SameObservation(expected[k], observed[k])
AgreeAfter(pass) ==
    (side = "done" /\ program.pass = pass) => SameObservations

(* No flag that a later branch reads is erased, and no register read is    *)
(* narrowed below what a later reader, call or return sees                 *)
(* (runNativeRegisterPreSummaryPeephole).                                  *)
PreSummaryAgrees == AgreeAfter("pre")

(* No observer - memory, call, branch condition or return slot - receives  *)
(* poison in place of a value it received before (rewritePartialWrites).   *)
DemandedBitsAgree == AgreeAfter("demand")

(* A chain replaced by a division computes that division for every         *)
(* dividend, and a field cut out of inserts is the value inserted          *)
(* (runNativeRegisterPostRewritePeephole).                                 *)
QuotientsAgree == AgreeAfter("post")

(* Lowering the helpers and erasing what is unused changes no observation, *)
(* and leaves no register access behind where no register is written       *)
(* (runNativeRegisterFinalCleanup).                                        *)
CleanupAgrees ==
    /\ AgreeAfter("final")
    /\ (side = "done" /\ program.pass = "final"
            /\ \A ins \in Instructions(program.code) :
                  ins.op \notin {"store", "write"})
        => ~HasRegisterResidue(rewritten)

(* Whatever path was taken, a value taken for an address relative to the   *)
(* entry stack pointer is that address (NativeStackAddressAnalysis).       *)
AddressesExact ==
    side = "original" => \A claim \in claims :
        claim.id \in DOMAIN values =>
            values[claim.id] = Wrap(entry[StackPointer] + claim.off, AddressBits)

(* Memory reads the same after the accesses below the entry were moved to  *)
(* a frame of their own: nothing is left behind in the machine's stack,    *)
(* and no store goes that a load or a callee would have seen.              *)
FrameAgrees == AgreeAfter("frame") /\ AgreeAfter("late")

(* A run that leaves the saved canary intact takes the same way and sees   *)
(* the same values without the check, and a branch to the failure that is  *)
(* no canary check still fails (eraseStackCanaryPredecessor).              *)
CanaryAgrees == AgreeAfter("canary")
=============================================================================
