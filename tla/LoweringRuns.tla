---------------------------- MODULE LoweringRuns ----------------------------
(* The parts of the lowering in one run: a function cut into LLVM blocks     *)
(* (PcodeRuns), straight-line p-code lowered operation by operation (OpRuns), *)
(* or a function of x87 instructions lowered to the window (X87Window).      *)
EXTENDS OpRuns

CONSTANTS PcodeFunctions, Uniques, X87Functions, Values, Arith(_, _), Unary(_), MaxStack

VARIABLES
    fun, pc, lowering, where, came, uniq, result, seen, pointer,       \* PcodeRuns
    x87Fun, block, x87Pc, stack, window, stored, tracked               \* X87Window

blockVars == <<fun, pc, lowering, where, came, uniq, result, seen, pointer>>

windowVars == <<x87Fun, block, x87Pc, stack, window, stored, tracked>>

Shape == INSTANCE PcodeRuns
Window == INSTANCE X87Window WITH fun <- x87Fun, pc <- x87Pc

NoBlocks ==
    /\ fun = [ops |-> <<>>] /\ pc = 0 /\ lowering = <<>> /\ where = 0 /\ came = 0
    /\ uniq = <<>> /\ result = <<>> /\ seen = <<Shape!Undefined, Shape!Undefined>>
    /\ pointer = "other"
NoOperations == code = <<>> /\ place = 1 /\ machine = <<>> /\ lowered = <<>>
NoWindow ==
    /\ x87Fun = <<>> /\ block = Window!Finished /\ x87Pc = 1 /\ stack = <<>>
    /\ window = [precise |-> FALSE] /\ stored = <<<<>>, <<>>>> /\ tracked = FALSE

LoweringInit ==
    \/ Shape!Init /\ NoOperations /\ NoWindow
    \/ OpInit /\ NoBlocks /\ NoWindow
    \/ Window!Init /\ NoBlocks /\ NoOperations

LoweringNext ==
    \/ code = <<>> /\ Shape!Next /\ UNCHANGED <<opVars, windowVars>>
    \/ code # <<>> /\ ExecuteInstruction /\ UNCHANGED <<blockVars, windowVars>>
    \/ Window!Next /\ UNCHANGED <<blockVars, opVars>>

LoweringSpec == LoweringInit /\ [][LoweringNext]_<<opVars, blockVars, windowVars>>

(* The lowered function executes the operations p-code executes, in the    *)
(* same order, and leaves when it leaves: block starts, block ends,        *)
(* targets, false edges and empty blocks of buildBasicBlocks and           *)
(* lowerTerminator.                                                        *)
SamePlace == Shape!SamePlace

(* A temporary read behind a branch inside an instruction has the value    *)
(* p-code gives it on that path, or is unknown, but never has the value of *)
(* another path or iteration (for functions that set no temporary to a     *)
(* constant and again to something else): visibleCachedValue.              *)
UniquesAgree == Shape!UniquesAgree

(* An indirect call becomes a call of the external of a GOT slot only if   *)
(* its pointer was loaded from that slot (comment at                       *)
(* PcodeLoweringConfig::IndirectExternalCallTargets).                      *)
SlotCallsLoadedSlot == Shape!SlotCallsLoadedSlot

(* Between two machine instructions the lowered code has the registers,    *)
(* memory and temporaries of the p-code machine, whichever registers       *)
(* overlap and whether or not the pushes and pops of return addresses were *)
(* left out (PcodeToLLVM.cpp lowerOp, RegisterStorage.cpp).                *)
OpsAgree == code # <<>> => StatesAgree

(* The window and the library hold the x87 stack slot by slot, and what an *)
(* instruction stores or compares is what the processor stores or          *)
(* compares, on every path of a function, whatever lies below the stack of *)
(* a function that fell back: lowerX87Window, x87WindowPush/Pop/peek/poke. *)
WindowHoldsStack == Window!WindowHoldsStack

(* Where the depth is known it is the depth of the x87 stack, and the      *)
(* library holds what exceeds the window and nothing else (for functions   *)
(* that combine no value returned in ST0 with others):                     *)
(* computeX87BlockDepths.                                                  *)
DepthIsExact == Window!DepthIsExact
=============================================================================
