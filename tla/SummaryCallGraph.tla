-------------------------- MODULE SummaryCallGraph -------------------------
(***************************************************************************)
(* The bottom-up pass over a whole module (Analyzer::runBottomUp): the     *)
(* components of the call graph, callees first, and in each component      *)
(* rounds over its members until no effect changes.  A call to a function  *)
(* without an effect yet counts as a call to an unknown external.          *)
(*                                                                         *)
(* A module is a record of                                                 *)
(*   order   the functions with a body, in module order                    *)
(*   paths   for each function the instructions along its paths and how    *)
(*           each path ends, in "return" or never: a function whose entry  *)
(*           block branches to one block per path, solved in one step here *)
(*           and block by block in SummaryFlow                             *)
(* A call in a path is [op |-> "call", callee |-> [kind |-> "body",        *)
(* name |-> function]], or any call of RegisterTransfer.                   *)
(***************************************************************************)
EXTENDS CallComponents, RegisterTransfer

CONSTANT Modules

VARIABLES
  mod,         \* the module
  component,   \* the number of the component being solved
  member,      \* its next member in this round
  changed,     \* whether this round changed an effect
  effects,     \* Analyzer::Effects, of the functions solved at least once
  solvedWith   \* what the flow kept in StableFlows knew of its callees

solveVars == <<mod, component, member, changed, effects, solvedWith>>

BodyCalls(code) == {code[n].callee.name : n \in {m \in DOMAIN code :
                      code[m].op = "call" /\ code[m].callee.kind = "body"}}

CallsOf(m, f) == UNION {BodyCalls(p.code) : p \in m.paths[f]}

CallGraphOf(m) ==
  [order |-> m.order, calls |-> [f \in DOMAIN m.paths |-> CallsOf(m, f)]]

\* A direct call is to a function of the module.
ASSUME ModulesAssumption ==
  \A m \in Modules :
    /\ m.order \in Seq(DOMAIN m.paths) /\ DOMAIN m.paths = ToSet(m.order)
    /\ \A f \in DOMAIN m.paths : /\ \A p \in m.paths[f] : p.code \in Seq(ToSet(p.code))
                                /\ CallsOf(m, f) \subseteq DOMAIN m.paths

\* What a call to a function with a body is analysed as.
Resolve(i, known) ==
  IF i.op = "call" /\ i.callee.kind = "body"
  THEN [op |-> "call",
        callee |-> IF i.callee.name \in DOMAIN known
                   THEN [kind |-> "summary", effect |-> known[i.callee.name]]
                   ELSE [kind |-> "external", noReturn |-> FALSE]]
  ELSE i

Resolved(code, known) == [n \in DOMAIN code |-> Resolve(code[n], known)]

PathEnd(code) ==
  LET after[n \in 0..Len(code)] ==
        IF n = 0 THEN InitialState(TRUE)
        ELSE LET before == after[n-1] IN
             IF before.Reachable THEN TransferInstruction(code[n], before, {})
             ELSE before
  IN  after[Len(code)]

\* solveFunction against the effects known so far.
SolveFunction(m, f, known) ==
  LET ends == {<<p.ends, PathEnd(Resolved(p.code, known))>> : p \in m.paths[f]} IN
  EffectOf({e[2] : e \in {x \in ends : x[1] = "return"}},
           {e[2] : e \in {x \in ends : x[2].EndsInNoReturn}})

KnownCallees(m, f, known) ==
  [g \in CallsOf(m, f) \cap DOMAIN known |-> known[g]]

-----------------------------------------------------------------------------
BottomUpInit ==
  /\ mod \in Modules
  /\ SearchInit(CallGraphOf(mod))
  /\ component = 1 /\ member = 1 /\ changed = FALSE
  /\ effects = EmptyMap /\ solvedWith = EmptyMap

FindComponents == SearchNext /\ UNCHANGED solveVars

Solving == SearchDone /\ component <= Len(components)

\* The effect of a function solved for the first time is compared with no
\* effect at all, the value the map has for a new key.
SolveMember ==
  /\ Solving /\ member <= Len(components[component])
  /\ \E f \in {components[component][member]} :
     \E old \in {IF f \in DOMAIN effects THEN effects[f] ELSE NoEffect} :
     \E new \in {SolveFunction(mod, f, effects)} :
         /\ effects' = Put(effects, f, new)
         /\ changed' = (changed \/ old # new)
         /\ solvedWith' = Put(solvedWith, f, KnownCallees(mod, f, effects))
  /\ member' = member + 1
  /\ UNCHANGED <<searchVars, mod, component>>

\* Bugs: one round per component; "changed" is not reset for the next round.
OnlyRound ==
  /\ Solving /\ member > Len(components[component])
  /\ component' = component + 1
  /\ member' = 1
  /\ changed' = FALSE
  /\ UNCHANGED <<searchVars, mod, effects, solvedWith>>

NextRoundStillChanged ==
  /\ Solving /\ member > Len(components[component])
  /\ component' = IF changed THEN component ELSE component + 1
  /\ member' = 1
  /\ UNCHANGED <<searchVars, mod, changed, effects, solvedWith>>

NextRound ==
  /\ Solving /\ member > Len(components[component])
  /\ component' = IF changed THEN component ELSE component + 1
  /\ member' = 1
  /\ changed' = FALSE
  /\ UNCHANGED <<searchVars, mod, effects, solvedWith>>

BottomUpNext == FindComponents \/ SolveMember \/ NextRound

BottomUpSpec == BottomUpInit /\ [][BottomUpNext]_<<searchVars, solveVars>>

BottomUpDone == SearchDone /\ component > Len(components)

-----------------------------------------------------------------------------
\* A flow kept for f that took its callee g for an unknown external: both are
\* in one recursion group, and both ended as they counted before, without an
\* effect.
EndedUnknown(f, g) ==
  Reaches(f, g) /\ Reaches(g, f) /\ effects[f] = NoEffect /\ effects[g] = NoEffect

(* The effects agree with each other: solving any function again, recursive *)
(* or not, would change nothing.  The one exception: a first round that     *)
(* leaves a whole recursion group without an effect changes nothing in      *)
(* "Effects", so nobody is solved again with the callees known.             *)
EffectsAreFixpoint ==
  BottomUpDone =>
    \A f \in Nodes : \/ effects[f] = SolveFunction(mod, f, effects)
                     \/ \E g \in CallsOf(mod, f) : EndedUnknown(f, g)

(* The flow kept for callsite evidence was solved against the final effects *)
(* of its callees (the comment at StableFlows), with the same exception.    *)
StableFlowsUseFinalEffects ==
  BottomUpDone =>
    \A f \in Nodes : \A g \in CallsOf(mod, f) :
      IF g \in DOMAIN solvedWith[f] THEN solvedWith[f][g] = effects[g]
      ELSE EndedUnknown(f, g)
=============================================================================
