---------------------------- MODULE MCSummaryRun ---------------------------
(* Functions that are summarised and then run.                              *)
EXTENDS SummaryRun, FlowPrograms

Slot == "slot"

\* Every function of four instructions without branches, where a store to a
\* whole register stores a whole value (the lifter writes narrower ones with
\* the partial-write helper).
Defs(v) == {Load(RDI, v), Load(RBX, v), Load(RSP, v), PRead(RDI, v), Reload(Slot, v)}
Moves(v) == {Store(RDI, v), Store(RBX, v), Plus(Store(RDI, v)), Spill(Slot, v),
             PWrite(RDI, v), Use(v)}
Calls == {Helper, Setter, External, Shape([r \in {RDI} |-> Low])}
WellTyped(code) ==
  \A m, n \in DOMAIN code :
    code[m].op = "pread" /\ code[n].op = "store" => code[n].src # code[m].val
StraightPrograms ==
  {p \in Straight({<<d1, m1, d2, m2>> :
    d1 \in Defs("e1"), m1 \in Moves("e1") \cup Calls \cup {Float(Store(RDI, Const)), Low32(PWrite(RBX, Const))},
    d2 \in Defs("b1"), m2 \in Moves("b1") \cup {Store(RDI, "e1"), Store(RSP, "b1"), Helper, Abort}}) :
     WellTyped(p.code["E"])}

\* In the entry block, a register is saved or overwritten; the loop changes
\* it again; the exit restores or uses it.
LoopPrograms ==
  Loop({<<Load(RBX, "e1"), Spill(Slot, "e1")>>, <<Load(RDI, "e1"), Store(RDI, Const)>>,
        <<Load(RDI, "e1"), Use("e1")>>},
       {<<>>},
       {<<Spill(Slot, Const)>>, <<Store(RBX, Const)>>, <<Store(RDI, "e1")>>,
        <<PRead(RDI, "b1"), PWrite(RBX, "b1")>>, <<Setter>>, <<Load(RDI, "b1"), Abort>>},
       {<<Reload(Slot, "x1"), Store(RBX, "x1")>>, <<Load(RDI, "x1"), Use("x1")>>,
        <<Exit>>})

DiamondPrograms ==
  Diamond({<<Load(RBX, "e1"), Spill(Slot, "e1"), Store(RBX, Const)>>, <<Load(RDI, "e1")>>},
          {<<>>, <<Spill(Slot, Const)>>, <<Store(RDI, "e1")>>, <<Exit>>},
          {<<>>, <<Setter>>, <<Float(Store(RDI, Const))>>},
          {<<Reload(Slot, "x1"), Store(RBX, "x1")>>, <<Use("e1")>>, <<Exit>>})

\* More loops and diamonds, whose blocks come out of their order and are
\* visited again when a later one changes a saved or copied register.
RestoringLoops ==
  Loop({<<Load(r, "e1"), i>> : r \in {RDI, RBX},
           i \in {Spill(Slot, "e1"), Store(RDI, "e1"), Plus(Store(RBX, "e1")), PWrite(RBX, "e1")}},
       {<<>>},
       {<<>>, <<Spill(Slot, Const)>>, <<Store(RBX, Const)>>, <<Store(RDI, "e1")>>,
        <<Load(RBX, "b1"), Store(RBX, "b1")>>, <<PRead(RBX, "b1"), PWrite(RDI, "b1")>>,
        <<External>>, <<Helper, Float(Store(RBX, Const))>>, <<Load(RDI, "b1"), Abort>>},
       {<<Reload(Slot, "x1"), i>> :
           i \in {Store(RBX, "x1"), Store(RDI, "x1"), Use("x1"), Use("e1"), Store(RBX, "e1")}})

RestoringDiamonds ==
  Diamond({<<Load(RBX, "e1"), Spill(Slot, "e1")>>, <<Load(RDI, "e1"), Store(RBX, Const)>>},
          {<<>>, <<Spill(Slot, Const)>>, <<Store(RBX, "e1")>>, <<Exit>>},
          {<<>>, <<Setter>>, <<Store(RDI, "e1")>>},
          {<<Reload(Slot, "x1"), Store(RBX, "x1")>>, <<Use("e1"), Store(RBX, "e1")>>})

\* A value moved on after its register changed, and part of a callee-saved
\* register saved and taken back as the whole.
LatePrograms ==
  Straight({<<Load(RDI, "e1"), i, j, Load(RBX, "b1"), Store(RDI, "b1"), Load(RDI, "x1"), Use("x1")>> :
              i \in {Store(RDI, Const), Setter, PWrite(RDI, Const)},
              j \in {Store(RBX, "e1"), PWrite(RBX, "e1"), Use("e1")}}
           \cup {<<PRead(r, "e1"), Spill(Slot, "e1"), Store(r, Const), i, Reload(Slot, "b1"), Store(RBX, "b1")>> :
              r \in {RDI, RBX}, i \in {Helper, Load(RDI, "x1"), Spill(Slot, Const)}})

AllPrograms == LatePrograms \cup StraightPrograms \cup LoopPrograms \cup DiamondPrograms
               \cup RestoringLoops \cup RestoringDiamonds
MCPrograms == AllPrograms

ASSUME VisibleAssumption == \A p \in MCPrograms : ReadsVisible(p)

\* A PHI: the value is loaded in one predecessor of the block that uses it.
PhiPrograms == Diamond({<<>>}, {<<Load(RDI, "e1")>>}, {<<>>}, {<<Use("e1")>>})

=============================================================================
