---------------------------- MODULE MCGtirbFlow ----------------------------
(* Images of three pieces of code, at 1, 4 and 6, that flow into each other.*)
(* The piece at 1 has two blocks; 2 and 5 are code blocks inside others.    *)
EXTENDS GtirbFlow, TLC

LOCAL INSTANCE SequencesExt

Ends == [s \in {1, 2, 3, 4, 5, 6} |->
           CASE s \in {1, 2} -> 3 [] s = 3 -> 4 [] s \in {4, 5} -> 6 [] s = 6 -> 8]

\* All flow edges and calls, in the order the image lists them.
Candidates ==
  [n \in 1..72 |-> [from |-> (((n - 1) % 36) \div 6) + 1, to |-> ((n - 1) % 6) + 1,
                    kind |-> IF n <= 36 THEN "flow" ELSE "call"]]

\* Code blocks with one end leave along the same edges.
Edges(jumps, calls) ==
  SelectSeq(Candidates, LAMBDA d : IF d.kind = "flow" THEN <<Ends[d.from], d.to>> \in jumps
                                   ELSE <<d.from, d.to>> \in calls)

\* Who knows a piece: GTIRB and .eh_frame, GTIRB only, .eh_frame only, or
\* .eh_frame and the symbol table.
Roles == {"function", "named", "range", "symbol"}

Owned(p, role, blocks) ==
  IF role \in {"function", "named"} THEN [e \in {p} |-> blocks] ELSE <<>>
SeedFor(p, role, end) ==
  [e \in {p} \ (IF role = "named" THEN {p} ELSE {}) |->
     [sources |-> {"eh-frame"} \cup (IF role = "symbol" THEN {"symbol"} ELSE {}), end |-> end]]

\* wide: the piece at 1 lists the overlapping blocks 1, 2, 3; first: the size of
\* the instruction at 1; tail: whether the function at 4 also lists the block at 6;
\* direct: the direct calls; listed: the calls GTIRB has.
Image(jumps, roles, wide, first, tail, direct, listed) ==
  [code    |-> [a \in 1..7 |-> IF a = 1 THEN first ELSE 1],
   traps   |-> {7},
   calls   |-> direct,
   blocks  |-> Ends,
   owned   |-> Owned(1, roles[1], IF wide THEN <<1, 2, 3>> ELSE <<1, 3>>)
               @@ Owned(4, roles[2], IF tail THEN <<4, 6>> ELSE <<4>>)
               @@ Owned(6, roles[3], <<6>>),
   edges   |-> Edges(jumps, listed),
   seeds   |-> SeedFor(1, roles[1], 4) @@ SeedFor(4, roles[2], 6) @@ SeedFor(6, roles[3], 8),
   runtime |-> {}, skip |-> FALSE]

\* Each pair of jumps between the ends and the starts of the pieces.
Jumps == {3, 4, 6, 8} \X {1, 2, 4, 5, 6}

UpTo2(S) == {{}} \cup {{x, y} : x, y \in S}

UpTo3(S) == {{}} \cup {{x, y, z} : x, y, z \in S}

Cold == <<"function", "function", "function">>

NoCalls == <<>>

PlainImages(J, R) == {Image(j, r, FALSE, 1, FALSE, NoCalls, {}) : j \in J, r \in R}

\* Calls, an instruction over two code blocks, and blocks shared by functions.
CallImages ==
  {Image(j, r, FALSE, 2, t, c, l) :
     j \in UpTo2(Jumps), r \in {Cold, <<"named", "function", "range">>}, t \in BOOLEAN,
     c \in {NoCalls, 2 :> 4}, l \in {{}, {<<3, 6>>}}}

\* Overlapping lists, and the piece at 4 a runtime function.
OddImages ==
  {Image(j, Cold, TRUE, 1, t, NoCalls, {}) : j \in UpTo2(Jumps), t \in BOOLEAN}
  \cup {[i EXCEPT !.runtime = {4}, !.skip = s] :
          i \in PlainImages(UpTo2(Jumps), {Cold, <<"function", "range", "function">>}), s \in BOOLEAN}

MCImages ==
  PlainImages(UpTo2(Jumps), {"function"} \X Roles \X Roles)
  \cup PlainImages(UpTo3(Jumps), {Cold, <<"function", "range", "range">>})
  \cup CallImages \cup OddImages

\* A fragment that jumps to itself, and a fragment of a fragment.
LostImages ==
  PlainImages({{<<4, 4>>, <<8, 6>>}, {<<4, 4>>, <<6, 6>>}, {<<4, 4>>, <<6, 4>>, <<6, 5>>}}, {Cold, <<"function", "range", "range">>})
=============================================================================
