------------------------- MODULE MCCallSignatures -------------------------
(* Two integer and one float input, one output of each class, one register    *)
(* besides, two stack slots; registers of four bits, floats of two.          *)
EXTENDS CallSignatures

MCIntInputs == <<"RDI", "RSI">>
MCFloatInputs == <<"XMM0">>
MCOutputs == <<"RAX", "XMM0">>
MCFloatOutputs == <<"XMM0">>
MCCarrying == {"RCX"}
MCOthers == <<"RCX">>
MCStackUnits == <<"s1", "s2">>
MCWidth == 4
MCFloatWidth == 2

AllBits == 0 .. MCWidth - 1
AllRegisters == {"RDI", "RSI", "XMM0", "RAX", "RCX"}
Untouched == [read |-> {}, entry |-> AllBits, changed |-> {}, exit |-> {}]

Reads(S, R) == [r \in AllRegisters |-> IF r \in R THEN [Untouched EXCEPT !.read = S] ELSE Untouched]

Origins == {"local", "entry", "clobber", "mixed"}
Plain == [u \in AllRegisters \cup {"s1", "s2"} |-> "entry"]

\* Where the two stack slots come from: the stores to them fill a prefix.  At a
\* jump they need not, see SecondStored.
StackOrigins == {<<"entry", "entry">>, <<"local", "entry">>, <<"local", "local">>, <<"local", "mixed">>}

At(rdi, rsi, xmm, s) ==
  [Plain EXCEPT !["RDI"] = rdi, !["RSI"] = rsi, !["XMM0"] = xmm, !["s1"] = s[1], !["s2"] = s[2]]

Call(caller, callee, tail, origin) ==
  [caller |-> caller, callee |-> callee, tail |-> tail, origin |-> origin, consumed |-> {}, uses |-> {}, al |-> -1]

Bodies(B, facts, loads, calls) ==
  [body |-> B, convention |-> [f \in B |-> "internal"], variadic |-> {}, facts |-> facts, loads |-> loads,
   parts |-> [f \in B |-> {}], proto |-> [f \in {} |-> 0], calls |-> calls]

\* main calls a wrapper and its target, and the wrapper jumps to the target with
\* stack slots as jumped has them.
WrappersWith(jumped) ==
  {Bodies({"main", "mid", "leaf"},
          [f \in {"main", "mid", "leaf"} |->
             CASE f = "main" -> Reads({}, {}) [] f = "mid" -> Reads(AllBits, R) [] OTHER -> Reads({0, 1}, {"RDI", "RCX"})],
          [f \in {"main", "mid", "leaf"} |-> CASE f = "main" -> {} [] f = "mid" -> M [] OTHER -> L],
          [c \in {"into", "jump", "direct"} |->
             CASE c = "into" -> Call("main", "mid", FALSE, At(o, "local", "entry", s))
               [] c = "jump" -> Call("mid", "leaf", jumps, At("entry", "entry", "entry", t))
               [] OTHER -> Call("main", "leaf", FALSE, At("local", "entry", "entry", s))]) :
     R \in {{}, {"RDI"}}, M \in {{}, {"s1"}, {"s1", "s2"}}, L \in {{"s1"}, {"s2"}, {"s1", "s2"}}, o \in Origins,
     s \in StackOrigins, t \in jumped, jumps \in BOOLEAN}

Wrappers == WrappersWith({<<"entry", "entry">>, <<"local", "entry">>, <<"local", "local">>})

\* Two calls of one function that is not known, or of a variadic one.
Externals ==
  {[Bodies({"main"}, [f \in {"main"} |-> Reads({}, {})], [f \in {"main"} |-> {}],
           [c \in {"first", "second"} |->
              [Call("main", "ext", FALSE, IF c = "first" THEN At("local", "local", "local", <<"entry", "entry">>)
                                         ELSE At(o, q, x, s))
                EXCEPT !.al = al, !.consumed = used, !.uses = IF c = "second" THEN {<<"RAX", AllBits>>} ELSE {}]])
      EXCEPT !.proto = proto] :
     o \in Origins, q \in Origins, x \in {"local", "entry"}, s \in StackOrigins, al \in {0, 1},
     used \in {{}, {"RSI"}},
     proto \in {[f \in {} |-> 0],
                [f \in {"ext"} |-> [ints |-> 1, floats |-> 0, vararg |-> TRUE, returns |-> {}, max |-> 0]],
                [f \in {"ext"} |-> [ints |-> 3, floats |-> 2, vararg |-> FALSE, returns |-> {IntSlot("RAX")}, max |-> 0]]}}

\* A variadic function with a body, called twice.
Variadics ==
  {[Bodies({"main", "log"}, [f \in {"main", "log"} |-> IF f = "log" THEN Reads(AllBits, {"RDI"}) ELSE Reads({}, {})],
           [f \in {"main", "log"} |-> {}],
           [c \in {"first", "second"} |->
              Call("main", "log", FALSE, IF c = "first" THEN At("local", "local", "local", s) ELSE At(o, q, "entry", t))])
      EXCEPT !.variadic = {"log"}] :
     o \in Origins, q \in Origins, s \in StackOrigins, t \in StackOrigins}

\* A call through a pointer.
Indirects ==
  {Bodies({"main"}, [f \in {"main"} |-> Reads({}, {})], [f \in {"main"} |-> {}],
          [c \in {"call"} |-> [Call("main", "indirect", FALSE, At(o, q, x, s)) EXCEPT !.uses = {<<"RAX", AllBits>>}]]) :
     o \in Origins, q \in Origins, x \in Origins, s \in StackOrigins}

\* What main reads of RAX behind a call, from the whole to two parts of it.
RaxReads == {{AllBits}, {{0}}, {{0, 1}}, {{2, 3}}, {{0}, {1, 2, 3}}, {{0, 1}, AllBits}}

\* A callee that writes and keeps some bits of the outputs; what is written
\* starts at the lowest bit, or above it, or has holes.
Returning ==
  {[Bodies({"main", "leaf"},
           [f \in {"main", "leaf"} |->
              IF f = "main" THEN [Reads({}, {}) EXCEPT !["RAX"].exit = x]
              ELSE [Reads({}, {}) EXCEPT !["RAX"] = [read |-> k, entry |-> k, changed |-> d, exit |-> AllBits],
                                         !["XMM0"] = [Untouched EXCEPT !.changed = e, !.exit = AllBits]]],
           [f \in {"main", "leaf"} |-> {}],
           [c \in {"call"} |-> [Call("main", "leaf", FALSE, At("local", "entry", "entry", <<"entry", "entry">>))
                                  EXCEPT !.uses = ({"RAX"} \X reads) \cup {<<"XMM0", AllBits>>}]])
      EXCEPT !.parts["main"] = cut] :
     d \in {{}, {0}, {0, 1}, {0, 1, 2}, AllBits, {1}, {2, 3}, {0, 3}, {1, 3}, {0, 2, 3}},
     e \in {{}, {0, 1}, AllBits}, k \in {{}, {0}}, reads \in RaxReads, x \in {AllBits, {0, 1}},
     cut \in {{}, {<<"RAX", {0}>>}}}

MCModules == Wrappers \cup Externals \cup Variadics \cup Indirects \cup Returning

\* The wrapper changes its second stack argument only.
SecondStored == WrappersWith({<<"entry", "local">>})
===========================================================================
