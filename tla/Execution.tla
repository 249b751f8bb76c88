----------------------------- MODULE Execution -----------------------------
(***************************************************************************)
(* What the compiler is for: the requests it made of LLVM, run as the      *)
(* LLVM language reference says, do what the source says.  Running is      *)
(* external to the repository; its meaning is stated twice here, over the  *)
(* requests with registers, slots and widths, and over the source with     *)
(* names and integers.  In both a function runs with `calls', what the     *)
(* functions it can call show and return.                                  *)
(***************************************************************************)
EXTENDS CodegenRules

----------------------------------------------------------------------------
(* Numbers.                                                                *)

Signed(type, bits) ==
  IF type \in DOMAIN Narrow /\ 2 * bits >= Narrow[type] THEN bits - Narrow[type] ELSE bits

(* Division drops the fraction, whatever the signs.                        *)
Magnitude(n) == IF n < 0 THEN -n ELSE n

Quotient(a, b) ==
  LET parts == Magnitude(a) \div Magnitude(b)
  IN  IF (a < 0) = (b < 0) THEN parts ELSE -parts

(* The bits of the result are those that fit; only the narrow types lose   *)
(* some (see AsBits).                                                      *)
Compute(op, type, a, b) ==
  AsBits(type, CASE op = "Add"  -> a + b
                 [] op = "Sub"  -> a - b
                 [] op = "Mul"  -> a * b
                 [] op = "UDiv" -> a \div b
                 [] OTHER       -> Quotient(Signed(type, a), Signed(type, b)))

----------------------------------------------------------------------------
(* Running the requests.  A frame has a cell for every request: its result *)
(* or, for an Alloca, what is stored there.                                *)

NewFrame == [cell |-> << >>, shown |-> << >>, returned |-> 0]

Get(frame, value) ==
  IF value.of[1] = "constant" THEN value.of[2] ELSE frame.cell[value.of[2]]

Printed(frame, value) == [type |-> value.type, bits |-> Get(frame, value)]

Answer(frame, number) == [frame EXCEPT !.cell = Append(@, number)]

Perform(frame, r, calls) ==
  CASE r.op = "Alloca" -> Answer(frame, 0)
    [] r.op = "Store"  -> Answer([frame EXCEPT !.cell[r.slot] = Get(frame, r.value)], 0)
    [] r.op = "Load"   -> Answer(frame, frame.cell[r.slot])
    [] r.op = "Call"   -> Answer([frame EXCEPT !.shown = @ \o calls[r.function].shown],
                                 calls[r.function].returned)
    [] r.op = "Print"  -> Answer([frame EXCEPT !.shown = Append(@, Printed(frame, r.value))], 0)
    [] r.op = "Ret"    -> Answer([frame EXCEPT !.returned = Get(frame, r.value)], 0)
    [] OTHER           -> Answer(frame, Compute(r.op, r.lhs.type,
                                                Get(frame, r.lhs), Get(frame, r.rhs)))

(* The frame of function f after each request: a function has one block,   *)
(* and its requests run in the order they were made.                       *)
Frames(requests, f, calls) ==
  LET Frame[n \in 0 .. Len(requests)] ==
        IF n = 0 THEN NewFrame
        ELSE IF requests[n].at[1] = f THEN Perform(Frame[n - 1], requests[n], calls)
        ELSE Answer(Frame[n - 1], 0)
  IN  Frame

(* What a call of each function of the module shows and returns.           *)
Executed(requests, functions) ==
  LET Run[f \in 1 .. functions] ==
        Frames(requests, f, [g \in 1 .. f - 1 |-> Run[g]])[Len(requests)]
  IN  Run

----------------------------------------------------------------------------
(* The meaning of the source, with integers of any size.                   *)

(* The function a call means: of two with one name the first.              *)
Callee(prog, name) ==
  CHOOSE f \in 1 .. Len(prog) : prog[f].name = name /\ \A g \in 1 .. f - 1 : prog[g].name # name

Arithmetic(op, l, r) ==
  CASE op = "Plus"     -> l + r
    [] op = "Minus"    -> l - r
    [] op = "Asterisk" -> l * r
    [] OTHER           -> IF r = 0 THEN 0 ELSE Quotient(l, r)

(* The number of each node of e.                                           *)
Evaluated(prog, e, held, calls) ==
  LET Number[i \in 1 .. Len(e)] ==
        CASE e[i].kind \in LiteralTypes   -> e[i].value
          [] e[i].kind = "Variable"     -> held[e[i].name]
          [] e[i].kind = "FunctionCall" -> calls[Callee(prog, e[i].name)].returned
          [] OTHER -> Arithmetic(e[i].op, Number[e[i].lhs], Number[e[i].rhs])
  IN  Number

(* What was shown when the first nodes of e were evaluated.                *)
ShownBy(prog, e, before, calls) ==
  LET Shown[i \in 0 .. Len(e)] ==
        IF i = 0 THEN before
        ELSE IF e[i].kind = "FunctionCall"
        THEN Shown[i - 1] \o calls[Callee(prog, e[i].name)].shown ELSE Shown[i - 1]
  IN  Shown

After(prog, stmt, state, calls) ==
  LET e     == stmt.value
      value == Evaluated(prog, e, state.vars, calls)[Len(e)]
      shown == ShownBy(prog, e, state.shown, calls)[Len(e)]
  IN  [vars     |-> IF stmt.kind \in {"Declare", "Assign"}
                    THEN [state.vars EXCEPT ![stmt.name] = value] ELSE state.vars,
       shown    |-> IF stmt.kind = "Show" THEN Append(shown, value) ELSE shown,
       returned |-> IF stmt.kind = "Return" THEN value ELSE state.returned]

Begun == [vars |-> [n \in Names |-> 0], shown |-> << >>, returned |-> 0]

(* The state of function f after each statement.                           *)
States(prog, f, calls) ==
  LET State[s \in 0 .. Len(prog[f].statements)] ==
        IF s = 0 THEN Begun
        ELSE After(prog, prog[f].statements[s], State[s - 1], calls)
  IN  State

(* What a call of each function shows and returns.                         *)
Meaning(prog) ==
  LET Mean[f \in 1 .. Len(prog)] ==
        States(prog, f, [g \in 1 .. f - 1 |-> Mean[g]])[Len(prog[f].statements)]
  IN  Mean

----------------------------------------------------------------------------
(* Where the two can be compared.                                          *)

(* The numbers of an int type; of a wide one those that every wide type    *)
(* with its sign has, for a value may be narrower than its node's type.    *)
Wide == 2147483647

Numbers(type) ==
  LET width == IntWidth[type]
      half  == Narrow[width] \div 2
  IN  CASE width \in DOMAIN Narrow /\ type \in SignedTypes   -> (-half) .. (half - 1)
        [] width \in DOMAIN Narrow /\ type \in UnsignedTypes -> 0 .. (Narrow[width] - 1)
        [] OTHER -> IF type \in SignedTypes THEN (-Wide) .. Wide ELSE 0 .. Wide

TypeOf(a) == IF NodeAt(program, a).kind = "FunctionCall" THEN "Int32" ELSE resolved_type[a]

(* No number leaves the type of its node, and a division is one of numbers *)
(* of its type, and not by zero.                                           *)
IsExact(a, e, number) ==
  \A i \in 1 .. Len(e) :
    LET numbers == Numbers(TypeOf(<<a[1], a[2], i>>))
    IN  /\ number[i] \in numbers
        /\ e[i].kind = "Binary" /\ e[i].op = "ForwardSlash" =>
             /\ number[e[i].lhs] \in numbers /\ number[e[i].rhs] \in numbers
             /\ number[e[i].rhs] # 0

(* The results of the functions before f.                                  *)
Earlier(results, f) == [g \in 1 .. f - 1 |-> results[g]]

NumbersFit ==
  \A a \in StatementAddresses(program) :
    LET calls == Earlier(Meaning(program), a[1])
        held  == States(program, a[1], calls)[a[2] - 1].vars
        e     == StatementAt(program, a).value
    IN  IsExact(a, e, Evaluated(program, e, held, calls))

OnlyInts ==
  \A a \in NodeAddresses(program) :
    TypeOf(a) \in IntTypes /\ NodeAt(program, a).kind # "FloatLiteral"

(* No function calls itself: it would never return.                        *)
NoRecursion ==
  \A a \in NodeAddresses(program) :
    NodeAt(program, a).kind = "FunctionCall" => Callee(program, NodeAt(program, a).name) # a[1]

----------------------------------------------------------------------------
(* What was shown are these numbers, each as its type has it.              *)
ShowsAs(shown, numbers) ==
  /\ Len(shown) = Len(numbers)
  /\ \A i \in 1 .. Len(numbers) : shown[i].bits = AsBits(shown[i].type, numbers[i])

DoesAs(executed, meant) ==
  executed.returned = meant.returned /\ ShowsAs(executed.shown, meant.shown)

(* Wherever the module is one LLVM gives a meaning to and the numbers of   *)
(* the source stay within its types, every function of the module shows    *)
(* and returns exactly what the source says.  In particular no constant    *)
(* loses a bit, no operand or slot is exchanged, signed and unsigned       *)
(* division are told apart, and calls run in the order they are written.   *)
RunsAsWritten ==
  gen = "generated" /\ ModuleIsValid /\ OnlyInts /\ NoRecursion /\ NumbersFit =>
    LET executed == Executed(ir, Len(program))
        meant    == Meaning(program)
    IN  \A f \in 1 .. Len(program) : DoesAs(executed[f], meant[f])
============================================================================
