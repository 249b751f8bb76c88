------------------------------ MODULE Printer ------------------------------
(***************************************************************************)
(* PrintVisitor and PrettyPrinter (include/print_visitor.h): compile()     *)
(* prints every tree the checker accepts as a nested s-expression before   *)
(* it generates code.                                                      *)
(*                                                                         *)
(* A visit opens a node, prints the children, and closes the node when its *)
(* Closer goes out of scope.  `calls' is the C++ stack: what the visits    *)
(* that have begun still have to do, innermost first.  The text is kept as *)
(* a sequence of pieces; what depends on their order and on `depth' is     *)
(* exact, how a piece is spelled is left out.                              *)
(***************************************************************************)
EXTENDS TypeNames, FiniteSets

VARIABLES
  calls,    \* what is left to do of the visits that have begun
  depth,    \* PrettyPrinter::depth
  output,   \* PrettyPrinter::output, as pieces
  printing  \* "waiting", "printing" or "printed"

pr_vars  == << calls, depth, output, printing >>
chk_vars == << tc_vars, tn_vars >>
vars     == << chk_vars, pr_vars >>

(* The pieces of text, and the calls on the stack.                         *)
Line(indent)  == [piece |-> "line", indent |-> indent]
Open(name)    == [piece |-> "open", name |-> name]
Value(value)  == [piece |-> "value", value |-> value]
ClosingParen  == [piece |-> "close"]

Visit(a)      == [call |-> "visit", of |-> a]
PrintType(a)  == [call |-> "print_resolved_type", of |-> a]
VisitType(a)  == [call |-> "visit_type", of |-> a]   \* accept() of a type_identifier
Closer(a)     == [call |-> "close_node", of |-> a]   \* ~Closer() of the node of a

(* The program itself is at no address of its functions.                   *)
Root == <<0, 0, 0>>
PrintAddresses(prog) == Addresses(prog) \cup {Root}

Init ==
  /\ TNInit
  /\ calls = << >>
  /\ depth = 0
  /\ output = << >>
  /\ printing = "waiting"

----------------------------------------------------------------------------
(* What add_node writes: a new line for every node but the outermost.      *)
add_node(name) ==
  (IF depth = 0 THEN << >> ELSE << Line(4 * depth) >>) \o << Open(name) >>

(* The name of a node, the values after it, and the calls its visit makes. *)
Name(a) ==
  IF a = Root THEN "Program"
  ELSE IF a[2] = 0 THEN "FunctionDeclaration"
  ELSE IF a[3] > 0 THEN NodeAt(program, a).kind
  ELSE StatementAt(program, a).kind

Label(x) ==
  CASE x.kind \in {"Variable", "FunctionCall", "Declare", "Assign"} -> << x.name >>
    [] x.kind = "Binary"                                            -> << x.op >>
    [] x.kind \in LiteralTypes                                      -> << x.value >>
    [] OTHER                                                        -> << >>

Values(a) ==
  IF a = Root THEN << >>
  ELSE IF a[2] = 0 THEN << program[a[1]].name >>
  ELSE IF a[3] > 0 THEN Label(NodeAt(program, a))
  ELSE Label(StatementAt(program, a))

RootOf(a) == <<a[1], a[2], Len(StatementAt(program, a).value)>>

(* Faulty: the right operand is visited first.                             *)
ExpressionCallsSwapped(a) ==
  << PrintType(a) >> \o
    IF NodeAt(program, a).kind = "Binary"
    THEN << Visit(<<a[1], a[2], NodeAt(program, a).rhs>>),
            Visit(<<a[1], a[2], NodeAt(program, a).lhs>>) >>
    ELSE << >>

ExpressionCalls(a) ==
  << PrintType(a) >> \o
    IF NodeAt(program, a).kind = "Binary"
    THEN << Visit(<<a[1], a[2], NodeAt(program, a).lhs>>),
            Visit(<<a[1], a[2], NodeAt(program, a).rhs>>) >>
    ELSE << >>

(* Only a declaration prints its own type, and its annotation last.        *)
StatementCalls(a) ==
  LET stmt == StatementAt(program, a)
  IN  (IF stmt.kind = "Declare" THEN << PrintType(a) >> ELSE << >>)
      \o << Visit(RootOf(a)) >>
      \o (IF stmt.kind = "Declare" /\ stmt.annotation # NoType
          THEN << VisitType(a) >> ELSE << >>)

VisitCalls(a) ==
  IF a = Root THEN [f \in 1 .. Len(program) |-> Visit(<<f, 0, 0>>)]
  ELSE IF a[2] = 0
  THEN << PrintType(a) >> \o
       [s \in 1 .. Len(program[a[1]].statements) |-> Visit(<<a[1], s, 0>>)]
  ELSE IF a[3] > 0 THEN ExpressionCalls(a) ELSE StatementCalls(a)

----------------------------------------------------------------------------
(* The call on top of the stack is made.                                   *)
Calling(call) == printing = "printing" /\ calls # << >> /\ Head(calls).call = call
Callee        == Head(calls).of

Written(values) == [i \in 1 .. Len(values) |-> Value(values[i])]

(* A node that begins, its values, and what its visit goes on to do.       *)
Begin(name, values, rest) ==
  /\ output' = output \o add_node(name) \o Written(values)
  /\ depth' = depth + 1
  /\ calls' = rest \o << Closer(Callee) >> \o Tail(calls)
  /\ UNCHANGED << printing, chk_vars >>

(* compile() hands the checked tree to the printer.                        *)
StartPrinting ==
  /\ printing = "waiting"
  /\ status = "checked"
  /\ printing' = "printing"
  /\ calls' = << Visit(Root) >>
  /\ UNCHANGED << depth, output, chk_vars >>

PrintNode ==
  /\ Calling("visit")
  /\ Begin(Name(Callee), Values(Callee), VisitCalls(Callee))

PrintTypeExpression ==
  /\ Calling("visit_type")
  /\ Begin("TypeExpression", << StatementAt(program, Callee).annotation >>, << >>)

(* An annotation that is missing prints nothing.                           *)
PrintResolvedType ==
  /\ Calling("print_resolved_type")
  /\ IF resolved_type[Callee] = NoType
     THEN calls' = Tail(calls) /\ UNCHANGED << depth, output, printing, chk_vars >>
     ELSE Begin("ResolvedType", << identifiers[Callee] >>, << >>)

(* Faulty: the depth is not taken back.                                    *)
CloseNodeAtDepth ==
  /\ Calling("close_node")
  /\ output' = Append(output, ClosingParen)
  /\ calls' = Tail(calls)
  /\ UNCHANGED << depth, printing, chk_vars >>

(* Faulty: a copy of the Closer was made, and both take the depth back.    *)
CloseNodeTwice ==
  /\ Calling("close_node")
  /\ depth' = depth - 2
  /\ output' = Append(output, ClosingParen)
  /\ calls' = Tail(calls)
  /\ UNCHANGED << printing, chk_vars >>

CloseNode ==
  /\ Calling("close_node")
  /\ depth' = depth - 1
  /\ output' = Append(output, ClosingParen)
  /\ calls' = Tail(calls)
  /\ UNCHANGED << printing, chk_vars >>

(* accept() of the program returns and to_string() is printed.             *)
FinishPrinting ==
  /\ printing = "printing"
  /\ calls = << >>
  /\ printing' = "printed"
  /\ UNCHANGED << calls, depth, output, chk_vars >>

PrintNext ==
  StartPrinting \/ PrintNode \/ PrintTypeExpression \/ PrintResolvedType \/ CloseNode
    \/ FinishPrinting

Next == (NamedNext /\ UNCHANGED pr_vars) \/ PrintNext
Done == (status \in Errors \/ printing = "printed") /\ UNCHANGED vars
Spec == Init /\ [][Next \/ Done]_vars

----------------------------------------------------------------------------
(* Type invariant.                                                         *)
Calls == { "visit", "print_resolved_type", "visit_type", "close_node" }

TypeOK ==
  /\ \A i \in 1 .. Len(calls) :
       calls[i].call \in Calls /\ calls[i].of \in PrintAddresses(program)
  /\ depth \in Nat
  /\ \A i \in 1 .. Len(output) : output[i].piece \in {"line", "open", "value", "close"}
  /\ printing \in {"waiting", "printing", "printed"}

(* Every line is indented by four for each node open around it, and there  *)
(* are as many open as `depth' says: a Closer runs once, after everything  *)
(* its visit printed, or the unsigned depth would run below zero.          *)
Nesting(text) ==
  Cardinality({ i \in 1 .. Len(text) : text[i].piece = "open" })
    - Cardinality({ i \in 1 .. Len(text) : text[i].piece = "close" })

LayoutShowsNesting ==
  /\ depth = Nesting(output)
  /\ depth = Cardinality({ i \in 1 .. Len(calls) : calls[i].call = "close_node" })
  /\ \A i \in 1 .. Len(output) : output[i].piece = "line" =>
       /\ output[i].indent = 4 * Nesting(SubSeq(output, 1, i - 1))
       /\ output[i].indent > 0
  /\ printing = "printed" => depth = 0
============================================================================
