-------------------------------- MODULE Ast --------------------------------
(***************************************************************************)
(* The syntax tree of B2 (include/ast.h) and the order in which its nodes  *)
(* are visited.                                                            *)
(*                                                                         *)
(* The parser builds a tree of unique_ptrs whose nodes are allocated, and  *)
(* later visited by both passes, children before parent and left before    *)
(* right.  An expression is therefore the sequence of its nodes in that    *)
(* order: a binary node names its operands by their index, and the last    *)
(* node is the root.  A node of a program has an address <<f, s, e>>:      *)
(* node e of statement s of function f; <<f, s, 0>> is the statement       *)
(* itself and <<f, 0, 0>> the function.                                    *)
(***************************************************************************)
EXTENDS Integers, Sequences

----------------------------------------------------------------------------
(* Types.                                                                  *)

SignedTypes   == {"Int8", "Int16", "Int32", "Int64"}
UnsignedTypes == {"UInt8", "UInt16", "UInt32", "UInt64"}
IntTypes      == SignedTypes \cup UnsignedTypes
FloatTypes    == {"Float32", "Float64"}
LiteralTypes  == {"IntLiteral", "FloatLiteral"}

(* The names is_builtin_type lets the parser accept as an annotation.      *)
BuiltinTypes == IntTypes \cup FloatTypes \cup {"Bool", "String"}

(* A byte of type TypeId that was never written and is no enumerator.      *)
Indeterminate == "Indeterminate"

(* What a field of type TypeId can hold.                                   *)
TypeIds == BuiltinTypes \cup LiteralTypes \cup {"UserDefined", Indeterminate}

(* The empty std::optional<Type>, the null type_identifier of an untyped   *)
(* declaration, and the absent entry of a symbol table.                    *)
NoType == "NoType"

----------------------------------------------------------------------------
(* Expressions.                                                            *)

(* The operators the parser can put into a tree (precedence > 0).          *)
ArithmeticOperators == {"Plus", "Minus", "Asterisk", "ForwardSlash"}
BinaryOperators     == ArithmeticOperators \cup {"Equals"}

(* A literal keeps the number it was read as, a float in tenths; the       *)
(* models of the passes that look at it say what it may be.                *)
IntLiteral(value)     == [kind |-> "IntLiteral", value |-> value]
FloatLiteral(value)   == [kind |-> "FloatLiteral", value |-> value]
Variable(name)        == [kind |-> "Variable", name |-> name]
FunctionCall(name)    == [kind |-> "FunctionCall", name |-> name]
Binary(op, lhs, rhs)  == [kind |-> "Binary", op |-> op, lhs |-> lhs, rhs |-> rhs]

NodeKinds == {"IntLiteral", "FloatLiteral", "Variable", "FunctionCall", "Binary"}

(* Node i of e is an operand of node j.                                    *)
IsOperand(e, i, j) == e[j].kind = "Binary" /\ i \in {e[j].lhs, e[j].rhs}

(* What is visited between the operands of a node is below the right one,  *)
(* so its owner is visited no later than the node.                         *)
VisitsInOrder(e) ==
  \A j \in 1 .. Len(e) : e[j].kind = "Binary" =>
    \A i \in e[j].lhs + 1 .. j - 1 : \E k \in i + 1 .. j : IsOperand(e, i, k)

(* e is the visit order of a tree: operands come before their node, the    *)
(* right one directly before it, and unique_ptr gives every node but the   *)
(* last exactly one owner.                                                 *)
IsExpression(e, names) ==
  /\ Len(e) \in Nat \ {0}
  /\ \A i \in 1 .. Len(e) :
       /\ e[i].kind \in NodeKinds
       /\ e[i].kind \in {"Variable", "FunctionCall"} => e[i].name \in names
       /\ e[i].kind = "Binary" => /\ e[i].op \in BinaryOperators
                                  /\ e[i].lhs \in 1 .. (i - 2)
                                  /\ e[i].rhs = i - 1
       /\ i < Len(e) =>
            \E j \in (i + 1) .. Len(e) :
              /\ IsOperand(e, i, j)
              /\ \A k \in 1 .. Len(e) : IsOperand(e, i, k) => k = j
  /\ VisitsInOrder(e)

(* make_unique<BinaryExpression>(op, lhs, rhs), the operands moved in.     *)
Join(op, lhs, rhs) ==
  LET Shifted(node) ==
        IF node.kind = "Binary"
        THEN Binary(node.op, node.lhs + Len(lhs), node.rhs + Len(lhs))
        ELSE node
  IN  lhs \o [i \in 1 .. Len(rhs) |-> Shifted(rhs[i])]
          \o << Binary(op, Len(lhs), Len(lhs) + Len(rhs)) >>

----------------------------------------------------------------------------
(* Statements, functions, programs.                                        *)

Declare(name, annotation, value) ==
  [kind |-> "Declare", name |-> name, annotation |-> annotation, value |-> value]
Assign(name, value) == [kind |-> "Assign", name |-> name, value |-> value]
Show(value)         == [kind |-> "Show", value |-> value]
Return(value)       == [kind |-> "Return", value |-> value]

StatementKinds == {"Declare", "Assign", "Show", "Return"}

IsStatement(s, names) ==
  /\ s.kind \in StatementKinds
  /\ s.kind \in {"Declare", "Assign"} => s.name \in names
  /\ s.kind = "Declare" => s.annotation \in BuiltinTypes \cup {NoType}
  /\ IsExpression(s.value, names)

Function(name, statements) == [name |-> name, statements |-> statements]

(* The same tree made with the constructors above: its nodes have their    *)
(* members and nothing else.                                               *)
NodeOf(n) ==
  CASE n.kind = "Variable"     -> Variable(n.name)
    [] n.kind = "FunctionCall" -> FunctionCall(n.name)
    [] n.kind = "Binary"       -> Binary(n.op, n.lhs, n.rhs)
    [] OTHER                   -> [kind |-> n.kind, value |-> n.value]

ValueOf(e) == [i \in 1 .. Len(e) |-> NodeOf(e[i])]

StatementOf(s) ==
  CASE s.kind = "Declare" -> Declare(s.name, s.annotation, ValueOf(s.value))
    [] s.kind = "Assign"  -> Assign(s.name, ValueOf(s.value))
    [] s.kind = "Show"    -> Show(ValueOf(s.value))
    [] OTHER              -> Return(ValueOf(s.value))

BodyOf(statements) == [s \in 1 .. Len(statements) |-> StatementOf(statements[s])]

ProgramOf(prog) ==
  [f \in 1 .. Len(prog) |-> Function(prog[f].name, BodyOf(prog[f].statements))]

IsBuilt(prog) == prog = ProgramOf(prog)

(* A Program is the sequence of its functions.                             *)
IsProgram(prog, names) ==
  /\ IsBuilt(prog)
  /\ Len(prog) \in Nat
  /\ \A f \in 1 .. Len(prog) :
       /\ prog[f].name \in names
       /\ Len(prog[f].statements) \in Nat
       /\ \A s \in 1 .. Len(prog[f].statements) :
            IsStatement(prog[f].statements[s], names)

----------------------------------------------------------------------------
(* Addresses and the walk both passes make over them.                      *)

StatementAt(prog, a) == prog[a[1]].statements[a[2]]
NodeAt(prog, a)      == StatementAt(prog, a).value[a[3]]

FunctionAddresses(prog)  == { <<f, 0, 0>> : f \in 1 .. Len(prog) }
StatementAddresses(prog) ==
  UNION { { <<f, s, 0>> : s \in 1 .. Len(prog[f].statements) } : f \in 1 .. Len(prog) }
NodeAddresses(prog) ==
  UNION { { <<a[1], a[2], e>> : e \in 1 .. Len(StatementAt(prog, a).value) } :
            a \in StatementAddresses(prog) }
Addresses(prog) ==
  FunctionAddresses(prog) \cup StatementAddresses(prog) \cup NodeAddresses(prog)

(* Faulty: the outer loop does not move on to the next function.           *)
NextStatementStuck(prog, a) ==
  IF a[2] < Len(prog[a[1]].statements) THEN <<a[1], a[2] + 1, 0>> ELSE <<a[1], 0, 0>>

(* The range-for loops over functions and statements.                      *)
NextStatement(prog, a) ==
  IF a[2] < Len(prog[a[1]].statements) THEN <<a[1], a[2] + 1, 0>>
                                       ELSE <<a[1] + 1, 0, 0>>

FirstAddress    == <<1, 0, 0>>
AtEnd(prog, a)      == a[1] > Len(prog)
AtFunction(prog, a) == ~AtEnd(prog, a) /\ a[2] = 0 /\ a[3] = 0
AtEntry(prog, a)    == ~AtEnd(prog, a) /\ a[2] > 0 /\ a[3] = 0
AtNode(prog, a)     == /\ ~AtEnd(prog, a) /\ a[2] > 0
                       /\ a[3] \in 1 .. Len(StatementAt(prog, a).value)
AtExit(prog, a)     == /\ ~AtEnd(prog, a) /\ a[2] > 0
                       /\ a[3] = Len(StatementAt(prog, a).value) + 1

(* The places a walk can be.                                               *)
OnWalk(prog, a) ==
  /\ a \in Nat \X Nat \X Nat
  /\ a[1] > 0
  /\ a[1] <= Len(prog) => a[2] <= Len(prog[a[1]].statements)
  /\ \/ AtEnd(prog, a) \/ AtFunction(prog, a) \/ AtEntry(prog, a)
     \/ AtNode(prog, a) \/ AtExit(prog, a)
============================================================================
