---------------------------- MODULE MCPrograms ----------------------------
(***************************************************************************)
(* The bounded sets of programs the type checker and the code generator    *)
(* are run on: every way to combine leaves, operators, annotations and     *)
(* statements up to a depth, one variable of interest and one callee.      *)
(***************************************************************************)
EXTENDS Ast

VarX == "x"
VarY == "y"
FunF == "f"
MCNames == {"x", "y", "f", "g", "fmt", "main", "printf"}

Leaf(node) == << node >>

One   == Leaf(IntLiteral(1))
Half  == Leaf(FloatLiteral(5))
X     == Leaf(Variable(VarX))
CallF == Leaf(FunctionCall(FunF))

(* Expressions with one operator, and with two.                            *)
Simple(leaves, ops) == { Join(op, l, r) : op \in ops, l \in leaves, r \in leaves }

Nested(leaves, ops) ==
  LET inner == Simple(leaves, ops)
  IN  { Join(op, l, r) : op \in ops, l \in inner, r \in leaves } \cup
      { Join(op, l, r) : op \in ops, l \in leaves, r \in inner }

UpToNested(leaves, ops) == leaves \cup Simple(leaves, ops) \cup Nested(leaves, ops)

Declarations(name, annotations, values) ==
  { Declare(name, annotation, value) : annotation \in annotations, value \in values }
Assignments(name, values) == { Assign(name, value) : value \in values }
Shows(values)             == { Show(value) : value \in values }
Returns(values)           == { Return(value) : value \in values }

(* One function of two statements.                                         *)
TwoStatements(first, second) ==
  { << Function("main", << a, b >>) >> : a \in first, b \in second }

============================================================================
