---------------------------- MODULE MCTypeCheck ----------------------------
EXTENDS TypeRules, MCPrograms

AllLeaves == {One, Half, X, CallF}

(* Values of up to two operators, a comparison at the root or on the left. *)
Pool ==
  LET sums == Simple(AllLeaves, {"Plus"})
  IN  AllLeaves \cup sums \cup Nested(AllLeaves, {"Plus"})
        \cup { Join("Equals", l, r) : l \in AllLeaves \cup sums, r \in AllLeaves }
        \cup { Join("Plus", Join("Equals", X, l), r) : l, r \in {One, Half, X} }

(* What may stand before the statement of interest in main: a declaration  *)
(* of x with a value of each kind, or a callee of one statement or none.   *)
Beginnings ==
  { [callee |-> << >>, before |-> << d >>] :
      d \in Declarations(VarX, {NoType, "Int64", "Float32"},
                         {One, Half, CallF, Join("Equals", One, One)}) }
  \cup
  { [callee |-> << Function(FunF, c) >>, before |-> << >>] :
      c \in { << d >> : d \in Declarations(VarX, {NoType, "Float32"}, {One, Half, CallF}) }
            \cup { << Return(One) >>, << >> } }

Statements ==
  Declarations(VarY, {NoType, "Int64", "Bool"}, Pool) \cup Declarations(VarX, {"Float64"}, Pool)
  \cup Assignments(VarX, Pool) \cup Shows(Pool) \cup Returns(Pool)

(* The last statement uses x once more.                                    *)
BeginningsAndStatements ==
  { b.callee \o << Function("main", b.before \o << s, Show(X) >>) >> :
      b \in Beginnings, s \in Statements }

AllPrograms == BeginningsAndStatements   \* a name of its own: TLC evaluates it once

(* A byte that is no TypeId, and one that happens to be a literal's.       *)
MCInitialResults == {Indeterminate, "IntLiteral"}
============================================================================
