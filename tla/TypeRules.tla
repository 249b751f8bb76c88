----------------------------- MODULE TypeRules -----------------------------
(***************************************************************************)
(* The typing rules the checker is meant to enforce, stated without visits *)
(* or a shared `result': the set of types each expression can have, and    *)
(* what each statement asks of that set.  A literal can have any type of   *)
(* its class; the operands of an operator must have a type in common; an   *)
(* untyped literal defaults to Int32 or Float64.                           *)
(***************************************************************************)
EXTENDS TypeCheck

OperatorTypes(op, common) ==
  IF op = "Equals" /\ common # {} THEN {"Bool"} ELSE common

(* The types each node of e can have when `env' gives those of variables.  *)
NodeTypes(e, env) ==
  LET Possible[i \in 1 .. Len(e)] ==
        CASE e[i].kind = "IntLiteral"   -> IntTypes
          [] e[i].kind = "FloatLiteral" -> FloatTypes
          [] e[i].kind = "Variable"     -> {env[e[i].name]} \ {NoType}
          [] e[i].kind = "FunctionCall" -> {"Int32"}
          [] OTHER -> OperatorTypes(e[i].op, Possible[e[i].lhs] \cap Possible[e[i].rhs])
  IN  Possible

PossibleTypes(e, env) == NodeTypes(e, env)[Len(e)]

DefaultType(types) ==
  CASE types = IntTypes   -> "Int32"
    [] types = FloatTypes -> "Float64"
    [] OTHER              -> CHOOSE type \in types : TRUE

StatementType(stmt, env) ==
  IF stmt.kind = "Declare" /\ stmt.annotation # NoType
  THEN stmt.annotation
  ELSE DefaultType(PossibleTypes(stmt.value, env))

Obeys(stmt, env) ==
  LET types == PossibleTypes(stmt.value, env)
  IN  /\ types # {}
      /\ stmt.kind = "Declare" => stmt.annotation \in types \cup {NoType}
      /\ stmt.kind = "Assign"  => env[stmt.name] \in types
      /\ stmt.kind = "Return"  => types # FloatTypes

(* The types of the variables before each statement of a function.         *)
Environments(prog, f) ==
  LET stmts == prog[f].statements
      Env[s \in 1 .. Len(stmts)] ==
        IF s = 1 THEN [name \in Names |-> NoType]
        ELSE IF stmts[s - 1].kind # "Declare" THEN Env[s - 1]
        ELSE [Env[s - 1] EXCEPT ![stmts[s - 1].name] =
                StatementType(stmts[s - 1], Env[s - 1])]
  IN  Env

EnvironmentAt(f, s) == Environments(program, f)[s]

StatementObeys(a) == Obeys(StatementAt(program, a), EnvironmentAt(a[1], a[2]))

Before(a, b) == a[1] < b[1] \/ (a[1] = b[1] /\ a[2] < b[2])

----------------------------------------------------------------------------
(* Where the checker follows the rules.  Left out, each for a reason shown *)
(* by a run of its own: calls (their type is whatever was emitted before), *)
(* operators that mix int with float literals, and `set' or `show' of a    *)
(* value made of literals only.                                            *)

LiteralOnly(e) == \A i \in 1 .. Len(e) : e[i].kind \notin {"Variable", "FunctionCall"}

IsPlainExpression(e) ==
  /\ \A i \in 1 .. Len(e) : e[i].kind # "FunctionCall"
  /\ ~\E i, j \in 1 .. Len(e) : e[i].kind = "IntLiteral" /\ e[j].kind = "FloatLiteral"

IsPlainStatement(stmt) ==
  /\ IsPlainExpression(stmt.value)
  /\ stmt.kind \in {"Assign", "Show"} => ~LiteralOnly(stmt.value)

IsPlain(prog) ==
  \A a \in StatementAddresses(prog) : IsPlainStatement(StatementAt(prog, a))

(* On plain programs the walk with its shared `result' decides exactly     *)
(* what the rules say: it accepts a program when every statement obeys     *)
(* them, giving each declaration the type they give, and otherwise throws  *)
(* at the first statement that does not.                                   *)
CheckerFollowsRules ==
  IsPlain(program) =>
    /\ status = "checked" =>
         \A a \in StatementAddresses(program) :
           /\ StatementObeys(a)
           /\ StatementAt(program, a).kind = "Declare" =>
                resolved_type[a] = StatementType(StatementAt(program, a),
                                                 EnvironmentAt(a[1], a[2]))
    /\ status \in Errors =>
         /\ ~StatementObeys(at)
         /\ \A a \in StatementAddresses(program) : Before(a, at) => StatementObeys(a)

(* The checker gives up on a literal ("Could not infer type of literal,    *)
(* add a type annotation", type_check_visitor.cxx:213) only where its      *)
(* context leaves the type open or the rules forbid the statement.         *)
LiteralsInferredFromContext ==
  status = "CannotInferLiteral" => ~StatementObeys(at)

----------------------------------------------------------------------------
(* Why the checker follows the rules: while a statement is walked, what    *)
(* emit() returned for a node stands for exactly the types the rules give  *)
(* it, a literal for every type of its class and anything else for itself; *)
(* between statements the symbol table is the environment of the rules.    *)
TypesFor(type) ==
  CASE type = "IntLiteral"   -> IntTypes
    [] type = "FloatLiteral" -> FloatTypes
    [] OTHER                 -> {type}

EnvironmentKept ==
  ~AtEnd(program, at) /\ at[2] > 0 =>
    /\ variable_map = EnvironmentAt(at[1], at[2])
    /\ resolved_type[<<at[1], 0, 0>>] = "Int32"

EmittedFollow ==
  InStatement =>
    \A i \in 1 .. at[3] - 1 :
      NodeTypes(CurrentStatement.value, variable_map)[i] = TypesFor(emitted[i])

StatementFollows(a) ==
  /\ StatementObeys(a)
  /\ StatementAt(program, a).kind = "Declare" =>
       resolved_type[a] = StatementType(StatementAt(program, a),
                                        EnvironmentAt(a[1], a[2]))

FollowsInv ==
  IsPlain(program) =>
    /\ status = "checking" => EnvironmentKept /\ EmittedFollow
    /\ status \in {"checking", "checked"} =>
         \A a \in StatementAddresses(program) : Before(a, at) => StatementFollows(a)
    /\ status \in Errors =>
         /\ ~StatementObeys(at)
         /\ \A a \in StatementAddresses(program) : Before(a, at) => StatementObeys(a)
============================================================================
