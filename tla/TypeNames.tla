----------------------------- MODULE TypeNames -----------------------------
(***************************************************************************)
(* The names in the types the checker hands around.  A Type (include/      *)
(* ast.h) is a type_id, by which the checker decides and of which module   *)
(* TypeCheck says all, and an identifier, which only messages and the      *)
(* printer read.  Both are copied together, but `result' starts with a     *)
(* type_id nobody wrote and an empty identifier, so the name of a type is  *)
(* no function of its type_id.                                             *)
(*                                                                         *)
(* Each step is a step of the checker and what it does to the identifiers. *)
(***************************************************************************)
EXTENDS TypeCheck

VARIABLES
  identifiers,           \* of resolved_type, by address
  result_identifier,     \* of result
  variable_identifiers,  \* of variable_map
  emitted_identifiers    \* of emitted

tn_vars == << identifiers, result_identifier, variable_identifiers, emitted_identifiers >>

(* The identifier of a Type that was only constructed, and of a literal's. *)
NoName == ""

TNInit ==
  /\ TCInit
  /\ identifiers = [a \in Addresses(program) |-> NoName]
  /\ result_identifier = NoName
  /\ variable_identifiers = [n \in Names |-> NoName]
  /\ emitted_identifiers = << >>

----------------------------------------------------------------------------
(* The visit threw before it wrote anything; the loop's own error comes    *)
(* after the visit.                                                        *)
Thrown == status' \in Errors \ {"CannotInferLiteral"}

NameFunction ==
  /\ EnterFunction
  /\ identifiers' = [identifiers EXCEPT ![at] = "Int32"]
  /\ variable_identifiers' = [n \in Names |-> NoName]
  /\ UNCHANGED << result_identifier, emitted_identifiers >>

HasAnnotation(stmt) == stmt.kind = "Declare" /\ stmt.annotation # NoType

(* A TypeExpression names the type it stands for.                          *)
NameEntry ==
  /\ EnterStatement
  /\ IF Thrown THEN UNCHANGED tn_vars
     ELSE /\ result_identifier' = IF HasAnnotation(CurrentStatement)
                                  THEN CurrentStatement.annotation ELSE result_identifier
          /\ emitted_identifiers' = << >>
          /\ UNCHANGED << identifiers, variable_identifiers >>

EmitName(name) ==
  /\ result_identifier' = name
  /\ emitted_identifiers' = Append(emitted_identifiers, name)
  /\ UNCHANGED variable_identifiers

NameLiteral ==
  /\ VisitLiteral
  /\ identifiers' = [identifiers EXCEPT ![at] = NoName]
  /\ EmitName(NoName)

NameVariable ==
  /\ VisitVariable
  /\ IF Thrown THEN UNCHANGED tn_vars
     ELSE /\ identifiers' = [identifiers EXCEPT ![at] = variable_identifiers[CurrentNode.name]]
          /\ EmitName(variable_identifiers[CurrentNode.name])

NameCall ==
  /\ VisitFunctionCall
  /\ UNCHANGED identifiers
  /\ EmitName(result_identifier)

(* Faulty: a literal takes the type_id of the other operand only.          *)
OperandNameKept(own, ownName, other, otherName) == ownName

(* A literal takes the other operand's Type, or the default's.             *)
OperandName(own, ownName, other, otherName) ==
  CASE own \notin LiteralTypes                               -> ownName
    [] own \in LiteralTypes /\ other \notin LiteralTypes     -> otherName
    [] own \in LiteralTypes /\ other \in LiteralTypes        -> OperandType(own, other)

(* Of two literals only the nodes are settled, and the result is named as  *)
(* the right one was emitted.                                              *)
BinaryName(op, lhs, lhsName, rhs, rhsName) ==
  IF op = "Equals" THEN "Bool"
  ELSE IF lhs \in LiteralTypes THEN rhsName ELSE OperandName(rhs, rhsName, lhs, lhsName)

NameBinary ==
  /\ VisitBinary
  /\ IF Thrown THEN UNCHANGED tn_vars
     ELSE LET expr    == CurrentNode
              lhs     == emitted[expr.lhs]
              rhs     == emitted[expr.rhs]
              lhsName == emitted_identifiers[expr.lhs]
              rhsName == emitted_identifiers[expr.rhs]
              name    == BinaryName(expr.op, lhs, lhsName, rhs, rhsName)
          IN  /\ identifiers' = [identifiers EXCEPT
                   ![Operand(expr.lhs)] =
                     Annotated(@, lhs, OperandName(lhs, lhsName, rhs, rhsName)),
                   ![Operand(expr.rhs)] =
                     Annotated(@, rhs, OperandName(rhs, rhsName, lhs, lhsName)),
                   ![at] = name]
              /\ EmitName(name)

----------------------------------------------------------------------------
(* resolve_literal_type of the value, where a Type is wanted or none.      *)
ValueName == emitted_identifiers[Len(CurrentStatement.value)]

SettledName(expected, expectedName) ==
  CASE ValueType \notin LiteralTypes                          -> ValueName
    [] ValueType \in LiteralTypes /\ expected = NoType        -> LiteralDefault(ValueType)
    [] ValueType \in LiteralTypes /\ expected # NoType        -> expectedName

NameDeclaration ==
  /\ Declaring
  /\ IF Thrown THEN UNCHANGED tn_vars
     ELSE LET name == SettledName(CurrentStatement.annotation, CurrentStatement.annotation)
          IN  /\ identifiers' = [identifiers EXCEPT
                   ![ValueNode] = Annotated(@, ValueType, name), ![StatementNode] = name]
              /\ variable_identifiers' =
                   [variable_identifiers EXCEPT ![CurrentStatement.name] = name]
              /\ result_identifier' = name
              /\ UNCHANGED emitted_identifiers

NameAssignment ==
  /\ Assigning
  /\ IF Thrown THEN UNCHANGED tn_vars
     ELSE LET name == SettledName(variable_map[CurrentStatement.name],
                                  variable_identifiers[CurrentStatement.name])
          IN  /\ identifiers' = [identifiers EXCEPT
                   ![ValueNode] = Annotated(@, ValueType, name)]
              /\ UNCHANGED << result_identifier, variable_identifiers, emitted_identifiers >>

NameReturn ==
  /\ Returning
  /\ IF Thrown THEN UNCHANGED tn_vars
     ELSE LET function == <<at[1], 0, 0>>
              name     == SettledName(resolved_type[function], identifiers[function])
          IN  /\ identifiers' = [identifiers EXCEPT
                   ![ValueNode] = Annotated(@, ValueType, name), ![StatementNode] = name]
              /\ result_identifier' = name
              /\ UNCHANGED << variable_identifiers, emitted_identifiers >>

(* Showing copies no type, nor does the end of the loops.                  *)
NameNothing == (Showing \/ FinishCheck) /\ UNCHANGED tn_vars

NamedNext ==
  \/ NameFunction \/ NameEntry
  \/ NameLiteral \/ NameVariable \/ NameCall \/ NameBinary
  \/ NameDeclaration \/ NameAssignment \/ NameReturn
  \/ NameNothing

----------------------------------------------------------------------------
(* The first type a program uses is that of a call, and `result' is read   *)
(* before anything was written to it.                                      *)
BeginsWithCall(prog) ==
  \E f \in 1 .. Len(prog) :
    /\ \A g \in 1 .. f - 1 : Len(prog[g].statements) = 0
    /\ Len(prog[f].statements) > 0
    /\ ~HasAnnotation(prog[f].statements[1])
    /\ prog[f].statements[1].value[1].kind = "FunctionCall"

(* A type's name, but for the type that `result' began with.               *)
IsNamed(type, name) ==
  \/ type \in LiteralTypes /\ name = NoName
  \/ type \notin LiteralTypes /\ name = type
  \/ type \in InitialResults /\ name = NoName /\ BeginsWithCall(program)
============================================================================
