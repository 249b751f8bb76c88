----------------------------- MODULE TypeCheck -----------------------------
(***************************************************************************)
(* TypeCheckVisitor (src/type_check_visitor.cxx): one walk over the tree   *)
(* that infers the type of every node, settles the type of literals and    *)
(* rejects misuse by throwing.                                             *)
(*                                                                         *)
(* Visitors return nothing: a visit leaves the type of its node in the     *)
(* member `result', and emit() copies it out after the visit.  Visits of   *)
(* calls and assignments do not write `result', so what emit() returns for *)
(* them is whatever an earlier visit left there.  That protocol is why     *)
(* `result' is a variable of the model and why one step is one visit.      *)
(***************************************************************************)
EXTENDS Ast

CONSTANTS
  Names,          \* the identifiers of the programs
  Programs,       \* the trees handed to the checker
  InitialResults  \* what the uninitialised member `result' may hold

ASSUME ProgramsAssumption == \A p \in Programs : IsProgram(p, Names)
ASSUME InitialResultsAssumption == InitialResults \subseteq TypeIds

VARIABLES
  program,        \* the tree; chosen at the start, its shape never changes
  at,             \* the address of the next visit
  resolved_type,  \* ASTNode::resolved_type, by address
  result,         \* TypeCheckVisitor::result
  variable_map,   \* TypeCheckVisitor::variable_map, NoType for no entry
  emitted,        \* what emit() returned for the nodes of this statement
  status          \* "checking", "checked", or the error thrown

tc_vars ==
  << program, at, resolved_type, result, variable_map, emitted, status >>

Errors == { "UndeclaredVariable", "CannotCoerce", "OperandMismatch",
            "DeclarationMismatch", "AssignmentMismatch", "CannotInferLiteral" }

TCInit ==
  /\ program \in Programs
  /\ at = FirstAddress
  /\ resolved_type = [a \in Addresses(program) |-> NoType]
  /\ result \in InitialResults
  /\ variable_map = [n \in Names |-> NoType]
  /\ emitted = << >>
  /\ status = "checking"

----------------------------------------------------------------------------
(* resolve_literal_type: the type a literal takes where `expected' (or     *)
(* nothing) is wanted, and whether it can.                                 *)

LiteralDefault(literal) == IF literal = "IntLiteral" THEN "Int32" ELSE "Float64"

LiteralFits(expected, literal) ==
  expected \in {NoType} \cup (IF literal = "IntLiteral" THEN IntTypes ELSE FloatTypes)

ResolveLiteral(expected, literal) ==
  IF expected = NoType THEN LiteralDefault(literal) ELSE expected

(* What a statement makes of the type of its value when `expected' is      *)
(* wanted there.                                                           *)
Settled(expected, type) ==
  IF type \in LiteralTypes THEN ResolveLiteral(expected, type) ELSE type

Settles(expected, type) == type \in LiteralTypes => LiteralFits(expected, type)

(* The annotation a node has once its parent settled on `type': only what  *)
(* was emitted as a literal is annotated anew.                             *)
Annotated(old, emittedType, type) ==
  IF emittedType \in LiteralTypes THEN type ELSE old

----------------------------------------------------------------------------
(* Walking.                                                                *)

Throw(error) ==
  /\ status' = error
  /\ UNCHANGED << program, at, resolved_type, result, variable_map, emitted >>

CurrentStatement == StatementAt(program, at)
CurrentNode      == NodeAt(program, at)
StatementNode    == <<at[1], at[2], 0>>
ValueNode        == <<at[1], at[2], Len(CurrentStatement.value)>>
Operand(i)       == <<at[1], at[2], i>>
ValueType        == emitted[Len(CurrentStatement.value)]

(* The visit of the node at `at' is over and its caller, emit(), reads     *)
(* `result'.                                                               *)
Emit ==
  /\ at' = <<at[1], at[2], at[3] + 1>>
  /\ emitted' = Append(emitted, result')
  /\ UNCHANGED << program, variable_map, status >>

----------------------------------------------------------------------------
(* Faulty: the symbol table of the previous function is kept.              *)
EnterFunctionKeepingVariables ==
  /\ status = "checking"
  /\ AtFunction(program, at)
  /\ resolved_type' = [resolved_type EXCEPT ![at] = "Int32"]
  /\ at' = NextStatement(program, at)
  /\ UNCHANGED << program, result, variable_map, emitted, status >>

(* visit(FunctionDeclaration&), up to its loop.                            *)
EnterFunction ==
  /\ status = "checking"
  /\ AtFunction(program, at)
  /\ resolved_type' = [resolved_type EXCEPT ![at] = "Int32"]
  /\ variable_map' = [n \in Names |-> NoType]
  /\ at' = NextStatement(program, at)
  /\ UNCHANGED << program, result, emitted, status >>

(* Faulty: the values of the previous statement are not dropped.           *)
EnterStatementKeepingValues ==
  /\ status = "checking"
  /\ AtEntry(program, at)
  /\ at' = Operand(1)
  /\ UNCHANGED << program, resolved_type, result, variable_map, emitted, status >>

(* The part of a statement's visit that comes before its value: a typed    *)
(* declaration visits its TypeExpression, an assignment looks up its       *)
(* target.                                                                 *)
EnterStatement ==
  /\ status = "checking"
  /\ AtEntry(program, at)
  /\ LET stmt == CurrentStatement
     IN  IF stmt.kind = "Assign" /\ variable_map[stmt.name] = NoType
         THEN Throw("UndeclaredVariable")
         ELSE /\ result' = IF stmt.kind = "Declare" /\ stmt.annotation # NoType
                           THEN stmt.annotation ELSE result
              /\ at' = Operand(1)
              /\ emitted' = << >>
              /\ UNCHANGED << program, resolved_type, variable_map, status >>

----------------------------------------------------------------------------
(* The visits of expressions.                                              *)

VisitLiteral ==
  /\ status = "checking"
  /\ AtNode(program, at)
  /\ CurrentNode.kind \in LiteralTypes
  /\ result' = CurrentNode.kind
  /\ resolved_type' = [resolved_type EXCEPT ![at] = result']
  /\ Emit

VisitVariable ==
  /\ status = "checking"
  /\ AtNode(program, at)
  /\ CurrentNode.kind = "Variable"
  /\ LET type == variable_map[CurrentNode.name]
     IN  IF type = NoType
         THEN Throw("UndeclaredVariable")
         ELSE /\ result' = type
              /\ resolved_type' = [resolved_type EXCEPT ![at] = type]
              /\ Emit

(* A call writes neither `result' nor its own resolved_type.               *)
VisitFunctionCall ==
  /\ status = "checking"
  /\ AtNode(program, at)
  /\ CurrentNode.kind = "FunctionCall"
  /\ UNCHANGED << result, resolved_type >>
  /\ Emit

(* The type a literal operand gets: the other operand's when that one is   *)
(* concrete, otherwise the default for the pair.                           *)
OperandType(own, other) ==
  CASE own \notin LiteralTypes                       -> own
    [] own \in LiteralTypes /\ other \notin LiteralTypes -> other
    [] OTHER -> IF "FloatLiteral" \in {own, other} THEN "Float64" ELSE "Int32"

OperandsFit(lhs, rhs) ==
  /\ lhs \in LiteralTypes /\ rhs \notin LiteralTypes => LiteralFits(rhs, lhs)
  /\ rhs \in LiteralTypes /\ lhs \notin LiteralTypes => LiteralFits(lhs, rhs)

(* Faulty: the operands are not compared.                                  *)
OperandsMatchUnchecked(lhs, rhs) == TRUE

OperandsMatch(lhs, rhs) ==
  {lhs, rhs} \cap LiteralTypes = {} => lhs = rhs

(* is_bool_operator restricted to the operators of a tree, and the result  *)
(* otherwise inferred from the right operand as it now stands.             *)
BinaryType(op, lhs, rhs) ==
  IF op = "Equals" THEN "Bool"
  ELSE IF lhs \in LiteralTypes THEN rhs ELSE OperandType(rhs, lhs)

VisitBinary ==
  /\ status = "checking"
  /\ AtNode(program, at)
  /\ CurrentNode.kind = "Binary"
  /\ LET expr == CurrentNode
         lhs  == emitted[expr.lhs]
         rhs  == emitted[expr.rhs]
     IN  IF ~OperandsFit(lhs, rhs) THEN Throw("CannotCoerce")
         ELSE IF ~OperandsMatch(lhs, rhs) THEN Throw("OperandMismatch")
         ELSE /\ result' = BinaryType(expr.op, lhs, rhs)
              /\ resolved_type' = [resolved_type EXCEPT
                   ![Operand(expr.lhs)] = Annotated(@, lhs, OperandType(lhs, rhs)),
                   ![Operand(expr.rhs)] = Annotated(@, rhs, OperandType(rhs, lhs)),
                   ![at] = result']
              /\ Emit

----------------------------------------------------------------------------
(* Faulty: the loop does not look at `result'.                             *)
FinishStatementUnchecked(type) ==
  /\ result' = type
  /\ at' = NextStatement(program, at)
  /\ UNCHANGED << program, emitted, status >>

(* The part of a statement's visit that comes after its value, and the     *)
(* check of the function's loop that follows every statement.              *)

FinishStatement(type) ==
  /\ result' = type
  /\ IF type \in LiteralTypes
     THEN status' = "CannotInferLiteral" /\ at' = at
     ELSE status' = status /\ at' = NextStatement(program, at)
  /\ UNCHANGED << program, emitted >>

Declaring ==
  /\ status = "checking"
  /\ AtExit(program, at)
  /\ CurrentStatement.kind = "Declare"
  /\ LET expected == CurrentStatement.annotation
         type     == Settled(expected, ValueType)
     IN  IF ~Settles(expected, ValueType) THEN Throw("CannotCoerce")
         ELSE IF expected \notin {NoType, type} THEN Throw("DeclarationMismatch")
         ELSE /\ resolved_type' = [resolved_type EXCEPT
                   ![ValueNode] = Annotated(@, ValueType, type),
                   ![StatementNode] = type]
              /\ variable_map' = [variable_map EXCEPT ![CurrentStatement.name] = type]
              /\ FinishStatement(type)

(* An assignment settles a literal value but leaves `result' alone, so the *)
(* loop still sees the literal.                                            *)
Assigning ==
  /\ status = "checking"
  /\ AtExit(program, at)
  /\ CurrentStatement.kind = "Assign"
  /\ LET expected == variable_map[CurrentStatement.name]
         type     == Settled(expected, ValueType)
     IN  IF ~Settles(expected, ValueType) THEN Throw("CannotCoerce")
         ELSE IF type # expected THEN Throw("AssignmentMismatch")
         ELSE /\ resolved_type' = [resolved_type EXCEPT
                   ![ValueNode] = Annotated(@, ValueType, type)]
              /\ UNCHANGED variable_map
              /\ FinishStatement(result)

Showing ==
  /\ status = "checking"
  /\ AtExit(program, at)
  /\ CurrentStatement.kind = "Show"
  /\ UNCHANGED << resolved_type, variable_map >>
  /\ FinishStatement(result)

(* Faulty: whatever is returned is annotated with the function's type.     *)
ReturningCoerced ==
  /\ status = "checking"
  /\ AtExit(program, at)
  /\ CurrentStatement.kind = "Return"
  /\ resolved_type' = [resolved_type EXCEPT ![ValueNode] = "Int32", ![StatementNode] = "Int32"]
  /\ UNCHANGED variable_map
  /\ FinishStatement("Int32")

(* Only a literal is held against the function's type, Int32; any concrete *)
(* type may be returned.                                                   *)
Returning ==
  /\ status = "checking"
  /\ AtExit(program, at)
  /\ CurrentStatement.kind = "Return"
  /\ LET expected == resolved_type[<<at[1], 0, 0>>]
         type     == Settled(expected, ValueType)
     IN  IF ~Settles(expected, ValueType) THEN Throw("CannotCoerce")
         ELSE /\ resolved_type' = [resolved_type EXCEPT
                   ![ValueNode] = Annotated(@, ValueType, type),
                   ![StatementNode] = type]
              /\ UNCHANGED variable_map
              /\ FinishStatement(type)

(* The loop over the functions ends.                                       *)
FinishCheck ==
  /\ status = "checking"
  /\ AtEnd(program, at)
  /\ status' = "checked"
  /\ UNCHANGED << program, at, resolved_type, result, variable_map, emitted >>

----------------------------------------------------------------------------
VisitNode     == VisitLiteral \/ VisitVariable \/ VisitFunctionCall \/ VisitBinary
ExitStatement == Declaring \/ Assigning \/ Showing \/ Returning

TCNext ==
  \/ EnterFunction
  \/ EnterStatement
  \/ VisitNode
  \/ ExitStatement
  \/ FinishCheck

(* The checker has returned or thrown.                                     *)
TCDone == status # "checking" /\ UNCHANGED tc_vars

(* The walk is a plain call: it keeps running until it returns or throws.  *)
TCSpec == TCInit /\ [][TCNext \/ TCDone]_tc_vars /\ WF_tc_vars(TCNext)

----------------------------------------------------------------------------
(* Type invariant: every part of the checker's state has its C++ type, the *)
(* walk stays inside the tree, and emit() has returned once for every node *)
(* of the current statement that was visited.                              *)
TCTypeOK ==
  /\ program \in Programs
  /\ OnWalk(program, at)
  /\ resolved_type \in [Addresses(program) -> TypeIds \cup {NoType}]
  /\ result \in TypeIds
  /\ variable_map \in [Names -> TypeIds \cup {NoType}]
  /\ emitted \in Seq(TypeIds)
  /\ AtNode(program, at) \/ AtExit(program, at) => Len(emitted) = at[3] - 1
  /\ status \in {"checking", "checked"} \cup Errors

(* No literal type survives the checker: when it accepts a tree, none of   *)
(* the nodes is left with IntLiteral or FloatLiteral.  This is what        *)
(* get_llvm_type and build_type_operations assume of the tree ("should not *)
(* survive until codegen", code_generation_visitor.cxx:57).                *)
CheckedTreeHasNoLiteral ==
  status = "checked" =>
    \A a \in Addresses(program) : resolved_type[a] \notin LiteralTypes

(* Statement d of function f declares name and no later one before s does. *)
Declares(f, d, name) ==
  LET stmt == program[f].statements[d]
  IN  stmt.kind = "Declare" /\ stmt.name = name

LatestDeclaration(f, s, name, d) ==
  /\ Declares(f, d, name)
  /\ \A later \in (d + 1) .. (s - 1) : ~Declares(f, later, name)

(* In a tree the checker accepts, every use of a variable follows a        *)
(* declaration of it in the same function and has the type of the latest   *)
(* one: neither a declaration of an earlier function (variable_map is      *)
(* cleared) nor a literal's settling in between can leak into a use.       *)
UsesFollowDeclarations ==
  status = "checked" =>
    \A a \in NodeAddresses(program) :
      NodeAt(program, a).kind = "Variable" =>
        \E d \in 1 .. (a[2] - 1) :
          /\ LatestDeclaration(a[1], a[2], NodeAt(program, a).name, d)
          /\ resolved_type[a] = resolved_type[<<a[1], d, 0>>]

(* Annotations are only ever refined: once a node's type is concrete no    *)
(* later visit changes it, so what an enclosing visit decided from it      *)
(* still holds when code is generated.                                     *)
AnnotationsOnlyRefine ==
  [][\A a \in Addresses(program) :
       resolved_type[a] \notin LiteralTypes \cup {NoType} =>
         resolved_type'[a] = resolved_type[a]]_tc_vars

----------------------------------------------------------------------------
(* Why no literal survives.  While a statement is walked, the only nodes   *)
(* annotated with a literal type are those whose parent was not visited    *)
(* yet, and what emit() returned for them is still at hand for that parent *)
(* to see; at the exit only the root can be left, and the statement or the *)
(* loop deals with it.                                                     *)
InStatement == AtNode(program, at) \/ AtExit(program, at)

PendingLiteral(a) ==
  /\ InStatement
  /\ a[1] = at[1] /\ a[2] = at[2] /\ a[3] \in 1 .. at[3] - 1
  /\ emitted[a[3]] = resolved_type[a]
  /\ \A j \in a[3] + 1 .. at[3] - 1 : ~IsOperand(CurrentStatement.value, a[3], j)

(* Literals are pending or gone, `result' is what was emitted last, and    *)
(* the symbol table never holds a literal type.                            *)
LiteralInv ==
  /\ \A n \in Names : variable_map[n] \notin LiteralTypes
  /\ status = "checked" => AtEnd(program, at)
  /\ status = "checking" /\ InStatement /\ at[3] > 1 => result = emitted[at[3] - 1]
  /\ status \in {"checking", "checked"} =>
       \A a \in Addresses(program) :
         resolved_type[a] \in LiteralTypes => PendingLiteral(a)

(* Why annotations are only refined: a node gets its first annotation when *)
(* it is visited, its second only as a literal, from the one node above    *)
(* it.  Nodes at or after `at' have none yet, the statement being walked   *)
(* included, and a value emitted as a literal and not yet read by a parent *)
(* has at most a literal annotation.                                       *)
Unvisited(a) ==
  \/ a[1] > at[1]
  \/ /\ a[1] = at[1]
     /\ \/ at[2] = 0
        \/ a[2] > at[2]
        \/ a[2] = at[2] /\ (a[3] = 0 \/ a[3] >= at[3])

Unread(i) == \A j \in i + 1 .. at[3] - 1 : ~IsOperand(CurrentStatement.value, i, j)

FreshInv ==
  status = "checking" =>
    /\ \A a \in Addresses(program) : Unvisited(a) => resolved_type[a] = NoType
    /\ InStatement =>
         \A i \in 1 .. at[3] - 1 :
           emitted[i] \in LiteralTypes /\ Unread(i) =>
             resolved_type[Operand(i)] \in LiteralTypes \cup {NoType}

(* Why uses follow declarations: the symbol table holds what the latest    *)
(* declarations before the current statement were annotated with, so a     *)
(* variable takes that type when it is visited, and from then on neither   *)
(* annotation changes.                                                     *)
DeclaredAs(f, s, name, type) ==
  \E d \in 1 .. (s - 1) :
    LatestDeclaration(f, s, name, d) /\ resolved_type[<<f, d, 0>>] = type

TableFollows ==
  status = "checking" /\ ~AtEnd(program, at) /\ at[2] > 0 =>
    \A n \in Names :
      variable_map[n] # NoType => DeclaredAs(at[1], at[2], n, variable_map[n])

VisitedUsesFollow ==
  status \in {"checking", "checked"} =>
    \A a \in NodeAddresses(program) :
      NodeAt(program, a).kind = "Variable" /\ ~Unvisited(a) =>
        /\ resolved_type[a] \notin LiteralTypes \cup {NoType}
        /\ DeclaredAs(a[1], a[2], NodeAt(program, a).name, resolved_type[a])

UsesInv == TableFollows /\ VisitedUsesFollow
============================================================================
