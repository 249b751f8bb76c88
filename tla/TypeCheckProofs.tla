-------------------------- MODULE TypeCheckProofs --------------------------
(***************************************************************************)
(* Proofs about the type checker, for any set of programs and any garbage  *)
(* in the uninitialised `result'.                                          *)
(***************************************************************************)
EXTENDS TypeRules, DataLemmas

(* Where the walk stands on a statement, it is one of the program's.       *)
LEMMA StatementShape ==
  ASSUME TCTypeOK, ~AtEnd(program, at), at[2] > 0
  PROVE  /\ at[1] \in 1 .. Len(program)
         /\ at[2] \in 1 .. Len(program[at[1]].statements)
         /\ IsStatement(CurrentStatement, Names)
<1>1. IsProgram(program, Names)
  BY ProgramsAssumption DEF TCTypeOK
<1>2. at[1] \in Nat /\ at[2] \in Nat
  BY DEF TCTypeOK, OnWalk
<1>3. Len(program) \in Nat
  BY <1>1 DEF IsProgram
<1>4. at[1] \in 1 .. Len(program)
  BY <1>2, <1>3 DEF TCTypeOK, OnWalk, AtEnd
<1>5. at[2] \in 1 .. Len(program[at[1]].statements)
  BY <1>1, <1>2, <1>4 DEF TCTypeOK, OnWalk, AtEnd, IsProgram
<1>6. IsStatement(program[at[1]].statements[at[2]], Names)
  BY <1>1, <1>4, <1>5 DEF IsProgram
<1> QED BY <1>4, <1>5, <1>6 DEF CurrentStatement, StatementAt

(* The same for a node: it is well formed, and emit() has returned a type  *)
(* for each of its operands.                                               *)
LEMMA NodeShape ==
  ASSUME TCTypeOK, AtNode(program, at)
  PROVE  /\ at[3] \in 1 .. Len(CurrentStatement.value)
         /\ Len(CurrentStatement.value) \in Nat
         /\ CurrentNode.kind \in NodeKinds
         /\ CurrentNode.kind = "Variable" => CurrentNode.name \in Names
         /\ CurrentNode.kind = "Binary" => /\ emitted[CurrentNode.lhs] \in TypeIds
                                           /\ emitted[CurrentNode.rhs] \in TypeIds
<1>1. IsStatement(CurrentStatement, Names)
  BY StatementShape DEF AtNode
<1> DEFINE e == CurrentStatement.value
<1>2. IsExpression(e, Names)
  BY <1>1 DEF IsStatement
<1>3. at[3] \in 1 .. Len(e) /\ Len(e) \in Nat
  BY <1>2 DEF AtNode, CurrentStatement, IsExpression
<1>4. CurrentNode = e[at[3]]
  BY DEF CurrentNode, NodeAt, CurrentStatement
<1>5. /\ CurrentNode.kind \in NodeKinds
      /\ CurrentNode.kind = "Variable" => CurrentNode.name \in Names
      /\ CurrentNode.kind = "Binary" => /\ CurrentNode.lhs \in 1 .. (at[3] - 2)
                                        /\ CurrentNode.rhs = at[3] - 1
  BY <1>2, <1>3, <1>4 DEF IsExpression
<1>6. emitted \in Seq(TypeIds) /\ Len(emitted) = at[3] - 1 /\ at[3] \in Nat
  BY DEF TCTypeOK, OnWalk
<1>7. ASSUME CurrentNode.kind = "Binary"
      PROVE  CurrentNode.lhs \in 1 .. Len(emitted) /\ CurrentNode.rhs \in 1 .. Len(emitted)
  BY <1>5, <1>6, <1>7
<1>8. \A i \in 1 .. Len(emitted) : emitted[i] \in TypeIds
  BY <1>6
<1> QED BY <1>3, <1>5, <1>7, <1>8

(* On leaving a statement the type of its value is known.                  *)
LEMMA ValueShape ==
  ASSUME TCTypeOK, AtExit(program, at)
  PROVE  ValueType \in TypeIds
<1>1. IsExpression(CurrentStatement.value, Names)
  BY StatementShape DEF AtExit, IsStatement
<1>2. Len(CurrentStatement.value) \in Nat \ {0}
  BY <1>1 DEF IsExpression
<1>3. Len(emitted) = Len(CurrentStatement.value) /\ emitted \in Seq(TypeIds)
  BY <1>2 DEF TCTypeOK, AtExit, CurrentStatement
<1> QED BY <1>2, <1>3 DEF ValueType

----------------------------------------------------------------------------
(* Positions.                                                              *)

(* The loops go from one place of the walk to another.                     *)
LEMMA NextStatementOnWalk ==
  ASSUME NEW prog, IsProgram(prog, Names), NEW a,
         OnWalk(prog, a), ~AtEnd(prog, a)
  PROVE  LET next == NextStatement(prog, a)
         IN  OnWalk(prog, next) /\ ~AtNode(prog, next) /\ ~AtExit(prog, next)
<1> DEFINE next == NextStatement(prog, a)
<1>1. /\ a[1] \in Nat /\ a[2] \in Nat /\ a[1] > 0
      /\ a[2] <= Len(prog[a[1]].statements)
      /\ a[1] \in 1 .. Len(prog) /\ Len(prog) \in Nat
  BY DEF OnWalk, AtEnd, IsProgram
<1>2. \A f \in 1 .. Len(prog) : Len(prog[f].statements) \in Nat
  BY DEF IsProgram
<1>3. CASE a[2] < Len(prog[a[1]].statements)
  <2>1. next = <<a[1], a[2] + 1, 0>>
    BY <1>3 DEF NextStatement
  <2>2. AtEntry(prog, next)
    BY <1>1, <2>1 DEF AtEntry, AtEnd
  <2>3. next \in Nat \X Nat \X Nat /\ next[1] > 0 /\ next[2] <= Len(prog[next[1]].statements)
    BY <1>1, <1>2, <1>3, <2>1
  <2>4. Len(StatementAt(prog, next).value) \in Nat \ {0}
    <3>1. IsStatement(prog[next[1]].statements[next[2]], Names)
      BY <1>1, <1>2, <2>1, <2>3 DEF IsProgram
    <3> QED BY <3>1 DEF IsStatement, IsExpression, StatementAt
  <2>5. ~AtNode(prog, next) /\ ~AtExit(prog, next)
    BY <2>1, <2>4 DEF AtNode, AtExit
  <2> QED BY <2>2, <2>3, <2>5 DEF OnWalk
<1>4. CASE ~(a[2] < Len(prog[a[1]].statements))
  <2>1. next = <<a[1] + 1, 0, 0>>
    BY <1>4 DEF NextStatement
  <2>2. AtEnd(prog, next) \/ AtFunction(prog, next)
    BY <1>1, <2>1 DEF AtFunction, AtEnd
  <2>3. next \in Nat \X Nat \X Nat /\ next[1] > 0
    BY <1>1, <2>1
  <2>4. next[1] <= Len(prog) => next[2] <= Len(prog[next[1]].statements)
    BY <1>1, <1>2, <2>1
  <2>5. ~AtNode(prog, next) /\ ~AtExit(prog, next)
    BY <2>1 DEF AtNode, AtExit
  <2> QED BY <2>2, <2>3, <2>4, <2>5 DEF OnWalk
<1> QED BY <1>3, <1>4

(* From its entry a statement goes to the first node of its value.         *)
LEMMA EntryOnWalk ==
  ASSUME NEW prog, IsProgram(prog, Names), NEW a,
         OnWalk(prog, a), AtEntry(prog, a)
  PROVE  LET first == <<a[1], a[2], 1>>
         IN  OnWalk(prog, first) /\ AtNode(prog, first)
<1> DEFINE first == <<a[1], a[2], 1>>
<1>1. a[1] \in 1 .. Len(prog) /\ a[2] \in 1 .. Len(prog[a[1]].statements)
  BY DEF OnWalk, AtEntry, AtEnd, IsProgram
<1>2. Len(StatementAt(prog, a).value) \in Nat \ {0}
  BY <1>1 DEF IsProgram, IsStatement, IsExpression, StatementAt
<1>3. StatementAt(prog, first) = StatementAt(prog, a)
  BY DEF StatementAt
<1>4. AtNode(prog, first)
  BY <1>2, <1>3 DEF AtEntry, AtNode, AtEnd
<1> QED BY <1>1, <1>4 DEF OnWalk, AtEnd

(* From a node the walk goes to the next one or to the statement's exit.   *)
LEMMA NodeOnWalk ==
  ASSUME NEW prog, IsProgram(prog, Names), NEW a,
         OnWalk(prog, a), AtNode(prog, a)
  PROVE  LET next == <<a[1], a[2], a[3] + 1>>
         IN  OnWalk(prog, next) /\ (AtNode(prog, next) \/ AtExit(prog, next))
<1> DEFINE next == <<a[1], a[2], a[3] + 1>>
<1>1. a[1] \in 1 .. Len(prog) /\ a[2] \in 1 .. Len(prog[a[1]].statements) /\ a[3] \in Nat
  BY DEF OnWalk, AtNode, AtEnd, IsProgram
<1>2. Len(StatementAt(prog, a).value) \in Nat \ {0}
  BY <1>1 DEF IsProgram, IsStatement, IsExpression, StatementAt
<1>3. StatementAt(prog, next) = StatementAt(prog, a)
  BY DEF StatementAt
<1>4. AtNode(prog, next) \/ AtExit(prog, next)
  BY <1>1, <1>2, <1>3 DEF AtNode, AtExit, AtEnd
<1> QED BY <1>1, <1>4 DEF OnWalk, AtEnd

----------------------------------------------------------------------------
(* The types the helpers return.                                           *)

LEMMA SettledType ==
  ASSUME NEW expected \in TypeIds \cup {NoType}, NEW type \in TypeIds
  PROVE  Settled(expected, type) \in TypeIds
BY DEF Settled, ResolveLiteral, LiteralDefault, TypeIds, BuiltinTypes, IntTypes,
       SignedTypes, FloatTypes

LEMMA OperandTypeType ==
  ASSUME NEW own \in TypeIds, NEW other \in TypeIds
  PROVE  OperandType(own, other) \in TypeIds
BY DEF OperandType, TypeIds, BuiltinTypes, IntTypes, SignedTypes, FloatTypes

LEMMA BinaryTypeType ==
  ASSUME NEW op, NEW lhs \in TypeIds, NEW rhs \in TypeIds
  PROVE  BinaryType(op, lhs, rhs) \in TypeIds
<1>1. "Bool" \in TypeIds
  BY DEF TypeIds, BuiltinTypes
<1> QED BY <1>1, OperandTypeType DEF BinaryType

(* Emit keeps the frame of the statement: one more value, one node on.     *)
LEMMA EmitStep ==
  ASSUME TCTypeOK, AtNode(program, at), result' \in TypeIds,
         resolved_type' \in [Addresses(program) -> TypeIds \cup {NoType}], Emit
  PROVE  TCTypeOK'
<1>1. IsProgram(program, Names)
  BY ProgramsAssumption DEF TCTypeOK
<1>2. at' = <<at[1], at[2], at[3] + 1>> /\ program' = program
  BY DEF Emit
<1>3. OnWalk(program', at')
  BY <1>1, <1>2, NodeOnWalk DEF TCTypeOK
<1>4. emitted' \in Seq(TypeIds) /\ Len(emitted') = Len(emitted) + 1
  BY DEF Emit, TCTypeOK
<1>5. Len(emitted') = at'[3] - 1
  BY <1>2, <1>4 DEF TCTypeOK, OnWalk
<1> QED BY <1>2, <1>3, <1>4, <1>5 DEF TCTypeOK, Emit

(* Leaving a statement drops the frame.                                    *)
LEMMA FinishStep ==
  ASSUME TCTypeOK, AtExit(program, at), NEW type \in TypeIds,
         variable_map' \in [Names -> TypeIds \cup {NoType}],
         resolved_type' \in [Addresses(program) -> TypeIds \cup {NoType}],
         FinishStatement(type)
  PROVE  TCTypeOK'
<1>1. IsProgram(program, Names)
  BY ProgramsAssumption DEF TCTypeOK
<1>2. program' = program /\ emitted' = emitted /\ result' = type
  BY DEF FinishStatement
<1>3. CASE type \in LiteralTypes
  <2>1. at' = at /\ status' = "CannotInferLiteral"
    BY <1>3 DEF FinishStatement
  <2> QED BY <1>2, <2>1 DEF TCTypeOK, Errors
<1>4. CASE type \notin LiteralTypes
  <2>1. at' = NextStatement(program, at) /\ status' = status
    BY <1>4 DEF FinishStatement
  <2>2. OnWalk(program', at') /\ ~AtNode(program', at') /\ ~AtExit(program', at')
    BY <1>1, <1>2, <2>1, NextStatementOnWalk DEF TCTypeOK, AtExit
  <2> QED BY <1>2, <2>1, <2>2 DEF TCTypeOK
<1> QED BY <1>3, <1>4

LEMMA ThrowStep ==
  ASSUME TCTypeOK, NEW error \in Errors, Throw(error)
  PROVE  TCTypeOK'
BY DEF TCTypeOK, Throw

----------------------------------------------------------------------------
(* Type correctness.                                                       *)

LEMMA TypeInit == TCInit => TCTypeOK
<1> SUFFICES ASSUME TCInit PROVE TCTypeOK
  OBVIOUS
<1>1. IsProgram(program, Names)
  BY ProgramsAssumption DEF TCInit
<1>2. at = <<1, 0, 0>>
  BY DEF TCInit, FirstAddress
<1>3. Len(program) \in Nat
  BY <1>1 DEF IsProgram
<1>4. AtEnd(program, at) \/ AtFunction(program, at)
  BY <1>2 DEF AtEnd, AtFunction
<1>5. at[1] <= Len(program) => at[2] <= Len(program[at[1]].statements)
  BY <1>1, <1>2, <1>3 DEF IsProgram
<1>6. OnWalk(program, at)
  BY <1>2, <1>4, <1>5 DEF OnWalk
<1>7. ~AtNode(program, at) /\ ~AtExit(program, at)
  BY <1>2 DEF AtNode, AtExit
<1>8. emitted \in Seq(TypeIds)
  BY DEF TCInit
<1> QED BY <1>6, <1>7, <1>8, InitialResultsAssumption DEF TCInit, TCTypeOK

LEMMA TypeNext == TCTypeOK /\ [TCNext \/ TCDone]_tc_vars => TCTypeOK'
<1> SUFFICES ASSUME TCTypeOK, [TCNext \/ TCDone]_tc_vars PROVE TCTypeOK'
  OBVIOUS
<1> USE DEF TCTypeOK
<1>0. IsProgram(program, Names)
  BY ProgramsAssumption
<1>1. CASE EnterFunction
  <2>1. at' = NextStatement(program, at) /\ program' = program
    BY <1>1 DEF EnterFunction
  <2>2. OnWalk(program', at') /\ ~AtNode(program', at') /\ ~AtExit(program', at')
    BY <1>0, <1>1, <2>1, NextStatementOnWalk DEF EnterFunction, AtFunction
  <2>3. resolved_type' \in [Addresses(program) -> TypeIds \cup {NoType}]
    BY <1>1 DEF EnterFunction, TypeIds, BuiltinTypes, IntTypes, SignedTypes
  <2> QED BY <1>1, <2>1, <2>2, <2>3 DEF EnterFunction
<1>2. CASE EnterStatement
  <2>1. CASE Throw("UndeclaredVariable")
    BY <2>1, ThrowStep DEF Errors
  <2>2. CASE ~Throw("UndeclaredVariable")
    <3>1. at' = Operand(1) /\ emitted' = << >> /\ AtEntry(program, at)
          /\ UNCHANGED << program, resolved_type, variable_map, status >>
      BY <1>2, <2>2 DEF EnterStatement
    <3>2. OnWalk(program', at') /\ at'[3] = 1
      BY <1>0, <3>1, EntryOnWalk DEF Operand
    <3>3. IsStatement(CurrentStatement, Names)
      BY <3>1, StatementShape DEF AtEntry
    <3>4. CurrentStatement.kind = "Declare" /\ CurrentStatement.annotation # NoType =>
            CurrentStatement.annotation \in TypeIds
      BY <3>3 DEF IsStatement, TypeIds
    <3>5. result' \in TypeIds
      BY <1>2, <2>2, <3>4 DEF EnterStatement
    <3>6. emitted' \in Seq(TypeIds) /\ Len(emitted') = 0
      BY <3>1
    <3> QED BY <3>1, <3>2, <3>5, <3>6
  <2> QED BY <2>1, <2>2
<1>3. CASE VisitLiteral
  <2>1. result' \in TypeIds
    BY <1>3 DEF VisitLiteral, TypeIds
  <2>2. resolved_type' \in [Addresses(program) -> TypeIds \cup {NoType}]
    BY <1>3, <2>1 DEF VisitLiteral
  <2> QED BY <1>3, <2>1, <2>2, EmitStep DEF VisitLiteral
<1>4. CASE VisitVariable
  <2>1. CASE Throw("UndeclaredVariable")
    BY <2>1, ThrowStep DEF Errors
  <2>2. CASE ~Throw("UndeclaredVariable")
    <3>1. variable_map[CurrentNode.name] \in TypeIds
      BY <1>4, <2>2, NodeShape DEF VisitVariable
    <3>2. result' \in TypeIds
      BY <1>4, <2>2, <3>1 DEF VisitVariable
    <3>3. resolved_type' \in [Addresses(program) -> TypeIds \cup {NoType}]
      BY <1>4, <2>2, <3>1 DEF VisitVariable
    <3> QED BY <1>4, <2>2, <3>2, <3>3, EmitStep DEF VisitVariable
  <2> QED BY <2>1, <2>2
<1>5. CASE VisitFunctionCall
  BY <1>5, EmitStep DEF VisitFunctionCall
<1>6. CASE VisitBinary
  <2> DEFINE lhs == emitted[CurrentNode.lhs]
             rhs == emitted[CurrentNode.rhs]
  <2>1. CASE Throw("CannotCoerce") \/ Throw("OperandMismatch")
    BY <2>1, ThrowStep DEF Errors
  <2>2. CASE ~(Throw("CannotCoerce") \/ Throw("OperandMismatch"))
    <3>1. lhs \in TypeIds /\ rhs \in TypeIds
      BY <1>6, NodeShape DEF VisitBinary
    <3>2. result' = BinaryType(CurrentNode.op, lhs, rhs)
      BY <1>6, <2>2 DEF VisitBinary
    <3>3. result' \in TypeIds
      BY <3>1, <3>2, BinaryTypeType
    <3>4. resolved_type' = [resolved_type EXCEPT
             ![Operand(CurrentNode.lhs)] = Annotated(@, lhs, OperandType(lhs, rhs)),
             ![Operand(CurrentNode.rhs)] = Annotated(@, rhs, OperandType(rhs, lhs)),
             ![at] = result']
      BY <1>6, <2>2 DEF VisitBinary
    <3>5. resolved_type' \in [Addresses(program) -> TypeIds \cup {NoType}]
      BY <3>1, <3>3, <3>4, OperandTypeType DEF Annotated
    <3> QED BY <1>6, <2>2, <3>3, <3>5, EmitStep DEF VisitBinary
  <2> QED BY <2>1, <2>2
<1>7. CASE Declaring
  <2> DEFINE type == Settled(CurrentStatement.annotation, ValueType)
  <2>1. CASE Throw("CannotCoerce") \/ Throw("DeclarationMismatch")
    BY <2>1, ThrowStep DEF Errors
  <2>2. CASE ~(Throw("CannotCoerce") \/ Throw("DeclarationMismatch"))
    <3>1. IsStatement(CurrentStatement, Names) /\ ValueType \in TypeIds
      BY <1>7, StatementShape, ValueShape DEF Declaring, AtExit
    <3>2. CurrentStatement.annotation \in TypeIds \cup {NoType}
      BY <1>7, <3>1 DEF Declaring, IsStatement, TypeIds
    <3>3. type \in TypeIds
      BY <3>1, <3>2, SettledType
    <3>4. resolved_type' \in [Addresses(program) -> TypeIds \cup {NoType}]
      BY <1>7, <2>2, <3>3 DEF Declaring, Annotated
    <3>5. variable_map' \in [Names -> TypeIds \cup {NoType}]
      BY <1>7, <2>2, <3>3 DEF Declaring
    <3> QED BY <1>7, <2>2, <3>3, <3>4, <3>5, FinishStep DEF Declaring
  <2> QED BY <2>1, <2>2
<1>8. CASE Assigning
  <2> DEFINE type == Settled(variable_map[CurrentStatement.name], ValueType)
  <2>1. CASE Throw("CannotCoerce") \/ Throw("AssignmentMismatch")
    BY <2>1, ThrowStep DEF Errors
  <2>2. CASE ~(Throw("CannotCoerce") \/ Throw("AssignmentMismatch"))
    <3>1. IsStatement(CurrentStatement, Names) /\ ValueType \in TypeIds
      BY <1>8, StatementShape, ValueShape DEF Assigning, AtExit
    <3>2. variable_map[CurrentStatement.name] \in TypeIds \cup {NoType}
      BY <1>8, <3>1 DEF Assigning, IsStatement
    <3>3. type \in TypeIds
      BY <3>1, <3>2, SettledType
    <3>4. resolved_type' \in [Addresses(program) -> TypeIds \cup {NoType}]
      BY <1>8, <2>2, <3>3 DEF Assigning, Annotated
    <3> QED BY <1>8, <2>2, <3>4, FinishStep DEF Assigning
  <2> QED BY <2>1, <2>2
<1>9. CASE Showing
  BY <1>9, FinishStep DEF Showing
<1>10. CASE Returning
  <2> DEFINE type == Settled(resolved_type[<<at[1], 0, 0>>], ValueType)
  <2>1. CASE Throw("CannotCoerce")
    BY <2>1, ThrowStep DEF Errors
  <2>2. CASE ~Throw("CannotCoerce")
    <3>1. ValueType \in TypeIds /\ at[1] \in 1 .. Len(program)
      BY <1>10, StatementShape, ValueShape DEF Returning, AtExit
    <3>2. <<at[1], 0, 0>> \in Addresses(program)
      BY <3>1 DEF Addresses, FunctionAddresses
    <3>3. type \in TypeIds
      BY <3>1, <3>2, SettledType
    <3>4. resolved_type' \in [Addresses(program) -> TypeIds \cup {NoType}]
      BY <1>10, <2>2, <3>3 DEF Returning, Annotated
    <3> QED BY <1>10, <2>2, <3>3, <3>4, FinishStep DEF Returning
  <2> QED BY <2>1, <2>2
<1>11. CASE FinishCheck
  BY <1>11 DEF FinishCheck
<1>12. CASE UNCHANGED tc_vars
  BY <1>12 DEF tc_vars
<1> QED
  BY <1>1, <1>2, <1>3, <1>4, <1>5, <1>6, <1>7, <1>8, <1>9, <1>10, <1>11, <1>12
  DEF TCNext, VisitNode, ExitStatement, TCDone

(* The checker's state is well typed in every run on every set of          *)
(* programs.                                                               *)
THEOREM TypeCorrect == TCSpec => []TCTypeOK
BY TypeInit, TypeNext, PTL DEF TCSpec

----------------------------------------------------------------------------
(* No literal type survives the checker.                                   *)

LEMMA NoTypeIsConcrete == NoType \notin LiteralTypes
BY DEF NoType, LiteralTypes

LEMMA SettledConcrete ==
  ASSUME NEW expected, expected \notin LiteralTypes, NEW type
  PROVE  Settled(expected, type) \notin LiteralTypes
BY DEF Settled, ResolveLiteral, LiteralDefault, LiteralTypes

LEMMA OperandTypeConcrete ==
  ASSUME NEW own, NEW other
  PROVE  OperandType(own, other) \notin LiteralTypes
BY DEF OperandType, LiteralTypes

LEMMA AddressParts ==
  ASSUME NEW prog, NEW a \in Addresses(prog)
  PROVE  a = <<a[1], a[2], a[3]>>
BY DEF Addresses, FunctionAddresses, StatementAddresses, NodeAddresses

(* At the exit of a statement only its root can still be a literal, and    *)
(* then its visit, which reads ValueType, sees it.                         *)
LEMMA ExitPending ==
  ASSUME TCTypeOK, LiteralInv, status = "checking", AtExit(program, at),
         NEW a \in Addresses(program), resolved_type[a] \in LiteralTypes
  PROVE  a = ValueNode /\ ValueType = resolved_type[a]
<1> DEFINE e == CurrentStatement.value
<1>1. PendingLiteral(a)
  BY DEF LiteralInv
<1>2. IsExpression(e, Names)
  BY StatementShape DEF AtExit, IsStatement
<1>3. at[3] = Len(e) + 1 /\ Len(e) \in Nat
  BY <1>2 DEF AtExit, CurrentStatement, IsExpression
<1>4. a[3] \in 1 .. Len(e)
  BY <1>1, <1>3 DEF PendingLiteral
<1>5. \A j \in a[3] + 1 .. Len(e) : ~IsOperand(e, a[3], j)
  BY <1>1, <1>3 DEF PendingLiteral
<1>6. a[3] = Len(e)
  BY <1>2, <1>3, <1>4, <1>5 DEF IsExpression
<1>7. a = <<at[1], at[2], Len(e)>>
  BY <1>1, <1>6, AddressParts DEF PendingLiteral
<1> QED BY <1>1, <1>6, <1>7 DEF ValueNode, ValueType, PendingLiteral

(* A visit may leave its own node a literal, and must settle its operands. *)
LEMMA EmitLiteral ==
  ASSUME TCTypeOK, LiteralInv, status = "checking", AtNode(program, at), Emit,
         \A a \in Addresses(program) : resolved_type'[a] \in LiteralTypes =>
            \/ a = at /\ resolved_type'[a] = result'
            \/ /\ resolved_type'[a] = resolved_type[a]
               /\ ~ (/\ a[1] = at[1] /\ a[2] = at[2]
                     /\ IsOperand(CurrentStatement.value, a[3], at[3]))
  PROVE  LiteralInv'
<1>1. /\ at' = <<at[1], at[2], at[3] + 1>> /\ program' = program
      /\ variable_map' = variable_map /\ status' = status
      /\ emitted' = Append(emitted, result')
  BY DEF Emit
<1>2. at[3] \in Nat /\ Len(emitted) = at[3] - 1 /\ emitted \in Seq(TypeIds) /\ at[3] > 0
  BY DEF TCTypeOK, OnWalk, AtNode
<1>3. InStatement'
  BY <1>1, NodeOnWalk, ProgramsAssumption DEF TCTypeOK, InStatement
<1>4. emitted'[at[3]] = result' /\ \A i \in 1 .. at[3] - 1 : emitted'[i] = emitted[i]
  BY <1>1, <1>2
<1>5. CurrentStatement' = CurrentStatement
  BY <1>1 DEF CurrentStatement, StatementAt
<1>6. ASSUME NEW a \in Addresses(program), resolved_type'[a] \in LiteralTypes
      PROVE  PendingLiteral(a)'
  <2>1. CASE a = at /\ resolved_type'[a] = result'
    <3>1. a[3] = at[3] /\ at'[3] = at[3] + 1 /\ a[1] = at'[1] /\ a[2] = at'[2]
      BY <1>1, <2>1
    <3> QED BY <1>2, <1>3, <1>4, <2>1, <3>1 DEF PendingLiteral
  <2>2. CASE /\ resolved_type'[a] = resolved_type[a]
             /\ ~ (/\ a[1] = at[1] /\ a[2] = at[2]
                   /\ IsOperand(CurrentStatement.value, a[3], at[3]))
    <3>1. PendingLiteral(a)
      BY <1>6, <2>2 DEF LiteralInv
    <3>2. at'[1] = at[1] /\ at'[2] = at[2] /\ at'[3] = at[3] + 1
      BY <1>1
    <3>3. a[3] \in 1 .. at[3] - 1 /\ a[1] = at[1] /\ a[2] = at[2]
      BY <3>1 DEF PendingLiteral
    <3>4. \A j \in a[3] + 1 .. at[3] : ~IsOperand(CurrentStatement.value, a[3], j)
      BY <1>2, <2>2, <3>1, <3>3 DEF PendingLiteral
    <3>5. emitted'[a[3]] = resolved_type'[a]
      BY <1>4, <2>2, <3>1, <3>3 DEF PendingLiteral
    <3> QED BY <1>2, <1>3, <1>5, <3>2, <3>3, <3>4, <3>5 DEF PendingLiteral
  <2> QED BY <1>6, <2>1, <2>2
<1>7. result' = emitted'[at'[3] - 1]
  BY <1>1, <1>2, <1>4
<1> QED BY <1>1, <1>6, <1>7 DEF LiteralInv

(* Leaving a statement either throws or leaves no literal behind.          *)
LEMMA FinishLiteral ==
  ASSUME TCTypeOK, LiteralInv, status = "checking", AtExit(program, at),
         NEW type, FinishStatement(type),
         \A n \in Names : variable_map'[n] \notin LiteralTypes,
         type \notin LiteralTypes =>
           \A a \in Addresses(program) : resolved_type'[a] \notin LiteralTypes
  PROVE  LiteralInv'
<1>1. program' = program
  BY DEF FinishStatement
<1>2. CASE type \in LiteralTypes
  BY <1>2 DEF FinishStatement, LiteralInv
<1>3. CASE type \notin LiteralTypes
  <2>1. at' = NextStatement(program, at) /\ status' = "checking"
    BY <1>3 DEF FinishStatement
  <2>2. ~InStatement'
    BY <1>1, <2>1, NextStatementOnWalk, ProgramsAssumption DEF TCTypeOK, AtExit, InStatement
  <2> QED BY <1>1, <1>3, <2>1, <2>2 DEF LiteralInv
<1> QED BY <1>2, <1>3

LEMMA ThrowLiteral ==
  ASSUME LiteralInv, NEW error \in Errors, Throw(error)
  PROVE  LiteralInv'
BY DEF LiteralInv, Throw, Errors

LEMMA LiteralInit == TCInit => LiteralInv
<1> SUFFICES ASSUME TCInit PROVE LiteralInv
  OBVIOUS
<1>1. ~InStatement
  BY DEF TCInit, FirstAddress, InStatement, AtNode, AtExit
<1> QED BY <1>1, NoTypeIsConcrete DEF TCInit, LiteralInv

LEMMA LiteralNext ==
  TCTypeOK /\ LiteralInv /\ [TCNext \/ TCDone]_tc_vars => LiteralInv'
<1> SUFFICES ASSUME TCTypeOK, LiteralInv, [TCNext \/ TCDone]_tc_vars PROVE LiteralInv'
  OBVIOUS
<1>0. IsProgram(program, Names)
  BY ProgramsAssumption DEF TCTypeOK
<1>1. CASE EnterFunction
  <2>1. ~InStatement /\ status = "checking" /\ status' = "checking" /\ program' = program
    BY <1>1 DEF EnterFunction, AtFunction, InStatement, AtNode, AtExit
  <2>2. ~InStatement'
    BY <1>0, <1>1, NextStatementOnWalk DEF EnterFunction, AtFunction, InStatement, TCTypeOK
  <2>3. \A a \in Addresses(program) : resolved_type[a] \notin LiteralTypes
    BY <2>1 DEF LiteralInv, PendingLiteral
  <2>4. \A a \in Addresses(program) : resolved_type'[a] \notin LiteralTypes
    BY <1>1, <2>3 DEF EnterFunction, TCTypeOK, LiteralTypes
  <2>5. \A n \in Names : variable_map'[n] \notin LiteralTypes
    BY <1>1, NoTypeIsConcrete DEF EnterFunction
  <2> QED BY <2>1, <2>2, <2>4, <2>5 DEF LiteralInv
<1>2. CASE EnterStatement
  <2>1. CASE Throw("UndeclaredVariable")
    BY <2>1, ThrowLiteral DEF Errors
  <2>2. CASE ~Throw("UndeclaredVariable")
    <3>1. /\ at' = Operand(1) /\ AtEntry(program, at) /\ status = "checking"
          /\ UNCHANGED << program, resolved_type, variable_map, status >>
      BY <1>2, <2>2 DEF EnterStatement
    <3>2. ~InStatement /\ at'[3] = 1
      BY <3>1 DEF AtEntry, InStatement, AtNode, AtExit, Operand
    <3>3. \A a \in Addresses(program) : resolved_type[a] \notin LiteralTypes
      BY <3>1, <3>2 DEF LiteralInv, PendingLiteral
    <3> QED BY <3>1, <3>2, <3>3 DEF LiteralInv
  <2> QED BY <2>1, <2>2
<1>3. CASE VisitLiteral
  <2> SUFFICES ASSUME NEW a \in Addresses(program), resolved_type'[a] \in LiteralTypes, a # at
               PROVE  /\ resolved_type'[a] = resolved_type[a]
                      /\ ~IsOperand(CurrentStatement.value, a[3], at[3])
    BY <1>3, EmitLiteral DEF VisitLiteral, TCTypeOK
  <2>1. CurrentStatement.value[at[3]].kind \in LiteralTypes
    BY <1>3 DEF VisitLiteral, CurrentNode, NodeAt, CurrentStatement
  <2> QED BY <1>3, <2>1 DEF VisitLiteral, TCTypeOK, IsOperand, LiteralTypes
<1>4. CASE VisitVariable
  <2>1. CASE Throw("UndeclaredVariable")
    BY <2>1, ThrowLiteral DEF Errors
  <2>2. CASE ~Throw("UndeclaredVariable")
    <3>1. /\ resolved_type' = [resolved_type EXCEPT ![at] = variable_map[CurrentNode.name]]
          /\ result' = variable_map[CurrentNode.name]
          /\ Emit /\ AtNode(program, at) /\ status = "checking"
      BY <1>4, <2>2 DEF VisitVariable
    <3>2. CurrentStatement.value[at[3]].kind = "Variable"
      BY <1>4 DEF VisitVariable, CurrentNode, NodeAt, CurrentStatement
    <3>3. ASSUME NEW a \in Addresses(program), resolved_type'[a] \in LiteralTypes, a # at
          PROVE  /\ resolved_type'[a] = resolved_type[a]
                 /\ ~IsOperand(CurrentStatement.value, a[3], at[3])
      BY <3>1, <3>2, <3>3 DEF TCTypeOK, IsOperand
    <3>4. at \in Addresses(program) => resolved_type'[at] = result'
      BY <3>1 DEF TCTypeOK
    <3> QED BY <3>1, <3>3, <3>4, EmitLiteral
  <2> QED BY <2>1, <2>2
<1>5. CASE VisitFunctionCall
  <2>1. CurrentStatement.value[at[3]].kind = "FunctionCall"
    BY <1>5 DEF VisitFunctionCall, CurrentNode, NodeAt, CurrentStatement
  <2>2. \A i : ~IsOperand(CurrentStatement.value, i, at[3])
    BY <2>1 DEF IsOperand
  <2> QED BY <1>5, <2>2, EmitLiteral DEF VisitFunctionCall
<1>6. CASE VisitBinary
  <2> DEFINE lhs == emitted[CurrentNode.lhs]
             rhs == emitted[CurrentNode.rhs]
             e   == CurrentStatement.value
  <2>1. CASE Throw("CannotCoerce") \/ Throw("OperandMismatch")
    BY <2>1, ThrowLiteral DEF Errors
  <2>2. CASE ~(Throw("CannotCoerce") \/ Throw("OperandMismatch"))
    <3>1. /\ resolved_type' = [resolved_type EXCEPT
               ![Operand(CurrentNode.lhs)] = Annotated(@, lhs, OperandType(lhs, rhs)),
               ![Operand(CurrentNode.rhs)] = Annotated(@, rhs, OperandType(rhs, lhs)),
               ![at] = result']
          /\ Emit /\ AtNode(program, at) /\ status = "checking"
      BY <1>6, <2>2 DEF VisitBinary
    <3>2. e[at[3]] = CurrentNode
      BY DEF CurrentNode, NodeAt, CurrentStatement
    <3>3. ASSUME NEW a \in Addresses(program), resolved_type'[a] \in LiteralTypes, a # at
          PROVE  /\ resolved_type'[a] = resolved_type[a]
                 /\ ~ (/\ a[1] = at[1] /\ a[2] = at[2] /\ IsOperand(e, a[3], at[3]))
      <4>1. ASSUME a = Operand(CurrentNode.lhs) PROVE FALSE
        <5>1. lhs \notin LiteralTypes /\ resolved_type[a] \in LiteralTypes
          BY <3>1, <3>3, <4>1, OperandTypeConcrete DEF TCTypeOK, Annotated
        <5>2. PendingLiteral(a)
          BY <3>1, <5>1 DEF LiteralInv
        <5>3. emitted[a[3]] = lhs
          BY <4>1 DEF Operand
        <5> QED BY <5>1, <5>2, <5>3 DEF PendingLiteral
      <4>2. ASSUME a = Operand(CurrentNode.rhs) PROVE FALSE
        <5>1. rhs \notin LiteralTypes /\ resolved_type[a] \in LiteralTypes
          BY <3>1, <3>3, <4>1, <4>2, OperandTypeConcrete DEF TCTypeOK, Annotated
        <5>2. PendingLiteral(a)
          BY <3>1, <5>1 DEF LiteralInv
        <5>3. emitted[a[3]] = rhs
          BY <4>2 DEF Operand
        <5> QED BY <5>1, <5>2, <5>3 DEF PendingLiteral
      <4>3. resolved_type'[a] = resolved_type[a]
        BY <3>1, <3>3, <4>1, <4>2 DEF TCTypeOK
      <4>4. ASSUME a[1] = at[1], a[2] = at[2], IsOperand(e, a[3], at[3]) PROVE FALSE
        <5>1. a[3] = CurrentNode.lhs \/ a[3] = CurrentNode.rhs
          BY <3>2, <4>4 DEF IsOperand
        <5>2. a = <<at[1], at[2], a[3]>>
          BY <4>4, AddressParts
        <5> QED BY <4>1, <4>2, <5>1, <5>2 DEF Operand
      <4> QED BY <4>3, <4>4
    <3>4. at \in Addresses(program) => resolved_type'[at] = result'
      BY <3>1 DEF TCTypeOK
    <3> QED BY <3>1, <3>3, <3>4, EmitLiteral
  <2> QED BY <2>1, <2>2
<1>7. CASE Declaring
  <2> DEFINE type == Settled(CurrentStatement.annotation, ValueType)
  <2>1. CASE Throw("CannotCoerce") \/ Throw("DeclarationMismatch")
    BY <2>1, ThrowLiteral DEF Errors
  <2>2. CASE ~(Throw("CannotCoerce") \/ Throw("DeclarationMismatch"))
    <3>1. /\ resolved_type' = [resolved_type EXCEPT
               ![ValueNode] = Annotated(@, ValueType, type), ![StatementNode] = type]
          /\ variable_map' = [variable_map EXCEPT ![CurrentStatement.name] = type]
          /\ FinishStatement(type) /\ AtExit(program, at) /\ status = "checking"
      BY <1>7, <2>2 DEF Declaring
    <3>2. IsStatement(CurrentStatement, Names) /\ CurrentStatement.kind = "Declare"
      BY <1>7, StatementShape DEF Declaring, AtExit
    <3>3. CurrentStatement.annotation \notin LiteralTypes
      BY <3>2 DEF IsStatement, BuiltinTypes, IntTypes, SignedTypes, UnsignedTypes,
                  FloatTypes, LiteralTypes, NoType
    <3>4. type \notin LiteralTypes
      BY <3>3, SettledConcrete
    <3>5. \A n \in Names : variable_map'[n] \notin LiteralTypes
      BY <3>1, <3>4 DEF LiteralInv, TCTypeOK
    <3>6. ASSUME NEW a \in Addresses(program), resolved_type'[a] \in LiteralTypes PROVE FALSE
      <4>1. a # StatementNode
        BY <3>1, <3>4, <3>6 DEF TCTypeOK
      <4>2. resolved_type[a] \in LiteralTypes /\ (a = ValueNode => ValueType \notin LiteralTypes)
        BY <3>1, <3>4, <3>6, <4>1 DEF TCTypeOK, Annotated
      <4> QED BY <3>1, <4>2, ExitPending
    <3> QED BY <3>1, <3>5, <3>6, FinishLiteral
  <2> QED BY <2>1, <2>2
<1>8. CASE Assigning
  <2> DEFINE type == Settled(variable_map[CurrentStatement.name], ValueType)
  <2>1. CASE Throw("CannotCoerce") \/ Throw("AssignmentMismatch")
    BY <2>1, ThrowLiteral DEF Errors
  <2>2. CASE ~(Throw("CannotCoerce") \/ Throw("AssignmentMismatch"))
    <3>1. /\ resolved_type' = [resolved_type EXCEPT ![ValueNode] = Annotated(@, ValueType, type)]
          /\ variable_map' = variable_map
          /\ FinishStatement(result) /\ AtExit(program, at) /\ status = "checking"
      BY <1>8, <2>2 DEF Assigning
    <3>2. IsStatement(CurrentStatement, Names) /\ CurrentStatement.kind = "Assign"
      BY <1>8, StatementShape DEF Assigning, AtExit
    <3>3. variable_map[CurrentStatement.name] \notin LiteralTypes
      BY <3>2 DEF IsStatement, LiteralInv
    <3>4. type \notin LiteralTypes
      BY <3>3, SettledConcrete
    <3>5. ASSUME NEW a \in Addresses(program), resolved_type'[a] \in LiteralTypes PROVE FALSE
      <4>1. resolved_type[a] \in LiteralTypes /\ (a = ValueNode => ValueType \notin LiteralTypes)
        BY <3>1, <3>4, <3>5 DEF TCTypeOK, Annotated
      <4> QED BY <3>1, <4>1, ExitPending
    <3>6. \A n \in Names : variable_map'[n] \notin LiteralTypes
      BY <3>1 DEF LiteralInv
    <3> QED BY <3>1, <3>5, <3>6, FinishLiteral
  <2> QED BY <2>1, <2>2
<1>9. CASE Showing
  <2>1. /\ resolved_type' = resolved_type /\ variable_map' = variable_map
        /\ FinishStatement(result) /\ AtExit(program, at) /\ status = "checking"
    BY <1>9 DEF Showing
  <2>2. ASSUME NEW a \in Addresses(program), resolved_type'[a] \in LiteralTypes
        PROVE  result \in LiteralTypes
    <3>1. ValueType \in LiteralTypes
      BY <2>1, <2>2, ExitPending
    <3>2. IsExpression(CurrentStatement.value, Names)
      BY <2>1, StatementShape DEF AtExit, IsStatement
    <3>3. at[3] = Len(CurrentStatement.value) + 1 /\ Len(CurrentStatement.value) \in Nat \ {0}
      BY <2>1, <3>2 DEF AtExit, CurrentStatement, IsExpression
    <3>4. result = ValueType
      BY <2>1, <3>3 DEF LiteralInv, InStatement, ValueType
    <3> QED BY <3>1, <3>4
  <2>3. \A n \in Names : variable_map'[n] \notin LiteralTypes
    BY <2>1 DEF LiteralInv
  <2> QED BY <2>1, <2>2, <2>3, FinishLiteral
<1>10. CASE Returning
  <2> DEFINE type == Settled(resolved_type[<<at[1], 0, 0>>], ValueType)
  <2>1. CASE Throw("CannotCoerce")
    BY <2>1, ThrowLiteral DEF Errors
  <2>2. CASE ~Throw("CannotCoerce")
    <3>1. /\ resolved_type' = [resolved_type EXCEPT
               ![ValueNode] = Annotated(@, ValueType, type), ![StatementNode] = type]
          /\ variable_map' = variable_map
          /\ FinishStatement(type) /\ AtExit(program, at) /\ status = "checking"
      BY <1>10, <2>2 DEF Returning
    <3>2. <<at[1], 0, 0>> \in Addresses(program)
      BY <3>1, StatementShape DEF AtExit, Addresses, FunctionAddresses
    <3>3. resolved_type[<<at[1], 0, 0>>] \notin LiteralTypes
      BY <3>1, <3>2 DEF LiteralInv, PendingLiteral
    <3>4. type \notin LiteralTypes
      BY <3>3, SettledConcrete
    <3>5. ASSUME NEW a \in Addresses(program), resolved_type'[a] \in LiteralTypes PROVE FALSE
      <4>1. a # StatementNode
        BY <3>1, <3>4, <3>5 DEF TCTypeOK
      <4>2. resolved_type[a] \in LiteralTypes /\ (a = ValueNode => ValueType \notin LiteralTypes)
        BY <3>1, <3>4, <3>5, <4>1 DEF TCTypeOK, Annotated
      <4> QED BY <3>1, <4>2, ExitPending
    <3>6. \A n \in Names : variable_map'[n] \notin LiteralTypes
      BY <3>1 DEF LiteralInv
    <3> QED BY <3>1, <3>5, <3>6, FinishLiteral
  <2> QED BY <2>1, <2>2
<1>11. CASE FinishCheck
  <2>1. ~InStatement /\ status = "checking" /\ AtEnd(program, at) /\ status' = "checked"
        /\ UNCHANGED << program, at, resolved_type, result, variable_map, emitted >>
    BY <1>11 DEF FinishCheck, InStatement, AtNode, AtExit
  <2> QED BY <2>1 DEF LiteralInv, PendingLiteral
<1>12. CASE UNCHANGED tc_vars
  BY <1>12 DEF tc_vars, LiteralInv, PendingLiteral, InStatement, CurrentStatement
<1> QED
  BY <1>1, <1>2, <1>3, <1>4, <1>5, <1>6, <1>7, <1>8, <1>9, <1>10, <1>11, <1>12
  DEF TCNext, VisitNode, ExitStatement, TCDone

(* Whatever trees it is given, and whatever `result' holds at first, a     *)
(* tree the checker accepts has no literal type left.                      *)
THEOREM NoLiteralSurvives == TCSpec => []CheckedTreeHasNoLiteral
<1>1. LiteralInv => CheckedTreeHasNoLiteral
  BY DEF LiteralInv, PendingLiteral, InStatement, AtNode, AtExit, CheckedTreeHasNoLiteral
<1> QED BY <1>1, TypeInit, TypeNext, LiteralInit, LiteralNext, PTL DEF TCSpec

----------------------------------------------------------------------------
(* Annotations are only refined.                                           *)

LEMMA AtParts == TCTypeOK => at[1] \in Nat /\ at[2] \in Nat /\ at[3] \in Nat
BY DEF TCTypeOK, OnWalk

LEMMA AddressNumbers ==
  ASSUME NEW prog, IsProgram(prog, Names), NEW a \in Addresses(prog)
  PROVE  a[1] \in Nat /\ a[2] \in Nat /\ a[3] \in Nat
<1>1. Len(prog) \in Nat /\ \A f \in 1 .. Len(prog) : Len(prog[f].statements) \in Nat
  BY DEF IsProgram
<1>2. CASE a \in FunctionAddresses(prog)
  BY <1>1, <1>2 DEF FunctionAddresses
<1>3. CASE a \in StatementAddresses(prog)
  BY <1>1, <1>3 DEF StatementAddresses
<1>4. CASE a \in NodeAddresses(prog)
  <2>1. PICK b \in StatementAddresses(prog) :
          a \in { <<b[1], b[2], e>> : e \in 1 .. Len(StatementAt(prog, b).value) }
    BY <1>4 DEF NodeAddresses
  <2>2. PICK f \in 1 .. Len(prog) : \E s \in 1 .. Len(prog[f].statements) : b = <<f, s, 0>>
    BY <2>1 DEF StatementAddresses
  <2>3. PICK s \in 1 .. Len(prog[f].statements) : b = <<f, s, 0>>
    BY <2>2
  <2>4. IsStatement(prog[f].statements[s], Names)
    BY <2>2, <2>3 DEF IsProgram
  <2>5. Len(StatementAt(prog, b).value) \in Nat
    BY <2>3, <2>4 DEF IsStatement, IsExpression, StatementAt
  <2> QED BY <1>1, <2>1, <2>2, <2>3, <2>5
<1> QED BY <1>2, <1>3, <1>4 DEF Addresses

(* A visit annotates its own node, if at all with what it emits, and the   *)
(* operands it reads.                                                      *)
LEMMA EmitFresh ==
  ASSUME TCTypeOK, FreshInv, status = "checking", AtNode(program, at), Emit,
         \A a \in Addresses(program) :
            \/ resolved_type'[a] = resolved_type[a]
            \/ a = at /\ resolved_type'[a] = result'
            \/ \E i \in 1 .. at[3] - 1 :
                 a = Operand(i) /\ IsOperand(CurrentStatement.value, i, at[3]),
         \A i \in 1 .. at[3] : Operand(i) \in Addresses(program)
  PROVE  FreshInv'
<1>1. /\ at' = <<at[1], at[2], at[3] + 1>> /\ program' = program
      /\ status' = status /\ emitted' = Append(emitted, result')
  BY DEF Emit
<1>2. /\ at[1] \in Nat /\ at[2] \in Nat /\ at[3] \in Nat /\ at[3] > 0 /\ at[2] > 0
      /\ Len(emitted) = at[3] - 1 /\ emitted \in Seq(TypeIds)
      /\ at = <<at[1], at[2], at[3]>>
  BY DEF TCTypeOK, OnWalk, AtNode
<1>3. emitted'[at[3]] = result' /\ \A i \in 1 .. at[3] - 1 : emitted'[i] = emitted[i]
  BY <1>1, <1>2
<1>4. CurrentStatement' = CurrentStatement
  BY <1>1 DEF CurrentStatement, StatementAt
<1>5. at'[1] = at[1] /\ at'[2] = at[2] /\ at'[3] = at[3] + 1
  BY <1>1
<1>6. ASSUME NEW a \in Addresses(program), Unvisited(a)'
      PROVE  resolved_type'[a] = NoType
  <2>1. a[1] \in Nat /\ a[2] \in Nat /\ a[3] \in Nat
    BY AddressNumbers, ProgramsAssumption DEF TCTypeOK
  <2>2. Unvisited(a) /\ a # at /\ \A i \in 1 .. at[3] - 1 : a # Operand(i)
    BY <1>2, <1>5, <1>6, <2>1 DEF Unvisited, Operand
  <2> QED BY <2>2 DEF FreshInv
<1>7. ASSUME NEW i \in 1 .. at'[3] - 1, emitted'[i] \in LiteralTypes, Unread(i)'
      PROVE  resolved_type'[Operand(i)'] \in LiteralTypes \cup {NoType}
  <2>1. i \in 1 .. at[3] /\ Operand(i)' = Operand(i) /\ Operand(i) \in Addresses(program)
    BY <1>2, <1>5, <1>7 DEF Operand
  <2>2. CASE i = at[3]
    <3>1. Operand(i) = at
      BY <1>2, <2>2 DEF Operand
    <3>2. resolved_type[at] = NoType
      BY <1>2, <2>1, <3>1 DEF FreshInv, Unvisited
    <3>3. resolved_type'[at] = NoType \/ resolved_type'[at] = result'
      BY <1>2, <2>1, <3>1, <3>2 DEF Operand
    <3> QED BY <1>3, <1>7, <2>1, <2>2, <3>1, <3>3
  <2>3. CASE i # at[3]
    <3>1. i \in 1 .. at[3] - 1
      BY <1>2, <2>1, <2>3
    <3>2. Unread(i) /\ ~IsOperand(CurrentStatement.value, i, at[3])
      BY <1>2, <1>4, <1>5, <1>7, <3>1 DEF Unread
    <3>3. resolved_type'[Operand(i)] = resolved_type[Operand(i)]
      BY <1>2, <2>1, <3>1, <3>2 DEF Operand
    <3>4. InStatement
      BY DEF InStatement
    <3> QED BY <1>3, <1>7, <2>1, <3>1, <3>2, <3>3, <3>4 DEF FreshInv
  <2> QED BY <2>2, <2>3
<1> QED BY <1>1, <1>6, <1>7 DEF FreshInv

(* The loops leave a statement, or a function's head, behind.              *)
LEMMA AdvanceFresh ==
  ASSUME TCTypeOK, FreshInv, status = "checking", program' = program,
         at' = NextStatement(program, at), ~AtEnd(program, at),
         \A a \in Addresses(program) :
           \/ resolved_type'[a] = resolved_type[a]
           \/ a[1] = at[1] /\ a[2] = at[2] /\ (at[2] = 0 => a[3] = 0)
  PROVE  FreshInv'
<1>1. IsProgram(program, Names)
  BY ProgramsAssumption DEF TCTypeOK
<1>2. ~InStatement'
  BY <1>1, NextStatementOnWalk DEF TCTypeOK, InStatement
<1>3. ASSUME NEW a \in Addresses(program), Unvisited(a)'
      PROVE  resolved_type'[a] = NoType
  <2>1. a[1] \in Nat /\ a[2] \in Nat /\ a[3] \in Nat
    BY <1>1, AddressNumbers
  <2>2. \/ at'[1] = at[1] /\ at'[2] = at[2] + 1 /\ at'[3] = 0
        \/ at'[1] = at[1] + 1 /\ at'[2] = 0 /\ at'[3] = 0
    BY DEF NextStatement
  <2>3. Unvisited(a) /\ ~(a[1] = at[1] /\ a[2] = at[2])
    BY <1>3, <2>1, <2>2, AtParts DEF Unvisited
  <2> QED BY <2>3 DEF FreshInv
<1> QED BY <1>2, <1>3 DEF FreshInv

(* The nodes of the statement being walked have addresses.                 *)
LEMMA OperandAddress ==
  ASSUME TCTypeOK, InStatement, NEW i \in 1 .. Len(CurrentStatement.value)
  PROVE  Operand(i) \in Addresses(program)
<1> DEFINE b == <<at[1], at[2], 0>>
<1>1. at[1] \in 1 .. Len(program) /\ at[2] \in 1 .. Len(program[at[1]].statements)
  BY StatementShape DEF InStatement, AtNode, AtExit
<1>2. b \in StatementAddresses(program)
  BY <1>1 DEF StatementAddresses
<1>3. StatementAt(program, b) = CurrentStatement
  BY DEF CurrentStatement, StatementAt
<1>4. Operand(i) \in { <<b[1], b[2], e>> : e \in 1 .. Len(StatementAt(program, b).value) }
  BY <1>3 DEF Operand
<1> QED BY <1>2, <1>4 DEF Addresses, NodeAddresses

(* A binary node is the only one to read its operands.                     *)
LEMMA OperandUnread ==
  ASSUME TCTypeOK, AtNode(program, at), CurrentNode.kind = "Binary",
         NEW i \in {CurrentNode.lhs, CurrentNode.rhs}
  PROVE  /\ i \in 1 .. at[3] - 1
         /\ IsOperand(CurrentStatement.value, i, at[3])
         /\ Unread(i)
         /\ Operand(i) \in Addresses(program) /\ Operand(i) # at
<1> DEFINE e == CurrentStatement.value
<1>1. IsExpression(e, Names)
  BY StatementShape DEF AtNode, IsStatement
<1>2. at[3] \in 1 .. Len(e) /\ Len(e) \in Nat
  BY NodeShape
<1>3. CurrentNode = e[at[3]]
  BY DEF CurrentNode, NodeAt, CurrentStatement
<1>4. i \in 1 .. at[3] - 1
  <2>1. e[at[3]].lhs \in 1 .. (at[3] - 2) /\ e[at[3]].rhs = at[3] - 1
    <3> HIDE DEF e
    <3> QED BY <1>1, <1>2, <1>3 DEF IsExpression
  <2>2. at[3] \in Nat /\ (i = e[at[3]].lhs \/ i = e[at[3]].rhs)
    BY <1>2, <1>3
  <2> HIDE DEF e
  <2> QED BY <2>1, <2>2
<1>5. IsOperand(e, i, at[3])
  BY <1>3 DEF IsOperand
<1>6. i \in 1 .. Len(e) /\ i < Len(e)
  BY <1>2, <1>4
<1>7. \A j \in 1 .. Len(e) : IsOperand(e, i, j) => j = at[3]
  BY <1>1, <1>2, <1>5, <1>6 DEF IsExpression
<1>8. Unread(i)
  <2> SUFFICES ASSUME NEW j \in i + 1 .. at[3] - 1 PROVE ~IsOperand(e, i, j)
    BY DEF Unread
  <2>1. j \in 1 .. Len(e) /\ j # at[3]
    BY <1>2, <1>4
  <2> QED BY <1>7, <2>1
<1>9. Operand(i) \in Addresses(program)
  BY <1>6, OperandAddress DEF InStatement
<1>10. Operand(i) # at
  BY <1>2, <1>4 DEF Operand
<1> QED BY <1>4, <1>5, <1>8, <1>9, <1>10

(* Nobody but the statement reads the root.                                *)
LEMMA RootUnread ==
  ASSUME TCTypeOK, FreshInv, status = "checking", AtExit(program, at)
  PROVE  /\ ValueNode \in Addresses(program)
         /\ ValueType \in LiteralTypes =>
              resolved_type[ValueNode] \in LiteralTypes \cup {NoType}
         /\ StatementNode \in Addresses(program) => resolved_type[StatementNode] = NoType
<1> DEFINE last == Len(CurrentStatement.value)
<1>1. IsExpression(CurrentStatement.value, Names)
  BY StatementShape DEF AtExit, IsStatement
<1>2. last \in Nat \ {0} /\ at[3] = last + 1
  BY <1>1 DEF AtExit, CurrentStatement, IsExpression
<1>3. last \in 1 .. last /\ last \in 1 .. at[3] - 1 /\ ValueNode = Operand(last)
  BY <1>2 DEF ValueNode, Operand
<1>4. ValueNode \in Addresses(program)
  BY <1>3, OperandAddress DEF InStatement
<1>5. Unread(last)
  BY <1>2 DEF Unread
<1>6. ValueType \in LiteralTypes => resolved_type[ValueNode] \in LiteralTypes \cup {NoType}
  BY <1>3, <1>5 DEF FreshInv, InStatement, ValueType
<1>7. Unvisited(StatementNode)
  BY DEF Unvisited, StatementNode
<1> QED BY <1>4, <1>6, <1>7 DEF FreshInv

(* What the visits and exits write, in the form the three lemmas need.     *)
LEMMA BinaryWrites ==
  ASSUME TCTypeOK, FreshInv, VisitBinary, ~Throw("CannotCoerce"), ~Throw("OperandMismatch"),
         NEW a \in Addresses(program)
  PROVE  /\ \/ resolved_type'[a] = resolved_type[a]
            \/ a = at /\ resolved_type'[a] = result'
            \/ \E i \in 1 .. at[3] - 1 :
                 a = Operand(i) /\ IsOperand(CurrentStatement.value, i, at[3])
         /\ resolved_type[a] \notin LiteralTypes \cup {NoType} =>
              resolved_type'[a] = resolved_type[a]
         /\ Emit
<1> DEFINE lhs == emitted[CurrentNode.lhs]
           rhs == emitted[CurrentNode.rhs]
<1>1. /\ resolved_type' = [resolved_type EXCEPT
             ![Operand(CurrentNode.lhs)] = Annotated(@, lhs, OperandType(lhs, rhs)),
             ![Operand(CurrentNode.rhs)] = Annotated(@, rhs, OperandType(rhs, lhs)),
             ![at] = result']
      /\ Emit /\ AtNode(program, at) /\ status = "checking" /\ CurrentNode.kind = "Binary"
  BY DEF VisitBinary
<1>2. a = at => resolved_type'[a] = result'
  BY <1>1 DEF TCTypeOK
<1>3. a # at /\ a # Operand(CurrentNode.lhs) /\ a # Operand(CurrentNode.rhs) =>
        resolved_type'[a] = resolved_type[a]
  BY <1>1 DEF TCTypeOK
<1>4. \A i \in {CurrentNode.lhs, CurrentNode.rhs} :
        /\ i \in 1 .. at[3] - 1
        /\ IsOperand(CurrentStatement.value, i, at[3])
        /\ Unread(i)
        /\ Operand(i) \in Addresses(program) /\ Operand(i) # at
  BY <1>1, OperandUnread
<1>5. \A i \in {CurrentNode.lhs, CurrentNode.rhs} :
        emitted[i] \in LiteralTypes => resolved_type[Operand(i)] \in LiteralTypes \cup {NoType}
  BY <1>1, <1>4 DEF FreshInv, InStatement
<1>6. resolved_type[at] = NoType
  <2>1. at = Operand(at[3]) /\ at[3] \in 1 .. Len(CurrentStatement.value)
    BY <1>1, NodeShape, AtParts DEF Operand, TCTypeOK, OnWalk
  <2>2. at \in Addresses(program)
    BY <1>1, <2>1, OperandAddress DEF InStatement
  <2>3. Unvisited(at)
    BY AtParts DEF Unvisited
  <2> QED BY <1>1, <2>2, <2>3 DEF FreshInv
<1>7. ASSUME resolved_type[a] \notin LiteralTypes \cup {NoType}
      PROVE  resolved_type'[a] = resolved_type[a]
  <2>1. a # at
    BY <1>6, <1>7
  <2>2. a = Operand(CurrentNode.lhs) => lhs \notin LiteralTypes
    BY <1>5, <1>7
  <2>3. a = Operand(CurrentNode.rhs) => rhs \notin LiteralTypes
    BY <1>5, <1>7
  <2> QED BY <1>1, <2>1, <2>2, <2>3 DEF Annotated, TCTypeOK
<1> QED BY <1>1, <1>2, <1>3, <1>4, <1>7

(* A visit of a leaf annotates that leaf, which had no annotation.         *)
LEMMA LeafWrites ==
  ASSUME TCTypeOK, FreshInv, status = "checking", AtNode(program, at),
         \/ resolved_type' = resolved_type
         \/ resolved_type' = [resolved_type EXCEPT ![at] = result'],
         NEW a \in Addresses(program)
  PROVE  /\ \/ resolved_type'[a] = resolved_type[a]
            \/ a = at /\ resolved_type'[a] = result'
         /\ resolved_type[a] \notin LiteralTypes \cup {NoType} =>
              resolved_type'[a] = resolved_type[a]
<1>1. Unvisited(at)
  BY AtParts DEF Unvisited
<1>2. at \in Addresses(program) => resolved_type[at] = NoType
  BY <1>1 DEF FreshInv
<1> QED BY <1>2 DEF TCTypeOK

(* An exit annotates its statement and, where that is a literal, its value.*)
LEMMA ExitWrites ==
  ASSUME TCTypeOK, FreshInv, status = "checking", AtExit(program, at), NEW type,
         \/ resolved_type' = resolved_type
         \/ resolved_type' = [resolved_type EXCEPT ![ValueNode] = Annotated(@, ValueType, type)]
         \/ resolved_type' = [resolved_type EXCEPT
                                ![ValueNode] = Annotated(@, ValueType, type),
                                ![StatementNode] = type],
         NEW a \in Addresses(program)
  PROVE  /\ \/ resolved_type'[a] = resolved_type[a]
            \/ a[1] = at[1] /\ a[2] = at[2]
         /\ resolved_type[a] \notin LiteralTypes \cup {NoType} =>
              resolved_type'[a] = resolved_type[a]
<1>1. a \in {ValueNode, StatementNode} => a[1] = at[1] /\ a[2] = at[2]
  BY DEF ValueNode, StatementNode
<1>2. a \notin {ValueNode, StatementNode} => resolved_type'[a] = resolved_type[a]
  BY DEF TCTypeOK
<1>3. ASSUME resolved_type[a] \notin LiteralTypes \cup {NoType}
      PROVE  resolved_type'[a] = resolved_type[a]
  <2>1. a # StatementNode
    BY <1>3, RootUnread
  <2>2. a = ValueNode => ValueType \notin LiteralTypes
    BY <1>3, RootUnread
  <2> QED BY <2>1, <2>2 DEF Annotated, TCTypeOK
<1> QED BY <1>1, <1>2, <1>3

LEMMA ThrowFresh ==
  ASSUME NEW error \in Errors, Throw(error)
  PROVE  FreshInv' /\ resolved_type' = resolved_type
BY DEF FreshInv, Throw, Errors

LEMMA FreshInit == TCInit => FreshInv
<1> SUFFICES ASSUME TCInit PROVE FreshInv
  OBVIOUS
<1>1. ~InStatement
  BY DEF TCInit, FirstAddress, InStatement, AtNode, AtExit
<1> QED BY <1>1 DEF TCInit, FreshInv

(* An exit that does not throw.                                            *)
LEMMA FinishFresh ==
  ASSUME TCTypeOK, FreshInv, status = "checking", AtExit(program, at),
         NEW type, FinishStatement(type),
         \A a \in Addresses(program) :
           resolved_type'[a] = resolved_type[a] \/ (a[1] = at[1] /\ a[2] = at[2])
  PROVE  FreshInv'
<1>1. CASE type \in LiteralTypes
  BY <1>1 DEF FinishStatement, FreshInv
<1>2. CASE type \notin LiteralTypes
  <2>1. at' = NextStatement(program, at) /\ program' = program /\ at[2] # 0
        /\ ~AtEnd(program, at)
    BY <1>2, AtParts DEF FinishStatement, AtExit
  <2> QED BY <2>1, AdvanceFresh
<1> QED BY <1>1, <1>2

(* The step both results need: what a step writes.                         *)
LEMMA FreshNext ==
  ASSUME TCTypeOK, FreshInv, [TCNext \/ TCDone]_tc_vars
  PROVE  /\ FreshInv'
         /\ \A a \in Addresses(program) :
              resolved_type[a] \notin LiteralTypes \cup {NoType} =>
                resolved_type'[a] = resolved_type[a]
<1> DEFINE Kept(a) == resolved_type[a] \notin LiteralTypes \cup {NoType} =>
                        resolved_type'[a] = resolved_type[a]
           Refined == \A a \in Addresses(program) : Kept(a)
<1> SUFFICES FreshInv' /\ Refined
  OBVIOUS
<1>1. CASE EnterFunction
  <2>1. /\ AtFunction(program, at) /\ status = "checking" /\ program' = program
        /\ at' = NextStatement(program, at)
        /\ resolved_type' = [resolved_type EXCEPT ![at] = "Int32"]
    BY <1>1 DEF EnterFunction
  <2>2. ~AtEnd(program, at) /\ at[2] = 0 /\ at[3] = 0
    BY <2>1 DEF AtFunction
  <2>3. \A a \in Addresses(program) : a # at => resolved_type'[a] = resolved_type[a]
    BY <2>1 DEF TCTypeOK
  <2>4. Unvisited(at)
    BY <2>2 DEF Unvisited
  <2>5. at \in Addresses(program) => resolved_type[at] = NoType
    BY <2>1, <2>4 DEF FreshInv
  <2>6. FreshInv'
    BY <2>1, <2>2, <2>3, AdvanceFresh
  <2> QED BY <2>3, <2>5, <2>6
<1>2. CASE EnterStatement
  <2>1. CASE Throw("UndeclaredVariable")
    BY <2>1, ThrowFresh DEF Errors
  <2>2. CASE ~Throw("UndeclaredVariable")
    <3>1. /\ at' = Operand(1) /\ AtEntry(program, at) /\ status = "checking"
          /\ UNCHANGED << program, resolved_type, variable_map, status >>
      BY <1>2, <2>2 DEF EnterStatement
    <3>2. at'[1] = at[1] /\ at'[2] = at[2] /\ at'[3] = 1 /\ at[2] > 0
      BY <3>1 DEF Operand, AtEntry
    <3>3. ASSUME NEW a \in Addresses(program), Unvisited(a)' PROVE Unvisited(a)
      BY <3>1, <3>2, <3>3, AtParts, AddressNumbers, ProgramsAssumption
      DEF Unvisited, AtEntry, TCTypeOK
    <3> QED BY <3>1, <3>2, <3>3 DEF FreshInv
  <2> QED BY <2>1, <2>2
<1>3. ASSUME AtNode(program, at), status = "checking", Emit,
             resolved_type' = resolved_type
             \/ resolved_type' = [resolved_type EXCEPT ![at] = result'],
             CurrentNode.kind # "Binary"
      PROVE  FreshInv' /\ Refined
  <2>1. \A i \in 1 .. at[3] : Operand(i) \in Addresses(program)
    BY <1>3, NodeShape, OperandAddress DEF InStatement
  <2>2. \A a \in Addresses(program) :
          /\ resolved_type'[a] = resolved_type[a] \/ (a = at /\ resolved_type'[a] = result')
          /\ Kept(a)
    BY <1>3, LeafWrites
  <2> QED BY <1>3, <2>1, <2>2, EmitFresh
<1>4. CASE VisitLiteral
  BY <1>3, <1>4 DEF VisitLiteral, LiteralTypes
<1>5. CASE VisitVariable
  <2>1. CASE Throw("UndeclaredVariable")
    BY <2>1, ThrowFresh DEF Errors
  <2>2. CASE ~Throw("UndeclaredVariable")
    BY <1>3, <1>5, <2>2 DEF VisitVariable
  <2> QED BY <2>1, <2>2
<1>6. CASE VisitFunctionCall
  BY <1>3, <1>6 DEF VisitFunctionCall
<1>7. CASE VisitBinary
  <2>1. CASE Throw("CannotCoerce") \/ Throw("OperandMismatch")
    BY <2>1, ThrowFresh DEF Errors
  <2>2. CASE ~(Throw("CannotCoerce") \/ Throw("OperandMismatch"))
    <3>1. AtNode(program, at) /\ status = "checking" /\ Emit
      BY <1>7, <2>2 DEF VisitBinary
    <3>2. \A i \in 1 .. at[3] : Operand(i) \in Addresses(program)
      BY <3>1, NodeShape, OperandAddress DEF InStatement
    <3>3. \A a \in Addresses(program) :
            /\ \/ resolved_type'[a] = resolved_type[a]
               \/ a = at /\ resolved_type'[a] = result'
               \/ \E i \in 1 .. at[3] - 1 :
                    a = Operand(i) /\ IsOperand(CurrentStatement.value, i, at[3])
            /\ Kept(a)
      BY <1>7, <2>2, BinaryWrites
    <3> QED BY <3>1, <3>2, <3>3, EmitFresh
  <2> QED BY <2>1, <2>2
<1>8. ASSUME NEW type, NEW final, AtExit(program, at), status = "checking",
             FinishStatement(final),
             \/ resolved_type' = resolved_type
             \/ resolved_type' = [resolved_type EXCEPT ![ValueNode] = Annotated(@, ValueType, type)]
             \/ resolved_type' = [resolved_type EXCEPT
                                    ![ValueNode] = Annotated(@, ValueType, type),
                                    ![StatementNode] = type]
      PROVE  FreshInv' /\ Refined
  <2>1. \A a \in Addresses(program) :
          /\ resolved_type'[a] = resolved_type[a] \/ (a[1] = at[1] /\ a[2] = at[2])
          /\ Kept(a)
    BY <1>8, ExitWrites
  <2> QED BY <1>8, <2>1, FinishFresh
<1>9. CASE Declaring
  <2>1. CASE Throw("CannotCoerce") \/ Throw("DeclarationMismatch")
    BY <2>1, ThrowFresh DEF Errors
  <2>2. CASE ~(Throw("CannotCoerce") \/ Throw("DeclarationMismatch"))
    BY <1>8, <1>9, <2>2 DEF Declaring
  <2> QED BY <2>1, <2>2
<1>10. CASE Assigning
  <2>1. CASE Throw("CannotCoerce") \/ Throw("AssignmentMismatch")
    BY <2>1, ThrowFresh DEF Errors
  <2>2. CASE ~(Throw("CannotCoerce") \/ Throw("AssignmentMismatch"))
    BY <1>8, <1>10, <2>2 DEF Assigning
  <2> QED BY <2>1, <2>2
<1>11. CASE Showing
  BY <1>8, <1>11 DEF Showing
<1>12. CASE Returning
  <2>1. CASE Throw("CannotCoerce")
    BY <2>1, ThrowFresh DEF Errors
  <2>2. CASE ~Throw("CannotCoerce")
    BY <1>8, <1>12, <2>2 DEF Returning
  <2> QED BY <2>1, <2>2
<1>13. CASE FinishCheck
  BY <1>13 DEF FinishCheck, FreshInv
<1>14. CASE UNCHANGED tc_vars
  BY <1>14 DEF tc_vars, FreshInv, Unvisited, Unread, InStatement, CurrentStatement, Operand
<1> QED
  BY <1>1, <1>2, <1>4, <1>5, <1>6, <1>7, <1>9, <1>10, <1>11, <1>12, <1>13, <1>14
  DEF TCNext, VisitNode, ExitStatement, TCDone

(* Once a node's type is concrete no later visit changes it, on any trees. *)
THEOREM AnnotationsRefined == TCSpec => AnnotationsOnlyRefine
<1>1. TCTypeOK /\ FreshInv /\ [TCNext \/ TCDone]_tc_vars =>
        FreshInv' /\ [\A a \in Addresses(program) :
                        resolved_type[a] \notin LiteralTypes \cup {NoType} =>
                          resolved_type'[a] = resolved_type[a]]_tc_vars
  BY FreshNext
<1> QED BY <1>1, TypeInit, TypeNext, FreshInit, PTL DEF TCSpec, AnnotationsOnlyRefine

----------------------------------------------------------------------------
(* Uses of variables follow their declarations.                            *)

(* A node's address is its statement's and an index into its value.        *)
LEMMA NodeAddressParts ==
  ASSUME NEW prog, IsProgram(prog, Names), NEW a \in NodeAddresses(prog)
  PROVE  /\ a[1] \in 1 .. Len(prog) /\ Len(prog) \in Nat
         /\ a[2] \in 1 .. Len(prog[a[1]].statements)
         /\ Len(prog[a[1]].statements) \in Nat
         /\ a[3] \in 1 .. Len(StatementAt(prog, a).value)
         /\ Len(StatementAt(prog, a).value) \in Nat
         /\ a = <<a[1], a[2], a[3]>>
         /\ a \in Addresses(prog)
<1>1. PICK b \in StatementAddresses(prog) :
        a \in { <<b[1], b[2], e>> : e \in 1 .. Len(StatementAt(prog, b).value) }
  BY DEF NodeAddresses
<1>2. PICK f \in 1 .. Len(prog) : \E s \in 1 .. Len(prog[f].statements) : b = <<f, s, 0>>
  BY <1>1 DEF StatementAddresses
<1>3. PICK s \in 1 .. Len(prog[f].statements) : b = <<f, s, 0>>
  BY <1>2
<1>4. PICK e \in 1 .. Len(StatementAt(prog, b).value) : a = <<b[1], b[2], e>>
  BY <1>1
<1>5. a[1] = f /\ a[2] = s /\ a[3] = e /\ StatementAt(prog, a) = StatementAt(prog, b)
  BY <1>3, <1>4 DEF StatementAt
<1>6. IsStatement(prog[f].statements[s], Names) /\ Len(prog) \in Nat
      /\ Len(prog[f].statements) \in Nat
  BY <1>2, <1>3 DEF IsProgram
<1>7. Len(StatementAt(prog, b).value) \in Nat
  BY <1>3, <1>6 DEF StatementAt, IsStatement, IsExpression
<1> QED BY <1>2, <1>3, <1>4, <1>5, <1>6, <1>7 DEF Addresses

LEMMA StatementAddress ==
  ASSUME NEW prog, NEW f \in 1 .. Len(prog), NEW s \in 1 .. Len(prog[f].statements)
  PROVE  <<f, s, 0>> \in Addresses(prog)
BY DEF StatementAddresses, Addresses

LEMMA NodeAddress ==
  ASSUME NEW prog, NEW f \in 1 .. Len(prog), NEW s \in 1 .. Len(prog[f].statements),
         NEW e \in 1 .. Len(prog[f].statements[s].value)
  PROVE  <<f, s, e>> \in NodeAddresses(prog) /\ <<f, s, e>> \in Addresses(prog)
<1>1. PICK b : b = <<f, s, 0>>
  OBVIOUS
<1>2. b \in StatementAddresses(prog) /\ b[1] = f /\ b[2] = s
  BY <1>1 DEF StatementAddresses
<1>3. e \in 1 .. Len(StatementAt(prog, b).value)
  BY <1>2 DEF StatementAt
<1>4. <<f, s, e>> \in NodeAddresses(prog)
  BY <1>2, <1>3 DEF NodeAddresses
<1> QED BY <1>4 DEF Addresses

(* The tree never changes.                                                 *)
LEMMA ProgramFixed ==
  ASSUME [TCNext \/ TCDone]_tc_vars
  PROVE  program' = program
<1>1. TCDone \/ UNCHANGED tc_vars => program' = program
  BY DEF TCDone, tc_vars
<1>2. EnterFunction \/ EnterStatement \/ FinishCheck => program' = program
  BY DEF EnterFunction, EnterStatement, FinishCheck, Throw
<1>3. VisitNode => program' = program
  BY DEF VisitNode, VisitLiteral, VisitVariable, VisitFunctionCall, VisitBinary, Emit, Throw
<1>4. ExitStatement => program' = program
  BY DEF ExitStatement, Declaring, Assigning, Showing, Returning, FinishStatement, Throw
<1> QED BY <1>1, <1>2, <1>3, <1>4 DEF TCNext

----------------------------------------------------------------------------
(* What a step keeps.                                                      *)

Refines ==
  /\ program' = program
  /\ \A a \in Addresses(program) :
       resolved_type[a] \notin LiteralTypes \cup {NoType} => resolved_type'[a] = resolved_type[a]

(* A declaration that was found stays the one to follow.                   *)
LEMMA DeclaredKept ==
  ASSUME TCTypeOK, Refines,
         NEW f \in 1 .. Len(program), NEW s \in 1 .. Len(program[f].statements),
         NEW name, NEW type, type \notin LiteralTypes \cup {NoType},
         DeclaredAs(f, s, name, type)
  PROVE  DeclaredAs(f, s, name, type)'
<1>1. PICK d \in 1 .. (s - 1) :
        LatestDeclaration(f, s, name, d) /\ resolved_type[<<f, d, 0>>] = type
  BY DEF DeclaredAs
<1>2. Len(program[f].statements) \in Nat
  BY ProgramsAssumption DEF TCTypeOK, IsProgram
<1>3. <<f, d, 0>> \in Addresses(program)
  BY <1>2, StatementAddress
<1>4. resolved_type'[<<f, d, 0>>] = type
  BY <1>1, <1>3 DEF Refines
<1>5. LatestDeclaration(f, s, name, d)'
  BY <1>1 DEF Refines, LatestDeclaration, Declares
<1> QED BY <1>4, <1>5 DEF DeclaredAs

(* A use that was visited before the step is settled after it.             *)
LEMMA VisitedKept ==
  ASSUME TCTypeOK, Refines, VisitedUsesFollow, status \in {"checking", "checked"},
         NEW a \in NodeAddresses(program),
         NodeAt(program, a).kind = "Variable", ~Unvisited(a)
  PROVE  /\ resolved_type'[a] \notin LiteralTypes \cup {NoType}
         /\ DeclaredAs(a[1], a[2], NodeAt(program, a).name, resolved_type[a])'
<1>1. IsProgram(program, Names)
  BY ProgramsAssumption DEF TCTypeOK
<1>2. /\ resolved_type[a] \notin LiteralTypes \cup {NoType}
      /\ DeclaredAs(a[1], a[2], NodeAt(program, a).name, resolved_type[a])
  BY DEF VisitedUsesFollow
<1>3. a[1] \in 1 .. Len(program) /\ a[2] \in 1 .. Len(program[a[1]].statements)
      /\ a \in Addresses(program)
  BY <1>1, NodeAddressParts
<1>4. resolved_type'[a] = resolved_type[a]
  BY <1>2, <1>3 DEF Refines
<1>5. PICK type, name : type = resolved_type[a] /\ name = NodeAt(program, a).name
  OBVIOUS
<1>6. DeclaredAs(a[1], a[2], name, type)'
  BY <1>2, <1>3, <1>5, DeclaredKept
<1>7. name = NodeAt(program, a).name'
  BY <1>5 DEF Refines, NodeAt, StatementAt
<1> QED BY <1>2, <1>4, <1>5, <1>6, <1>7 DEF DeclaredAs

----------------------------------------------------------------------------
(* Visiting in order.                                                      *)

(* Going to the next statement, or function, leaves no node out.           *)
LEMMA AdvanceVisited ==
  ASSUME TCTypeOK, AtFunction(program, at) \/ AtExit(program, at), program' = program,
         at' = NextStatement(program, at), NEW a \in NodeAddresses(program), ~Unvisited(a)'
  PROVE  ~Unvisited(a)
<1>1. IsProgram(program, Names)
  BY ProgramsAssumption DEF TCTypeOK
<1>2. /\ a[1] \in 1 .. Len(program) /\ Len(program) \in Nat
      /\ a[2] \in 1 .. Len(program[a[1]].statements)
      /\ Len(program[a[1]].statements) \in Nat
      /\ a[3] \in 1 .. Len(StatementAt(program, a).value)
      /\ Len(StatementAt(program, a).value) \in Nat
  BY <1>1, NodeAddressParts
<1>3. \/ /\ at[2] < Len(program[at[1]].statements)
         /\ at'[1] = at[1] /\ at'[2] = at[2] + 1 /\ at'[3] = 0
      \/ /\ ~(at[2] < Len(program[at[1]].statements))
         /\ at'[1] = at[1] + 1 /\ at'[2] = 0 /\ at'[3] = 0
  BY DEF NextStatement
<1>4. a[1] < at[1] \/ (a[1] = at[1] /\ a[2] <= at[2])
  <2>1. at[1] \in Nat /\ at[2] \in Nat /\ a[1] \in Nat /\ a[2] \in Nat /\ a[3] \in Nat \ {0}
    BY <1>2, AtParts
  <2>2. CASE at'[1] = at[1] /\ at'[2] = at[2] + 1 /\ at'[3] = 0
    BY <2>1, <2>2 DEF Unvisited
  <2>3. CASE at'[1] = at[1] + 1 /\ at'[2] = 0 /\ at'[3] = 0
    <3>1. Len(program[a[1]].statements) \in Nat /\ a[2] <= Len(program[a[1]].statements)
      BY <1>2
    <3>2. ~(at[2] < Len(program[at[1]].statements))
      BY <1>3, <2>1, <2>3
    <3>3. ASSUME a[1] = at[1] PROVE a[2] <= at[2]
      <4>1. Len(program[at[1]].statements) \in Nat
            /\ a[2] <= Len(program[at[1]].statements)
        BY <3>1, <3>3
      <4> QED BY <2>1, <3>2, <4>1
    <3> QED BY <2>1, <2>3, <3>3 DEF Unvisited
  <2>4. (at'[1] = at[1] /\ at'[2] = at[2] + 1 /\ at'[3] = 0)
        \/ (at'[1] = at[1] + 1 /\ at'[2] = 0 /\ at'[3] = 0)
    BY <1>3
  <2> QED BY <2>2, <2>3, <2>4
<1>5. CASE AtFunction(program, at)
  BY <1>2, <1>4, <1>5, AtParts DEF AtFunction, Unvisited
<1>6. CASE AtExit(program, at)
  <2>1. a[1] = at[1] /\ a[2] = at[2] => StatementAt(program, a) = StatementAt(program, at)
    BY DEF StatementAt
  <2>2. at[3] = Len(StatementAt(program, at).value) + 1 /\ at[2] > 0
    BY <1>6 DEF AtExit
  <2>3. at[1] \in Nat /\ at[2] \in Nat /\ at[3] \in Nat
    BY AtParts
  <2>4. a[1] \in Nat /\ a[2] \in Nat /\ a[3] \in Nat \ {0}
    BY <1>2
  <2>5. a[1] = at[1] /\ a[2] = at[2] => a[3] < at[3]
    BY <1>2, <2>1, <2>2
  <2> QED BY <1>4, <2>2, <2>3, <2>4, <2>5 DEF Unvisited
<1> QED BY <1>5, <1>6

(* No use is visited but one that was before, or `at' is not one.          *)
LEMMA NoUseVisited ==
  ASSUME TCTypeOK, Refines, VisitedUsesFollow, status \in {"checking", "checked"},
         \A a \in NodeAddresses(program) :
           NodeAt(program, a).kind = "Variable" /\ ~Unvisited(a)' => ~Unvisited(a)
  PROVE  VisitedUsesFollow'
<1>1. ASSUME NEW a \in NodeAddresses(program),
             NodeAt(program, a).kind = "Variable", ~Unvisited(a)'
      PROVE  /\ resolved_type'[a] \notin LiteralTypes \cup {NoType}
             /\ DeclaredAs(a[1], a[2], NodeAt(program, a).name, resolved_type[a])'
  BY <1>1, VisitedKept
<1>2. program' = program
  BY DEF Refines
<1>3. NodeAddresses(program)' = NodeAddresses(program)
  BY <1>2
<1>4. \A a : NodeAt(program, a)' = NodeAt(program, a)
  BY <1>2 DEF NodeAt, StatementAt
<1> QED BY <1>1, <1>3, <1>4 DEF VisitedUsesFollow

(* Within a statement the symbol table does not change.                    *)
LEMMA TableKept ==
  ASSUME TCTypeOK, LiteralInv, Refines, TableFollows, status = "checking",
         variable_map' = variable_map, at'[1] = at[1], at'[2] = at[2],
         ~AtEnd(program, at), at[2] > 0
  PROVE  TableFollows'
<1>1. at[1] \in 1 .. Len(program) /\ at[2] \in 1 .. Len(program[at[1]].statements)
  BY StatementShape
<1>2. ASSUME NEW n \in Names, variable_map[n] # NoType
      PROVE  DeclaredAs(at[1], at[2], n, variable_map[n])'
  <2>1. PICK f, s, type : f = at[1] /\ s = at[2] /\ type = variable_map[n]
    OBVIOUS
  <2>2. DeclaredAs(f, s, n, type)
    BY <1>2, <2>1 DEF TableFollows
  <2>3. type \notin LiteralTypes \cup {NoType}
    BY <1>2, <2>1 DEF LiteralInv
  <2>4. DeclaredAs(f, s, n, type)'
    BY <1>1, <2>1, <2>2, <2>3, DeclaredKept
  <2> QED BY <2>1, <2>4 DEF DeclaredAs
<1> QED BY <1>2 DEF TableFollows

(* The loop goes on to the next statement: the declaration just left is    *)
(* the latest of its name, and no other is disturbed by it.                *)
LEMMA TableAdvanced ==
  ASSUME TCTypeOK, LiteralInv, FreshInv, Refines, TableFollows, status = "checking",
         AtExit(program, at), at' = NextStatement(program, at),
         \/ /\ variable_map' = variable_map
            /\ CurrentStatement.kind # "Declare"
         \/ /\ CurrentStatement.kind = "Declare"
            /\ \E type :
                 /\ variable_map' = [variable_map EXCEPT ![CurrentStatement.name] = type]
                 /\ resolved_type' = [resolved_type EXCEPT
                       ![ValueNode] = Annotated(@, ValueType, type),
                       ![StatementNode] = type]
  PROVE  TableFollows'
<1> USE DEF Refines
<1>1. /\ at[1] \in 1 .. Len(program) /\ at[2] \in 1 .. Len(program[at[1]].statements)
      /\ ~AtEnd(program, at) /\ at[2] > 0 /\ IsStatement(CurrentStatement, Names)
  BY StatementShape DEF AtExit
<1>2. PICK f, s : f = at[1] /\ s = at[2]
  OBVIOUS
<1>3. \/ at'[1] = f /\ at'[2] = s + 1
      \/ at'[2] = 0
  BY <1>2 DEF NextStatement
<1>4. ASSUME NEW n \in Names, variable_map'[n] # NoType
      PROVE  DeclaredAs(f, s + 1, n, variable_map[n])'
  <2>1. f \in Nat /\ s \in Nat /\ s > 0
    BY <1>1, <1>2, AtParts
  <2>2. Declares(f, s, n) <=> CurrentStatement.kind = "Declare" /\ CurrentStatement.name = n
    BY <1>2 DEF Declares, CurrentStatement, StatementAt
  <2>3. CASE Declares(f, s, n)
    <3>1. PICK type :
            /\ variable_map' = [variable_map EXCEPT ![CurrentStatement.name] = type]
            /\ resolved_type' = [resolved_type EXCEPT
                  ![ValueNode] = Annotated(@, ValueType, type), ![StatementNode] = type]
      BY <2>2, <2>3
    <3>2. variable_map'[n] = type
      BY <2>2, <2>3, <3>1 DEF TCTypeOK
    <3>3. StatementNode = <<f, s, 0>> /\ StatementNode \in Addresses(program)
      BY <1>1, <1>2, StatementAddress DEF StatementNode
    <3>4. resolved_type'[<<f, s, 0>>] = type
      BY <3>1, <3>3 DEF TCTypeOK
    <3>5. LatestDeclaration(f, s + 1, n, s)'
      <4>1. Declares(f, s, n)'
        BY <2>3 DEF Declares
      <4> QED BY <2>1, <4>1 DEF LatestDeclaration
    <3> QED BY <2>1, <3>2, <3>4, <3>5 DEF DeclaredAs
  <2>4. CASE ~Declares(f, s, n)
    <3>1. variable_map'[n] = variable_map[n]
      BY <2>2, <2>4 DEF TCTypeOK
    <3>2. PICK type : type = variable_map[n]
      OBVIOUS
    <3>3. type \notin LiteralTypes \cup {NoType}
      BY <1>4, <3>1, <3>2 DEF LiteralInv
    <3>4. DeclaredAs(f, s, n, type)
      BY <1>1, <1>2, <1>4, <3>1, <3>2 DEF TableFollows
    <3>5. DeclaredAs(f, s, n, type)'
      BY <1>1, <1>2, <3>3, <3>4, DeclaredKept
    <3>6. PICK d \in 1 .. (s - 1) :
            LatestDeclaration(f, s, n, d)' /\ resolved_type'[<<f, d, 0>>] = type
      BY <3>5 DEF DeclaredAs
    <3>7. ~Declares(f, s, n)'
      BY <2>4 DEF Declares
    <3>8. LatestDeclaration(f, s + 1, n, d)'
      BY <2>1, <3>6, <3>7 DEF LatestDeclaration
    <3> QED BY <2>1, <3>1, <3>2, <3>6, <3>8 DEF DeclaredAs
  <2> QED BY <2>3, <2>4
<1>5. CASE at'[2] = 0
  BY <1>5 DEF TableFollows
<1>6. CASE at'[1] = f /\ at'[2] = s + 1
  <2>1. ASSUME NEW n \in Names, variable_map'[n] # NoType
        PROVE  DeclaredAs(at[1], at[2], n, variable_map[n])'
    BY <1>4, <1>6, <2>1 DEF DeclaredAs
  <2> QED BY <2>1 DEF TableFollows
<1> QED BY <1>3, <1>5, <1>6

----------------------------------------------------------------------------
(* The steps.                                                              *)

LEMMA UsesInit == TCInit => UsesInv
<1> SUFFICES ASSUME TCInit PROVE UsesInv
  OBVIOUS
<1>1. at[1] = 1 /\ at[2] = 0 /\ at[3] = 0 /\ program \in Programs /\ status = "checking"
  BY DEF TCInit, FirstAddress
<1>2. TableFollows
  BY <1>1 DEF TableFollows
<1>3. ASSUME NEW a \in NodeAddresses(program) PROVE Unvisited(a)
  <2>1. a[1] \in 1 .. Len(program) /\ Len(program) \in Nat
    BY <1>1, ProgramsAssumption, NodeAddressParts
  <2> QED BY <1>1, <2>1 DEF Unvisited
<1> QED BY <1>2, <1>3 DEF UsesInv, VisitedUsesFollow

LEMMA ThrowUses ==
  ASSUME NEW error \in Errors, Throw(error)
  PROVE  UsesInv'
BY DEF Throw, Errors, UsesInv, TableFollows, VisitedUsesFollow

(* Visiting a node that is no variable.                                    *)
LEMMA EmitOther ==
  ASSUME TCTypeOK, LiteralInv, Refines, UsesInv, status = "checking", AtNode(program, at),
         CurrentNode.kind # "Variable", Emit
  PROVE  UsesInv'
<1>1. /\ at'[1] = at[1] /\ at'[2] = at[2] /\ at'[3] = at[3] + 1
      /\ variable_map' = variable_map
  BY DEF Emit
<1>2. ~AtEnd(program, at) /\ at[2] > 0
  BY DEF AtNode
<1>3. ASSUME NEW a \in NodeAddresses(program),
             NodeAt(program, a).kind = "Variable", ~Unvisited(a)'
      PROVE  ~Unvisited(a)
  <2>1. a[1] \in Nat /\ a[2] \in Nat /\ a[3] \in Nat
    BY NodeAddressParts, ProgramsAssumption DEF TCTypeOK
  <2>2. ~(a[1] = at[1] /\ a[2] = at[2] /\ a[3] = at[3])
    BY <1>3 DEF CurrentNode, NodeAt, StatementAt
  <2> QED BY <1>1, <1>2, <1>3, <2>1, <2>2, AtParts DEF Unvisited
<1>4. TableFollows'
  BY <1>1, <1>2, TableKept DEF UsesInv
<1>5. VisitedUsesFollow'
  BY <1>3, NoUseVisited DEF UsesInv
<1> QED BY <1>4, <1>5 DEF UsesInv

(* Visiting a variable: it takes the type of its latest declaration.       *)
LEMMA VariableUses ==
  ASSUME TCTypeOK, LiteralInv, Refines, UsesInv, VisitVariable,
         ~Throw("UndeclaredVariable")
  PROVE  UsesInv'
<1>1. /\ AtNode(program, at) /\ status = "checking" /\ CurrentNode.kind = "Variable"
      /\ variable_map[CurrentNode.name] # NoType
      /\ resolved_type' = [resolved_type EXCEPT ![at] = variable_map[CurrentNode.name]]
      /\ Emit
  BY DEF VisitVariable
<1>2. /\ at'[1] = at[1] /\ at'[2] = at[2] /\ at'[3] = at[3] + 1
      /\ variable_map' = variable_map /\ program' = program
  BY <1>1 DEF Emit
<1>3. ~AtEnd(program, at) /\ at[2] > 0
  BY <1>1 DEF AtNode
<1>4. TableFollows'
  BY <1>1, <1>2, <1>3, TableKept DEF UsesInv
<1>5. ASSUME NEW a \in NodeAddresses(program),
             NodeAt(program, a).kind = "Variable", ~Unvisited(a)'
      PROVE  /\ resolved_type'[a] \notin LiteralTypes \cup {NoType}
             /\ DeclaredAs(a[1], a[2], NodeAt(program, a).name, resolved_type[a])'
  <2>1. /\ a[1] \in 1 .. Len(program) /\ a[2] \in 1 .. Len(program[a[1]].statements)
        /\ a[1] \in Nat /\ a[2] \in Nat /\ a[3] \in Nat
        /\ a = <<a[1], a[2], a[3]>> /\ a \in Addresses(program)
    BY NodeAddressParts, ProgramsAssumption DEF TCTypeOK
  <2>2. CASE ~Unvisited(a)
    BY <1>1, <1>5, <2>2, VisitedKept DEF UsesInv
  <2>3. CASE Unvisited(a)
    <3>1. a[1] = at[1] /\ a[2] = at[2] /\ a[3] = at[3]
      BY <1>2, <1>3, <1>5, <2>1, <2>3, AtParts DEF Unvisited
    <3>2. a = at
      BY <2>1, <3>1 DEF TCTypeOK, OnWalk
    <3>3. PICK name, type : name = CurrentNode.name /\ type = variable_map[name]
      OBVIOUS
    <3>4. name \in Names /\ name = NodeAt(program, a).name
      BY <1>1, <3>2, <3>3, NodeShape DEF CurrentNode
    <3>5. type \notin LiteralTypes \cup {NoType}
      BY <1>1, <3>3, <3>4 DEF LiteralInv
    <3>6. DeclaredAs(a[1], a[2], name, type)
      BY <1>1, <1>3, <3>1, <3>3, <3>4 DEF UsesInv, TableFollows
    <3>7. DeclaredAs(a[1], a[2], name, type)'
      BY <2>1, <3>5, <3>6, DeclaredKept
    <3>8. resolved_type'[a] = type
      BY <1>1, <2>1, <3>2, <3>3 DEF TCTypeOK
    <3>9. NodeAt(program, a).name' = name
      BY <1>2, <3>4 DEF NodeAt, StatementAt
    <3> QED BY <3>4, <3>5, <3>7, <3>8, <3>9 DEF DeclaredAs
  <2> QED BY <2>2, <2>3
<1>6. NodeAddresses(program)' = NodeAddresses(program)
  BY <1>2
<1>7. \A a : NodeAt(program, a)' = NodeAt(program, a)
  BY <1>2 DEF NodeAt, StatementAt
<1>8. VisitedUsesFollow'
  BY <1>5, <1>6, <1>7 DEF VisitedUsesFollow
<1> QED BY <1>4, <1>8 DEF UsesInv

(* An exit that does not throw.                                            *)
LEMMA FinishUses ==
  ASSUME TCTypeOK, LiteralInv, FreshInv, Refines, UsesInv, status = "checking",
         AtExit(program, at), NEW type, FinishStatement(type),
         \/ /\ variable_map' = variable_map
            /\ CurrentStatement.kind # "Declare"
         \/ /\ CurrentStatement.kind = "Declare"
            /\ variable_map' = [variable_map EXCEPT ![CurrentStatement.name] = type]
            /\ resolved_type' = [resolved_type EXCEPT
                  ![ValueNode] = Annotated(@, ValueType, type), ![StatementNode] = type]
  PROVE  UsesInv'
<1>1. CASE type \in LiteralTypes
  BY <1>1 DEF FinishStatement, UsesInv, TableFollows, VisitedUsesFollow
<1>2. CASE type \notin LiteralTypes
  <2>1. at' = NextStatement(program, at) /\ program' = program
    BY <1>2 DEF FinishStatement
  <2>2. TableFollows'
    BY <2>1, TableAdvanced DEF UsesInv
  <2>3. VisitedUsesFollow'
    BY <2>1, AdvanceVisited, NoUseVisited DEF UsesInv
  <2> QED BY <2>2, <2>3 DEF UsesInv
<1> QED BY <1>1, <1>2

LEMMA UsesNext ==
  ASSUME TCTypeOK, LiteralInv, FreshInv, UsesInv, [TCNext \/ TCDone]_tc_vars
  PROVE  UsesInv'
<1> Refines
  BY ProgramFixed, FreshNext DEF Refines
<1>1. CASE EnterFunction
  <2>1. /\ AtFunction(program, at) /\ status = "checking" /\ status' = status
        /\ at' = NextStatement(program, at) /\ program' = program
        /\ variable_map' = [n \in Names |-> NoType]
    BY <1>1 DEF EnterFunction
  <2>2. TableFollows'
    BY <2>1 DEF TableFollows
  <2>3. VisitedUsesFollow'
    BY <2>1, AdvanceVisited, NoUseVisited DEF UsesInv
  <2> QED BY <2>2, <2>3 DEF UsesInv
<1>2. CASE EnterStatement
  <2>1. CASE Throw("UndeclaredVariable")
    BY <2>1, ThrowUses DEF Errors
  <2>2. CASE ~Throw("UndeclaredVariable")
    <3>1. /\ at' = Operand(1) /\ AtEntry(program, at) /\ status = "checking"
          /\ UNCHANGED << program, resolved_type, variable_map, status >>
      BY <1>2, <2>2 DEF EnterStatement
    <3>2. /\ at'[1] = at[1] /\ at'[2] = at[2] /\ at'[3] = 1
          /\ at[2] > 0 /\ ~AtEnd(program, at)
      BY <3>1 DEF Operand, AtEntry
    <3>3. TableFollows'
      BY <3>1, <3>2, TableKept DEF UsesInv
    <3>4. ASSUME NEW a \in NodeAddresses(program), ~Unvisited(a)' PROVE ~Unvisited(a)
      <4>1. a[1] \in Nat /\ a[2] \in Nat /\ a[3] \in 1 .. Len(StatementAt(program, a).value)
            /\ Len(StatementAt(program, a).value) \in Nat
        BY NodeAddressParts, ProgramsAssumption DEF TCTypeOK
      <4> QED BY <3>2, <3>4, <4>1, AtParts DEF Unvisited
    <3>5. VisitedUsesFollow'
      BY <3>1, <3>4, NoUseVisited DEF UsesInv
    <3> QED BY <3>3, <3>5 DEF UsesInv
  <2> QED BY <2>1, <2>2
<1>3. CASE VisitLiteral
  BY <1>3, EmitOther DEF VisitLiteral, LiteralTypes
<1>4. CASE VisitVariable
  BY <1>4, VariableUses, ThrowUses DEF Errors
<1>5. CASE VisitFunctionCall
  BY <1>5, EmitOther DEF VisitFunctionCall
<1>6. CASE VisitBinary
  <2>1. CASE Throw("CannotCoerce") \/ Throw("OperandMismatch")
    BY <2>1, ThrowUses DEF Errors
  <2>2. CASE ~(Throw("CannotCoerce") \/ Throw("OperandMismatch"))
    BY <1>6, <2>2, EmitOther DEF VisitBinary
  <2> QED BY <2>1, <2>2
<1>7. CASE Declaring
  <2>1. CASE Throw("CannotCoerce") \/ Throw("DeclarationMismatch")
    BY <2>1, ThrowUses DEF Errors
  <2>2. CASE ~(Throw("CannotCoerce") \/ Throw("DeclarationMismatch"))
    BY <1>7, <2>2, FinishUses DEF Declaring
  <2> QED BY <2>1, <2>2
<1>8. CASE Assigning
  <2>1. CASE Throw("CannotCoerce") \/ Throw("AssignmentMismatch")
    BY <2>1, ThrowUses DEF Errors
  <2>2. CASE ~(Throw("CannotCoerce") \/ Throw("AssignmentMismatch"))
    BY <1>8, <2>2, FinishUses DEF Assigning
  <2> QED BY <2>1, <2>2
<1>9. CASE Showing
  BY <1>9, FinishUses DEF Showing
<1>10. CASE Returning
  <2>1. CASE Throw("CannotCoerce")
    BY <2>1, ThrowUses DEF Errors
  <2>2. CASE ~Throw("CannotCoerce")
    BY <1>10, <2>2, FinishUses DEF Returning
  <2> QED BY <2>1, <2>2
<1>11. CASE FinishCheck
  <2>1. /\ status = "checking" /\ status' = "checked" /\ at' = at /\ program' = program
        /\ resolved_type' = resolved_type
    BY <1>11 DEF FinishCheck
  <2>2. VisitedUsesFollow'
    BY <2>1, NoUseVisited DEF UsesInv, Unvisited
  <2> QED BY <2>1, <2>2 DEF UsesInv, TableFollows
<1>12. CASE UNCHANGED tc_vars
  BY <1>12 DEF tc_vars, UsesInv, TableFollows, VisitedUsesFollow, DeclaredAs,
       LatestDeclaration, Declares, Unvisited
<1> QED
  BY <1>1, <1>2, <1>3, <1>4, <1>5, <1>6, <1>7, <1>8, <1>9, <1>10, <1>11, <1>12
  DEF TCNext, VisitNode, ExitStatement, TCDone

(* When the checker has accepted a tree, every node was visited.           *)
LEMMA UsesAtTheEnd == TCTypeOK /\ LiteralInv /\ UsesInv => UsesFollowDeclarations
<1> SUFFICES ASSUME TCTypeOK, LiteralInv, UsesInv, status = "checked",
                    NEW a \in NodeAddresses(program), NodeAt(program, a).kind = "Variable"
             PROVE  \E d \in 1 .. (a[2] - 1) :
                      /\ LatestDeclaration(a[1], a[2], NodeAt(program, a).name, d)
                      /\ resolved_type[a] = resolved_type[<<a[1], d, 0>>]
  BY DEF UsesFollowDeclarations
<1>1. at[1] > Len(program)
  BY DEF LiteralInv, AtEnd
<1>2. a[1] \in 1 .. Len(program) /\ Len(program) \in Nat
  BY NodeAddressParts, ProgramsAssumption DEF TCTypeOK
<1>3. ~Unvisited(a)
  BY <1>1, <1>2, AtParts DEF Unvisited
<1> QED BY <1>3 DEF UsesInv, VisitedUsesFollow, DeclaredAs

(* In every tree the checker accepts, a use of a variable follows a        *)
(* declaration in its function and has the type of the latest one.         *)
THEOREM UsesFollow == TCSpec => []UsesFollowDeclarations
<1>1. TCTypeOK /\ LiteralInv /\ FreshInv /\ UsesInv /\ [TCNext \/ TCDone]_tc_vars =>
        FreshInv' /\ UsesInv'
  BY FreshNext, UsesNext
<1> QED
  BY <1>1, TypeInit, TypeNext, LiteralInit, LiteralNext, FreshInit, UsesInit, UsesAtTheEnd, PTL
  DEF TCSpec

----------------------------------------------------------------------------
(* The rules speak of functions defined by recursion over a tree and over  *)
(* the statements of a function.  First, these exist: each satisfies the   *)
(* equation it is defined by.                                              *)
NodeTypeFrom(e, env, types, i) ==
  CASE e[i].kind = "IntLiteral"   -> IntTypes
    [] e[i].kind = "FloatLiteral" -> FloatTypes
    [] e[i].kind = "Variable"     -> {env[e[i].name]} \ {NoType}
    [] e[i].kind = "FunctionCall" -> {"Int32"}
    [] OTHER -> OperatorTypes(e[i].op, types[e[i].lhs] \cap types[e[i].rhs])

LEMMA NodeTypesDefined ==
  ASSUME NEW e, NEW names, IsExpression(e, names), NEW env
  PROVE  NodeTypes(e, env) =
           [i \in 1 .. Len(e) |-> NodeTypeFrom(e, env, NodeTypes(e, env), i)]
<1> DEFINE Defines(types, n) == types = [i \in 1 .. n |-> NodeTypeFrom(e, env, types, i)]
<1>1. /\ Len(e) \in Nat
      /\ \A i \in 1 .. Len(e) :
           e[i].kind = "Binary" => e[i].lhs \in 1 .. i - 1 /\ e[i].rhs \in 1 .. i - 1
  BY DEF IsExpression
<1>2. ASSUME NEW types, NEW new, NEW i \in 1 .. Len(e),
             \A j \in 1 .. i - 1 : types[j] = new[j]
      PROVE  NodeTypeFrom(e, env, types, i) = NodeTypeFrom(e, env, new, i)
  <2>1. CASE e[i].kind = "Binary"
    <3>1. types[e[i].lhs] = new[e[i].lhs] /\ types[e[i].rhs] = new[e[i].rhs]
      BY <1>1, <1>2, <2>1
    <3> QED BY <3>1 DEF NodeTypeFrom
  <2>2. CASE e[i].kind # "Binary"
    <3>1. e[i].kind \in NodeKinds
      BY DEF IsExpression
    <3> QED BY <2>2, <3>1 DEF NodeTypeFrom, NodeKinds
  <2> QED BY <2>1, <2>2
<1> DEFINE T == { n \in 0 .. Len(e) : \E types : Defines(types, n) }
<1>3. 0 \in T
  <2>1. Defines([i \in 1 .. 0 |-> {}], 0)
    OBVIOUS
  <2>2. \E types : Defines(types, 0)
    <3> HIDE DEF Defines
    <3> QED BY <2>1
  <2> HIDE DEF Defines
  <2> QED BY <1>1, <2>2
<1>4. ASSUME NEW n \in 0 .. Len(e) - 1, n \in T
      PROVE  n + 1 \in T
  <2>1. PICK types : Defines(types, n)
    BY <1>4
  <2> DEFINE new == [i \in 1 .. n + 1 |->
                      IF i <= n THEN types[i] ELSE NodeTypeFrom(e, env, types, n + 1)]
  <2>2. n \in Nat /\ n + 1 \in 0 .. Len(e)
    BY <1>1
  <2>3. \A j \in 1 .. n : types[j] = new[j]
    BY <2>2
  <2>4. \A i \in 1 .. n + 1 : new[i] = NodeTypeFrom(e, env, types, i)
    BY <2>1, <2>2
  <2>5. ASSUME NEW i \in 1 .. n + 1
        PROVE  NodeTypeFrom(e, env, types, i) = NodeTypeFrom(e, env, new, i)
    <3>1. i \in 1 .. Len(e) /\ \A j \in 1 .. i - 1 : j \in 1 .. n
      BY <2>2
    <3>2. \A j \in 1 .. i - 1 : types[j] = new[j]
      BY <2>3, <3>1
    <3> HIDE DEF new
    <3> QED BY <1>2, <3>1, <3>2
  <2>6. \A i \in 1 .. n + 1 : new[i] = NodeTypeFrom(e, env, new, i)
    BY <2>4, <2>5
  <2>7. new = [i \in 1 .. n + 1 |-> new[i]]
    OBVIOUS
  <2> HIDE DEF new
  <2>8. Defines(new, n + 1)
    BY <2>6, <2>7
  <2> HIDE DEF Defines
  <2> QED BY <2>2, <2>8
<1>5. Len(e) \in T
  <2>0. \A k \in 0 .. Len(e) - 1 : k \in T => k + 1 \in T
    BY <1>4
  <2> HIDE DEF T
  <2>1. 0 .. Len(e) \subseteq T
    BY <1>1, <1>3, <2>0, Counting
  <2> QED BY <1>1, <2>1
<1>6. \E types : Defines(types, Len(e))
  BY <1>5
<1>7. NodeTypes(e, env) = CHOOSE types : Defines(types, Len(e))
  BY Zenon DEF NodeTypes, NodeTypeFrom
<1>8. Defines(NodeTypes(e, env), Len(e))
  <2> HIDE DEF Defines
  <2> QED BY <1>6, <1>7, Zenon
<1> QED BY <1>8

EnvironmentFrom(prog, f, envs, s) ==
  LET stmts == prog[f].statements
  IN  IF s = 1 THEN [name \in Names |-> NoType]
      ELSE IF stmts[s - 1].kind # "Declare" THEN envs[s - 1]
      ELSE [envs[s - 1] EXCEPT ![stmts[s - 1].name] =
              StatementType(stmts[s - 1], envs[s - 1])]

LEMMA EnvironmentsDefined ==
  ASSUME NEW prog, NEW f, Len(prog[f].statements) \in Nat
  PROVE  Environments(prog, f) =
           [s \in 1 .. Len(prog[f].statements) |->
              EnvironmentFrom(prog, f, Environments(prog, f), s)]
<1> DEFINE last == Len(prog[f].statements)
           Defines(envs, n) == envs = [s \in 1 .. n |-> EnvironmentFrom(prog, f, envs, s)]
           T == { n \in 0 .. last : \E envs : Defines(envs, n) }
<1>1. ASSUME NEW envs, NEW new, NEW s \in 1 .. last,
             \A j \in 1 .. s - 1 : envs[j] = new[j]
      PROVE  EnvironmentFrom(prog, f, envs, s) = EnvironmentFrom(prog, f, new, s)
  <2>1. CASE s = 1
    BY <2>1 DEF EnvironmentFrom
  <2>2. CASE s # 1
    <3>1. envs[s - 1] = new[s - 1]
      BY <1>1, <2>2
    <3> QED BY <3>1 DEF EnvironmentFrom
  <2> QED BY <2>1, <2>2
<1>2. 0 \in T
  <2>1. Defines([s \in 1 .. 0 |-> {}], 0)
    OBVIOUS
  <2>2. \E envs : Defines(envs, 0)
    <3> HIDE DEF Defines
    <3> QED BY <2>1
  <2> HIDE DEF Defines
  <2> QED BY <2>2
<1>3. ASSUME NEW n \in 0 .. last - 1, n \in T
      PROVE  n + 1 \in T
  <2>1. PICK envs : Defines(envs, n)
    BY <1>3
  <2> DEFINE new == [s \in 1 .. n + 1 |->
                      IF s <= n THEN envs[s] ELSE EnvironmentFrom(prog, f, envs, n + 1)]
  <2>2. n \in Nat /\ n + 1 \in 0 .. last
    OBVIOUS
  <2>3. \A j \in 1 .. n : envs[j] = new[j]
    BY <2>2
  <2>4. \A s \in 1 .. n + 1 : new[s] = EnvironmentFrom(prog, f, envs, s)
    BY <2>1, <2>2
  <2>5. ASSUME NEW s \in 1 .. n + 1
        PROVE  EnvironmentFrom(prog, f, envs, s) = EnvironmentFrom(prog, f, new, s)
    <3>1. s \in 1 .. last /\ \A j \in 1 .. s - 1 : j \in 1 .. n
      BY <2>2
    <3>2. \A j \in 1 .. s - 1 : envs[j] = new[j]
      BY <2>3, <3>1
    <3> HIDE DEF new
    <3> QED BY <1>1, <3>1, <3>2
  <2>6. \A s \in 1 .. n + 1 : new[s] = EnvironmentFrom(prog, f, new, s)
    BY <2>4, <2>5
  <2>7. new = [s \in 1 .. n + 1 |-> new[s]]
    OBVIOUS
  <2> HIDE DEF new
  <2>8. Defines(new, n + 1)
    BY <2>6, <2>7
  <2> HIDE DEF Defines
  <2> QED BY <2>2, <2>8
<1>4. last \in T
  <2>1. \A k \in 0 .. last - 1 : k \in T => k + 1 \in T
    BY <1>3
  <2> HIDE DEF T
  <2>2. 0 .. last \subseteq T
    BY <1>2, <2>1, Counting
  <2> QED BY <2>2
<1>5. \E envs : Defines(envs, last)
  BY <1>4
<1>6. Environments(prog, f) = CHOOSE envs : Defines(envs, last)
  BY Zenon DEF Environments, EnvironmentFrom
<1>7. Defines(Environments(prog, f), last)
  <2> HIDE DEF Defines
  <2> QED BY <1>5, <1>6, Zenon
<1> QED BY <1>7

(* What the two recursions come to, one step at a time.                    *)
LEMMA EnvironmentSteps ==
  ASSUME NEW f, Len(program[f].statements) \in Nat, NEW s \in 1 .. Len(program[f].statements)
  PROVE  /\ s = 1 => EnvironmentAt(f, s) = [name \in Names |-> NoType]
         /\ s > 1 => LET stmt == program[f].statements[s - 1]
                         env  == EnvironmentAt(f, s - 1)
                     IN  EnvironmentAt(f, s) =
                           IF stmt.kind # "Declare" THEN env
                           ELSE [env EXCEPT ![stmt.name] = StatementType(stmt, env)]
<1>1. EnvironmentAt(f, s) = EnvironmentFrom(program, f, Environments(program, f), s)
  BY EnvironmentsDefined DEF EnvironmentAt
<1> QED BY <1>1 DEF EnvironmentFrom, EnvironmentAt

TypesStep(e, env, types, i) ==
  /\ e[i].kind = "IntLiteral" => types[i] = IntTypes
  /\ e[i].kind = "FloatLiteral" => types[i] = FloatTypes
  /\ e[i].kind = "Variable" => types[i] = {env[e[i].name]} \ {NoType}
  /\ e[i].kind = "FunctionCall" => types[i] = {"Int32"}
  /\ e[i].kind = "Binary" =>
       types[i] = OperatorTypes(e[i].op, types[e[i].lhs] \cap types[e[i].rhs])

LEMMA NodeTypesSteps ==
  ASSUME NEW e, NEW names, IsExpression(e, names), NEW env
  PROVE  \A i \in 1 .. Len(e) : TypesStep(e, env, NodeTypes(e, env), i)
<1> TAKE i \in 1 .. Len(e)
<1>1. NodeTypes(e, env)[i] = NodeTypeFrom(e, env, NodeTypes(e, env), i)
  BY NodeTypesDefined
<1> QED BY <1>1 DEF NodeTypeFrom, TypesStep

----------------------------------------------------------------------------
(* What the rules give an expression.                                      *)

(* What passes from every operand to its node passes to the root.          *)
LEMMA ReachesRoot ==
  ASSUME NEW e, NEW names, IsExpression(e, names), NEW S, S \subseteq 1 .. Len(e), S # {},
         \A i \in S : \A j \in 1 .. Len(e) : IsOperand(e, i, j) => j \in S
  PROVE  Len(e) \in S
<1>1. /\ Len(e) \in Nat
      /\ \A i \in 1 .. Len(e) : i < Len(e) => \E j \in (i + 1) .. Len(e) : IsOperand(e, i, j)
  BY DEF IsExpression
<1>2. S \subseteq 0 .. Len(e)
  BY <1>1
<1>3. PICK i \in S : \A j \in S : j <= i
  BY <1>1, <1>2, Largest
<1>4. i \in 1 .. Len(e)
  OBVIOUS
<1>5. ASSUME i < Len(e) PROVE FALSE
  <2>1. PICK j \in (i + 1) .. Len(e) : IsOperand(e, i, j)
    BY <1>1, <1>4, <1>5
  <2>2. j \in 1 .. Len(e) /\ ~(j <= i)
    BY <1>1, <1>4
  <2> QED BY <1>3, <2>1, <2>2
<1> QED BY <1>1, <1>4, <1>5

(* The operands of a node come before it.                                  *)
LEMMA OperandsBefore ==
  ASSUME NEW e, NEW names, IsExpression(e, names), NEW i \in 1 .. Len(e), e[i].kind = "Binary"
  PROVE  /\ e[i].lhs \in 1 .. i - 1 /\ e[i].rhs \in 1 .. i - 1
         /\ e[i].lhs \in 1 .. Len(e) /\ e[i].rhs \in 1 .. Len(e)
<1>1. /\ Len(e) \in Nat
      /\ e[i].lhs \in 1 .. i - 2 /\ e[i].rhs = i - 1
  BY DEF IsExpression
<1> QED BY <1>1

LEMMA NodeKind ==
  ASSUME NEW e, NEW names, IsExpression(e, names), NEW i \in 1 .. Len(e)
  PROVE  e[i].kind \in {"IntLiteral", "FloatLiteral", "Variable", "FunctionCall", "Binary"}
BY DEF IsExpression, NodeKinds

LEMMA OperatorTypesIn ==
  ASSUME NEW op, NEW common
  PROVE  OperatorTypes(op, common) \subseteq common \cup {"Bool"}
BY DEF OperatorTypes

(* An absent type is no type.                                              *)
LEMMA NoTypeImpossible ==
  ASSUME NEW e, NEW names, IsExpression(e, names), NEW env
  PROVE  \A i \in 1 .. Len(e) : NoType \notin NodeTypes(e, env)[i]
<1> DEFINE types == NodeTypes(e, env)
<1>0. \A n \in 1 .. Len(e) : TypesStep(e, env, types, n)
  BY NodeTypesSteps
<1> HIDE DEF types
<1> DEFINE T == { i \in 1 .. Len(e) : NoType \notin types[i] }
<1>1. ASSUME NEW i \in 1 .. Len(e), \A j \in 1 .. i - 1 : j \in T
      PROVE  i \in T
  <2>0. TypesStep(e, env, types, i)
    BY <1>0
  <2>1. CASE e[i].kind = "Binary"
    <3>1. NoType \notin types[e[i].lhs]
      BY <1>1, <2>1, OperandsBefore
    <3>2. NoType # "Bool"
      BY DEF NoType
    <3>3. NoType \notin types[i]
      BY <2>0, <2>1, <3>1, <3>2, OperatorTypesIn DEF TypesStep
    <3> QED BY <3>3
  <2>2. CASE e[i].kind \in {"IntLiteral", "FloatLiteral", "FunctionCall"}
    BY <2>0, <2>2 DEF TypesStep, NoType, IntTypes, SignedTypes, UnsignedTypes, FloatTypes
  <2>3. CASE e[i].kind = "Variable"
    BY <2>0, <2>3 DEF TypesStep
  <2> QED BY <2>1, <2>2, <2>3, NodeKind
<1>2. Len(e) \in Nat
  BY DEF IsExpression
<1>3. 1 .. Len(e) \subseteq T
  <2> HIDE DEF T
  <2> QED BY <1>1, <1>2, Induction
<1> QED BY <1>3 DEF types

(* A node without a type leaves the whole without one.                     *)
LEMMA NothingPossible ==
  ASSUME NEW e, NEW names, IsExpression(e, names), NEW env,
         NEW i \in 1 .. Len(e), NodeTypes(e, env)[i] = {}
  PROVE  PossibleTypes(e, env) = {}
<1> DEFINE types == NodeTypes(e, env)
<1>0. \A n \in 1 .. Len(e) : TypesStep(e, env, types, n)
  BY NodeTypesSteps
<1> HIDE DEF types
<1> DEFINE S == { j \in 1 .. Len(e) : types[j] = {} }
<1>1. ASSUME NEW j \in S, NEW k \in 1 .. Len(e), IsOperand(e, j, k)
      PROVE  k \in S
  <2>1. e[k].kind = "Binary" /\ j \in {e[k].lhs, e[k].rhs}
    BY <1>1 DEF IsOperand
  <2>2. types[e[k].lhs] \cap types[e[k].rhs] = {}
    BY <2>1
  <2>3. types[k] = {}
    BY <2>1, <2>2, <1>0 DEF OperatorTypes, TypesStep
  <2> QED BY <2>3
<1>2. i \in S
  BY DEF types
<1>3. Len(e) \in S
  <2>1. S \subseteq 1 .. Len(e) /\ S # {}
    BY <1>2
  <2> HIDE DEF S
  <2> QED BY <1>1, <2>1, ReachesRoot
<1> QED BY <1>3 DEF PossibleTypes, types

(* Only literals have more than one type.                                  *)
LEMMA OneType ==
  ASSUME NEW e, NEW names, IsExpression(e, names), NEW env,
         NEW v \in 1 .. Len(e), e[v].kind \in {"Variable", "FunctionCall"},
         NEW x \in PossibleTypes(e, env), NEW y \in PossibleTypes(e, env)
  PROVE  x = y
<1> DEFINE types == NodeTypes(e, env)
<1>0. \A n \in 1 .. Len(e) : TypesStep(e, env, types, n)
  BY NodeTypesSteps
<1> HIDE DEF types
<1> DEFINE S == { i \in 1 .. Len(e) :
                    \A a, b \in types[i] : a = b }
<1>1. ASSUME NEW i \in S, NEW k \in 1 .. Len(e), IsOperand(e, i, k)
      PROVE  k \in S
  <2>1. e[k].kind = "Binary" /\ i \in {e[k].lhs, e[k].rhs}
    BY <1>1 DEF IsOperand
  <2>2. PICK common : common = types[e[k].lhs] \cap types[e[k].rhs]
    OBVIOUS
  <2>3. \A a, b \in common : a = b
    BY <2>1, <2>2
  <2>4. types[k] \in {common, {"Bool"}}
    BY <2>1, <2>2, <1>0 DEF OperatorTypes, TypesStep
  <2> QED BY <2>3, <2>4
<1>2. v \in S
  BY <1>0 DEF TypesStep
<1>3. Len(e) \in S
  <2>1. S \subseteq 1 .. Len(e) /\ S # {}
    BY <1>2
  <2> HIDE DEF S
  <2> QED BY <1>1, <2>1, ReachesRoot
<1> QED BY <1>3 DEF PossibleTypes, types

(* A node of two types has a literal under it that has them.               *)
HasLiteralOf(e, x, y) ==
  \E j \in 1 .. Len(e) :
    \/ e[j].kind = "IntLiteral" /\ {x, y} \subseteq IntTypes
    \/ e[j].kind = "FloatLiteral" /\ {x, y} \subseteq FloatTypes

LEMMA TwoTypes ==
  ASSUME NEW e, NEW names, IsExpression(e, names), NEW env, NEW x, NEW y, x # y,
         NEW i \in 1 .. Len(e), {x, y} \subseteq NodeTypes(e, env)[i]
  PROVE  HasLiteralOf(e, x, y)
<1> DEFINE types == NodeTypes(e, env)
<1>0. \A n \in 1 .. Len(e) : TypesStep(e, env, types, n)
  BY NodeTypesSteps
<1> HIDE DEF types
<1> DEFINE T == { k \in 1 .. Len(e) : {x, y} \subseteq types[k] => HasLiteralOf(e, x, y) }
<1>1. ASSUME NEW k \in 1 .. Len(e), \A j \in 1 .. k - 1 : j \in T
      PROVE  k \in T
  <2> SUFFICES ASSUME {x, y} \subseteq types[k] PROVE HasLiteralOf(e, x, y)
    OBVIOUS
  <2>0. TypesStep(e, env, types, k)
    BY <1>0
  <2>1. CASE e[k].kind = "Binary"
    <3>1. {x, y} \subseteq types[e[k].lhs]
      BY <2>0, <2>1 DEF OperatorTypes, TypesStep
    <3>2. e[k].lhs \in T
      BY <1>1, <2>1, OperandsBefore
    <3> QED BY <3>1, <3>2
  <2>2. CASE e[k].kind \in {"IntLiteral", "FloatLiteral"}
    BY <2>0, <2>2 DEF HasLiteralOf, TypesStep
  <2>3. CASE e[k].kind \in {"Variable", "FunctionCall"}
    BY <2>0, <2>3 DEF TypesStep
  <2> QED BY <2>1, <2>2, <2>3, NodeKind
<1>2. Len(e) \in Nat
  BY DEF IsExpression
<1>3. 1 .. Len(e) \subseteq T
  <2> HIDE DEF T
  <2> QED BY <1>1, <1>2, Induction
<1> QED BY <1>3 DEF types

----------------------------------------------------------------------------
(* What the checker makes of types that stand for those of the rules.      *)

LEMMA TypesForShape ==
  /\ TypesFor("IntLiteral") = IntTypes /\ TypesFor("FloatLiteral") = FloatTypes
  /\ \A type : type \notin LiteralTypes => TypesFor(type) = {type}
  /\ \A type : TypesFor(type) # {}
<1>1. \A type : type \notin LiteralTypes => TypesFor(type) = {type}
  BY DEF TypesFor, LiteralTypes
<1>2. TypesFor("IntLiteral") = IntTypes /\ TypesFor("FloatLiteral") = FloatTypes
  BY DEF TypesFor
<1>3. IntTypes # {} /\ FloatTypes # {}
  BY DEF IntTypes, SignedTypes, FloatTypes
<1>4. ASSUME NEW type PROVE TypesFor(type) # {}
  BY <1>1, <1>2, <1>3 DEF LiteralTypes
<1> QED BY <1>1, <1>2, <1>4

LEMMA FitsTypes ==
  ASSUME NEW type \in TypeIds, NEW literal \in LiteralTypes
  PROVE  LiteralFits(type, literal) <=> type \in TypesFor(literal)
BY DEF LiteralFits, TypesFor, LiteralTypes, TypeIds, NoType, BuiltinTypes, IntTypes,
       SignedTypes, UnsignedTypes, FloatTypes, Indeterminate

(* An operator: the operands fit and match exactly where they have a type  *)
(* in common, and the result stands for what they have in common.          *)
LEMMA OperatorFollows ==
  ASSUME NEW op, NEW lhs \in TypeIds, NEW rhs \in TypeIds, ~(LiteralTypes \subseteq {lhs, rhs})
  PROVE  LET common == TypesFor(lhs) \cap TypesFor(rhs)
         IN  IF OperandsFit(lhs, rhs) /\ OperandsMatch(lhs, rhs)
             THEN OperatorTypes(op, common) = TypesFor(BinaryType(op, lhs, rhs))
             ELSE OperatorTypes(op, common) = {}
<1> DEFINE common == TypesFor(lhs) \cap TypesFor(rhs)
<1>1. "Bool" \notin LiteralTypes /\ TypesFor("Bool") = {"Bool"}
  BY DEF TypesFor, LiteralTypes
<1>2. ASSUME NEW type, common = TypesFor(type), common # {}, BinaryType("Plus", lhs, rhs) = type
      PROVE  OperatorTypes(op, common) = TypesFor(BinaryType(op, lhs, rhs))
  BY <1>1, <1>2 DEF OperatorTypes, BinaryType
<1>3. common = {} => OperatorTypes(op, common) = {}
  BY DEF OperatorTypes
<1>4. CASE lhs \notin LiteralTypes /\ rhs \notin LiteralTypes
  <2>1. common = {lhs} \cap {rhs} /\ OperandsFit(lhs, rhs)
    BY <1>4, TypesForShape DEF OperandsFit
  <2>2. OperandsMatch(lhs, rhs) <=> lhs = rhs
    BY <1>4 DEF OperandsMatch
  <2>3. BinaryType("Plus", lhs, rhs) = rhs
    BY <1>4 DEF BinaryType, OperandType
  <2>4. TypesFor(rhs) = {rhs}
    BY <1>4, TypesForShape
  <2>5. CASE lhs = rhs
    BY <1>2, <2>1, <2>2, <2>3, <2>4, <2>5
  <2>6. CASE lhs # rhs
    BY <1>3, <2>1, <2>2, <2>6
  <2> QED BY <2>5, <2>6
<1>5. CASE lhs \in LiteralTypes /\ rhs \notin LiteralTypes
  <2>1. OperandsFit(lhs, rhs) <=> rhs \in TypesFor(lhs)
    BY <1>5, FitsTypes DEF OperandsFit
  <2>2. OperandsMatch(lhs, rhs)
    BY <1>5 DEF OperandsMatch
  <2>3. BinaryType("Plus", lhs, rhs) = rhs
    BY <1>5 DEF BinaryType
  <2>4. TypesFor(rhs) = {rhs}
    BY <1>5, TypesForShape
  <2>5. CASE rhs \in TypesFor(lhs)
    BY <1>2, <2>1, <2>2, <2>3, <2>4, <2>5
  <2>6. CASE rhs \notin TypesFor(lhs)
    BY <1>3, <2>1, <2>4, <2>6
  <2> QED BY <2>5, <2>6
<1>6. CASE lhs \notin LiteralTypes /\ rhs \in LiteralTypes
  <2>1. OperandsFit(lhs, rhs) <=> lhs \in TypesFor(rhs)
    BY <1>6, FitsTypes DEF OperandsFit
  <2>2. OperandsMatch(lhs, rhs)
    BY <1>6 DEF OperandsMatch
  <2>3. BinaryType("Plus", lhs, rhs) = lhs
    BY <1>6 DEF BinaryType, OperandType
  <2>4. TypesFor(lhs) = {lhs}
    BY <1>6, TypesForShape
  <2>5. CASE lhs \in TypesFor(rhs)
    BY <1>2, <2>1, <2>2, <2>3, <2>4, <2>5
  <2>6. CASE lhs \notin TypesFor(rhs)
    BY <1>3, <2>1, <2>4, <2>6
  <2> QED BY <2>5, <2>6
<1>7. CASE lhs \in LiteralTypes /\ rhs \in LiteralTypes
  <2>1. lhs = rhs
    BY <1>7 DEF LiteralTypes
  <2>2. OperandsFit(lhs, rhs) /\ OperandsMatch(lhs, rhs)
    BY <1>7 DEF OperandsFit, OperandsMatch
  <2>3. BinaryType("Plus", lhs, rhs) = rhs
    BY <1>7 DEF BinaryType
  <2>4. common = TypesFor(rhs) /\ common # {}
    BY <2>1, TypesForShape
  <2> QED BY <1>2, <2>2, <2>3, <2>4
<1> QED BY <1>4, <1>5, <1>6, <1>7

LEMMA DefaultFollows ==
  ASSUME NEW type \in TypeIds
  PROVE  DefaultType(TypesFor(type)) = Settled(NoType, type)
<1>1. IntTypes # FloatTypes
  BY DEF IntTypes, SignedTypes, UnsignedTypes, FloatTypes
<1>2. CASE type \in LiteralTypes
  <2>1. type = "IntLiteral" => DefaultType(TypesFor(type)) = "Int32"
    BY <1>1, TypesForShape DEF DefaultType
  <2>2. type = "FloatLiteral" => DefaultType(TypesFor(type)) = "Float64"
    BY <1>1, TypesForShape DEF DefaultType
  <2> QED BY <1>2, <2>1, <2>2 DEF LiteralTypes, Settled, ResolveLiteral, LiteralDefault
<1>3. CASE type \notin LiteralTypes
  <2>1. TypesFor(type) = {type}
    BY <1>3, TypesForShape
  <2>2. {type} # IntTypes /\ {type} # FloatTypes
    BY DEF IntTypes, SignedTypes, UnsignedTypes, FloatTypes
  <2>3. DefaultType({type}) = CHOOSE one \in {type} : TRUE
    BY <2>2, Zenon DEF DefaultType
  <2>4. (CHOOSE one \in {type} : TRUE) = type
    BY Zenon
  <2> QED BY <1>3, <2>1, <2>3, <2>4 DEF Settled
<1> QED BY <1>2, <1>3

(* What a statement asks of the type of its value, where it wants one: the *)
(* checker settles on a type the rules allow, or throws where they do not. *)
LEMMA SettlesFollows ==
  ASSUME NEW expected \in TypeIds, NEW type \in TypeIds
  PROVE  /\ Settles(expected, type) /\ Settled(expected, type) = expected
              <=> expected \in TypesFor(type)
         /\ type \in LiteralTypes => Settled(expected, type) = expected
         /\ NoType \notin TypesFor(type)
<1>1. expected # NoType /\ type # NoType
  BY DEF NoType, TypeIds, BuiltinTypes, IntTypes, SignedTypes, UnsignedTypes, FloatTypes,
         LiteralTypes, Indeterminate
<1>2. CASE type \in LiteralTypes
  <2>1. Settled(expected, type) = expected
    BY <1>1, <1>2 DEF Settled, ResolveLiteral
  <2>2. Settles(expected, type) <=> expected \in TypesFor(type)
    BY <1>2, FitsTypes DEF Settles
  <2>3. NoType \notin TypesFor(type)
    BY <1>2 DEF TypesFor, LiteralTypes, NoType, IntTypes, SignedTypes, UnsignedTypes, FloatTypes
  <2> QED BY <2>1, <2>2, <2>3
<1>3. CASE type \notin LiteralTypes
  <2>1. Settled(expected, type) = type /\ Settles(expected, type)
    BY <1>3 DEF Settled, Settles
  <2>2. TypesFor(type) = {type}
    BY <1>3, TypesForShape
  <2> QED BY <1>1, <1>3, <2>1, <2>2
<1> QED BY <1>2, <1>3

LEMMA AnnotationShape ==
  ASSUME NEW stmt, IsStatement(stmt, Names), stmt.kind = "Declare"
  PROVE  stmt.annotation \in TypeIds \cup {NoType} /\ stmt.annotation \notin LiteralTypes
BY DEF IsStatement, TypeIds, BuiltinTypes, IntTypes, SignedTypes, UnsignedTypes, FloatTypes,
       LiteralTypes, NoType

LEMMA DeclareFollows ==
  ASSUME NEW stmt, IsStatement(stmt, Names), stmt.kind = "Declare", NEW env, NEW type \in TypeIds,
         PossibleTypes(stmt.value, env) = TypesFor(type)
  PROVE  LET expected == stmt.annotation
         IN  /\ Settles(expected, type) /\ expected \in {NoType, Settled(expected, type)}
                  <=> Obeys(stmt, env)
             /\ Obeys(stmt, env) => StatementType(stmt, env) = Settled(expected, type)
<1>1. stmt.annotation \in TypeIds \cup {NoType}
  BY AnnotationShape
<1>2. Obeys(stmt, env) <=> stmt.annotation \in TypesFor(type) \cup {NoType}
  BY TypesForShape DEF Obeys
<1>3. CASE stmt.annotation = NoType
  <2>1. Settles(NoType, type)
    BY DEF Settles, LiteralFits
  <2>2. StatementType(stmt, env) = Settled(NoType, type)
    BY <1>3, DefaultFollows DEF StatementType
  <2> QED BY <1>2, <1>3, <2>1, <2>2
<1>4. CASE stmt.annotation # NoType
  <2>1. stmt.annotation \in TypeIds
    BY <1>1, <1>4
  <2>2. StatementType(stmt, env) = stmt.annotation
    BY <1>4 DEF StatementType
  <2> QED BY <1>2, <1>4, <2>1, <2>2, SettlesFollows
<1> QED BY <1>3, <1>4

LEMMA AssignFollows ==
  ASSUME NEW stmt, stmt.kind = "Assign", NEW env, NEW type \in TypeIds,
         env[stmt.name] \in TypeIds \cup {NoType},
         PossibleTypes(stmt.value, env) = TypesFor(type)
  PROVE  LET expected == env[stmt.name]
         IN  Settles(expected, type) /\ Settled(expected, type) = expected <=> Obeys(stmt, env)
<1>1. Obeys(stmt, env) <=> env[stmt.name] \in TypesFor(type)
  BY TypesForShape DEF Obeys
<1>2. CASE env[stmt.name] = NoType
  <2>1. NoType \notin TypesFor(type)
    BY SettlesFollows
  <2>2. Settled(NoType, type) \in TypeIds
    BY SettledType
  <2>3. NoType \notin TypeIds
    BY DEF NoType, TypeIds, BuiltinTypes, IntTypes, SignedTypes, UnsignedTypes, FloatTypes,
           LiteralTypes, Indeterminate
  <2> QED BY <1>1, <1>2, <2>1, <2>2, <2>3
<1>3. CASE env[stmt.name] # NoType
  BY <1>1, <1>3, SettlesFollows
<1> QED BY <1>2, <1>3

LEMMA ShowFollows ==
  ASSUME NEW stmt, stmt.kind = "Show", NEW env, NEW type,
         PossibleTypes(stmt.value, env) = TypesFor(type)
  PROVE  Obeys(stmt, env)
BY TypesForShape DEF Obeys

LEMMA ReturnFollows ==
  ASSUME NEW stmt, stmt.kind = "Return", NEW env, NEW type \in TypeIds,
         PossibleTypes(stmt.value, env) = TypesFor(type)
  PROVE  Settles("Int32", type) <=> Obeys(stmt, env)
<1>1. Obeys(stmt, env) <=> TypesFor(type) # FloatTypes
  BY TypesForShape DEF Obeys
<1>2. "Int32" \in IntTypes /\ "Int32" \notin FloatTypes /\ "Int32" \in TypeIds
  BY DEF TypeIds, BuiltinTypes, IntTypes, SignedTypes, FloatTypes
<1>3. CASE type \in LiteralTypes
  <2>1. Settles("Int32", type) <=> "Int32" \in TypesFor(type)
    BY <1>2, <1>3, FitsTypes DEF Settles
  <2>2. type = "IntLiteral" \/ type = "FloatLiteral"
    BY <1>3 DEF LiteralTypes
  <2> QED BY <1>1, <1>2, <2>1, <2>2, TypesForShape
<1>4. CASE type \notin LiteralTypes
  <2>1. TypesFor(type) = {type} /\ Settles("Int32", type)
    BY <1>4, TypesForShape DEF Settles
  <2>2. {type} # FloatTypes
    BY DEF FloatTypes
  <2> QED BY <1>1, <2>1, <2>2
<1> QED BY <1>3, <1>4

----------------------------------------------------------------------------
(* Statements the walk has left, and those it has entered.                 *)
Left(a) == a[1] < at[1] \/ (a[1] = at[1] /\ a[2] < at[2])
Entered(a) == Left(a) \/ (a[1] = at[1] /\ a[2] = at[2] /\ at[3] > 0)

LEMMA StatementAddressParts ==
  ASSUME NEW prog, IsProgram(prog, Names), NEW a \in StatementAddresses(prog)
  PROVE  /\ a[1] \in 1 .. Len(prog) /\ Len(prog) \in Nat
         /\ a[2] \in 1 .. Len(prog[a[1]].statements)
         /\ Len(prog[a[1]].statements) \in Nat
         /\ a = <<a[1], a[2], 0>> /\ a \in Addresses(prog)
<1>1. PICK f \in 1 .. Len(prog) : \E s \in 1 .. Len(prog[f].statements) : a = <<f, s, 0>>
  BY DEF StatementAddresses
<1>2. PICK s \in 1 .. Len(prog[f].statements) : a = <<f, s, 0>>
  BY <1>1
<1> QED BY <1>1, <1>2 DEF IsProgram, Addresses

LEMMA AdvancePlaces ==
  ASSUME TCTypeOK, AtFunction(program, at) \/ AtExit(program, at), program' = program,
         at' = NextStatement(program, at), NEW a \in StatementAddresses(program)
  PROVE  /\ Entered(a)' => Entered(a)
         /\ Left(a)' => Left(a) \/ (AtExit(program, at) /\ a = StatementNode)
<1>1. /\ a[1] \in 1 .. Len(program) /\ Len(program) \in Nat
      /\ a[2] \in 1 .. Len(program[a[1]].statements)
      /\ Len(program[a[1]].statements) \in Nat
      /\ a = <<a[1], a[2], 0>>
  BY StatementAddressParts, ProgramsAssumption DEF TCTypeOK
<1>2. \/ /\ at[2] < Len(program[at[1]].statements)
         /\ at'[1] = at[1] /\ at'[2] = at[2] + 1 /\ at'[3] = 0
      \/ /\ ~(at[2] < Len(program[at[1]].statements))
         /\ at'[1] = at[1] + 1 /\ at'[2] = 0 /\ at'[3] = 0
  BY DEF NextStatement
<1>3. Left(a)' => a[1] < at[1] \/ (a[1] = at[1] /\ a[2] <= at[2])
  <2>1. at[1] \in Nat /\ at[2] \in Nat /\ a[1] \in Nat /\ a[2] \in Nat
    BY <1>1, AtParts
  <2>2. CASE at'[1] = at[1] /\ at'[2] = at[2] + 1 /\ at'[3] = 0
    BY <2>1, <2>2 DEF Left
  <2>3. CASE at'[1] = at[1] + 1 /\ at'[2] = 0 /\ at'[3] = 0
    <3>1. Len(program[a[1]].statements) \in Nat /\ a[2] <= Len(program[a[1]].statements)
      BY <1>1
    <3>2. ~(at[2] < Len(program[at[1]].statements))
      BY <1>2, <2>1, <2>3
    <3>3. ASSUME a[1] = at[1] PROVE a[2] <= at[2]
      <4>1. Len(program[at[1]].statements) \in Nat
            /\ a[2] <= Len(program[at[1]].statements)
        BY <3>1, <3>3
      <4> QED BY <2>1, <3>2, <4>1
    <3> QED BY <2>1, <2>3, <3>3 DEF Left
  <2>4. (at'[1] = at[1] /\ at'[2] = at[2] + 1 /\ at'[3] = 0)
        \/ (at'[1] = at[1] + 1 /\ at'[2] = 0 /\ at'[3] = 0)
    BY <1>2
  <2> QED BY <2>2, <2>3, <2>4
<1>4. Entered(a)' => Left(a)'
  BY <1>2 DEF Entered
<1>5. CASE AtFunction(program, at)
  BY <1>1, <1>3, <1>4, <1>5, AtParts DEF AtFunction, Left, Entered
<1>6. CASE AtExit(program, at)
  <2>1. IsExpression(CurrentStatement.value, Names)
    BY <1>6, StatementShape DEF AtExit, IsStatement
  <2>2. at[3] > 0
    BY <1>6, <2>1 DEF AtExit, IsExpression, CurrentStatement
  <2> QED BY <1>1, <1>3, <1>4, <1>6, <2>2, AtParts DEF Left, Entered, StatementNode
<1> QED BY <1>5, <1>6

(* A step annotates nothing outside the statement it is in.                *)
LEMMA WritesHere ==
  ASSUME TCTypeOK, FreshInv, [TCNext \/ TCDone]_tc_vars, NEW a \in Addresses(program)
  PROVE  resolved_type'[a] = resolved_type[a] \/ (a[1] = at[1] /\ a[2] = at[2])
<1> DEFINE Here == resolved_type'[a] = resolved_type[a] \/ (a[1] = at[1] /\ a[2] = at[2])
<1>1. \A error : Throw(error) => Here
  BY DEF Throw
<1>2. CASE EnterFunction
  BY <1>2 DEF EnterFunction, TCTypeOK
<1>3. CASE EnterStatement
  BY <1>1, <1>3 DEF EnterStatement
<1>4. CASE VisitLiteral
  BY <1>4 DEF VisitLiteral, TCTypeOK
<1>5. CASE VisitVariable
  BY <1>1, <1>5 DEF VisitVariable, TCTypeOK
<1>6. CASE VisitFunctionCall
  BY <1>6 DEF VisitFunctionCall
<1>7. CASE VisitBinary
  <2>1. CASE Throw("CannotCoerce") \/ Throw("OperandMismatch")
    BY <1>1, <2>1
  <2>2. CASE ~(Throw("CannotCoerce") \/ Throw("OperandMismatch"))
    <3>1. \/ resolved_type'[a] = resolved_type[a] \/ a = at
          \/ \E i \in 1 .. at[3] - 1 : a = Operand(i)
      BY <1>7, <2>2, BinaryWrites
    <3> QED BY <3>1 DEF Operand
  <2> QED BY <2>1, <2>2
<1>8. CASE Declaring
  <2>1. CASE Throw("CannotCoerce") \/ Throw("DeclarationMismatch")
    BY <1>1, <2>1
  <2>2. CASE ~(Throw("CannotCoerce") \/ Throw("DeclarationMismatch"))
    BY <1>8, <2>2, ExitWrites DEF Declaring
  <2> QED BY <2>1, <2>2
<1>9. CASE Assigning
  <2>1. CASE Throw("CannotCoerce") \/ Throw("AssignmentMismatch")
    BY <1>1, <2>1
  <2>2. CASE ~(Throw("CannotCoerce") \/ Throw("AssignmentMismatch"))
    BY <1>9, <2>2, ExitWrites DEF Assigning
  <2> QED BY <2>1, <2>2
<1>10. CASE Showing
  BY <1>10 DEF Showing
<1>11. CASE Returning
  <2>1. CASE Throw("CannotCoerce")
    BY <1>1, <2>1
  <2>2. CASE ~Throw("CannotCoerce")
    BY <1>11, <2>2, ExitWrites DEF Returning
  <2> QED BY <2>1, <2>2
<1>12. CASE FinishCheck
  BY <1>12 DEF FinishCheck
<1>13. CASE UNCHANGED tc_vars
  BY <1>13 DEF tc_vars
<1> QED
  BY <1>2, <1>3, <1>4, <1>5, <1>6, <1>7, <1>8, <1>9, <1>10, <1>11, <1>12, <1>13
  DEF TCNext, VisitNode, ExitStatement, TCDone

----------------------------------------------------------------------------
(* The checker follows the rules.                                          *)

LEMMA PlainStatement ==
  ASSUME TCTypeOK, IsPlain(program), ~AtEnd(program, at), at[2] > 0
  PROVE  /\ IsPlainStatement(CurrentStatement) /\ IsStatement(CurrentStatement, Names)
         /\ IsExpression(CurrentStatement.value, Names)
         /\ StatementNode \in StatementAddresses(program)
         /\ StatementAt(program, StatementNode) = CurrentStatement
<1>1. /\ at[1] \in 1 .. Len(program) /\ at[2] \in 1 .. Len(program[at[1]].statements)
      /\ IsStatement(CurrentStatement, Names)
  BY StatementShape
<1>2. StatementNode \in StatementAddresses(program)
      /\ StatementAt(program, StatementNode) = CurrentStatement
  BY <1>1 DEF StatementNode, StatementAddresses, CurrentStatement, StatementAt
<1> QED BY <1>1, <1>2 DEF IsPlain, IsStatement

(* At a node: the types of the rules for it, and for its operands.         *)
LEMMA HereTypes ==
  ASSUME TCTypeOK, IsPlain(program), AtNode(program, at), EmittedFollow,
         NEW types, types = NodeTypes(CurrentStatement.value, variable_map)
  PROVE  /\ at[3] \in 1 .. Len(CurrentStatement.value)
         /\ CurrentNode = CurrentStatement.value[at[3]]
         /\ TypesStep(CurrentStatement.value, variable_map, types, at[3])
         /\ \A i \in 1 .. at[3] - 1 : types[i] = TypesFor(emitted[i])
<1>1. IsExpression(CurrentStatement.value, Names)
  BY PlainStatement DEF AtNode
<1>2. at[3] \in 1 .. Len(CurrentStatement.value) /\ CurrentNode = CurrentStatement.value[at[3]]
  BY DEF AtNode, CurrentStatement, CurrentNode, NodeAt
<1> QED BY <1>1, <1>2, NodeTypesSteps DEF EmittedFollow, InStatement

(* The visit of a node that does not throw.                                *)
LEMMA EmitFollows ==
  ASSUME TCTypeOK, EmittedFollow, AtNode(program, at), Emit,
         NodeTypes(CurrentStatement.value, variable_map)[at[3]] = TypesFor(result')
  PROVE  EmittedFollow'
<1>1. /\ at' = <<at[1], at[2], at[3] + 1>> /\ emitted' = Append(emitted, result')
      /\ program' = program /\ variable_map' = variable_map
  BY DEF Emit
<1>2. CurrentStatement' = CurrentStatement
  BY <1>1 DEF CurrentStatement, StatementAt
<1>3. Len(emitted) = at[3] - 1 /\ at[3] \in Nat /\ at[3] >= 1 /\ emitted \in Seq(TypeIds)
  BY NodeShape DEF TCTypeOK, OnWalk
<1>4. PICK k \in Nat : k = at[3]
  BY <1>3
<1>5. /\ Append(emitted, result')[k] = result'
      /\ \A i \in 1 .. k - 1 : Append(emitted, result')[i] = emitted[i]
  BY <1>3, <1>4
<1>6. PICK types : types = NodeTypes(CurrentStatement.value, variable_map)
  OBVIOUS
<1>7. \A i \in 1 .. k - 1 : types[i] = TypesFor(emitted[i])
  BY <1>4, <1>6 DEF EmittedFollow, InStatement
<1>8. \A i \in 1 .. k : types[i] = TypesFor(emitted'[i])
  <2> TAKE i \in 1 .. k
  <2>1. CASE i = k
    BY <1>1, <1>4, <1>5, <1>6, <2>1
  <2>2. CASE i # k
    <3>1. i \in 1 .. k - 1
      BY <2>2
    <3> QED BY <1>1, <1>5, <1>7, <3>1
  <2> QED BY <2>1, <2>2
<1>9. at'[3] - 1 = k
  BY <1>1, <1>4
<1> QED BY <1>1, <1>2, <1>6, <1>8, <1>9 DEF EmittedFollow

(* The rules at the statement the walk is on.                              *)
LEMMA ObeysHere ==
  ASSUME TCTypeOK, EnvironmentKept, ~AtEnd(program, at), at[2] > 0
  PROVE  /\ StatementObeys(at) <=> Obeys(CurrentStatement, variable_map)
         /\ EnvironmentAt(at[1], at[2]) = variable_map
BY DEF StatementObeys, EnvironmentKept, CurrentStatement

(* A throw where the statement does not obey the rules.                    *)
LEMMA ThrowFollows ==
  ASSUME TCTypeOK, FollowsInv, IsPlain(program), status = "checking",
         NEW error \in Errors, Throw(error), ~StatementObeys(at)
  PROVE  FollowsInv'
<1>1. /\ program' = program /\ at' = at /\ status' = error
      /\ error # "checking" /\ error # "checked"
  BY DEF Throw, Errors
<1>2. \A a \in StatementAddresses(program) : Before(a, at) => StatementObeys(a)
  BY DEF FollowsInv, StatementFollows
<1>3. ~StatementObeys(at)' /\ \A a : StatementObeys(a)' = StatementObeys(a)
  BY <1>1 DEF StatementObeys, EnvironmentAt
<1> QED BY <1>1, <1>2, <1>3 DEF FollowsInv, Before

(* Statements the walk has left keep what was made of them.                *)
LEMMA EarlierKept ==
  ASSUME TCTypeOK, FreshInv, FollowsInv, IsPlain(program), [TCNext \/ TCDone]_tc_vars,
         status = "checking", NEW a \in StatementAddresses(program), Before(a, at)
  PROVE  StatementFollows(a)'
<1>1. a \in Addresses(program) /\ a[1] \in Nat /\ a[2] \in Nat
  BY StatementAddressParts, AddressNumbers, ProgramsAssumption DEF TCTypeOK
<1>2. ~(a[1] = at[1] /\ a[2] = at[2])
  BY <1>1, AtParts DEF Before
<1>3. resolved_type'[a] = resolved_type[a]
  BY <1>1, <1>2, WritesHere
<1>4. StatementFollows(a) /\ program' = program
  BY ProgramFixed DEF FollowsInv
<1> QED BY <1>3, <1>4 DEF StatementFollows, StatementObeys, EnvironmentAt

(* A step within a statement.                                              *)
LEMMA KeptFollows ==
  ASSUME TCTypeOK, FreshInv, FollowsInv, IsPlain(program), [TCNext \/ TCDone]_tc_vars,
         status = "checking", status' = "checking", ~AtEnd(program, at), at[2] > 0,
         at'[1] = at[1], at'[2] = at[2], variable_map' = variable_map, EmittedFollow'
  PROVE  FollowsInv'
<1>1. program' = program
  BY ProgramFixed
<1>2. EnvironmentKept'
  <2>1. at[1] \in 1 .. Len(program)
    BY StatementShape
  <2>2. <<at[1], 0, 0>> \in Addresses(program)
    BY <2>1 DEF Addresses, FunctionAddresses
  <2>3. resolved_type'[<<at[1], 0, 0>>] = resolved_type[<<at[1], 0, 0>>]
    BY <2>2, WritesHere, AtParts
  <2>4. variable_map = EnvironmentAt(at[1], at[2]) /\ resolved_type[<<at[1], 0, 0>>] = "Int32"
    BY DEF FollowsInv, EnvironmentKept
  <2> QED BY <1>1, <2>3, <2>4 DEF EnvironmentKept, EnvironmentAt
<1>3. \A a \in StatementAddresses(program) : Before(a, at) => StatementFollows(a)'
  BY EarlierKept
<1>4. \A a : Before(a, at)' <=> Before(a, at)
  BY DEF Before
<1> QED BY <1>1, <1>2, <1>3, <1>4 DEF FollowsInv, Errors, Before

(* On plain programs int and float literals never meet.                    *)
LEMMA OneKindOfLiteral ==
  ASSUME NEW e, NEW names, IsExpression(e, names), IsPlainExpression(e), NEW env,
         NEW l \in 1 .. Len(e), NEW r \in 1 .. Len(e), NEW lhs, NEW rhs,
         NodeTypes(e, env)[l] = TypesFor(lhs), NodeTypes(e, env)[r] = TypesFor(rhs)
  PROVE  ~(LiteralTypes \subseteq {lhs, rhs})
<1> SUFFICES ASSUME LiteralTypes \subseteq {lhs, rhs} PROVE FALSE
  OBVIOUS
<1>1. \E i \in {l, r} : NodeTypes(e, env)[i] = IntTypes
  BY TypesForShape DEF LiteralTypes
<1>2. \E i \in {l, r} : NodeTypes(e, env)[i] = FloatTypes
  BY TypesForShape DEF LiteralTypes
<1>3. /\ {"Int8", "Int16"} \subseteq IntTypes /\ ~({"Int8", "Int16"} \subseteq FloatTypes)
      /\ {"Float32", "Float64"} \subseteq FloatTypes
      /\ ~({"Float32", "Float64"} \subseteq IntTypes)
  BY DEF IntTypes, SignedTypes, UnsignedTypes, FloatTypes
<1>4. HasLiteralOf(e, "Int8", "Int16")
  <2>1. PICK i \in {l, r} : {"Int8", "Int16"} \subseteq NodeTypes(e, env)[i]
    BY <1>1, <1>3
  <2> QED BY <2>1, TwoTypes
<1>5. HasLiteralOf(e, "Float32", "Float64")
  <2>1. PICK i \in {l, r} : {"Float32", "Float64"} \subseteq NodeTypes(e, env)[i]
    BY <1>2, <1>3
  <2> QED BY <2>1, TwoTypes
<1> QED BY <1>3, <1>4, <1>5 DEF HasLiteralOf, IsPlainExpression

(* A node without a type makes the statement disobey.                      *)
LEMMA ThrowAtNode ==
  ASSUME TCTypeOK, FollowsInv, IsPlain(program), status = "checking", AtNode(program, at),
         NEW error \in Errors, Throw(error),
         NodeTypes(CurrentStatement.value, variable_map)[at[3]] = {}
  PROVE  FollowsInv'
<1>1. IsExpression(CurrentStatement.value, Names) /\ at[3] \in 1 .. Len(CurrentStatement.value)
  BY PlainStatement, NodeShape DEF AtNode
<1>2. PossibleTypes(CurrentStatement.value, variable_map) = {}
  BY <1>1, NothingPossible
<1>3. ~StatementObeys(at)
  BY <1>2, ObeysHere DEF AtNode, Obeys, FollowsInv
<1> QED BY <1>3, ThrowFollows

(* The visits decide what the rules give each node.                        *)
LEMMA VisitFollows ==
  ASSUME TCTypeOK, LiteralInv, FreshInv, FollowsInv, IsPlain(program),
         [TCNext \/ TCDone]_tc_vars, VisitNode
  PROVE  FollowsInv'
<1>1. AtNode(program, at) /\ status = "checking" /\ ~AtEnd(program, at) /\ at[2] > 0
  BY DEF VisitNode, VisitLiteral, VisitVariable, VisitFunctionCall, VisitBinary, AtNode
<1>2. EnvironmentKept /\ EmittedFollow
  BY <1>1 DEF FollowsInv
<1>3. PICK types : types = NodeTypes(CurrentStatement.value, variable_map)
  OBVIOUS
<1>4. /\ at[3] \in 1 .. Len(CurrentStatement.value)
      /\ CurrentNode = CurrentStatement.value[at[3]]
      /\ TypesStep(CurrentStatement.value, variable_map, types, at[3])
      /\ \A i \in 1 .. at[3] - 1 : types[i] = TypesFor(emitted[i])
  BY <1>1, <1>2, <1>3, HereTypes
<1>5. IsExpression(CurrentStatement.value, Names) /\ IsPlainExpression(CurrentStatement.value)
  BY <1>1, PlainStatement DEF IsPlainStatement
<1>6. ASSUME Emit, types[at[3]] = TypesFor(result') PROVE FollowsInv'
  <2>1. EmittedFollow'
    BY <1>1, <1>2, <1>3, <1>6, EmitFollows
  <2>2. status' = "checking" /\ variable_map' = variable_map /\ at'[1] = at[1] /\ at'[2] = at[2]
    BY <1>1, <1>6 DEF Emit
  <2> QED BY <1>1, <2>1, <2>2, KeptFollows
<1>7. CASE VisitLiteral
  <2>1. CurrentNode.kind \in LiteralTypes /\ result' = CurrentNode.kind /\ Emit
    BY <1>7 DEF VisitLiteral
  <2>2. types[at[3]] = TypesFor(CurrentNode.kind)
    BY <1>4, <2>1, TypesForShape DEF TypesStep, LiteralTypes
  <2> QED BY <1>6, <2>1, <2>2
<1>8. CASE VisitVariable
  <2>1. CurrentNode.kind = "Variable"
    BY <1>8 DEF VisitVariable
  <2>2. types[at[3]] = {variable_map[CurrentNode.name]} \ {NoType}
    BY <1>4, <2>1 DEF TypesStep
  <2>3. CASE variable_map[CurrentNode.name] = NoType
    BY <1>1, <1>3, <1>8, <2>2, <2>3, ThrowAtNode DEF VisitVariable, Errors
  <2>4. CASE variable_map[CurrentNode.name] # NoType
    <3>1. variable_map[CurrentNode.name] \notin LiteralTypes
      BY <1>1, <2>1, NodeShape DEF LiteralInv
    <3>2. Emit /\ result' = variable_map[CurrentNode.name]
      BY <1>8, <2>4 DEF VisitVariable
    <3> QED BY <1>6, <2>2, <2>4, <3>1, <3>2, TypesForShape
  <2> QED BY <2>3, <2>4
<1>9. CASE VisitFunctionCall
  <2>1. CurrentNode.kind = "FunctionCall"
    BY <1>9 DEF VisitFunctionCall
  <2> QED BY <1>4, <1>5, <2>1 DEF IsPlainExpression
<1>10. CASE VisitBinary
  <2>1. CurrentNode.kind = "Binary"
    BY <1>10 DEF VisitBinary
  <2>2. PICK l, r, lhs, rhs, op :
          /\ l = CurrentNode.lhs /\ r = CurrentNode.rhs /\ op = CurrentNode.op
          /\ lhs = emitted[l] /\ rhs = emitted[r]
    OBVIOUS
  <2>3. /\ l \in 1 .. at[3] - 1 /\ r \in 1 .. at[3] - 1
        /\ l \in 1 .. Len(CurrentStatement.value) /\ r \in 1 .. Len(CurrentStatement.value)
    BY <1>4, <1>5, <2>1, <2>2, OperandsBefore
  <2>4. lhs \in TypeIds /\ rhs \in TypeIds
    BY <1>1, <2>1, <2>2, NodeShape
  <2>5. types[l] = TypesFor(lhs) /\ types[r] = TypesFor(rhs)
    BY <1>4, <2>2, <2>3
  <2>6. types[at[3]] = OperatorTypes(op, TypesFor(lhs) \cap TypesFor(rhs))
    BY <1>4, <2>1, <2>2, <2>5 DEF TypesStep
  <2>7. ~(LiteralTypes \subseteq {lhs, rhs})
    BY <1>3, <1>5, <2>3, <2>5, OneKindOfLiteral
  <2>8. /\ IF OperandsFit(lhs, rhs) /\ OperandsMatch(lhs, rhs)
           THEN types[at[3]] = TypesFor(BinaryType(op, lhs, rhs))
           ELSE types[at[3]] = {}
    BY <2>4, <2>6, <2>7, OperatorFollows
  <2>9. CASE OperandsFit(lhs, rhs) /\ OperandsMatch(lhs, rhs)
    <3>1. Emit /\ result' = BinaryType(op, lhs, rhs)
      BY <1>10, <2>2, <2>9 DEF VisitBinary
    <3> QED BY <1>6, <2>8, <2>9, <3>1
  <2>10. CASE ~(OperandsFit(lhs, rhs) /\ OperandsMatch(lhs, rhs))
    <3>1. Throw("CannotCoerce") \/ Throw("OperandMismatch")
      BY <1>10, <2>2, <2>10 DEF VisitBinary
    <3> QED BY <1>1, <1>3, <2>8, <2>10, <3>1, ThrowAtNode DEF Errors
  <2> QED BY <2>9, <2>10
<1> QED BY <1>7, <1>8, <1>9, <1>10 DEF VisitNode

----------------------------------------------------------------------------
(* Leaving a statement.                                                    *)

LEMMA ExitFacts ==
  ASSUME TCTypeOK, LiteralInv, FollowsInv, IsPlain(program), status = "checking",
         AtExit(program, at)
  PROVE  /\ ValueType \in TypeIds /\ result = ValueType
         /\ PossibleTypes(CurrentStatement.value, variable_map) = TypesFor(ValueType)
         /\ CurrentStatement.kind \in {"Assign", "Show"} => ValueType \notin LiteralTypes
<1> DEFINE e == CurrentStatement.value
<1>1. ~AtEnd(program, at) /\ at[2] > 0 /\ at[3] = Len(e) + 1
  BY DEF AtExit, CurrentStatement
<1>2. IsPlainStatement(CurrentStatement) /\ IsExpression(e, Names)
  BY <1>1, PlainStatement
<1>3. Len(e) \in Nat \ {0}
  BY <1>2 DEF IsExpression
<1>4. at[3] > 1 /\ at[3] - 1 = Len(e) /\ Len(e) \in 1 .. at[3] - 1
  BY <1>1, <1>3
<1>5. NodeTypes(e, variable_map)[Len(e)] = TypesFor(emitted[Len(e)])
  BY <1>4 DEF FollowsInv, EmittedFollow, InStatement
<1>6. result = ValueType
  BY <1>4 DEF LiteralInv, InStatement, ValueType
<1>7. ASSUME ValueType \in LiteralTypes PROVE LiteralOnly(e)
  <2> SUFFICES ASSUME NEW v \in 1 .. Len(e), e[v].kind \in {"Variable", "FunctionCall"}
               PROVE  FALSE
    BY DEF LiteralOnly
  <2>1. \A x, y \in PossibleTypes(e, variable_map) : x = y
    BY <1>2, OneType
  <2>2. PossibleTypes(e, variable_map) \in {IntTypes, FloatTypes}
    BY <1>5, <1>7, TypesForShape DEF PossibleTypes, ValueType, LiteralTypes
  <2>3. "Int8" \in IntTypes /\ "Int16" \in IntTypes
        /\ "Float32" \in FloatTypes /\ "Float64" \in FloatTypes
    BY DEF IntTypes, SignedTypes, FloatTypes
  <2> QED BY <2>1, <2>2, <2>3
<1> QED BY <1>2, <1>5, <1>6, <1>7, ValueShape DEF PossibleTypes, ValueType, IsPlainStatement

LEMMA AdvanceFollows ==
  ASSUME TCTypeOK, FreshInv, FollowsInv, IsPlain(program), [TCNext \/ TCDone]_tc_vars,
         status = "checking", AtExit(program, at),
         NEW type, type \notin LiteralTypes, FinishStatement(type),
         Obeys(CurrentStatement, variable_map),
         CurrentStatement.kind # "Declare" => variable_map' = variable_map,
         CurrentStatement.kind = "Declare" =>
           LET declared == StatementType(CurrentStatement, variable_map)
           IN  /\ resolved_type'[StatementNode] = declared
               /\ variable_map' = [variable_map EXCEPT ![CurrentStatement.name] = declared]
  PROVE  FollowsInv'
<1>1. /\ status' = "checking" /\ at' = NextStatement(program, at) /\ program' = program
      /\ ~AtEnd(program, at) /\ at[2] > 0
  BY DEF FinishStatement, AtExit
<1>2. ~InStatement'
  BY <1>1, NextStatementOnWalk, ProgramsAssumption DEF InStatement, TCTypeOK
<1>3. EnvironmentAt(at[1], at[2]) = variable_map /\ resolved_type[<<at[1], 0, 0>>] = "Int32"
  BY <1>1 DEF FollowsInv, EnvironmentKept
<1>4. EnvironmentKept'
  <2> SUFFICES ASSUME ~AtEnd(program, at)', at'[2] > 0
               PROVE  /\ variable_map' = EnvironmentAt(at'[1], at'[2])
                      /\ resolved_type'[<<at'[1], 0, 0>>] = "Int32"
    BY <1>1 DEF EnvironmentKept, EnvironmentAt
  <2>1. at[2] < Len(program[at[1]].statements) /\ at' = <<at[1], at[2] + 1, 0>>
    BY <1>1 DEF NextStatement
  <2>2. PICK f, s : f = at[1] /\ s = at[2]
    OBVIOUS
  <2>3. f \in 1 .. Len(program) /\ s \in Nat /\ s > 0 /\ Len(program[f].statements) \in Nat
    BY <1>1, <2>2, StatementShape, AtParts, ProgramsAssumption DEF TCTypeOK, IsProgram
  <2>4. s + 1 \in 1 .. Len(program[f].statements) /\ s + 1 > 1 /\ (s + 1) - 1 = s
    <3>1. s < Len(program[f].statements)
      BY <2>1, <2>2
    <3> QED BY <2>3, <3>1
  <2>5. LET stmt == program[f].statements[s]
            env  == EnvironmentAt(f, s)
        IN  EnvironmentAt(f, s + 1) =
              IF stmt.kind # "Declare" THEN env
              ELSE [env EXCEPT ![stmt.name] = StatementType(stmt, env)]
    <3>1. PICK n : n = s + 1
      OBVIOUS
    <3>2. n \in 1 .. Len(program[f].statements) /\ n > 1 /\ n - 1 = s
      BY <2>4, <3>1
    <3>3. Len(program[f].statements) \in Nat
      BY <2>3
    <3>4. LET stmt == program[f].statements[n - 1]
              env  == EnvironmentAt(f, n - 1)
          IN  EnvironmentAt(f, n) =
                IF stmt.kind # "Declare" THEN env
                ELSE [env EXCEPT ![stmt.name] = StatementType(stmt, env)]
      BY <3>2, <3>3, EnvironmentSteps, Zenon
    <3> QED BY <3>1, <3>2, <3>4
  <2>6. program[f].statements[s] = CurrentStatement /\ EnvironmentAt(f, s) = variable_map
    BY <1>3, <2>2 DEF CurrentStatement, StatementAt
  <2>7. variable_map' = EnvironmentAt(f, s + 1)
    BY <2>5, <2>6
  <2>8. <<f, 0, 0>> \in Addresses(program)
    BY <2>3 DEF Addresses, FunctionAddresses
  <2>9. resolved_type'[<<f, 0, 0>>] = resolved_type[<<f, 0, 0>>]
    BY <2>2, <2>3, <2>8, WritesHere
  <2> QED BY <1>3, <2>1, <2>2, <2>7, <2>9
<1>5. ASSUME NEW a, a = StatementNode PROVE StatementFollows(a)'
  <2>1. /\ StatementAt(program, a) = CurrentStatement
        /\ a[1] = at[1] /\ a[2] = at[2]
    BY <1>1, <1>5, PlainStatement DEF StatementNode
  <2>2. Obeys(StatementAt(program, a), EnvironmentAt(a[1], a[2]))
    BY <1>3, <2>1
  <2>3. StatementAt(program, a).kind = "Declare" =>
          resolved_type'[a] = StatementType(StatementAt(program, a), EnvironmentAt(a[1], a[2]))
    BY <1>3, <1>5, <2>1
  <2> QED BY <1>1, <2>2, <2>3 DEF StatementFollows, StatementObeys, EnvironmentAt
<1>6. ASSUME NEW a \in StatementAddresses(program), Before(a, at)'
      PROVE  StatementFollows(a)'
  <2>1. Before(a, at) \/ a = StatementNode
    BY <1>1, <1>6, AdvancePlaces DEF Left, Before
  <2> QED BY <1>5, <2>1, EarlierKept
<1> QED BY <1>1, <1>2, <1>4, <1>6 DEF FollowsInv, Errors, EmittedFollow

LEMMA ExitFollows ==
  ASSUME TCTypeOK, LiteralInv, FreshInv, FollowsInv, IsPlain(program),
         [TCNext \/ TCDone]_tc_vars, ExitStatement
  PROVE  FollowsInv'
<1>1. AtExit(program, at) /\ status = "checking" /\ ~AtEnd(program, at) /\ at[2] > 0
  BY DEF ExitStatement, Declaring, Assigning, Showing, Returning, AtExit
<1>2. /\ ValueType \in TypeIds /\ result = ValueType
      /\ PossibleTypes(CurrentStatement.value, variable_map) = TypesFor(ValueType)
      /\ CurrentStatement.kind \in {"Assign", "Show"} => ValueType \notin LiteralTypes
  BY <1>1, ExitFacts
<1>3. EnvironmentKept /\ (StatementObeys(at) <=> Obeys(CurrentStatement, variable_map))
  BY <1>1, ObeysHere DEF FollowsInv
<1>4. IsStatement(CurrentStatement, Names) /\ StatementNode \in Addresses(program)
  BY <1>1, PlainStatement DEF Addresses
<1>5. ASSUME NEW error \in Errors, Throw(error), ~Obeys(CurrentStatement, variable_map)
      PROVE  FollowsInv'
  BY <1>1, <1>3, <1>5, ThrowFollows
<1>6. CASE Declaring
  <2> DEFINE expected == CurrentStatement.annotation
             type     == Settled(expected, ValueType)
  <2>1. CurrentStatement.kind = "Declare"
    BY <1>6 DEF Declaring
  <2>2. /\ Settles(expected, ValueType) /\ expected \in {NoType, type}
             <=> Obeys(CurrentStatement, variable_map)
        /\ Obeys(CurrentStatement, variable_map) =>
             StatementType(CurrentStatement, variable_map) = type
    BY <1>2, <1>4, <2>1, DeclareFollows
  <2>3. CASE Obeys(CurrentStatement, variable_map)
    <3>1. /\ FinishStatement(type)
          /\ variable_map' = [variable_map EXCEPT ![CurrentStatement.name] = type]
          /\ resolved_type' = [resolved_type EXCEPT
                                 ![ValueNode] = Annotated(@, ValueType, type),
                                 ![StatementNode] = type]
      BY <1>6, <2>2, <2>3 DEF Declaring
    <3>2. resolved_type'[StatementNode] = type
      BY <1>4, <3>1 DEF TCTypeOK
    <3>3. type \notin LiteralTypes
      BY <1>4, <2>1, AnnotationShape, SettledConcrete
    <3> HIDE DEF type
    <3> QED BY <1>1, <2>1, <2>2, <2>3, <3>1, <3>2, <3>3, AdvanceFollows
  <2>4. CASE ~Obeys(CurrentStatement, variable_map)
    <3>1. Throw("CannotCoerce") \/ Throw("DeclarationMismatch")
      BY <1>6, <2>2, <2>4 DEF Declaring
    <3> QED BY <1>5, <2>4, <3>1 DEF Errors
  <2> QED BY <2>3, <2>4
<1>7. CASE Assigning
  <2> DEFINE expected == variable_map[CurrentStatement.name]
  <2>1. CurrentStatement.kind = "Assign"
    BY <1>7 DEF Assigning
  <2>2. expected \in TypeIds \cup {NoType}
    BY <1>4, <2>1 DEF TCTypeOK, IsStatement
  <2>3. Settles(expected, ValueType) /\ Settled(expected, ValueType) = expected
          <=> Obeys(CurrentStatement, variable_map)
    BY <1>2, <2>1, <2>2, AssignFollows
  <2>4. CASE Obeys(CurrentStatement, variable_map)
    <3>1. FinishStatement(result) /\ variable_map' = variable_map
      BY <1>7, <2>3, <2>4 DEF Assigning
    <3> QED BY <1>1, <1>2, <2>1, <2>4, <3>1, AdvanceFollows
  <2>5. CASE ~Obeys(CurrentStatement, variable_map)
    <3>1. Throw("CannotCoerce") \/ Throw("AssignmentMismatch")
      BY <1>7, <2>3, <2>5 DEF Assigning
    <3> QED BY <1>5, <2>5, <3>1 DEF Errors
  <2> QED BY <2>4, <2>5
<1>8. CASE Showing
  <2>1. CurrentStatement.kind = "Show" /\ FinishStatement(result) /\ variable_map' = variable_map
    BY <1>8 DEF Showing
  <2>2. Obeys(CurrentStatement, variable_map)
    BY <1>2, <2>1, ShowFollows
  <2> QED BY <1>1, <1>2, <2>1, <2>2, AdvanceFollows
<1>9. CASE Returning
  <2>1. CurrentStatement.kind = "Return" /\ resolved_type[<<at[1], 0, 0>>] = "Int32"
    BY <1>1, <1>3, <1>9 DEF Returning, EnvironmentKept
  <2>2. Settles("Int32", ValueType) <=> Obeys(CurrentStatement, variable_map)
    BY <1>2, <2>1, ReturnFollows
  <2>3. CASE Obeys(CurrentStatement, variable_map)
    <3>1. FinishStatement(Settled("Int32", ValueType)) /\ variable_map' = variable_map
      BY <1>9, <2>1, <2>2, <2>3 DEF Returning
    <3>2. Settled("Int32", ValueType) \notin LiteralTypes
      BY SettledConcrete DEF LiteralTypes
    <3> QED BY <1>1, <2>1, <2>3, <3>1, <3>2, AdvanceFollows
  <2>4. CASE ~Obeys(CurrentStatement, variable_map)
    <3>1. Throw("CannotCoerce")
      BY <1>9, <2>1, <2>2, <2>4 DEF Returning
    <3> QED BY <1>5, <2>4, <3>1 DEF Errors
  <2> QED BY <2>3, <2>4
<1> QED BY <1>6, <1>7, <1>8, <1>9 DEF ExitStatement

----------------------------------------------------------------------------
(* Entering functions and statements.                                      *)

LEMMA EnterStatementFollows ==
  ASSUME TCTypeOK, FreshInv, FollowsInv, IsPlain(program),
         [TCNext \/ TCDone]_tc_vars, EnterStatement
  PROVE  FollowsInv'
<1>1. AtEntry(program, at) /\ status = "checking" /\ ~AtEnd(program, at) /\ at[2] > 0
  BY DEF EnterStatement, AtEntry
<1>2. CASE CurrentStatement.kind = "Assign" /\ variable_map[CurrentStatement.name] = NoType
  <2>1. IsExpression(CurrentStatement.value, Names)
    BY <1>1, PlainStatement
  <2>2. Len(CurrentStatement.value) \in 1 .. Len(CurrentStatement.value)
    BY <2>1 DEF IsExpression
  <2>3. NoType \notin PossibleTypes(CurrentStatement.value, variable_map)
    BY <2>1, <2>2, NoTypeImpossible DEF PossibleTypes
  <2>4. ~StatementObeys(at)
    BY <1>1, <1>2, <2>3, ObeysHere DEF FollowsInv, Obeys
  <2>5. Throw("UndeclaredVariable")
    BY <1>2 DEF EnterStatement
  <2> QED BY <1>1, <2>4, <2>5, ThrowFollows DEF Errors
<1>3. CASE ~(CurrentStatement.kind = "Assign" /\ variable_map[CurrentStatement.name] = NoType)
  <2>1. at' = Operand(1) /\ variable_map' = variable_map /\ status' = "checking"
    BY <1>1, <1>3 DEF EnterStatement
  <2>2. at'[1] = at[1] /\ at'[2] = at[2] /\ at'[3] = 1
    BY <2>1 DEF Operand
  <2>3. EmittedFollow'
    BY <2>2 DEF EmittedFollow
  <2> QED BY <1>1, <2>1, <2>2, <2>3, KeptFollows
<1> QED BY <1>2, <1>3

LEMMA EnterFunctionFollows ==
  ASSUME TCTypeOK, FreshInv, FollowsInv, IsPlain(program),
         [TCNext \/ TCDone]_tc_vars, EnterFunction
  PROVE  FollowsInv'
<1>1. /\ AtFunction(program, at) /\ status = "checking" /\ status' = "checking"
      /\ at' = NextStatement(program, at) /\ program' = program
      /\ variable_map' = [n \in Names |-> NoType]
      /\ resolved_type' = [resolved_type EXCEPT ![at] = "Int32"]
  BY DEF EnterFunction
<1>2. ~AtEnd(program, at) /\ at[2] = 0 /\ at[3] = 0
  BY <1>1 DEF AtFunction
<1>3. ~InStatement'
  BY <1>1, <1>2, NextStatementOnWalk, ProgramsAssumption DEF InStatement, TCTypeOK
<1>4. EnvironmentKept'
  <2> SUFFICES ASSUME ~AtEnd(program, at)', at'[2] > 0
               PROVE  /\ variable_map' = EnvironmentAt(at'[1], at'[2])
                      /\ resolved_type'[<<at'[1], 0, 0>>] = "Int32"
    BY <1>1 DEF EnvironmentKept, EnvironmentAt
  <2>1. 0 < Len(program[at[1]].statements) /\ at' = <<at[1], 1, 0>>
    BY <1>1, <1>2 DEF NextStatement
  <2>2. at[1] \in 1 .. Len(program) /\ Len(program[at[1]].statements) \in Nat
    BY <1>2, AtParts, ProgramsAssumption DEF TCTypeOK, IsProgram, OnWalk, AtEnd
  <2>3. EnvironmentAt(at[1], 1) = [n \in Names |-> NoType]
    BY <2>1, <2>2, EnvironmentSteps
  <2>4. <<at[1], 0, 0>> \in Addresses(program) /\ at = <<at[1], 0, 0>>
    BY <1>2, <2>2 DEF Addresses, FunctionAddresses, TCTypeOK, OnWalk
  <2> QED BY <1>1, <2>1, <2>3, <2>4 DEF TCTypeOK
<1>5. ASSUME NEW a \in StatementAddresses(program), Before(a, at)'
      PROVE  StatementFollows(a)'
  <2>1. Before(a, at)
    BY <1>1, <1>2, <1>5, AdvancePlaces DEF Left, Before, AtExit
  <2> QED BY <1>1, <2>1, EarlierKept
<1> QED BY <1>1, <1>3, <1>4, <1>5 DEF FollowsInv, Errors, EmittedFollow

LEMMA FollowsInit == TCInit => FollowsInv
<1> SUFFICES ASSUME TCInit, IsPlain(program) PROVE FollowsInv
  BY DEF FollowsInv
<1>1. at = <<1, 0, 0>> /\ status = "checking"
  BY DEF TCInit, FirstAddress
<1>2. EnvironmentKept /\ ~InStatement
  BY <1>1 DEF EnvironmentKept, InStatement, AtNode, AtExit
<1>3. ASSUME NEW a \in StatementAddresses(program) PROVE ~Before(a, at)
  BY <1>1, StatementAddressParts, ProgramsAssumption DEF TCInit, Before
<1> QED BY <1>1, <1>2, <1>3 DEF FollowsInv, EmittedFollow, Errors

LEMMA FollowsNext ==
  ASSUME TCTypeOK, LiteralInv, FreshInv, FollowsInv, [TCNext \/ TCDone]_tc_vars
  PROVE  FollowsInv'
<1>0. program' = program
  BY ProgramFixed
<1>1. CASE ~IsPlain(program)
  BY <1>0, <1>1 DEF FollowsInv
<1>2. CASE IsPlain(program)
  <2>1. CASE FinishCheck
    BY <2>1 DEF FinishCheck, FollowsInv, StatementFollows, StatementObeys, EnvironmentAt,
                Before, Errors
  <2>2. CASE UNCHANGED tc_vars
    BY <2>2 DEF tc_vars, FollowsInv, EnvironmentKept, EmittedFollow, InStatement,
       CurrentStatement, StatementFollows, StatementObeys, EnvironmentAt, Before
  <2> QED
    BY <1>2, <2>1, <2>2, EnterFunctionFollows, EnterStatementFollows, VisitFollows, ExitFollows
    DEF TCNext, TCDone
<1> QED BY <1>1, <1>2

LEMMA FollowsAtTheEnd == TCTypeOK /\ LiteralInv /\ FollowsInv => CheckerFollowsRules
<1> SUFFICES ASSUME TCTypeOK, LiteralInv, FollowsInv, IsPlain(program)
             PROVE  /\ status = "checked" =>
                         \A a \in StatementAddresses(program) : StatementFollows(a)
                    /\ status \in Errors =>
                         /\ ~StatementObeys(at)
                         /\ \A a \in StatementAddresses(program) :
                              Before(a, at) => StatementObeys(a)
  BY DEF CheckerFollowsRules, StatementFollows
<1>1. ASSUME status = "checked", NEW a \in StatementAddresses(program)
      PROVE  StatementFollows(a)
  <2>1. at[1] > Len(program)
    BY <1>1 DEF LiteralInv, AtEnd
  <2>2. a[1] \in 1 .. Len(program) /\ Len(program) \in Nat
    BY StatementAddressParts, ProgramsAssumption DEF TCTypeOK
  <2>3. Before(a, at)
    BY <2>1, <2>2, AtParts DEF Before
  <2> QED BY <1>1, <2>3 DEF FollowsInv
<1> QED BY <1>1 DEF FollowsInv

(* On plain programs, of any shape and length, the checker accepts exactly *)
(* what the typing rules allow: it throws at the first statement they      *)
(* forbid, and gives every declaration of a program it accepts the type    *)
(* they give it.                                                           *)
THEOREM FollowsRules == TCSpec => []CheckerFollowsRules
<1>1. TCTypeOK /\ LiteralInv /\ FreshInv /\ FollowsInv /\ [TCNext \/ TCDone]_tc_vars =>
        FreshInv' /\ FollowsInv'
  BY FreshNext, FollowsNext
<1> QED
  BY <1>1, TypeInit, TypeNext, LiteralInit, LiteralNext, FreshInit, FollowsInit,
     FollowsAtTheEnd, PTL
  DEF TCSpec

----------------------------------------------------------------------------
(* What else the checker leaves in a tree it accepts: every declaration    *)
(* and operator is annotated, comparisons as Bool, and the target of every *)
(* assignment is declared before it.                                       *)
DeclaresBefore(f, s, name) == \E d \in 1 .. (s - 1) : Declares(f, d, name)

TargetsDeclared ==
  \A a \in StatementAddresses(program) :
    StatementAt(program, a).kind = "Assign" /\ Entered(a) =>
      DeclaresBefore(a[1], a[2], StatementAt(program, a).name)

DeclarationsAnnotated ==
  \A a \in StatementAddresses(program) :
    StatementAt(program, a).kind = "Declare" /\ Left(a) => resolved_type[a] # NoType

OperatorsAnnotated ==
  \A a \in NodeAddresses(program) :
    NodeAt(program, a).kind = "Binary" /\ ~Unvisited(a) =>
      /\ resolved_type[a] # NoType
      /\ NodeAt(program, a).op = "Equals" => resolved_type[a] = "Bool"

AnnotatedInv ==
  status \in {"checking", "checked"} =>
    TargetsDeclared /\ DeclarationsAnnotated /\ OperatorsAnnotated

(* A step writes types: an annotation may change but is never taken away.  *)
LEMMA WritesTypes ==
  ASSUME TCTypeOK, [TCNext \/ TCDone]_tc_vars, NEW a \in Addresses(program)
  PROVE  resolved_type'[a] = resolved_type[a] \/ resolved_type'[a] \in TypeIds
<1> "Int32" \in TypeIds
  BY DEF TypeIds, BuiltinTypes, IntTypes, SignedTypes
<1>1. \A old, type : type \in TypeIds =>
        \A emittedType : Annotated(old, emittedType, type) \in {old} \cup TypeIds
  BY DEF Annotated
<1>2. CASE EnterFunction
  BY <1>2 DEF EnterFunction, TCTypeOK
<1>3. CASE VisitLiteral
  <2>1. CurrentNode.kind \in TypeIds
    BY <1>3 DEF VisitLiteral, TypeIds
  <2> QED BY <1>3, <2>1 DEF VisitLiteral, TCTypeOK
<1>4. CASE VisitVariable
  <2>1. CASE Throw("UndeclaredVariable")
    BY <2>1 DEF Throw
  <2>2. CASE ~Throw("UndeclaredVariable")
    <3>1. /\ AtNode(program, at) /\ CurrentNode.kind = "Variable"
          /\ variable_map[CurrentNode.name] # NoType
          /\ resolved_type' = [resolved_type EXCEPT ![at] = variable_map[CurrentNode.name]]
      BY <1>4, <2>2 DEF VisitVariable
    <3>2. variable_map[CurrentNode.name] \in TypeIds
      BY <3>1, NodeShape DEF TCTypeOK
    <3> QED BY <3>1, <3>2 DEF TCTypeOK
  <2> QED BY <2>1, <2>2
<1>5. CASE VisitBinary
  <2>1. CASE Throw("CannotCoerce") \/ Throw("OperandMismatch")
    BY <2>1 DEF Throw
  <2>2. CASE ~(Throw("CannotCoerce") \/ Throw("OperandMismatch"))
    <3> DEFINE lhs == emitted[CurrentNode.lhs]
               rhs == emitted[CurrentNode.rhs]
    <3>1. /\ AtNode(program, at) /\ CurrentNode.kind = "Binary"
          /\ resolved_type' = [resolved_type EXCEPT
               ![Operand(CurrentNode.lhs)] = Annotated(@, lhs, OperandType(lhs, rhs)),
               ![Operand(CurrentNode.rhs)] = Annotated(@, rhs, OperandType(rhs, lhs)),
               ![at] = BinaryType(CurrentNode.op, lhs, rhs)]
      BY <1>5, <2>2 DEF VisitBinary
    <3>2. lhs \in TypeIds /\ rhs \in TypeIds
      BY <3>1, NodeShape
    <3>3. /\ OperandType(lhs, rhs) \in TypeIds /\ OperandType(rhs, lhs) \in TypeIds
          /\ BinaryType(CurrentNode.op, lhs, rhs) \in TypeIds
      BY <3>2, OperandTypeType, BinaryTypeType
    <3> HIDE DEF lhs, rhs
    <3> QED BY <3>1, <3>3 DEF TCTypeOK, Annotated
  <2> QED BY <2>1, <2>2
<1>6. ASSUME NEW type \in TypeIds,
             \/ resolved_type' = [resolved_type EXCEPT ![ValueNode] = Annotated(@, ValueType, type)]
             \/ resolved_type' = [resolved_type EXCEPT
                                    ![ValueNode] = Annotated(@, ValueType, type),
                                    ![StatementNode] = type]
      PROVE  resolved_type'[a] = resolved_type[a] \/ resolved_type'[a] \in TypeIds
  BY <1>6 DEF TCTypeOK, Annotated
<1>7. ASSUME AtExit(program, at) PROVE ValueType \in TypeIds
  BY <1>7, ValueShape
<1>8. CASE Declaring
  <2>1. CASE Throw("CannotCoerce") \/ Throw("DeclarationMismatch")
    BY <2>1 DEF Throw
  <2>2. CASE ~(Throw("CannotCoerce") \/ Throw("DeclarationMismatch"))
    <3>1. AtExit(program, at) /\ CurrentStatement.kind = "Declare"
      BY <1>8 DEF Declaring
    <3>2. CurrentStatement.annotation \in TypeIds \cup {NoType}
      BY <3>1, StatementShape DEF AtExit, IsStatement, TypeIds
    <3>3. Settled(CurrentStatement.annotation, ValueType) \in TypeIds
      BY <1>7, <3>1, <3>2, SettledType
    <3> QED BY <1>6, <1>8, <2>2, <3>3 DEF Declaring
  <2> QED BY <2>1, <2>2
<1>9. CASE Assigning
  <2>1. CASE Throw("CannotCoerce") \/ Throw("AssignmentMismatch")
    BY <2>1 DEF Throw
  <2>2. CASE ~(Throw("CannotCoerce") \/ Throw("AssignmentMismatch"))
    <3>1. AtExit(program, at) /\ CurrentStatement.kind = "Assign"
      BY <1>9 DEF Assigning
    <3>2. variable_map[CurrentStatement.name] \in TypeIds \cup {NoType}
      BY <3>1, StatementShape DEF AtExit, IsStatement, TCTypeOK
    <3>3. Settled(variable_map[CurrentStatement.name], ValueType) \in TypeIds
      BY <1>7, <3>1, <3>2, SettledType
    <3> QED BY <1>6, <1>9, <2>2, <3>3 DEF Assigning
  <2> QED BY <2>1, <2>2
<1>10. CASE Returning
  <2>1. CASE Throw("CannotCoerce")
    BY <2>1 DEF Throw
  <2>2. CASE ~Throw("CannotCoerce")
    <3>1. AtExit(program, at)
      BY <1>10 DEF Returning
    <3>2. <<at[1], 0, 0>> \in Addresses(program)
      BY <3>1, StatementShape DEF AtExit, Addresses, FunctionAddresses
    <3>3. Settled(resolved_type[<<at[1], 0, 0>>], ValueType) \in TypeIds
      BY <1>7, <3>1, <3>2, SettledType DEF TCTypeOK
    <3> QED BY <1>6, <1>10, <2>2, <3>3 DEF Returning
  <2> QED BY <2>1, <2>2
<1>11. CASE EnterStatement \/ VisitFunctionCall \/ Showing \/ FinishCheck \/ UNCHANGED tc_vars
  BY <1>11 DEF EnterStatement, VisitFunctionCall, Showing, FinishCheck, tc_vars, Throw
<1> QED
  BY <1>2, <1>3, <1>4, <1>5, <1>8, <1>9, <1>10, <1>11
  DEF TCNext, VisitNode, ExitStatement, TCDone

(* What holds of the places left behind is kept; what a step has to see to *)
(* are the places it leaves.                                               *)
LEMMA AnnotatedStep ==
  ASSUME TCTypeOK, Refines, AnnotatedInv, [TCNext \/ TCDone]_tc_vars,
         status \in {"checking", "checked"},
         \A a \in StatementAddresses(program) :
           /\ StatementAt(program, a).kind = "Assign" /\ Entered(a)' =>
                Entered(a) \/ DeclaresBefore(a[1], a[2], StatementAt(program, a).name)
           /\ StatementAt(program, a).kind = "Declare" /\ Left(a)' =>
                Left(a) \/ resolved_type'[a] \in TypeIds,
         \A a \in NodeAddresses(program) :
           NodeAt(program, a).kind = "Binary" /\ ~Unvisited(a)' =>
             \/ ~Unvisited(a)
             \/ /\ resolved_type'[a] \in TypeIds
                /\ NodeAt(program, a).op = "Equals" => resolved_type'[a] = "Bool"
  PROVE  AnnotatedInv'
<1>1. /\ program' = program /\ IsProgram(program, Names)
      /\ TargetsDeclared /\ DeclarationsAnnotated /\ OperatorsAnnotated
  BY ProgramsAssumption DEF Refines, TCTypeOK, AnnotatedInv
<1>2. /\ StatementAddresses(program)' = StatementAddresses(program)
      /\ NodeAddresses(program)' = NodeAddresses(program)
  BY <1>1
<1>3. \A a : /\ StatementAt(program, a)' = StatementAt(program, a)
             /\ NodeAt(program, a)' = NodeAt(program, a)
  BY <1>1 DEF NodeAt, StatementAt
<1>4. \A f, s, n : DeclaresBefore(f, s, n) => DeclaresBefore(f, s, n)'
  BY <1>1 DEF DeclaresBefore, Declares
<1>5. "Bool" \notin LiteralTypes \cup {NoType} /\ NoType \notin TypeIds
  BY DEF LiteralTypes, NoType, TypeIds, BuiltinTypes, IntTypes, SignedTypes, UnsignedTypes,
         FloatTypes, Indeterminate
<1>6. ASSUME NEW a \in StatementAddresses(program),
             StatementAt(program, a).kind = "Assign", Entered(a)'
      PROVE  DeclaresBefore(a[1], a[2], StatementAt(program, a).name)'
  BY <1>1, <1>4, <1>6 DEF TargetsDeclared, DeclaresBefore, Declares, StatementAt
<1>7. ASSUME NEW a \in StatementAddresses(program),
             StatementAt(program, a).kind = "Declare", Left(a)'
      PROVE  resolved_type'[a] # NoType
  BY <1>1, <1>5, <1>7, StatementAddressParts, WritesTypes DEF DeclarationsAnnotated
<1>8. ASSUME NEW a \in NodeAddresses(program),
             NodeAt(program, a).kind = "Binary", ~Unvisited(a)'
      PROVE  /\ resolved_type'[a] # NoType
             /\ NodeAt(program, a).op = "Equals" => resolved_type'[a] = "Bool"
  <2>1. a \in Addresses(program)
    BY <1>1, NodeAddressParts
  <2>2. CASE ~Unvisited(a)
    BY <1>1, <1>5, <1>8, <2>1, <2>2, WritesTypes DEF OperatorsAnnotated, Refines
  <2> QED BY <1>5, <1>8, <2>2
<1> QED
  BY <1>2, <1>3, <1>6, <1>7, <1>8
  DEF AnnotatedInv, TargetsDeclared, DeclarationsAnnotated, OperatorsAnnotated

(* A visit leaves one node, an exit one statement.                         *)
LEMMA EmitPlaces ==
  ASSUME TCTypeOK, AtNode(program, at), Emit
  PROVE  /\ \A a \in StatementAddresses(program) :
              (Entered(a)' => Entered(a)) /\ (Left(a)' => Left(a))
         /\ \A a \in NodeAddresses(program) : ~Unvisited(a)' => ~Unvisited(a) \/ a = at
<1>1. at'[1] = at[1] /\ at'[2] = at[2] /\ at'[3] = at[3] + 1
  BY DEF Emit
<1>2. /\ at[1] \in Nat /\ at[2] \in Nat /\ at[3] \in Nat /\ at[3] > 0 /\ at[2] > 0
      /\ at = <<at[1], at[2], at[3]>>
  BY DEF TCTypeOK, OnWalk, AtNode
<1>3. ASSUME NEW a \in NodeAddresses(program), ~Unvisited(a)'
      PROVE  ~Unvisited(a) \/ a = at
  <2>1. /\ a[1] \in Nat /\ a[2] \in Nat /\ a[3] \in Nat
        /\ a = <<a[1], a[2], a[3]>>
    BY NodeAddressParts, ProgramsAssumption DEF TCTypeOK
  <2> QED BY <1>1, <1>2, <1>3, <2>1 DEF Unvisited
<1> QED BY <1>1, <1>2, <1>3 DEF Entered, Left

LEMMA ThrowAnnotated ==
  ASSUME NEW error \in Errors, Throw(error)
  PROVE  AnnotatedInv'
BY DEF Throw, Errors, AnnotatedInv

LEMMA AnnotatedInit == TCInit => AnnotatedInv
<1> SUFFICES ASSUME TCInit PROVE AnnotatedInv
  OBVIOUS
<1>1. at[1] = 1 /\ at[2] = 0 /\ at[3] = 0 /\ IsProgram(program, Names)
  BY ProgramsAssumption DEF TCInit, FirstAddress
<1>2. \A a \in StatementAddresses(program) : ~Left(a) /\ ~Entered(a)
  BY <1>1, StatementAddressParts DEF Left, Entered
<1>3. \A a \in NodeAddresses(program) : Unvisited(a)
  BY <1>1, NodeAddressParts DEF Unvisited
<1> QED
  BY <1>2, <1>3 DEF AnnotatedInv, TargetsDeclared, DeclarationsAnnotated, OperatorsAnnotated

LEMMA AnnotatedNext ==
  ASSUME TCTypeOK, FreshInv, UsesInv, AnnotatedInv, [TCNext \/ TCDone]_tc_vars
  PROVE  AnnotatedInv'
<1> Refines
  BY ProgramFixed, FreshNext DEF Refines
<1>1. CASE EnterFunction
  <2>1. /\ AtFunction(program, at) /\ status = "checking"
        /\ at' = NextStatement(program, at) /\ program' = program
    BY <1>1 DEF EnterFunction
  <2>2. ~AtExit(program, at)
    BY <2>1, AtParts DEF AtFunction, AtExit
  <2>3. \A a \in StatementAddresses(program) : (Entered(a)' => Entered(a)) /\ (Left(a)' => Left(a))
    BY <2>1, <2>2, AdvancePlaces
  <2>4. \A a \in NodeAddresses(program) : ~Unvisited(a)' => ~Unvisited(a)
    BY <2>1, AdvanceVisited
  <2> QED BY <2>1, <2>3, <2>4, AnnotatedStep
<1>2. CASE EnterStatement
  <2>1. CASE Throw("UndeclaredVariable")
    BY <2>1, ThrowAnnotated DEF Errors
  <2>2. CASE ~Throw("UndeclaredVariable")
    <3>1. /\ at' = Operand(1) /\ AtEntry(program, at) /\ status = "checking"
          /\ ~(CurrentStatement.kind = "Assign" /\ variable_map[CurrentStatement.name] = NoType)
      BY <1>2, <2>2 DEF EnterStatement
    <3>2. /\ at'[1] = at[1] /\ at'[2] = at[2] /\ at'[3] = 1 /\ at[3] = 0
          /\ at[2] > 0 /\ ~AtEnd(program, at)
      BY <3>1 DEF Operand, AtEntry
    <3>3. ASSUME NEW a \in StatementAddresses(program),
                 StatementAt(program, a).kind = "Assign", Entered(a)'
          PROVE  Entered(a) \/ DeclaresBefore(a[1], a[2], StatementAt(program, a).name)
      <4>1. CASE a[1] = at[1] /\ a[2] = at[2]
        <5>1. StatementAt(program, a) = CurrentStatement
          BY <4>1 DEF StatementAt, CurrentStatement
        <5>2. CurrentStatement.name \in Names /\ variable_map[CurrentStatement.name] # NoType
          BY <3>1, <3>2, <3>3, <5>1, StatementShape DEF IsStatement
        <5>3. DeclaredAs(at[1], at[2], CurrentStatement.name, variable_map[CurrentStatement.name])
          BY <3>1, <3>2, <5>2 DEF UsesInv, TableFollows
        <5> QED BY <4>1, <5>1, <5>3 DEF DeclaredAs, LatestDeclaration, DeclaresBefore
      <4>2. CASE ~(a[1] = at[1] /\ a[2] = at[2])
        BY <3>2, <3>3, <4>2 DEF Entered, Left
      <4> QED BY <4>1, <4>2
    <3>4. \A a \in StatementAddresses(program) : Left(a)' => Left(a)
      BY <3>2 DEF Left
    <3>5. ASSUME NEW a \in NodeAddresses(program), ~Unvisited(a)' PROVE ~Unvisited(a)
      <4>1. a[1] \in Nat /\ a[2] \in Nat /\ a[3] \in 1 .. Len(StatementAt(program, a).value)
            /\ Len(StatementAt(program, a).value) \in Nat
        BY NodeAddressParts, ProgramsAssumption DEF TCTypeOK
      <4> QED BY <3>2, <3>5, <4>1, AtParts DEF Unvisited
    <3> QED BY <3>1, <3>3, <3>4, <3>5, AnnotatedStep
  <2> QED BY <2>1, <2>2
<1>3. ASSUME AtNode(program, at), status = "checking", Emit,
             CurrentNode.kind = "Binary" =>
               /\ resolved_type'[at] \in TypeIds
               /\ CurrentNode.op = "Equals" => resolved_type'[at] = "Bool"
      PROVE  AnnotatedInv'
  <2>1. ASSUME NEW a \in NodeAddresses(program),
               NodeAt(program, a).kind = "Binary", ~Unvisited(a)'
        PROVE  \/ ~Unvisited(a)
               \/ /\ resolved_type'[a] \in TypeIds
                  /\ NodeAt(program, a).op = "Equals" => resolved_type'[a] = "Bool"
    BY <1>3, <2>1, EmitPlaces DEF CurrentNode
  <2>2. \A a \in StatementAddresses(program) : (Entered(a)' => Entered(a)) /\ (Left(a)' => Left(a))
    BY <1>3, EmitPlaces
  <2> QED BY <1>3, <2>1, <2>2, AnnotatedStep
<1>4. CASE VisitLiteral
  BY <1>3, <1>4 DEF VisitLiteral, LiteralTypes
<1>5. CASE VisitVariable
  BY <1>3, <1>5, ThrowAnnotated DEF VisitVariable, Errors
<1>6. CASE VisitFunctionCall
  BY <1>3, <1>6 DEF VisitFunctionCall
<1>7. CASE VisitBinary
  <2>1. CASE Throw("CannotCoerce") \/ Throw("OperandMismatch")
    BY <2>1, ThrowAnnotated DEF Errors
  <2>2. CASE ~(Throw("CannotCoerce") \/ Throw("OperandMismatch"))
    <3> DEFINE type ==
          BinaryType(CurrentNode.op, emitted[CurrentNode.lhs], emitted[CurrentNode.rhs])
    <3>1. /\ AtNode(program, at) /\ status = "checking" /\ Emit /\ CurrentNode.kind = "Binary"
          /\ resolved_type' = [resolved_type EXCEPT
               ![Operand(CurrentNode.lhs)] = Annotated(@, emitted[CurrentNode.lhs],
                   OperandType(emitted[CurrentNode.lhs], emitted[CurrentNode.rhs])),
               ![Operand(CurrentNode.rhs)] = Annotated(@, emitted[CurrentNode.rhs],
                   OperandType(emitted[CurrentNode.rhs], emitted[CurrentNode.lhs])),
               ![at] = type]
      BY <1>7, <2>2 DEF VisitBinary
    <3>2. type \in TypeIds
      BY <3>1, NodeShape, BinaryTypeType
    <3>3. CurrentNode.op = "Equals" => type = "Bool"
      BY DEF BinaryType
    <3>4. at \in Addresses(program)
      <4>1. at = Operand(at[3]) /\ at[3] \in 1 .. Len(CurrentStatement.value)
        BY <3>1, NodeShape, AtParts DEF Operand, TCTypeOK, OnWalk
      <4> QED BY <3>1, <4>1, OperandAddress DEF InStatement
    <3> HIDE DEF type
    <3>5. resolved_type'[at] = type
      BY <3>1, <3>4 DEF TCTypeOK
    <3> QED BY <1>3, <3>1, <3>2, <3>3, <3>5
  <2> QED BY <2>1, <2>2
<1>8. ASSUME AtExit(program, at), status = "checking", NEW type, FinishStatement(type),
             CurrentStatement.kind = "Declare" => resolved_type'[StatementNode] \in TypeIds
      PROVE  AnnotatedInv'
  <2>1. CASE type \in LiteralTypes
    BY <1>8, <2>1 DEF FinishStatement, AnnotatedInv
  <2>2. CASE type \notin LiteralTypes
    <3>1. at' = NextStatement(program, at) /\ program' = program
      BY <1>8, <2>2 DEF FinishStatement
    <3>2. StatementAt(program, StatementNode) = CurrentStatement
      BY DEF StatementAt, StatementNode, CurrentStatement
    <3>3. \A a \in StatementAddresses(program) :
            (Entered(a)' => Entered(a)) /\ (Left(a)' => Left(a) \/ a = StatementNode)
      BY <1>8, <3>1, AdvancePlaces
    <3>4. \A a \in NodeAddresses(program) : ~Unvisited(a)' => ~Unvisited(a)
      BY <1>8, <3>1, AdvanceVisited
    <3>5. ASSUME NEW a \in StatementAddresses(program),
                 StatementAt(program, a).kind = "Declare", Left(a)'
          PROVE  Left(a) \/ resolved_type'[a] \in TypeIds
      BY <1>8, <3>2, <3>3, <3>5
    <3> QED BY <1>8, <3>3, <3>4, <3>5, AnnotatedStep
  <2> QED BY <2>1, <2>2
<1>9. CASE Declaring
  <2>1. CASE Throw("CannotCoerce") \/ Throw("DeclarationMismatch")
    BY <2>1, ThrowAnnotated DEF Errors
  <2>2. CASE ~(Throw("CannotCoerce") \/ Throw("DeclarationMismatch"))
    <3> DEFINE type == Settled(CurrentStatement.annotation, ValueType)
    <3>1. /\ AtExit(program, at) /\ status = "checking" /\ FinishStatement(type)
          /\ CurrentStatement.kind = "Declare"
          /\ resolved_type' = [resolved_type EXCEPT
                ![ValueNode] = Annotated(@, ValueType, type), ![StatementNode] = type]
      BY <1>9, <2>2 DEF Declaring
    <3>2. CurrentStatement.annotation \in TypeIds \cup {NoType}
      BY <3>1, StatementShape DEF AtExit, IsStatement, TypeIds
    <3>3. type \in TypeIds
      BY <3>1, <3>2, SettledType, ValueShape
    <3>4. StatementNode \in Addresses(program)
      BY <3>1, StatementShape, StatementAddress DEF AtExit, StatementNode
    <3> HIDE DEF type
    <3>5. resolved_type'[StatementNode] = type
      BY <3>1, <3>4 DEF TCTypeOK
    <3> QED BY <1>8, <3>1, <3>3, <3>5
  <2> QED BY <2>1, <2>2
<1>10. CASE Assigning
  <2>1. CASE Throw("CannotCoerce") \/ Throw("AssignmentMismatch")
    BY <2>1, ThrowAnnotated DEF Errors
  <2>2. CASE ~(Throw("CannotCoerce") \/ Throw("AssignmentMismatch"))
    BY <1>8, <1>10, <2>2 DEF Assigning
  <2> QED BY <2>1, <2>2
<1>11. CASE Showing
  BY <1>8, <1>11 DEF Showing
<1>12. CASE Returning
  <2>1. CASE Throw("CannotCoerce")
    BY <2>1, ThrowAnnotated DEF Errors
  <2>2. CASE ~Throw("CannotCoerce")
    BY <1>8, <1>12, <2>2 DEF Returning
  <2> QED BY <2>1, <2>2
<1>13. CASE FinishCheck \/ UNCHANGED tc_vars
  <2>1. at' = at /\ (status = "checking" \/ status' = status)
    BY <1>13 DEF FinishCheck, tc_vars
  <2>2. CASE status \in {"checking", "checked"}
    BY <2>1, <2>2, AnnotatedStep DEF Entered, Left, Unvisited
  <2>3. CASE status \notin {"checking", "checked"}
    BY <2>1, <2>3 DEF AnnotatedInv
  <2> QED BY <2>2, <2>3
<1> QED
  BY <1>1, <1>2, <1>4, <1>5, <1>6, <1>7, <1>9, <1>10, <1>11, <1>12, <1>13
  DEF TCNext, VisitNode, ExitStatement, TCDone

LEMMA OperandsOf ==
  ASSUME NEW prog, IsProgram(prog, Names), NEW a \in NodeAddresses(prog),
         NodeAt(prog, a).kind = "Binary"
  PROVE  /\ <<a[1], a[2], NodeAt(prog, a).lhs>> \in Addresses(prog)
         /\ <<a[1], a[2], NodeAt(prog, a).rhs>> \in Addresses(prog)
         /\ <<a[1], a[2], NodeAt(prog, a).lhs>> \in NodeAddresses(prog)
         /\ NodeAt(prog, a).lhs \in 1 .. (a[3] - 1) /\ NodeAt(prog, a).rhs \in 1 .. (a[3] - 1)
<1>1. PICK f, s, e : f = a[1] /\ s = a[2] /\ e = a[3]
  OBVIOUS
<1>2. /\ f \in 1 .. Len(prog) /\ s \in 1 .. Len(prog[f].statements)
      /\ e \in 1 .. Len(prog[f].statements[s].value)
      /\ Len(prog[f].statements[s].value) \in Nat
  BY <1>1, NodeAddressParts DEF StatementAt
<1>3. PICK stmt : stmt = prog[f].statements[s]
  OBVIOUS
<1>4. IsStatement(stmt, Names)
  BY <1>2, <1>3 DEF IsProgram
<1>5. PICK node : node = stmt.value[e]
  OBVIOUS
<1>6. node = NodeAt(prog, a)
  BY <1>1, <1>3, <1>5 DEF NodeAt, StatementAt
<1>7. node.lhs \in 1 .. (e - 2) /\ node.rhs = e - 1
  BY <1>2, <1>3, <1>4, <1>5, <1>6 DEF IsStatement, IsExpression
<1>8. /\ node.lhs \in 1 .. Len(prog[f].statements[s].value) /\ node.lhs \in 1 .. (e - 1)
      /\ node.rhs \in 1 .. Len(prog[f].statements[s].value) /\ node.rhs \in 1 .. (e - 1)
  <2>1. PICK n, lhs, rhs : /\ n = Len(prog[f].statements[s].value)
                           /\ lhs = node.lhs /\ rhs = node.rhs
    OBVIOUS
  <2>2. n \in Nat /\ e \in 1 .. n /\ lhs \in 1 .. (e - 2) /\ rhs = e - 1
    BY <1>2, <1>7, <2>1
  <2>3. lhs \in 1 .. n /\ lhs \in 1 .. (e - 1) /\ rhs \in 1 .. n /\ rhs \in 1 .. (e - 1)
    BY <2>2
  <2> QED BY <2>1, <2>3
<1>9. /\ <<f, s, node.lhs>> \in NodeAddresses(prog) /\ <<f, s, node.lhs>> \in Addresses(prog)
      /\ <<f, s, node.rhs>> \in Addresses(prog)
  BY <1>2, <1>8, NodeAddress
<1> QED BY <1>1, <1>6, <1>8, <1>9

----------------------------------------------------------------------------
(* What the checker leaves of an operator: one of its operands has its     *)
(* type, is a call, or was settled with the other as a literal.            *)
Concrete(type) == type \notin LiteralTypes \cup {NoType}

SharesType(a, b) ==
  \/ NodeAt(program, b).kind = "FunctionCall"
  \/ resolved_type[b] \in {"Int32", "Float64"}
  \/ Concrete(resolved_type[b]) /\ resolved_type[b] = resolved_type[a]

EmittedKept ==
  \A i \in 1 .. (at[3] - 1) :
    CurrentStatement.value[i].kind # "FunctionCall" /\ emitted[i] \notin LiteralTypes =>
      resolved_type[Operand(i)] = emitted[i]

Arithmetical(a) == NodeAt(program, a).kind = "Binary" /\ NodeAt(program, a).op # "Equals"

HasSharingOperand(a) ==
  \E o \in {NodeAt(program, a).lhs, NodeAt(program, a).rhs} : SharesType(a, <<a[1], a[2], o>>)

OperandsShare ==
  \A a \in NodeAddresses(program) : Arithmetical(a) /\ ~Unvisited(a) => HasSharingOperand(a)

OperandsInv ==
  /\ status = "checking" /\ InStatement => EmittedKept
  /\ status \in {"checking", "checked"} => OperandsShare

LEMMA TypeIdsAreTypes == NoType \notin TypeIds
BY DEF NoType, TypeIds, BuiltinTypes, IntTypes, SignedTypes, UnsignedTypes, FloatTypes,
       LiteralTypes, Indeterminate

LEMMA SharesKept ==
  ASSUME IsProgram(program, Names), Refines, NEW a \in NodeAddresses(program),
         Arithmetical(a), HasSharingOperand(a)
  PROVE  HasSharingOperand(a)'
<1>1. program' = program
  BY DEF Refines
<1>2. PICK node : node = NodeAt(program, a)
  OBVIOUS
<1>3. PICK o : o \in {node.lhs, node.rhs} /\ SharesType(a, <<a[1], a[2], o>>)
  BY <1>2 DEF HasSharingOperand
<1>4. PICK b : b = <<a[1], a[2], o>>
  OBVIOUS
<1>5. node.kind = "Binary"
  BY <1>2 DEF Arithmetical
<1>6. a \in Addresses(program) /\ b \in Addresses(program)
  BY <1>2, <1>3, <1>4, <1>5, OperandsOf, NodeAddressParts
<1>7. SharesType(a, b)
  BY <1>3, <1>4
<1>8. "Int32" \notin LiteralTypes \cup {NoType} /\ "Float64" \notin LiteralTypes \cup {NoType}
  BY DEF LiteralTypes, NoType
<1>9. SharesType(a, b)'
  <2>1. NodeAt(program, b)' = NodeAt(program, b)
    BY <1>1 DEF NodeAt, StatementAt
  <2>2. CASE NodeAt(program, b).kind = "FunctionCall"
    BY <2>1, <2>2 DEF SharesType
  <2>3. CASE resolved_type[b] \in {"Int32", "Float64"}
    <3>1. resolved_type'[b] = resolved_type[b]
      BY <1>6, <1>8, <2>3 DEF Refines
    <3> QED BY <2>3, <3>1 DEF SharesType
  <2>4. CASE Concrete(resolved_type[b]) /\ resolved_type[b] = resolved_type[a]
    <3>1. resolved_type'[b] = resolved_type[b] /\ resolved_type'[a] = resolved_type[a]
      BY <1>6, <2>4 DEF Refines, Concrete
    <3> QED BY <2>4, <3>1 DEF SharesType, Concrete
  <2> QED BY <1>7, <2>2, <2>3, <2>4 DEF SharesType
<1>10. NodeAt(program, a)' = node
  BY <1>1, <1>2 DEF NodeAt, StatementAt
<1> QED BY <1>3, <1>4, <1>9, <1>10 DEF HasSharingOperand

LEMMA OperandsStep ==
  ASSUME TCTypeOK, Refines, OperandsInv, status \in {"checking", "checked"},
         status' = "checking" /\ InStatement' => EmittedKept',
         \A a \in NodeAddresses(program) :
           Arithmetical(a) /\ ~Unvisited(a)' => ~Unvisited(a) \/ HasSharingOperand(a)'
  PROVE  OperandsInv'
<1>1. program' = program /\ IsProgram(program, Names)
  BY ProgramsAssumption DEF Refines, TCTypeOK
<1>2. \A a : Arithmetical(a)' <=> Arithmetical(a)
  BY <1>1 DEF Arithmetical, NodeAt, StatementAt
<1>3. ASSUME NEW a \in NodeAddresses(program), Arithmetical(a), ~Unvisited(a)'
      PROVE  HasSharingOperand(a)'
  <2>1. CASE ~Unvisited(a)
    <3>1. HasSharingOperand(a)
      BY <1>3, <2>1 DEF OperandsInv, OperandsShare
    <3> QED BY <1>1, <1>3, <3>1, SharesKept
  <2> QED BY <1>3, <2>1
<1>4. OperandsShare'
  BY <1>1, <1>2, <1>3 DEF OperandsShare
<1> QED BY <1>4 DEF OperandsInv

LEMMA EmitOperands ==
  ASSUME TCTypeOK, Refines, OperandsInv, status = "checking", AtNode(program, at), Emit,
         NEW here, here = at, NEW type, type = result',
         CurrentNode.kind # "FunctionCall" /\ type \notin LiteralTypes =>
           resolved_type'[here] = type,
         Arithmetical(here) => HasSharingOperand(here)'
  PROVE  OperandsInv'
<1>1. /\ at'[1] = here[1] /\ at'[2] = here[2] /\ at'[3] = here[3] + 1
      /\ program' = program /\ emitted' = Append(emitted, type)
  BY DEF Emit
<1>2. /\ here[3] \in Nat /\ Len(emitted) = here[3] - 1 /\ emitted \in Seq(TypeIds)
      /\ here[1] \in Nat /\ here[2] \in Nat /\ here = <<here[1], here[2], here[3]>>
  BY DEF TCTypeOK, OnWalk
<1>3. /\ emitted'[here[3]] = type
      /\ \A i \in 1 .. here[3] - 1 : emitted'[i] = emitted[i]
  <2>1. IsSequence(emitted)
    BY <1>2 DEF IsSequence
  <2>2. /\ Append(emitted, type)[Len(emitted) + 1] = type
        /\ \A i \in 1 .. Len(emitted) : Append(emitted, type)[i] = emitted[i]
    BY <2>1, Appending
  <2> QED BY <1>1, <1>2, <2>2
<1>4. /\ CurrentStatement' = CurrentStatement
      /\ \A i : Operand(i)' = <<here[1], here[2], i>> /\ Operand(i) = <<here[1], here[2], i>>
  BY <1>1 DEF CurrentStatement, StatementAt, Operand
<1>5. InStatement /\ EmittedKept /\ Len(CurrentStatement.value) \in Nat
      /\ here[3] \in 1 .. Len(CurrentStatement.value)
  BY NodeShape DEF OperandsInv, InStatement
<1>6. CurrentNode = CurrentStatement.value[here[3]]
  BY DEF CurrentNode, NodeAt, CurrentStatement
<1>7. ASSUME NEW i \in 1 .. (at'[3] - 1), CurrentStatement.value[i].kind # "FunctionCall",
             emitted'[i] \notin LiteralTypes
      PROVE  resolved_type'[<<here[1], here[2], i>>] = emitted'[i]
  <2>1. CASE i = here[3]
    BY <1>2, <1>3, <1>6, <1>7, <2>1
  <2>2. CASE i # here[3]
    <3>1. i \in 1 .. (here[3] - 1) /\ i \in 1 .. Len(CurrentStatement.value)
      BY <1>1, <1>2, <1>5, <1>7, <2>2
    <3>2. emitted'[i] = emitted[i] /\ emitted[i] \in TypeIds
      BY <1>2, <1>3, <3>1
    <3>3. resolved_type[<<here[1], here[2], i>>] = emitted[i]
      BY <1>4, <1>5, <1>7, <3>1, <3>2 DEF EmittedKept
    <3>4. <<here[1], here[2], i>> \in Addresses(program)
      BY <1>4, <1>5, <3>1, OperandAddress
    <3>5. emitted[i] \notin LiteralTypes \cup {NoType}
      BY <1>7, <3>2, TypeIdsAreTypes
    <3> QED BY <3>2, <3>3, <3>4, <3>5 DEF Refines
  <2> QED BY <2>1, <2>2
<1>8. EmittedKept'
  BY <1>4, <1>7 DEF EmittedKept
<1>9. \A a \in NodeAddresses(program) :
        Arithmetical(a) /\ ~Unvisited(a)' => ~Unvisited(a) \/ HasSharingOperand(a)'
  BY EmitPlaces
<1> QED BY <1>8, <1>9, OperandsStep

LEMMA BinaryOperands ==
  ASSUME TCTypeOK, FreshInv, Refines, OperandsInv, VisitBinary,
         ~Throw("CannotCoerce"), ~Throw("OperandMismatch")
  PROVE  OperandsInv'
<1>1. PICK here : here = at
  OBVIOUS
<1>2. PICK l, r, op : l = CurrentNode.lhs /\ r = CurrentNode.rhs /\ op = CurrentNode.op
  OBVIOUS
<1>3. PICK lhs, rhs : lhs = emitted[l] /\ rhs = emitted[r]
  OBVIOUS
<1>4. PICK type : type = result'
  OBVIOUS
<1>5. /\ AtNode(program, at) /\ CurrentNode.kind = "Binary" /\ status = "checking" /\ Emit
      /\ type = BinaryType(op, lhs, rhs) /\ OperandsFit(lhs, rhs) /\ OperandsMatch(lhs, rhs)
      /\ resolved_type' = [resolved_type EXCEPT
            ![Operand(l)] = Annotated(@, lhs, OperandType(lhs, rhs)),
            ![Operand(r)] = Annotated(@, rhs, OperandType(rhs, lhs)),
            ![at] = type]
  BY <1>2, <1>3, <1>4 DEF VisitBinary
<1>6. /\ l \in 1 .. at[3] - 1 /\ r \in 1 .. at[3] - 1
      /\ Operand(l) \in Addresses(program) /\ Operand(r) \in Addresses(program)
      /\ Operand(l) # here /\ Operand(r) # here
  BY <1>1, <1>2, <1>5, OperandUnread
<1>7. /\ here = Operand(here[3]) /\ here \in Addresses(program)
  <2>1. at = Operand(at[3]) /\ at[3] \in 1 .. Len(CurrentStatement.value)
    BY <1>5, NodeShape, AtParts DEF Operand, TCTypeOK, OnWalk
  <2> QED BY <1>1, <1>5, <2>1, OperandAddress DEF InStatement
<1>8. l # r
  <2>1. /\ IsStatement(CurrentStatement, Names) /\ at[3] \in 1 .. Len(CurrentStatement.value)
        /\ at[3] \in Nat
    BY <1>5, StatementShape, NodeShape, AtParts DEF AtNode
  <2>2. CurrentNode = CurrentStatement.value[at[3]]
    BY DEF CurrentNode, NodeAt, CurrentStatement
  <2>3. l \in 1 .. (at[3] - 2) /\ r = at[3] - 1
    BY <1>2, <1>5, <2>1, <2>2 DEF IsStatement, IsExpression
  <2> QED BY <2>1, <2>3
<1>9. Operand(l) # Operand(r)
  BY <1>8 DEF Operand
<1>10. /\ resolved_type'[here] = type
       /\ resolved_type'[Operand(l)] = Annotated(resolved_type[Operand(l)], lhs, OperandType(lhs, rhs))
       /\ resolved_type'[Operand(r)] = Annotated(resolved_type[Operand(r)], rhs, OperandType(rhs, lhs))
  <2>1. PICK a, b : a = Operand(l) /\ b = Operand(r)
    OBVIOUS
  <2>2. resolved_type = [x \in Addresses(program) |-> resolved_type[x]]
    BY DEF TCTypeOK
  <2>3. a # b /\ a # here /\ b # here /\ a \in Addresses(program) /\ b \in Addresses(program)
        /\ here \in Addresses(program)
    BY <1>6, <1>7, <1>9, <2>1
  <2>4. resolved_type' = [resolved_type EXCEPT
            ![a] = Annotated(@, lhs, OperandType(lhs, rhs)),
            ![b] = Annotated(@, rhs, OperandType(rhs, lhs)),
            ![here] = type]
    BY <1>1, <1>5, <2>1
  <2> QED BY <2>1, <2>2, <2>3, <2>4
<1>11. lhs \in TypeIds /\ rhs \in TypeIds
  BY <1>2, <1>3, <1>5, NodeShape
<1>12. InStatement /\ EmittedKept
  BY <1>5 DEF OperandsInv, InStatement
<1>13. program' = program /\ here = <<here[1], here[2], here[3]>>
  BY <1>1, <1>5 DEF Emit, TCTypeOK, OnWalk
<1>14. ASSUME NEW o
       PROVE  /\ Operand(o) = <<here[1], here[2], o>>
              /\ NodeAt(program, <<here[1], here[2], o>>) = CurrentStatement.value[o]
              /\ NodeAt(program, <<here[1], here[2], o>>)' = CurrentStatement.value[o]
  <2>1. /\ Operand(o) = <<here[1], here[2], o>>
        /\ NodeAt(program, <<here[1], here[2], o>>) = CurrentStatement.value[o]
    BY <1>1 DEF NodeAt, StatementAt, Operand, CurrentStatement
  <2>2. NodeAt(program, <<here[1], here[2], o>>)' = NodeAt(program, <<here[1], here[2], o>>)
    BY <1>13 DEF NodeAt, StatementAt
  <2> QED BY <2>1, <2>2
<1>15. NodeAt(program, here)' = CurrentNode /\ NodeAt(program, here) = CurrentNode
  BY <1>1, <1>13 DEF NodeAt, StatementAt, CurrentNode
<1>16. ASSUME NEW o \in {l, r}, SharesType(here, <<here[1], here[2], o>>)'
       PROVE  HasSharingOperand(here)'
  BY <1>2, <1>15, <1>16 DEF HasSharingOperand
<1>17. ASSUME NEW o \in {l, r}, resolved_type'[Operand(o)] \in {"Int32", "Float64"}
       PROVE  HasSharingOperand(here)'
  <2>1. SharesType(here, <<here[1], here[2], o>>)'
    BY <1>14, <1>17 DEF SharesType
  <2> QED BY <1>16, <2>1
<1>18. ASSUME NEW o \in {l, r}, resolved_type'[Operand(o)] = type, type \in TypeIds \ LiteralTypes
       PROVE  HasSharingOperand(here)'
  <2>1. NoType \notin TypeIds
    BY TypeIdsAreTypes
  <2>2. resolved_type'[<<here[1], here[2], o>>] = type /\ Concrete(type)
    BY <1>14, <1>18, <2>1 DEF Concrete
  <2>3. SharesType(here, <<here[1], here[2], o>>)'
    BY <1>10, <2>2 DEF SharesType, Concrete
  <2> QED BY <1>16, <2>3
<1>19. ASSUME Arithmetical(here)
       PROVE  HasSharingOperand(here)'
  <2>1. op # "Equals"
    BY <1>2, <1>15, <1>19 DEF Arithmetical
  <2>2. CASE lhs \in LiteralTypes /\ rhs \in LiteralTypes
    <3>1. OperandType(lhs, rhs) \in {"Int32", "Float64"}
      BY <2>2 DEF OperandType
    <3>2. resolved_type'[Operand(l)] \in {"Int32", "Float64"}
      BY <1>10, <2>2, <3>1 DEF Annotated
    <3> QED BY <1>17, <3>2
  <2>3. CASE lhs \in LiteralTypes /\ rhs \notin LiteralTypes
    <3>1. OperandType(lhs, rhs) = rhs /\ type = rhs
      BY <1>5, <2>1, <2>3 DEF OperandType, BinaryType
    <3>2. resolved_type'[Operand(l)] = type
      BY <1>10, <2>3, <3>1 DEF Annotated
    <3> QED BY <1>11, <1>18, <2>3, <3>1, <3>2
  <2>4. CASE lhs \notin LiteralTypes /\ rhs \in LiteralTypes
    <3>1. OperandType(rhs, lhs) = lhs /\ type = lhs
      BY <1>5, <2>1, <2>4 DEF OperandType, BinaryType
    <3>2. resolved_type'[Operand(r)] = type
      BY <1>10, <2>4, <3>1 DEF Annotated
    <3> QED BY <1>11, <1>18, <2>4, <3>1, <3>2
  <2>5. CASE lhs \notin LiteralTypes /\ rhs \notin LiteralTypes
    <3>1. OperandType(rhs, lhs) = rhs /\ type = rhs
      BY <1>5, <2>1, <2>5 DEF OperandType, BinaryType
    <3>2. resolved_type'[Operand(r)] = resolved_type[Operand(r)]
      BY <1>10, <2>5 DEF Annotated
    <3>3. CASE CurrentStatement.value[r].kind = "FunctionCall"
      <4>1. SharesType(here, <<here[1], here[2], r>>)'
        BY <1>14, <3>3 DEF SharesType
      <4> QED BY <1>16, <4>1
    <3>4. CASE CurrentStatement.value[r].kind # "FunctionCall"
      <4>1. resolved_type[Operand(r)] = rhs
        BY <1>3, <1>6, <1>12, <2>5, <3>4 DEF EmittedKept
      <4> QED BY <1>11, <1>18, <2>5, <3>1, <3>2, <4>1
    <3> QED BY <3>3, <3>4
  <2> QED BY <2>2, <2>3, <2>4, <2>5
<1>20. resolved_type'[here] = type
  BY <1>10
<1> QED BY <1>1, <1>4, <1>5, <1>19, <1>20, EmitOperands

LEMMA OperandsInit == TCInit => OperandsInv
<1> SUFFICES ASSUME TCInit PROVE OperandsInv
  OBVIOUS
<1>1. at[1] = 1 /\ at[2] = 0 /\ at[3] = 0 /\ IsProgram(program, Names)
  BY ProgramsAssumption DEF TCInit, FirstAddress
<1>2. \A a \in NodeAddresses(program) : Unvisited(a)
  BY <1>1, NodeAddressParts DEF Unvisited
<1> QED BY <1>1, <1>2 DEF OperandsInv, OperandsShare, EmittedKept

LEMMA ThrowOperands ==
  ASSUME NEW error \in Errors, Throw(error)
  PROVE  OperandsInv'
BY DEF Throw, Errors, OperandsInv

LEMMA OperandsNext ==
  ASSUME TCTypeOK, FreshInv, OperandsInv, [TCNext \/ TCDone]_tc_vars
  PROVE  OperandsInv'
<1> Refines
  BY ProgramFixed, FreshNext DEF Refines
<1> PICK node : node = CurrentNode
  OBVIOUS
<1>1. ASSUME AtFunction(program, at) \/ AtExit(program, at), status = "checking",
             program' = program, at' = NextStatement(program, at)
      PROVE  OperandsInv'
  <2>1. at'[3] = 0
    BY <1>1 DEF NextStatement
  <2>2. EmittedKept'
    BY <2>1 DEF EmittedKept
  <2>3. \A a \in NodeAddresses(program) : ~Unvisited(a)' => ~Unvisited(a)
    BY <1>1, AdvanceVisited
  <2> QED BY <1>1, <2>2, <2>3, OperandsStep
<1>2. CASE EnterFunction
  BY <1>1, <1>2 DEF EnterFunction
<1>3. CASE EnterStatement
  <2>1. CASE Throw("UndeclaredVariable")
    BY <2>1, ThrowOperands DEF Errors
  <2>2. CASE ~Throw("UndeclaredVariable")
    <3>1. at' = Operand(1) /\ AtEntry(program, at) /\ status = "checking"
      BY <1>3, <2>2 DEF EnterStatement
    <3>2. /\ at'[1] = at[1] /\ at'[2] = at[2] /\ at'[3] = 1 /\ at[3] = 0
          /\ at[2] > 0 /\ ~AtEnd(program, at)
      BY <3>1 DEF Operand, AtEntry
    <3>3. ASSUME NEW a \in NodeAddresses(program), ~Unvisited(a)' PROVE ~Unvisited(a)
      <4>1. a[1] \in Nat /\ a[2] \in Nat /\ a[3] \in 1 .. Len(StatementAt(program, a).value)
            /\ Len(StatementAt(program, a).value) \in Nat
        BY NodeAddressParts, ProgramsAssumption DEF TCTypeOK
      <4> QED BY <3>2, <3>3, <4>1, AtParts DEF Unvisited
    <3>4. EmittedKept'
      BY <3>2 DEF EmittedKept
    <3> QED BY <3>1, <3>3, <3>4, OperandsStep
  <2> QED BY <2>1, <2>2
<1>4. ASSUME AtNode(program, at), status = "checking", Emit, node.kind # "Binary",
             NEW here, here = at,
             node.kind # "FunctionCall" => resolved_type' = [resolved_type EXCEPT ![here] = result']
      PROVE  OperandsInv'
  <2>1. here \in Addresses(program)
    <3>1. at = Operand(at[3]) /\ at[3] \in 1 .. Len(CurrentStatement.value)
      BY <1>4, NodeShape, AtParts DEF Operand, TCTypeOK, OnWalk
    <3> QED BY <1>4, <3>1, OperandAddress DEF InStatement
  <2>2. node.kind # "FunctionCall" => resolved_type'[here] = result'
    BY <1>4, <2>1 DEF TCTypeOK
  <2>3. ~Arithmetical(here)
    BY <1>4 DEF Arithmetical, CurrentNode
  <2> QED BY <1>4, <2>2, <2>3, EmitOperands
<1>5. CASE VisitLiteral
  <2>1. node.kind # "Binary"
    BY <1>5 DEF VisitLiteral, LiteralTypes
  <2> QED BY <1>4, <1>5, <2>1 DEF VisitLiteral
<1>6. CASE VisitVariable
  <2>1. CASE Throw("UndeclaredVariable")
    BY <2>1, ThrowOperands DEF Errors
  <2>2. CASE ~Throw("UndeclaredVariable")
    BY <1>4, <1>6, <2>2 DEF VisitVariable
  <2> QED BY <2>1, <2>2
<1>7. CASE VisitFunctionCall
  BY <1>4, <1>7 DEF VisitFunctionCall
<1>8. CASE VisitBinary
  BY <1>8, ThrowOperands, BinaryOperands DEF Errors
<1>9. ASSUME AtExit(program, at), status = "checking", NEW type, FinishStatement(type)
      PROVE  OperandsInv'
  <2>1. CASE type \in LiteralTypes
    BY <1>9, <2>1 DEF FinishStatement, OperandsInv
  <2>2. CASE type \notin LiteralTypes
    BY <1>1, <1>9, <2>2 DEF FinishStatement
  <2> QED BY <2>1, <2>2
<1>10. CASE ExitStatement
  <2>1. CASE Declaring
    BY <1>9, <2>1, ThrowOperands DEF Declaring, Errors
  <2>2. CASE Assigning
    BY <1>9, <2>2, ThrowOperands DEF Assigning, Errors
  <2>3. CASE Showing
    BY <1>9, <2>3 DEF Showing
  <2>4. CASE Returning
    BY <1>9, <2>4, ThrowOperands DEF Returning, Errors
  <2> QED BY <1>10, <2>1, <2>2, <2>3, <2>4 DEF ExitStatement
<1>11. CASE FinishCheck \/ UNCHANGED tc_vars
  <2>1. /\ at' = at /\ (status = "checking" \/ status' = status)
        /\ program' = program /\ resolved_type' = resolved_type /\ emitted' = emitted
    BY <1>11 DEF FinishCheck, tc_vars
  <2>2. CASE status \in {"checking", "checked"}
    <3>1. status' = "checking" => status = "checking"
      BY <1>11, <2>1 DEF FinishCheck, tc_vars
    <3>2. EmittedKept' <=> EmittedKept
      BY <2>1 DEF EmittedKept, CurrentStatement, StatementAt, Operand
    <3>3. InStatement' => InStatement
      BY <2>1 DEF InStatement
    <3>4. \A a \in NodeAddresses(program) : ~Unvisited(a)' => ~Unvisited(a)
      BY <2>1 DEF Unvisited
    <3>5. status' = "checking" /\ InStatement' => EmittedKept'
      BY <3>1, <3>2, <3>3 DEF OperandsInv
    <3> QED BY <2>2, <3>4, <3>5, OperandsStep
  <2>3. CASE status \notin {"checking", "checked"}
    BY <2>1, <2>3 DEF OperandsInv
  <2> QED BY <2>2, <2>3
<1> QED
  BY <1>2, <1>3, <1>5, <1>6, <1>7, <1>8, <1>10, <1>11
  DEF TCNext, VisitNode, TCDone

(* What the checker leaves, once it is done.                               *)
OperandsTree == \A a \in NodeAddresses(program) : Arithmetical(a) => HasSharingOperand(a)

LEMMA CheckerOperands ==
  ASSUME TCTypeOK, LiteralInv, OperandsInv, status = "checked"
  PROVE  OperandsTree
<1>1. IsProgram(program, Names) /\ AtEnd(program, at)
  BY ProgramsAssumption DEF TCTypeOK, LiteralInv
<1>2. \A a \in NodeAddresses(program) : ~Unvisited(a)
  BY <1>1, NodeAddressParts, AtParts DEF AtEnd, Unvisited
<1> QED BY <1>2 DEF OperandsInv, OperandsShare, OperandsTree
============================================================================
