--------------------------- MODULE CodegenProofs ---------------------------
(***************************************************************************)
(* Proofs about the code generator, for any set of programs and any        *)
(* garbage in the checker's uninitialised `result'.                        *)
(***************************************************************************)
EXTENDS TypeCheckProofs, Execution, DataLemmas

----------------------------------------------------------------------------
(* The generator runs on a checked tree; it has an alloca for the names    *)
(* the function declares before the current statement and no others, of    *)
(* the declaration's type; and no name is declared twice.                  *)
InFunction == gen = "generating" /\ ~AtEnd(program, pos) /\ pos[2] > 0

IsSlotOf(d, n) ==
  /\ Declares(pos[1], d, n)
  /\ ir[named_values[n]].op = "Alloca"
  /\ ir[named_values[n]].at = <<pos[1], d, 0>>
  /\ ir[named_values[n]].type = LLVMType(resolved_type[<<pos[1], d, 0>>])

SlotsFollow ==
  InFunction =>
    \A n \in Names :
      /\ named_values[n] # NoRequest => \E d \in 1 .. (pos[2] - 1) : IsSlotOf(d, n)
      /\ DeclaresBefore(pos[1], pos[2], n) => named_values[n] # NoRequest

DeclaredOnce ==
  InFunction =>
    /\ \A n \in Names : \A d, e \in 1 .. (pos[2] - 1) :
         Declares(pos[1], d, n) /\ Declares(pos[1], e, n) => d = e
    /\ pos[3] > 0 /\ Stmt.kind = "Declare" => ~DeclaresBefore(pos[1], pos[2], Stmt.name)

LoadsInside == \A n \in Requests({"Load"}) : ir[n].slot \in 1 .. Len(ir)

RunsOnChecked == IF gen = "waiting" THEN pos = FirstAddress ELSE status = "checked"

NoGuardFires ==
  gen \notin { "LiteralSurvived", "UnresolvedType", "UnknownVariable",
               "NonexistentVariable", "UnsupportedOperation" }

GenInv ==
  /\ RunsOnChecked
  /\ SlotsFollow /\ DeclaredOnce
  /\ LoadsInside /\ LoadsMatchAllocas /\ NoGuardFires

----------------------------------------------------------------------------
(* The generator's places in the tree.                                     *)
LEMMA PosShape ==
  ASSUME IsProgram(program, Names), OnWalk(program, pos), ~AtEnd(program, pos), pos[2] > 0
  PROVE  /\ pos[1] \in 1 .. Len(program) /\ pos[2] \in 1 .. Len(program[pos[1]].statements)
         /\ pos[1] \in Nat /\ pos[2] \in Nat /\ pos[3] \in Nat
         /\ IsStatement(Stmt, Names) /\ Len(Stmt.value) \in Nat \ {0}
         /\ StmtAddress \in StatementAddresses(program) /\ StmtAddress \in Addresses(program)
         /\ StatementAt(program, StmtAddress) = Stmt
<1>1. pos[1] \in Nat /\ pos[2] \in Nat /\ pos[3] \in Nat
  BY DEF OnWalk
<1>2. Len(program) \in Nat
  BY DEF IsProgram
<1>3. pos[1] \in 1 .. Len(program)
  BY <1>1, <1>2 DEF OnWalk, AtEnd
<1>4. pos[2] \in 1 .. Len(program[pos[1]].statements)
  BY <1>1, <1>3 DEF OnWalk, AtEnd, IsProgram
<1>5. IsStatement(Stmt, Names)
  BY <1>3, <1>4 DEF IsProgram, Stmt, StatementAt
<1>6. Len(Stmt.value) \in Nat \ {0}
  BY <1>5 DEF IsStatement, IsExpression
<1>7. StmtAddress \in StatementAddresses(program)
  BY <1>3, <1>4 DEF StatementAddresses, StmtAddress
<1> QED BY <1>1, <1>3, <1>4, <1>5, <1>6, <1>7 DEF Addresses, StatementAt, Stmt, StmtAddress

LEMMA PosNode ==
  ASSUME IsProgram(program, Names), OnWalk(program, pos), AtNode(program, pos)
  PROVE  /\ pos \in NodeAddresses(program) /\ pos \in Addresses(program)
         /\ pos[3] \in 1 .. Len(Stmt.value) /\ Node = Stmt.value[pos[3]]
         /\ Node.kind \in NodeKinds
         /\ Node.kind \in {"Variable", "FunctionCall"} => Node.name \in Names
         /\ Node.kind = "Binary" =>
              /\ Node.op \in BinaryOperators
              /\ Node.lhs \in 1 .. (pos[3] - 2) /\ Node.rhs = pos[3] - 1
<1>1. /\ IsStatement(Stmt, Names) /\ Len(Stmt.value) \in Nat \ {0} /\ pos[3] \in Nat
      /\ StmtAddress \in StatementAddresses(program)
      /\ StatementAt(program, StmtAddress) = Stmt
  BY PosShape DEF AtNode
<1>2. pos[3] \in 1 .. Len(Stmt.value)
  BY DEF AtNode, Stmt
<1>3. Node = Stmt.value[pos[3]]
  BY DEF Node, NodeAt, Stmt
<1>4. pos = <<pos[1], pos[2], pos[3]>> /\ StmtAddress[1] = pos[1] /\ StmtAddress[2] = pos[2]
  BY DEF OnWalk, StmtAddress
<1>5. pos \in { <<StmtAddress[1], StmtAddress[2], e>> :
                  e \in 1 .. Len(StatementAt(program, StmtAddress).value) }
  BY <1>1, <1>2, <1>4
<1>6. pos \in NodeAddresses(program)
  BY <1>1, <1>5 DEF NodeAddresses
<1>7. IsExpression(Stmt.value, Names)
  BY <1>1 DEF IsStatement
<1>8. /\ Node.kind \in NodeKinds
      /\ Node.kind \in {"Variable", "FunctionCall"} => Node.name \in Names
      /\ Node.kind = "Binary" =>
           /\ Node.op \in BinaryOperators
           /\ Node.lhs \in 1 .. (pos[3] - 2) /\ Node.rhs = pos[3] - 1
  BY <1>2, <1>3, <1>7 DEF IsExpression
<1> QED BY <1>2, <1>3, <1>6, <1>8 DEF Addresses

----------------------------------------------------------------------------
(* The generator's type invariant.                                         *)

LEMMA LLVMTypeType ==
  ASSUME NEW type, HasLLVMType(type)
  PROVE  LLVMType(type) \in LLVMTypes
BY DEF HasLLVMType, LLVMType, LLVMTypes, IntWidth, IntTypes, SignedTypes, UnsignedTypes, FloatTypes

LEMMA IntWidthType == \A type \in IntTypes : IntWidth[type] \in LLVMTypes
BY DEF LLVMTypes, IntWidth, IntTypes, SignedTypes, UnsignedTypes

LEMMA NoLLVMTypeError == \A type : NoLLVMType(type) \in GenErrors
BY DEF NoLLVMType, GenErrors

(* An operation the generator goes on with asks for an instruction.        *)
LEMMA ApplyInstruction ==
  ASSUME NEW type, Operations(type) \notin GenErrors, NEW op \in ArithmeticOperators
  PROVE  apply(Operations(type), op) \in Instructions
<1>1. Operations(type) \in {"signed", "unsigned", "float"}
  BY DEF Operations, GenErrors
<1>2. op \in {"Plus", "Minus", "Asterisk", "ForwardSlash"}
  BY DEF ArithmeticOperators
<1>3. \A operations \in {"signed", "unsigned", "float"} : apply(operations, op) \in Instructions
  BY <1>2 DEF apply, Instructions
<1> QED BY <1>1, <1>3

GenTypeInv == CGTypeOK /\ IsSequence(ir) /\ IsSequence(values)

(* What the string of a show does to the symbol table.                     *)
LEMMA FormatNamed ==
  ASSUME symbols \in [ModuleNames -> 0 .. Len(program) \cup {NoFunction, FormatString}]
  PROVE  /\ NamedFormat \in [ModuleNames -> 0 .. Len(program) \cup {NoFunction, FormatString}]
         /\ \A n \in ModuleNames :
              \/ NamedFormat[n] = symbols[n]
              \/ /\ n = "fmt" /\ Stmt.kind = "Show"
                 /\ symbols[n] = NoFunction /\ NamedFormat[n] = FormatString
         /\ Stmt.kind = "Show" => NamedFormat["fmt"] # NoFunction
<1>1. CASE Stmt.kind = "Show" /\ symbols["fmt"] = NoFunction
  <2>1. NamedFormat = [symbols EXCEPT !["fmt"] = FormatString]
    BY <1>1 DEF NamedFormat
  <2> QED BY <1>1, <2>1 DEF ModuleNames, NoFunction, FormatString
<1>2. CASE ~(Stmt.kind = "Show" /\ symbols["fmt"] = NoFunction)
  <2>1. NamedFormat = symbols
    BY <1>2 DEF NamedFormat
  <2> QED BY <1>2, <2>1
<1> QED BY <1>1, <1>2

LEMMA GenThrowTyped ==
  ASSUME GenTypeInv, NEW error \in GenErrors, GenThrow(error), program' = program
  PROVE  GenTypeInv'
BY DEF GenTypeInv, GenThrow, CGTypeOK

LEMMA EmitTyped ==
  ASSUME IsProgram(program, Names), GenTypeInv, AtNode(program, pos), NEW value,
         EmitValue(value), program' = program,
         ir' = ir \/ \E r : ir' = Append(ir, r),
         value.type \in LLVMTypes, value.of[1] = "request" => value.of[2] \in 1 .. Len(ir')
  PROVE  GenTypeInv'
<1>1. /\ values' = Append(values, value) /\ pos' = <<pos[1], pos[2], pos[3] + 1>>
      /\ named_values' = named_values /\ symbols' = symbols /\ gen' = gen
  BY DEF EmitValue
<1>2. /\ IsSequence(ir') /\ Len(ir) \in Nat /\ Len(ir') \in Nat /\ Len(ir') >= Len(ir)
  <2>1. IsSequence(ir) /\ Len(ir) \in Nat
    BY Appending DEF GenTypeInv
  <2>2. CASE ir' = ir
    BY <2>1, <2>2
  <2>3. CASE \E r : ir' = Append(ir, r)
    <3>1. PICK r : ir' = Append(ir, r)
      BY <2>3
    <3>2. IsSequence(Append(ir, r)) /\ Len(Append(ir, r)) = Len(ir) + 1
      BY <2>1, Appending
    <3> QED BY <2>1, <3>1, <3>2
  <2> QED BY <2>2, <2>3
<1>3. /\ IsSequence(values') /\ Len(values) \in Nat /\ Len(values') = Len(values) + 1
      /\ values'[Len(values) + 1] = value
      /\ \A i \in 1 .. Len(values) : values'[i] = values[i]
  BY <1>1, Appending DEF GenTypeInv
<1>4. OnWalk(program, pos') /\ pos'[3] = pos[3] + 1 /\ pos[3] \in Nat
  BY <1>1, NodeOnWalk DEF GenTypeInv, CGTypeOK, OnWalk
<1>5. Len(values') = pos'[3] - 1
  BY <1>3, <1>4 DEF GenTypeInv, CGTypeOK
<1>6. ASSUME NEW i \in 1 .. Len(values')
      PROVE  /\ values'[i].type \in LLVMTypes
             /\ values'[i].of[1] = "request" => values'[i].of[2] \in 1 .. Len(ir')
  <2>1. CASE i = Len(values) + 1
    BY <1>3, <2>1
  <2>2. CASE i # Len(values) + 1
    BY <1>2, <1>3, <2>2 DEF GenTypeInv, CGTypeOK
  <2> QED BY <2>1, <2>2
<1>7. named_values' \in [Names -> 0 .. Len(ir')]
  BY <1>1, <1>2 DEF GenTypeInv, CGTypeOK
<1> QED BY <1>1, <1>2, <1>3, <1>4, <1>5, <1>6, <1>7 DEF GenTypeInv, CGTypeOK

LEMMA AdvanceTyped ==
  ASSUME IsProgram(program, Names), GenTypeInv, ~AtEnd(program, pos),
         pos' = NextStatement(program, pos),
         UNCHANGED << program, values, gen >>,
         IsSequence(ir'), Len(ir') \in Nat, Len(ir') >= Len(ir),
         named_values' \in [Names -> 0 .. Len(ir')],
         symbols' \in [ModuleNames -> 0 .. Len(program) \cup {NoFunction, FormatString}]
  PROVE  GenTypeInv'
<1>1. OnWalk(program, pos') /\ ~AtNode(program, pos') /\ ~AtExit(program, pos')
  BY NextStatementOnWalk DEF GenTypeInv, CGTypeOK
<1>2. Len(ir) \in Nat
  BY Appending DEF GenTypeInv
<1>3. \A i \in 1 .. Len(values) :
        /\ values[i].type \in LLVMTypes
        /\ values[i].of[1] = "request" => values[i].of[2] \in 1 .. Len(ir')
  BY <1>2 DEF GenTypeInv, CGTypeOK
<1> QED BY <1>1, <1>3 DEF GenTypeInv, CGTypeOK

LEMMA ExitTyped ==
  ASSUME IsProgram(program, Names), GenTypeInv, GenExit, program' = program
  PROVE  GenTypeInv'
<1>1. IsSequence(ir) /\ Len(ir) \in Nat
  BY Appending DEF GenTypeInv
<1>2. \A r : IsSequence(Append(ir, r)) /\ Len(Append(ir, r)) = Len(ir) + 1
  BY <1>1, Appending
<1>3. ASSUME AtExit(program, pos), NEW r, ir' = Append(ir, r), named_values' = named_values, Advance
      PROVE  GenTypeInv'
  <2>1. ~AtEnd(program, pos) /\ pos' = NextStatement(program, pos)
        /\ UNCHANGED << values, symbols, gen >>
    BY <1>3 DEF AtExit, Advance
  <2>2. IsSequence(ir') /\ Len(ir') \in Nat /\ Len(ir') >= Len(ir)
    BY <1>1, <1>2, <1>3
  <2>3. named_values' \in [Names -> 0 .. Len(ir')]
    BY <1>1, <1>3, <2>2 DEF GenTypeInv, CGTypeOK
  <2>4. symbols' \in [ModuleNames -> 0 .. Len(program) \cup {NoFunction, FormatString}]
    BY <2>1 DEF GenTypeInv, CGTypeOK
  <2> QED BY <2>1, <2>2, <2>3, <2>4, AdvanceTyped
<1>4. CASE GenAssignment
  BY <1>3, <1>4 DEF GenAssignment, Request
<1>5. CASE GenShow
  BY <1>3, <1>5 DEF GenShow, Request
<1>6. CASE GenReturn
  BY <1>3, <1>6 DEF GenReturn, Request
<1>7. CASE GenDeclaration
  <2>1. CASE \E error \in GenErrors : GenThrow(error)
    BY <2>1, GenThrowTyped
  <2>2. CASE ~\E error \in GenErrors : GenThrow(error)
    <3>1. "UnresolvedType" \in GenErrors
      BY DEF GenErrors
    <3>2. PICK r, q :
            /\ ir' = ir \o <<r, q>>
            /\ named_values' = [named_values EXCEPT ![Stmt.name] = NextRequest]
            /\ AtExit(program, pos) /\ Advance
      BY <1>7, <2>2, <3>1, NoLLVMTypeError DEF GenDeclaration
    <3>3. ir' = Append(Append(ir, r), q)
      BY <1>1, <3>2, AppendingTwo
    <3>4. IsSequence(ir') /\ Len(ir') = Len(ir) + 2
      BY <1>1, <1>2, <3>3, Appending
    <3>5. ~AtEnd(program, pos) /\ pos' = NextStatement(program, pos)
          /\ UNCHANGED << values, symbols, gen >>
      BY <3>2 DEF AtExit, Advance
    <3>6. named_values' \in [Names -> 0 .. Len(ir')]
      <4>1. NextRequest \in 0 .. Len(ir')
        BY <1>1, <3>4 DEF NextRequest
      <4>2. named_values \in [Names -> 0 .. Len(ir')]
        BY <1>1, <3>4 DEF GenTypeInv, CGTypeOK
      <4> QED BY <3>2, <4>1, <4>2
    <3>7. symbols' \in [ModuleNames -> 0 .. Len(program) \cup {NoFunction, FormatString}]
      BY <3>5 DEF GenTypeInv, CGTypeOK
    <3> QED BY <1>1, <3>4, <3>5, <3>6, <3>7, AdvanceTyped
  <2> QED BY <2>1, <2>2
<1> QED BY <1>4, <1>5, <1>6, <1>7 DEF GenExit

LEMMA NodeTyped ==
  ASSUME IsProgram(program, Names), GenTypeInv, GenNode, program' = program
  PROVE  GenTypeInv'
<1>1. IsSequence(ir) /\ Len(ir) \in Nat
  BY Appending DEF GenTypeInv
<1>2. \A r : Len(Append(ir, r)) = Len(ir) + 1
  BY <1>1, Appending
<1>3. AtNode(program, pos)
  BY DEF GenNode, GenIntLiteral, GenFloatLiteral, GenVariable, GenFunctionCall, GenBinary
<1>4. ASSUME NEW type \in LLVMTypes, NEW bits, EmitValue(Constant(type, bits)), ir' = ir
      PROVE  GenTypeInv'
  <2>1. Constant(type, bits).type = type /\ Constant(type, bits).of[1] # "request"
    BY DEF Constant
  <2> QED BY <1>3, <1>4, <2>1, EmitTyped
<1>5. ASSUME NEW type \in LLVMTypes, NEW r, ir' = Append(ir, r),
             EmitValue(Result(type, NextRequest))
      PROVE  GenTypeInv'
  <2>1. PICK n : n = NextRequest
    OBVIOUS
  <2>2. Result(type, n).type = type /\ Result(type, n).of[2] = n /\ n \in 1 .. Len(ir')
    BY <1>1, <1>2, <1>5, <2>1 DEF Result, NextRequest
  <2>3. EmitValue(Result(type, n))
    BY <1>5, <2>1
  <2> QED BY <1>3, <1>5, <2>2, <2>3, EmitTyped
<1>6. CASE \E error \in GenErrors : GenThrow(error)
  BY <1>6, GenThrowTyped
<1>7. CASE ~\E error \in GenErrors : GenThrow(error)
  <2>1. {"NonIntegerLiteral", "UnknownVariable", "UnresolvedType", "UnknownFunction",
         "UnsupportedOperation"} \subseteq GenErrors
    BY DEF GenErrors
  <2>2. CASE GenIntLiteral
    BY <1>4, <1>7, <2>1, <2>2, IntWidthType DEF GenIntLiteral, ConstantType
  <2>3. CASE GenFloatLiteral
    <3>1. "double" \in LLVMTypes
      BY DEF LLVMTypes
    <3> QED BY <1>4, <2>3, <3>1 DEF GenFloatLiteral
  <2>4. CASE GenVariable
    BY <1>5, <1>7, <2>1, <2>4, LLVMTypeType, NoLLVMTypeError DEF GenVariable, Request
  <2>5. CASE GenFunctionCall
    <3>1. "i32" \in LLVMTypes
      BY DEF LLVMTypes
    <3> QED BY <1>5, <1>7, <2>1, <2>5, <3>1 DEF GenFunctionCall, Request
  <2>6. CASE GenBinary
    <3>1. Node.kind = "Binary"
      BY <2>6 DEF GenBinary
    <3>2. Node.lhs \in 1 .. Len(values)
      BY <1>3, <3>1, PosNode DEF GenTypeInv, CGTypeOK, OnWalk
    <3>3. values[Node.lhs].type \in LLVMTypes
      BY <3>2 DEF GenTypeInv, CGTypeOK
    <3>4. \E r : /\ ir' = Append(ir, r)
                 /\ EmitValue(Result(values[Node.lhs].type, NextRequest))
      BY <1>7, <2>1, <2>6 DEF GenBinary, Request
    <3> QED BY <1>5, <3>3, <3>4
  <2> QED BY <2>2, <2>3, <2>4, <2>5, <2>6 DEF GenNode
<1> QED BY <1>6, <1>7

LEMMA GenTypeInit == Init => GenTypeInv
<1> SUFFICES ASSUME Init PROVE GenTypeInv
  OBVIOUS
<1>1. /\ pos = <<1, 0, 0>> /\ values = << >> /\ ir = << >> /\ gen = "waiting"
      /\ named_values = [n \in Names |-> NoRequest]
      /\ symbols = [n \in ModuleNames |-> IF n = "printf" THEN 0 ELSE NoFunction]
      /\ IsProgram(program, Names)
  BY ProgramsAssumption DEF Init, TCInit, CGInit, FirstAddress
<1>2. << >> \in Seq({})
  OBVIOUS
<1>3. OnWalk(program, pos) /\ ~AtNode(program, pos) /\ ~AtExit(program, pos)
  <2>1. Len(program) \in Nat
    BY <1>1 DEF IsProgram
  <2>2. 1 <= Len(program) => Len(program[1].statements) \in Nat
    BY <1>1, <2>1 DEF IsProgram
  <2>3. AtEnd(program, pos) \/ AtFunction(program, pos)
    BY <1>1 DEF AtFunction
  <2>4. pos \in Nat \X Nat \X Nat /\ pos[1] > 0
        /\ (pos[1] <= Len(program) => pos[2] <= Len(program[pos[1]].statements))
    BY <1>1, <2>2
  <2>5. ~AtNode(program, pos) /\ ~AtExit(program, pos)
    BY <1>1 DEF AtNode, AtExit
  <2> QED BY <2>3, <2>4, <2>5 DEF OnWalk
<1>4. named_values \in [Names -> 0 .. Len(ir)]
  BY <1>1 DEF NoRequest
<1>5. symbols \in [ModuleNames -> 0 .. Len(program) \cup {NoFunction, FormatString}]
  BY <1>1 DEF IsProgram
<1> QED BY <1>1, <1>2, <1>3, <1>4, <1>5 DEF GenTypeInv, CGTypeOK, IsSequence

LEMMA GenTypeNext ==
  ASSUME TCTypeOK, GenTypeInv, [Next \/ Done]_vars
  PROVE  GenTypeInv'
<1>1. IsProgram(program, Names)
  BY ProgramsAssumption DEF TCTypeOK
<1>2. IsSequence(ir) /\ Len(ir) \in Nat
  BY Appending DEF GenTypeInv
<1>3. ASSUME UNCHANGED cg_vars, program' = program PROVE GenTypeInv'
  BY <1>3 DEF cg_vars, GenTypeInv, CGTypeOK
<1>4. CASE TCNext /\ UNCHANGED cg_vars
  BY <1>3, <1>4, ProgramFixed
<1>5. CASE UNCHANGED vars \/ Done
  BY <1>3, <1>5 DEF vars, tc_vars, Done
<1>6. CASE CGNext /\ UNCHANGED tc_vars
  <2>1. program' = program
    BY <1>6 DEF tc_vars
  <2>2. CASE GenStart \/ GenFinish
    BY <2>1, <2>2 DEF GenStart, GenFinish, GenTypeInv, CGTypeOK
  <2>3. CASE GenFunction
    <3>1. /\ ~AtEnd(program, pos) /\ pos' = NextStatement(program, pos)
          /\ UNCHANGED << values, gen >> /\ ir' = ir
          /\ named_values' = [n \in Names |-> NoRequest]
      BY <2>3 DEF GenFunction, AtFunction
    <3>2. named_values' \in [Names -> 0 .. Len(ir')]
      BY <1>2, <3>1 DEF NoRequest
    <3>3. pos[1] \in 0 .. Len(program)
      BY <1>1, <3>1 DEF GenTypeInv, CGTypeOK, OnWalk, AtEnd, IsProgram
    <3>4. symbols' \in [ModuleNames -> 0 .. Len(program) \cup {NoFunction, FormatString}]
      BY <2>3, <3>3 DEF GenFunction, GenTypeInv, CGTypeOK
    <3> QED BY <1>1, <1>2, <2>1, <3>1, <3>2, <3>4, AdvanceTyped
  <2>4. CASE GenEntry
    <3>1. CASE GenThrow("DeclaredTwice") \/ GenThrow("NonexistentVariable")
      BY <2>1, <3>1, GenThrowTyped DEF GenErrors
    <3>2. CASE ~(GenThrow("DeclaredTwice") \/ GenThrow("NonexistentVariable"))
      <4>1. /\ AtEntry(program, pos) /\ pos' = <<pos[1], pos[2], 1>> /\ values' = << >>
            /\ symbols' = NamedFormat /\ UNCHANGED << named_values, ir, gen >>
        BY <2>4, <3>2 DEF GenEntry
      <4>2. OnWalk(program, pos') /\ pos'[3] = 1
        BY <1>1, <4>1, EntryOnWalk DEF GenTypeInv, CGTypeOK
      <4>3. << >> \in Seq({})
        OBVIOUS
      <4>4. symbols' \in [ModuleNames -> 0 .. Len(program) \cup {NoFunction, FormatString}]
        BY <4>1, FormatNamed DEF GenTypeInv, CGTypeOK
      <4> QED BY <2>1, <4>1, <4>2, <4>3, <4>4 DEF GenTypeInv, CGTypeOK, IsSequence
    <3> QED BY <3>1, <3>2
  <2>5. CASE GenNode
    BY <1>1, <2>1, <2>5, NodeTyped
  <2>6. CASE GenExit
    BY <1>1, <2>1, <2>6, ExitTyped
  <2> QED BY <1>6, <2>2, <2>3, <2>4, <2>5, <2>6 DEF CGNext
<1> QED BY <1>4, <1>5, <1>6 DEF Next

(* A step of the compilation is one of the checker's or leaves it alone.   *)
LEMMA CheckerStep == [Next \/ Done]_vars => [TCNext \/ TCDone]_tc_vars
BY DEF Next, Done, vars, tc_vars

(* The generator's state has its types, on any program.                    *)
THEOREM GeneratorTypeCorrect == Spec => []CGTypeOK
<1>1. Init => TCInit
  BY DEF Init
<1>2. TCTypeOK /\ GenTypeInv /\ [Next \/ Done]_vars => GenTypeInv'
  BY GenTypeNext
<1>3. GenTypeInv => CGTypeOK
  BY DEF GenTypeInv
<1> QED BY <1>1, <1>2, <1>3, TypeInit, TypeNext, CheckerStep, GenTypeInit, PTL DEF Spec

----------------------------------------------------------------------------
(* What the generator finds in a checked tree.                             *)
CheckedTree ==
  /\ \A a \in Addresses(program) : resolved_type[a] \notin LiteralTypes
  /\ \A a \in StatementAddresses(program) :
       /\ StatementAt(program, a).kind = "Assign" =>
            DeclaresBefore(a[1], a[2], StatementAt(program, a).name)
       /\ StatementAt(program, a).kind = "Declare" => resolved_type[a] # NoType
  /\ \A a \in NodeAddresses(program) :
       NodeAt(program, a).kind = "Binary" =>
         /\ resolved_type[a] # NoType
         /\ NodeAt(program, a).op = "Equals" => resolved_type[a] = "Bool"
  /\ \A a \in NodeAddresses(program) :
       NodeAt(program, a).kind = "Variable" =>
         /\ resolved_type[a] # NoType
         /\ \E d \in 1 .. (a[2] - 1) :
              /\ Declares(a[1], d, NodeAt(program, a).name)
              /\ resolved_type[a] = resolved_type[<<a[1], d, 0>>]

LEMMA CheckerLeaves ==
  ASSUME TCTypeOK, LiteralInv, UsesInv, AnnotatedInv, status = "checked"
  PROVE  CheckedTree
<1>1. IsProgram(program, Names) /\ AtEnd(program, at)
  BY ProgramsAssumption DEF TCTypeOK, LiteralInv
<1>2. \A a \in Addresses(program) : resolved_type[a] \notin LiteralTypes
  BY <1>1 DEF LiteralInv, PendingLiteral, InStatement, AtNode, AtExit
<1>3. \A a \in StatementAddresses(program) : Left(a) /\ Entered(a)
  BY <1>1, StatementAddressParts, AtParts DEF AtEnd, Left, Entered
<1>4. \A a \in NodeAddresses(program) : ~Unvisited(a)
  BY <1>1, NodeAddressParts, AtParts DEF AtEnd, Unvisited
<1>5. TargetsDeclared /\ DeclarationsAnnotated /\ OperatorsAnnotated /\ VisitedUsesFollow
  BY DEF AnnotatedInv, UsesInv
<1>6. \A a \in NodeAddresses(program) :
        NodeAt(program, a).kind = "Variable" =>
          /\ resolved_type[a] # NoType
          /\ \E d \in 1 .. (a[2] - 1) :
               /\ Declares(a[1], d, NodeAt(program, a).name)
               /\ resolved_type[a] = resolved_type[<<a[1], d, 0>>]
  BY <1>4, <1>5 DEF VisitedUsesFollow, DeclaredAs, LatestDeclaration
<1> QED
  BY <1>2, <1>3, <1>4, <1>5, <1>6
  DEF CheckedTree, TargetsDeclared, DeclarationsAnnotated, OperatorsAnnotated

----------------------------------------------------------------------------
(* The generator's invariant, part by part.                                *)

(* Requests are only ever added, and the tree stays.                       *)
Extends ==
  /\ Len(ir) \in Nat /\ Len(ir') \in Nat /\ Len(ir') >= Len(ir)
  /\ \A i \in 1 .. Len(ir) : ir'[i] = ir[i]
  /\ program' = program /\ resolved_type' = resolved_type

LEMMA Extending ==
  ASSUME GenTypeInv, UNCHANGED << program, resolved_type >>,
         ir' = ir \/ \E r : ir' = Append(ir, r)
  PROVE  Extends
<1>1. IsSequence(ir) /\ Len(ir) \in Nat
  BY Appending DEF GenTypeInv
<1>2. CASE ir' = ir
  BY <1>1, <1>2 DEF Extends
<1>3. CASE \E r : ir' = Append(ir, r)
  <2>1. PICK r : ir' = Append(ir, r)
    BY <1>3
  <2>2. /\ Len(Append(ir, r)) = Len(ir) + 1
        /\ \A i \in 1 .. Len(ir) : Append(ir, r)[i] = ir[i]
    BY <1>1, Appending
  <2> QED BY <1>1, <2>1, <2>2 DEF Extends
<1> QED BY <1>2, <1>3

Loads == LoadsInside /\ LoadsMatchAllocas

(* The request a step adds is no load, or one that matches its alloca.     *)
LEMMA LoadsKept ==
  ASSUME Extends, Loads,
         \A n \in Len(ir) + 1 .. Len(ir') :
           ir'[n].op = "Load" =>
             LET slot == ir'[n].slot
             IN  /\ slot \in 1 .. Len(ir)
                 /\ ir[slot].op = "Alloca" /\ ir[slot].type = ir'[n].type
                 /\ ir[slot].at[1] = ir'[n].at[1]
  PROVE  Loads'
<1>1. ASSUME NEW n \in 1 .. Len(ir'), ir'[n].op = "Load"
      PROVE  LET slot == ir'[n].slot
             IN  /\ slot \in 1 .. Len(ir')
                 /\ ir'[slot].op = "Alloca" /\ ir'[slot].type = ir'[n].type
                 /\ ir'[slot].at[1] = ir'[n].at[1]
  <2>1. CASE n \in 1 .. Len(ir)
    <3>1. ir'[n] = ir[n] /\ n \in Requests({"Load"})
      BY <1>1, <2>1 DEF Extends, Requests
    <3>2. /\ ir[n].slot \in 1 .. Len(ir)
          /\ ir[ir[n].slot].op = "Alloca" /\ ir[ir[n].slot].type = ir[n].type
          /\ ir[ir[n].slot].at[1] = ir[n].at[1]
      BY <3>1 DEF Loads, LoadsInside, LoadsMatchAllocas, Slot
    <3> QED BY <3>1, <3>2 DEF Extends
  <2>2. CASE n \notin 1 .. Len(ir)
    <3>1. n \in Len(ir) + 1 .. Len(ir')
      BY <2>2 DEF Extends
    <3> QED BY <1>1, <3>1 DEF Extends
  <2> QED BY <2>1, <2>2
<1> QED BY <1>1 DEF Loads, LoadsInside, LoadsMatchAllocas, Slot, Requests

(* Inside a statement the table of allocas stays as it is.                 *)
LEMMA SlotsKept ==
  ASSUME IsProgram(program, Names), GenTypeInv, Extends, SlotsFollow,
         named_values' = named_values, pos'[1] = pos[1], pos'[2] = pos[2], gen' = gen
  PROVE  SlotsFollow'
<1> SUFFICES ASSUME InFunction' PROVE SlotsFollow'
  BY DEF SlotsFollow
<1>1. InFunction
  BY DEF InFunction, Extends, AtEnd
<1>2. ASSUME NEW n \in Names, named_values[n] # NoRequest,
             NEW d \in 1 .. (pos[2] - 1), IsSlotOf(d, n)
      PROVE  IsSlotOf(d, n)'
  <2>1. named_values[n] \in 1 .. Len(ir)
    BY <1>2 DEF GenTypeInv, CGTypeOK, NoRequest, Extends
  <2> QED BY <1>2, <2>1 DEF IsSlotOf, Extends, Declares
<1>3. \A n : DeclaresBefore(pos[1], pos[2], n)' => DeclaresBefore(pos[1], pos[2], n)
  BY DEF DeclaresBefore, Declares, Extends
<1> QED BY <1>1, <1>2, <1>3 DEF SlotsFollow

LEMMA OnceKept ==
  ASSUME Extends, DeclaredOnce, pos[3] > 0,
         pos'[1] = pos[1], pos'[2] = pos[2], gen' = gen
  PROVE  DeclaredOnce'
BY DEF DeclaredOnce, InFunction, Extends, AtEnd, Declares, DeclaresBefore, Stmt, StatementAt

(* Leaving a statement: if it is a declaration, its name, which was not    *)
(* declared before, gets the new alloca.                                   *)
LEMMA AdvanceSlots ==
  ASSUME IsProgram(program, Names), GenTypeInv, Extends, SlotsFollow, DeclaredOnce,
         gen = "generating", gen' = gen, AtExit(program, pos), pos' = NextStatement(program, pos),
         \/ Stmt.kind # "Declare" /\ named_values' = named_values
         \/ /\ Stmt.kind = "Declare"
            /\ named_values' = [named_values EXCEPT ![Stmt.name] = Len(ir) + 1]
            /\ ir'[Len(ir) + 1].op = "Alloca"
            /\ ir'[Len(ir) + 1].at = StmtAddress
            /\ ir'[Len(ir) + 1].type = LLVMType(resolved_type[StmtAddress])
  PROVE  SlotsFollow' /\ DeclaredOnce'
<1>1. /\ ~AtEnd(program, pos) /\ pos[2] > 0 /\ pos[1] \in Nat /\ pos[2] \in Nat /\ pos[3] > 0
      /\ IsStatement(Stmt, Names)
  <2>1. ~AtEnd(program, pos) /\ pos[2] > 0 /\ pos[3] = Len(Stmt.value) + 1
    BY DEF AtExit, Stmt
  <2>2. OnWalk(program, pos)
    BY DEF GenTypeInv, CGTypeOK
  <2> QED BY <2>1, <2>2, PosShape
<1>2. InFunction
  BY <1>1 DEF InFunction
<1>3. PICK f, s : f = pos[1] /\ s = pos[2]
  OBVIOUS
<1>4. (pos'[1] = f /\ pos'[2] = s + 1 /\ pos'[3] = 0) \/ pos'[2] = 0
  BY <1>3 DEF NextStatement
<1>5. CASE pos'[2] = 0
  BY <1>5 DEF InFunction, SlotsFollow, DeclaredOnce
<1>6. CASE pos'[1] = f /\ pos'[2] = s + 1 /\ pos'[3] = 0
  <2>1. \A d, n : Declares(f, d, n)' <=> Declares(f, d, n)
    BY DEF Declares, Extends
  <2>2. \A n : Declares(f, s, n) <=> Stmt.kind = "Declare" /\ Stmt.name = n
    BY <1>3 DEF Declares, Stmt, StatementAt
  <2>3. \A n : Declares(f, s, n) => n \in Names /\ ~DeclaresBefore(f, s, n)
    BY <1>1, <1>2, <1>3, <2>2 DEF DeclaredOnce, IsStatement
  <2>4. ASSUME NEW n \in Names, named_values'[n] # NoRequest
        PROVE  \E d \in 1 .. s : IsSlotOf(d, n)'
    <3>1. CASE Declares(f, s, n)
      <4>1. /\ Stmt.kind = "Declare" /\ Stmt.name = n
            /\ named_values' = [named_values EXCEPT ![n] = Len(ir) + 1]
        BY <2>2, <3>1
      <4>2. named_values'[n] = Len(ir) + 1
        BY <4>1 DEF GenTypeInv, CGTypeOK
      <4>3. StmtAddress = <<f, s, 0>>
        BY <1>3 DEF StmtAddress
      <4>4. resolved_type' = resolved_type
        BY DEF Extends
      <4>5. IsSlotOf(s, n)'
        BY <1>6, <2>1, <3>1, <4>1, <4>2, <4>3, <4>4 DEF IsSlotOf
      <4> QED BY <1>1, <1>3, <4>5
    <3>2. CASE ~Declares(f, s, n)
      <4>1. named_values'[n] = named_values[n]
        BY <2>2, <3>2 DEF GenTypeInv, CGTypeOK
      <4>2. PICK d \in 1 .. (s - 1) : IsSlotOf(d, n)
        BY <1>2, <1>3, <2>4, <4>1 DEF SlotsFollow
      <4>3. named_values[n] \in 1 .. Len(ir)
        BY <2>4, <4>1 DEF GenTypeInv, CGTypeOK, NoRequest, Extends
      <4>4. IsSlotOf(d, n)'
        BY <1>3, <1>6, <4>1, <4>2, <4>3 DEF IsSlotOf, Extends, Declares
      <4> QED BY <1>1, <1>3, <4>2, <4>4
    <3> QED BY <3>1, <3>2
  <2>5. ASSUME NEW n \in Names, NEW d \in 1 .. s, Declares(f, d, n)
        PROVE  named_values'[n] # NoRequest
    <3>1. CASE d = s
      <4>1. named_values' = [named_values EXCEPT ![n] = Len(ir) + 1]
        BY <2>2, <2>5, <3>1
      <4>2. named_values'[n] = Len(ir) + 1 /\ Len(ir) \in Nat
        BY <4>1 DEF GenTypeInv, CGTypeOK, Extends
      <4> QED BY <4>2 DEF NoRequest
    <3>2. CASE d # s
      <4>1. d \in 1 .. (s - 1)
        BY <1>1, <1>3, <3>2
      <4>2. named_values[n] # NoRequest
        BY <1>2, <1>3, <2>5, <4>1 DEF SlotsFollow, DeclaresBefore
      <4>3. named_values'[n] = named_values[n] \/ named_values'[n] = Len(ir) + 1
        BY DEF GenTypeInv, CGTypeOK
      <4> QED BY <4>2, <4>3 DEF NoRequest, Extends
    <3> QED BY <3>1, <3>2
  <2>6. ASSUME NEW n \in Names, NEW d \in 1 .. s, NEW e \in 1 .. s,
               Declares(f, d, n), Declares(f, e, n)
        PROVE  d = e
    <3>1. CASE d = s \/ e = s
      <4>1. d # s => DeclaresBefore(f, s, n)
        BY <1>1, <1>3, <2>6 DEF DeclaresBefore
      <4>2. e # s => DeclaresBefore(f, s, n)
        BY <1>1, <1>3, <2>6 DEF DeclaresBefore
      <4> QED BY <2>3, <2>6, <3>1, <4>1, <4>2
    <3>2. CASE d # s /\ e # s
      <4>1. d \in 1 .. (s - 1) /\ e \in 1 .. (s - 1)
        BY <1>1, <1>3, <3>2
      <4> QED BY <1>2, <1>3, <2>6, <4>1 DEF DeclaredOnce
    <3> QED BY <3>1, <3>2
  <2>7. pos'[2] - 1 = s
    BY <1>1, <1>3, <1>6
  <2>8. SlotsFollow'
    BY <1>6, <2>1, <2>4, <2>5, <2>7 DEF SlotsFollow, DeclaresBefore
  <2>9. DeclaredOnce'
    BY <1>6, <2>1, <2>6, <2>7 DEF DeclaredOnce
  <2> QED BY <2>8, <2>9
<1> QED BY <1>4, <1>5, <1>6

(* A throw leaves everything as it is; those a checked tree may end in are *)
(* none of the internal ones.                                              *)
InternalErrors == { "LiteralSurvived", "UnresolvedType", "UnknownVariable",
                    "NonexistentVariable", "UnsupportedOperation" }

LEMMA GenThrowInv ==
  ASSUME GenInv, gen = "generating", NEW error \in GenErrors \ InternalErrors,
         GenThrow(error), UNCHANGED tc_vars
  PROVE  GenInv'
<1>1. gen' = error /\ error \notin {"generating", "waiting"} /\ status = "checked"
  BY DEF GenThrow, GenErrors, GenInv, RunsOnChecked
<1>2. RunsOnChecked' /\ SlotsFollow' /\ DeclaredOnce' /\ NoGuardFires'
  BY <1>1 DEF RunsOnChecked, SlotsFollow, DeclaredOnce, InFunction, NoGuardFires,
              InternalErrors, tc_vars
<1>3. LoadsInside' /\ LoadsMatchAllocas'
  BY DEF GenThrow, GenInv, LoadsInside, LoadsMatchAllocas, Slot, Requests
<1> QED BY <1>2, <1>3 DEF GenInv

(* A request that, if it is a load, is of the slot an alloca made.         *)
MatchesAlloca(r) ==
  r.op = "Load" => /\ r.slot \in 1 .. Len(ir)
                   /\ ir[r.slot].op = "Alloca" /\ ir[r.slot].type = r.type
                   /\ ir[r.slot].at[1] = r.at[1]

(* A visit that emits its value.                                           *)
LEMMA EmitInv ==
  ASSUME IsProgram(program, Names), GenTypeInv, GenInv, gen = "generating",
         AtNode(program, pos), NEW value, EmitValue(value), UNCHANGED tc_vars,
         \/ ir' = ir
         \/ \E r : ir' = Append(ir, r) /\ MatchesAlloca(r)
  PROVE  GenInv'
<1>1. /\ pos'[1] = pos[1] /\ pos'[2] = pos[2] /\ named_values' = named_values /\ gen' = gen
      /\ status' = status /\ UNCHANGED << program, resolved_type >>
  BY DEF EmitValue, tc_vars
<1>2. Extends
  BY <1>1, Extending
<1>3. pos[3] > 0
  BY PosNode DEF GenTypeInv, CGTypeOK
<1>4. SlotsFollow' /\ DeclaredOnce'
  BY <1>1, <1>2, <1>3, SlotsKept, OnceKept DEF GenInv
<1>5. Loads'
  <2>1. CASE ir' = ir
    BY <1>2, <2>1, LoadsKept DEF GenInv, Loads, Extends
  <2>2. CASE \E r : ir' = Append(ir, r) /\ MatchesAlloca(r)
    <3>1. PICK r : ir' = Append(ir, r) /\ MatchesAlloca(r)
      BY <2>2
    <3>2. Len(ir') = Len(ir) + 1 /\ ir'[Len(ir) + 1] = r /\ Len(ir) \in Nat
      BY <3>1, Appending DEF GenTypeInv
    <3>3. \A n \in Len(ir) + 1 .. Len(ir') : n = Len(ir) + 1
      BY <3>2
    <3> QED BY <1>2, <3>1, <3>2, <3>3, LoadsKept DEF GenInv, Loads, MatchesAlloca
  <2> QED BY <2>1, <2>2
<1>6. RunsOnChecked' /\ NoGuardFires'
  BY <1>1 DEF GenInv, RunsOnChecked, NoGuardFires
<1> QED BY <1>4, <1>5, <1>6 DEF GenInv, Loads

(* A visit of a node.  Its throws: a checked tree has an annotation and an *)
(* alloca for every variable, an annotation for every operator that is no  *)
(* literal, and no operation for a comparison.                             *)
LEMMA NodeInv ==
  ASSUME IsProgram(program, Names), GenTypeInv, GenInv, CheckedTree, gen = "generating",
         GenNode, UNCHANGED tc_vars
  PROVE  GenInv'
<1>1. /\ AtNode(program, pos) /\ pos \in NodeAddresses(program) /\ pos \in Addresses(program)
      /\ Node = NodeAt(program, pos)
      /\ Node.kind = "Variable" => Node.name \in Names
      /\ Node.kind = "Binary" => Node.op \in BinaryOperators
  <2>1. AtNode(program, pos)
    BY DEF GenNode, GenIntLiteral, GenFloatLiteral, GenVariable, GenFunctionCall, GenBinary
  <2> QED BY <2>1, PosNode DEF GenTypeInv, CGTypeOK, Node
<1>2. resolved_type[pos] \notin LiteralTypes
  BY <1>1 DEF CheckedTree
<1>3. ~AtEnd(program, pos) /\ pos[2] > 0 /\ InFunction
  BY <1>1 DEF AtNode, InFunction
<1>4. ASSUME NEW error \in GenErrors \ InternalErrors, GenThrow(error) PROVE GenInv'
  BY <1>4, GenThrowInv
<1>5. ASSUME NEW value, EmitValue(value),
             ir' = ir \/ \E r : ir' = Append(ir, r) /\ MatchesAlloca(r)
      PROVE  GenInv'
  BY <1>1, <1>5, EmitInv
<1>6. {"NonIntegerLiteral", "UnknownFunction", "NotImplemented", "FellOffSwitch"}
        \subseteq GenErrors \ InternalErrors
  BY DEF GenErrors, InternalErrors
<1>7. CASE GenIntLiteral
  BY <1>4, <1>5, <1>6, <1>7 DEF GenIntLiteral
<1>8. CASE GenFloatLiteral
  BY <1>5, <1>8 DEF GenFloatLiteral
<1>9. CASE GenFunctionCall
  <2>1. \A p, f : MatchesAlloca([at |-> p, op |-> "Call", function |-> f])
    BY DEF MatchesAlloca
  <2> QED BY <1>4, <1>5, <1>6, <1>9, <2>1 DEF GenFunctionCall, Request
<1>10. CASE GenVariable
  <2> DEFINE slot == named_values[Node.name]
             type == resolved_type[pos]
  <2>1. Node.kind = "Variable"
    BY <1>10 DEF GenVariable
  <2>2. PICK d \in 1 .. (pos[2] - 1) :
          Declares(pos[1], d, Node.name) /\ type = resolved_type[<<pos[1], d, 0>>]
    BY <1>1, <2>1 DEF CheckedTree
  <2>3. type # NoType
    BY <1>1, <2>1 DEF CheckedTree
  <2>4. slot # NoRequest
    BY <1>1, <1>3, <2>1, <2>2 DEF GenInv, SlotsFollow, DeclaresBefore
  <2>5. PICK e \in 1 .. (pos[2] - 1) : IsSlotOf(e, Node.name)
    BY <1>1, <1>3, <2>1, <2>4 DEF GenInv, SlotsFollow
  <2>6. e = d
    BY <1>1, <1>3, <2>1, <2>2, <2>5 DEF GenInv, DeclaredOnce, IsSlotOf
  <2>7. slot \in 1 .. Len(ir)
    <3>1. slot \in 0 .. Len(ir)
      BY <1>1, <2>1 DEF GenTypeInv, CGTypeOK
    <3>2. Len(ir) \in Nat
      BY Appending DEF GenTypeInv
    <3> QED BY <2>4, <3>1, <3>2 DEF NoRequest
  <2>8. MatchesAlloca([at |-> pos, op |-> "Load", type |-> LLVMType(type), slot |-> slot])
    BY <2>2, <2>5, <2>6, <2>7 DEF MatchesAlloca, IsSlotOf
  <2>9. ~HasLLVMType(type) => NoLLVMType(type) \in GenErrors \ InternalErrors
    BY <1>2, <1>6 DEF NoLLVMType
  <2> HIDE DEF slot, type
  <2>10. \/ ~HasLLVMType(type) /\ GenThrow(NoLLVMType(type))
         \/ /\ ir' = Append(ir, [at |-> pos, op |-> "Load", type |-> LLVMType(type), slot |-> slot])
            /\ EmitValue(Result(LLVMType(type), NextRequest))
    BY <1>10, <2>3, <2>4 DEF GenVariable, Request, slot, type
  <2> QED BY <1>4, <1>5, <2>8, <2>9, <2>10
<1>11. CASE GenBinary
  <2> DEFINE type == resolved_type[pos]
  <2>1. Node.kind = "Binary" /\ Node.op \in BinaryOperators
    BY <1>1, <1>11 DEF GenBinary
  <2>2. type # NoType /\ (Node.op = "Equals" => type = "Bool")
    BY <1>1, <2>1 DEF CheckedTree
  <2>3. Operations(type) \in GenErrors => Operations(type) \in GenErrors \ InternalErrors
    BY <1>2, <1>6 DEF Operations, LiteralTypes, SignedTypes, UnsignedTypes, FloatTypes, GenErrors
  <2>4. Operations("Bool") \in GenErrors
    BY DEF Operations, LiteralTypes, SignedTypes, UnsignedTypes, FloatTypes, GenErrors
  <2>5. Operations(type) \notin GenErrors => Node.op \in ArithmeticOperators
    BY <2>1, <2>2, <2>4 DEF BinaryOperators
  <2>6. ASSUME Operations(type) \notin GenErrors, NEW lhs, NEW rhs
        PROVE  MatchesAlloca([at |-> pos, op |-> apply(Operations(type), Node.op),
                              lhs |-> lhs, rhs |-> rhs])
    <3>1. apply(Operations(type), Node.op) # "Load"
      BY <2>5, <2>6, ApplyInstruction DEF Instructions
    <3> QED BY <3>1 DEF MatchesAlloca
  <2> HIDE DEF type
  <2>7. \/ Operations(type) \in GenErrors /\ GenThrow(Operations(type))
        \/ /\ Operations(type) \notin GenErrors
           /\ ir' = Append(ir, [at |-> pos, op |-> apply(Operations(type), Node.op),
                                lhs |-> values[Node.lhs], rhs |-> values[Node.rhs]])
           /\ EmitValue(Result(values[Node.lhs].type, NextRequest))
    BY <1>11, <2>2, <2>5 DEF GenBinary, Request, type
  <2> QED BY <1>4, <1>5, <2>3, <2>6, <2>7
<1> QED BY <1>7, <1>8, <1>9, <1>10, <1>11 DEF GenNode

(* Leaving a statement.                                                    *)
LEMMA ExitInv ==
  ASSUME IsProgram(program, Names), GenTypeInv, GenInv, CheckedTree, gen = "generating",
         GenExit, UNCHANGED tc_vars
  PROVE  GenInv'
<1>1. AtExit(program, pos) /\ program' = program /\ resolved_type' = resolved_type
      /\ status' = status
  BY DEF GenExit, GenDeclaration, GenAssignment, GenShow, GenReturn, tc_vars
<1>2. IsSequence(ir) /\ Len(ir) \in Nat
  BY Appending DEF GenTypeInv
<1>3. ASSUME Advance PROVE RunsOnChecked' /\ NoGuardFires'
  BY <1>1, <1>3 DEF Advance, GenInv, RunsOnChecked, NoGuardFires
<1>4. ASSUME NEW r, ir' = Append(ir, r), r.op # "Load", Stmt.kind # "Declare",
             named_values' = named_values, Advance
      PROVE  GenInv'
  <2>1. Extends
    BY <1>1, <1>4, Extending
  <2>2. Len(ir') = Len(ir) + 1 /\ ir'[Len(ir) + 1] = r
    BY <1>2, <1>4, Appending
  <2>3. \A n \in Len(ir) + 1 .. Len(ir') : ir'[n].op # "Load"
    BY <1>2, <1>4, <2>2
  <2>4. Loads'
    BY <2>1, <2>3, LoadsKept DEF GenInv, Loads
  <2>5. SlotsFollow' /\ DeclaredOnce'
    BY <1>1, <1>4, <2>1, AdvanceSlots DEF GenInv, Advance
  <2> QED BY <1>3, <1>4, <2>4, <2>5 DEF GenInv, Loads
<1>5. CASE GenAssignment
  BY <1>4, <1>5 DEF GenAssignment, Request
<1>6. CASE GenShow
  BY <1>4, <1>6 DEF GenShow, Request
<1>7. CASE GenReturn
  BY <1>4, <1>7 DEF GenReturn, Request
<1>8. CASE GenDeclaration
  <2> DEFINE type == resolved_type[StmtAddress]
  <2>1. Stmt.kind = "Declare"
    BY <1>8 DEF GenDeclaration
  <2>2. /\ StmtAddress \in StatementAddresses(program) /\ StmtAddress \in Addresses(program)
        /\ StatementAt(program, StmtAddress) = Stmt
    BY <1>1, PosShape DEF AtExit, GenTypeInv, CGTypeOK
  <2>3. type # NoType /\ type \notin LiteralTypes
    BY <2>1, <2>2 DEF CheckedTree
  <2>4. ~HasLLVMType(type) => NoLLVMType(type) \in GenErrors \ InternalErrors
    BY <2>3 DEF NoLLVMType, GenErrors, InternalErrors
  <2>5. CASE ~HasLLVMType(type)
    BY <1>8, <2>3, <2>4, <2>5, GenThrowInv DEF GenDeclaration
  <2>6. CASE HasLLVMType(type)
    <3> DEFINE alloca == [at |-> StmtAddress, op |-> "Alloca", type |-> SlotOfDeclaration]
               store  == [at |-> StmtAddress, op |-> "Store", value |-> StmtValue,
                          slot |-> NextRequest]
    <3>1. /\ ir' = ir \o << alloca, store >> /\ Advance
          /\ named_values' = [named_values EXCEPT ![Stmt.name] = NextRequest]
      BY <1>8, <2>3, <2>6 DEF GenDeclaration
    <3>2. /\ alloca.op = "Alloca" /\ alloca.at = StmtAddress
          /\ alloca.type = LLVMType(resolved_type[StmtAddress]) /\ store.op = "Store"
      BY DEF SlotOfDeclaration
    <3> HIDE DEF alloca, store
    <3>3. ir' = Append(Append(ir, alloca), store)
      BY <1>2, <3>1, AppendingTwo
    <3> DEFINE half == Append(ir, alloca)
    <3>4. /\ IsSequence(half) /\ Len(half) = Len(ir) + 1 /\ half[Len(ir) + 1] = alloca
          /\ \A i \in 1 .. Len(ir) : half[i] = ir[i]
      BY <1>2, Appending
    <3> HIDE DEF half
    <3>5. /\ Len(ir') = Len(half) + 1 /\ ir'[Len(half) + 1] = store
          /\ \A i \in 1 .. Len(half) : ir'[i] = half[i]
      BY <3>3, <3>4, Appending DEF half
    <3>6. /\ Len(ir') = Len(ir) + 2 /\ ir'[Len(ir) + 1] = alloca /\ ir'[Len(ir) + 2] = store
          /\ \A i \in 1 .. Len(ir) : ir'[i] = ir[i]
      BY <1>2, <3>4, <3>5
    <3>7. Extends
      BY <1>1, <1>2, <3>6 DEF Extends
    <3>8. \A n \in Len(ir) + 1 .. Len(ir') : ir'[n].op # "Load"
      <4>1. \A n \in Len(ir) + 1 .. Len(ir') : n = Len(ir) + 1 \/ n = Len(ir) + 2
        BY <1>2, <3>6
      <4> QED BY <3>2, <3>6, <4>1
    <3>9. Loads'
      BY <3>7, <3>8, LoadsKept DEF GenInv, Loads
    <3>10. SlotsFollow' /\ DeclaredOnce'
      BY <1>1, <2>1, <3>1, <3>2, <3>6, <3>7, AdvanceSlots DEF GenInv, Advance, NextRequest
    <3> QED BY <1>3, <3>1, <3>9, <3>10 DEF GenInv, Loads
  <2> QED BY <2>5, <2>6
<1> QED BY <1>5, <1>6, <1>7, <1>8 DEF GenExit

LEMMA GenInit == Init => GenInv
<1> SUFFICES ASSUME Init PROVE GenInv
  OBVIOUS
<1>1. gen = "waiting" /\ ir = << >> /\ pos = FirstAddress
  BY DEF Init, CGInit
<1>2. Requests({"Load"}) = {}
  BY <1>1 DEF Requests
<1> QED
  BY <1>1, <1>2 DEF GenInv, RunsOnChecked, SlotsFollow, DeclaredOnce, InFunction, LoadsInside,
                    LoadsMatchAllocas, NoGuardFires

LEMMA GenNext ==
  ASSUME TCTypeOK, LiteralInv, UsesInv, AnnotatedInv, GenTypeInv, GenInv, [Next \/ Done]_vars
  PROVE  GenInv'
<1>1. IsProgram(program, Names)
  BY ProgramsAssumption DEF TCTypeOK
<1>2. CASE TCNext /\ UNCHANGED cg_vars
  <2>1. status = "checking"
    BY <1>2 DEF TCNext, EnterFunction, EnterStatement, VisitNode, VisitLiteral, VisitVariable,
                VisitFunctionCall, VisitBinary, ExitStatement, Declaring, Assigning, Showing,
                Returning, FinishCheck
  <2>2. gen = "waiting" /\ gen' = gen /\ pos' = pos /\ ir' = ir
    BY <1>2, <2>1 DEF GenInv, RunsOnChecked, cg_vars
  <2>3. LoadsInside' /\ LoadsMatchAllocas'
    BY <2>2 DEF GenInv, LoadsInside, LoadsMatchAllocas, Slot, Requests
  <2> QED BY <2>2, <2>3 DEF GenInv, RunsOnChecked, SlotsFollow, DeclaredOnce, InFunction,
                            NoGuardFires
<1>3. CASE UNCHANGED vars \/ Done
  <2>1. UNCHANGED << program, resolved_type, status, gen, pos, ir, named_values >>
    BY <1>3 DEF vars, tc_vars, cg_vars, Done
  <2>2. SlotsFollow'
    BY <2>1 DEF GenInv, SlotsFollow, InFunction, IsSlotOf, DeclaresBefore, Declares
  <2>3. DeclaredOnce'
    BY <2>1 DEF GenInv, DeclaredOnce, InFunction, DeclaresBefore, Declares, Stmt
  <2>4. LoadsInside' /\ LoadsMatchAllocas'
    BY <2>1 DEF GenInv, LoadsInside, LoadsMatchAllocas, Slot, Requests
  <2> QED BY <2>1, <2>2, <2>3, <2>4 DEF GenInv, RunsOnChecked, NoGuardFires
<1>4. CASE GenStart /\ UNCHANGED tc_vars
  <2>1. /\ pos' = pos /\ pos[2] = 0 /\ status' = "checked" /\ gen' = "generating" /\ ir' = ir
    BY <1>4 DEF GenStart, GenInv, RunsOnChecked, FirstAddress, tc_vars
  <2>2. LoadsInside' /\ LoadsMatchAllocas'
    BY <2>1 DEF GenInv, LoadsInside, LoadsMatchAllocas, Slot, Requests
  <2> QED BY <2>1, <2>2 DEF GenInv, RunsOnChecked, SlotsFollow, DeclaredOnce, InFunction,
                            NoGuardFires
<1>5. CASE (CGNext /\ ~GenStart) /\ UNCHANGED tc_vars
  <2>1. gen = "generating"
    BY <1>5 DEF CGNext, GenFunction, GenEntry, GenNode, GenIntLiteral, GenFloatLiteral,
                GenVariable, GenFunctionCall, GenBinary, GenExit, GenDeclaration,
                GenAssignment, GenShow, GenReturn, GenFinish
  <2>2. status = "checked" /\ status' = status /\ UNCHANGED << program, resolved_type >>
    BY <1>5, <2>1 DEF GenInv, RunsOnChecked, tc_vars
  <2>3. CheckedTree
    BY <2>2, CheckerLeaves
  <2>4. CASE GenFinish
    <3>1. gen' = "generated" /\ ir' = ir
      BY <2>4 DEF GenFinish
    <3>2. LoadsInside' /\ LoadsMatchAllocas'
      BY <3>1 DEF GenInv, LoadsInside, LoadsMatchAllocas, Slot, Requests
    <3> QED BY <2>2, <3>1, <3>2 DEF GenInv, RunsOnChecked, SlotsFollow, DeclaredOnce, InFunction,
                                    NoGuardFires
  <2>5. CASE GenFunction
    <3>1. /\ pos' = NextStatement(program, pos) /\ pos[2] = 0 /\ gen' = gen /\ ir' = ir
          /\ named_values' = [n \in Names |-> NoRequest]
      BY <2>5 DEF GenFunction, AtFunction
    <3>2. pos'[2] = 0 \/ (pos'[2] = 1 /\ pos'[3] = 0)
      BY <3>1 DEF NextStatement
    <3>3. SlotsFollow' /\ DeclaredOnce'
      BY <3>1, <3>2 DEF SlotsFollow, DeclaredOnce, InFunction, DeclaresBefore
    <3>4. LoadsInside' /\ LoadsMatchAllocas'
      BY <3>1 DEF GenInv, LoadsInside, LoadsMatchAllocas, Slot, Requests
    <3> QED BY <2>1, <2>2, <3>1, <3>3, <3>4 DEF GenInv, RunsOnChecked, NoGuardFires
  <2>6. CASE GenEntry
    <3>1. AtEntry(program, pos) /\ InFunction /\ ~AtEnd(program, pos) /\ pos[2] > 0
      BY <2>1, <2>6 DEF GenEntry, AtEntry, InFunction
    <3>2. /\ StmtAddress \in StatementAddresses(program) /\ IsStatement(Stmt, Names)
          /\ StatementAt(program, StmtAddress) = Stmt
      BY <1>1, <3>1, PosShape DEF GenTypeInv, CGTypeOK
    <3>3. Stmt.kind = "Assign" => named_values[Stmt.name] # NoRequest
      <4>1. StmtAddress[1] = pos[1] /\ StmtAddress[2] = pos[2]
        BY DEF StmtAddress
      <4>2. Stmt.kind = "Assign" => DeclaresBefore(pos[1], pos[2], Stmt.name) /\ Stmt.name \in Names
        BY <2>3, <3>2, <4>1 DEF CheckedTree, IsStatement
      <4> QED BY <3>1, <4>2 DEF GenInv, SlotsFollow
    <3>4. CASE GenThrow("DeclaredTwice")
      BY <1>5, <2>1, <3>4, GenThrowInv DEF GenErrors, InternalErrors
    <3>5. CASE ~GenThrow("DeclaredTwice")
      <4>1. /\ ~(Stmt.kind = "Declare" /\ named_values[Stmt.name] # NoRequest)
            /\ pos' = <<pos[1], pos[2], 1>>
            /\ UNCHANGED << named_values, ir, gen >>
        BY <2>6, <3>3, <3>5 DEF GenEntry
      <4>2. pos'[1] = pos[1] /\ pos'[2] = pos[2]
        BY <4>1
      <4>3. Extends
        BY <2>2, <4>1, Extending
      <4>4. SlotsFollow'
        BY <1>1, <4>1, <4>2, <4>3, SlotsKept DEF GenInv
      <4>5. Stmt.kind = "Declare" => ~DeclaresBefore(pos[1], pos[2], Stmt.name)
        BY <3>1, <3>2, <4>1 DEF GenInv, SlotsFollow, IsStatement
      <4>6. DeclaredOnce'
        <5>1. \A f, d, n : Declares(f, d, n)' <=> Declares(f, d, n)
          BY <2>2 DEF Declares
        <5>2. Stmt' = Stmt
          BY <2>2, <4>2 DEF Stmt, StatementAt
        <5>3. ASSUME NEW n \in Names, NEW d \in 1 .. (pos[2] - 1), NEW e \in 1 .. (pos[2] - 1),
                     Declares(pos[1], d, n), Declares(pos[1], e, n)
              PROVE  d = e
          BY <3>1, <5>3 DEF GenInv, DeclaredOnce
        <5>4. (Stmt.kind = "Declare" => ~DeclaresBefore(pos[1], pos[2], Stmt.name))'
          BY <4>2, <4>5, <5>1, <5>2 DEF DeclaresBefore
        <5>5. (\A n \in Names : \A d, e \in 1 .. (pos[2] - 1) :
                Declares(pos[1], d, n) /\ Declares(pos[1], e, n) => d = e)'
          BY <4>2, <5>1, <5>3
        <5> QED BY <5>4, <5>5 DEF DeclaredOnce
      <4>7. LoadsInside' /\ LoadsMatchAllocas'
        BY <4>1 DEF GenInv, LoadsInside, LoadsMatchAllocas, Slot, Requests
      <4> QED BY <2>1, <2>2, <4>1, <4>4, <4>6, <4>7 DEF GenInv, RunsOnChecked, NoGuardFires
    <3> QED BY <3>4, <3>5
  <2>7. CASE GenNode
    BY <1>1, <1>5, <2>1, <2>3, <2>7, NodeInv
  <2>8. CASE GenExit
    BY <1>1, <1>5, <2>1, <2>3, <2>8, ExitInv
  <2> QED BY <1>5, <2>4, <2>5, <2>6, <2>7, <2>8 DEF CGNext
<1> QED BY <1>2, <1>3, <1>4, <1>5 DEF Next

(* The invariant of the whole compilation.                                 *)
LEMMA CompilationInvariant ==
  Spec => [](TCTypeOK /\ LiteralInv /\ FreshInv /\ UsesInv /\ AnnotatedInv
             /\ GenTypeInv /\ GenInv)
<1> DEFINE Inv == TCTypeOK /\ LiteralInv /\ FreshInv /\ UsesInv /\ AnnotatedInv
                  /\ GenTypeInv /\ GenInv
<1>1. Init => Inv
  <2>1. Init => TCInit
    BY DEF Init
  <2> QED
    BY <2>1, TypeInit, LiteralInit, FreshInit, UsesInit, AnnotatedInit, GenTypeInit, GenInit
<1>2. Inv /\ [Next \/ Done]_vars => Inv'
  <2> SUFFICES ASSUME Inv, [Next \/ Done]_vars PROVE Inv'
    OBVIOUS
  <2>1. [TCNext \/ TCDone]_tc_vars
    BY CheckerStep
  <2>2. TCTypeOK' /\ LiteralInv' /\ FreshInv' /\ UsesInv' /\ AnnotatedInv'
    BY <2>1, TypeNext, LiteralNext, FreshNext, UsesNext, AnnotatedNext
  <2> QED BY <2>2, GenTypeNext, GenNext
<1> QED BY <1>1, <1>2, PTL DEF Spec

(* A load reads an alloca of its function, with the type it was made with, *)
(* whatever the programs declare, shadow and assign.                       *)
THEOREM LoadsMatch == Spec => []LoadsMatchAllocas
<1>1. GenInv => LoadsMatchAllocas
  BY DEF GenInv
<1> QED BY <1>1, CompilationInvariant, PTL

----------------------------------------------------------------------------
(* Where the types of a checked tree come from.  In a statement that calls *)
(* nothing, a type that is no number's stems from a comparison or from a   *)
(* variable that has it; an int literal gets the type of an int unless the *)
(* statement mixes it with a float literal.                                *)
Numeric == IntTypes \cup FloatTypes

Explains(a, i, type) ==
  LET x == StatementAt(program, a).value[i]
  IN  \/ x.kind = "Binary" /\ x.op = "Equals" /\ type = "Bool"
      \/ x.kind = "Variable" /\ resolved_type[<<a[1], a[2], i>>] = type

HasSource(a, n, type) ==
  type \in Numeric \cup LiteralTypes \/ \E i \in 1 .. n : Explains(a, i, type)

EmittedHaveSources ==
  InStatement =>
    \A i \in 1 .. (at[3] - 1) :
      /\ CurrentStatement.value[i].kind \in LiteralTypes =>
           emitted[i] = CurrentStatement.value[i].kind
      /\ ~HasCall(at) => HasSource(at, i, emitted[i])
      /\ ~HasCall(at) /\ emitted[i] = "FloatLiteral" =>
           \E j \in 1 .. i : CurrentStatement.value[j].kind = "FloatLiteral"

AnnotationsHaveSources ==
  /\ \A a \in NodeAddresses(program) :
       ~HasCall(a) /\ resolved_type[a] # NoType => HasSource(a, a[3], resolved_type[a])
  /\ \A a \in StatementAddresses(program) :
       ~HasCall(a) /\ resolved_type[a] # NoType =>
         HasSource(a, Len(StatementAt(program, a).value), resolved_type[a])

IntLiteralsSettled ==
  \A a \in NodeAddresses(program) :
    /\ NodeAt(program, a).kind = "IntLiteral" /\ ~Unvisited(a)
    /\ ~HasCall(a) /\ ~MixesLiterals(a)
    => resolved_type[a] \in IntTypes \cup {"IntLiteral"}

SourceInv ==
  status \in {"checking", "checked"} =>
    EmittedHaveSources /\ AnnotationsHaveSources /\ IntLiteralsSettled

(* A literal only ever takes the type of a number, an int one of an int.   *)
LEMMA OperandSettles ==
  ASSUME NEW own \in LiteralTypes, NEW other \in TypeIds,
         OperandsFit(own, other) \/ OperandsFit(other, own)
  PROVE  /\ OperandType(own, other) \in Numeric
         /\ own = "IntLiteral" /\ other # "FloatLiteral" => OperandType(own, other) \in IntTypes
<1>1. NoType \notin TypeIds
  BY DEF NoType, TypeIds, BuiltinTypes, IntTypes, SignedTypes, UnsignedTypes, FloatTypes,
         LiteralTypes, Indeterminate
<1>2. CASE other \in LiteralTypes
  BY <1>2 DEF OperandType, Numeric, IntTypes, SignedTypes, FloatTypes, LiteralTypes
<1>3. CASE other \notin LiteralTypes
  <2>1. OperandType(own, other) = other
    BY <1>3 DEF OperandType
  <2>2. LiteralFits(other, own)
    BY <1>3 DEF OperandsFit
  <2>3. other \in Numeric /\ (own = "IntLiteral" => other \in IntTypes)
    BY <1>1, <2>2 DEF LiteralFits, Numeric
  <2> QED BY <2>1, <2>3
<1> QED BY <1>2, <1>3

LEMMA StatementSettles ==
  ASSUME NEW type \in LiteralTypes, NEW expected, Settles(expected, type)
  PROVE  /\ Settled(expected, type) \in Numeric
         /\ type = "IntLiteral" => Settled(expected, type) \in IntTypes
<1>1. CASE expected = NoType
  BY <1>1 DEF Settled, ResolveLiteral, LiteralDefault, Numeric, IntTypes, SignedTypes,
              FloatTypes, LiteralTypes
<1>2. CASE expected # NoType
  BY <1>2 DEF Settled, Settles, ResolveLiteral, LiteralFits, Numeric
<1> QED BY <1>1, <1>2

LEMMA SameStatement ==
  ASSUME NEW a, NEW b, a[1] = b[1], a[2] = b[2]
  PROVE  /\ HasCall(a) <=> HasCall(b)
         /\ MixesLiterals(a) <=> MixesLiterals(b)
         /\ \A n, type : HasSource(a, n, type) <=> HasSource(b, n, type)
<1>1. StatementAt(program, a) = StatementAt(program, b)
  BY DEF StatementAt
<1>2. \A i, type : Explains(a, i, type) <=> Explains(b, i, type)
  BY <1>1 DEF Explains
<1> QED BY <1>1, <1>2 DEF HasCall, MixesLiterals, HasSource

(* A step that only refines annotations keeps what explains a type.        *)
LEMMA SourceKept ==
  ASSUME Refines, NEW a, NEW n, NEW type, type # NoType,
         \A i \in 1 .. n : <<a[1], a[2], i>> \in Addresses(program),
         HasSource(a, n, type)
  PROVE  HasSource(a, n, type)'
<1>1. CASE type \in Numeric \cup LiteralTypes
  BY <1>1 DEF HasSource
<1>2. CASE type \notin Numeric \cup LiteralTypes
  <2>1. PICK i \in 1 .. n : Explains(a, i, type)
    BY <1>2 DEF HasSource
  <2>2. StatementAt(program, a)' = StatementAt(program, a)
    BY DEF Refines, StatementAt
  <2>3. Explains(a, i, type)'
    BY <1>2, <2>1, <2>2 DEF Explains, Refines
  <2> QED BY <2>3 DEF HasSource
<1> QED BY <1>1, <1>2

LEMMA SourceStep ==
  ASSUME TCTypeOK, Refines, SourceInv, status \in {"checking", "checked"},
         EmittedHaveSources',
         \A a \in NodeAddresses(program) : ~HasCall(a) =>
           \/ resolved_type'[a] = resolved_type[a]
           \/ HasSource(a, a[3], resolved_type[a])',
         \A a \in StatementAddresses(program) : ~HasCall(a) =>
           \/ resolved_type'[a] = resolved_type[a]
           \/ HasSource(a, Len(StatementAt(program, a).value), resolved_type[a])',
         \A a \in NodeAddresses(program) :
           /\ NodeAt(program, a).kind = "IntLiteral" /\ ~Unvisited(a)'
           /\ ~HasCall(a) /\ ~MixesLiterals(a)
           => \/ ~Unvisited(a) /\ resolved_type'[a] = resolved_type[a]
              \/ resolved_type'[a] \in IntTypes \cup {"IntLiteral"}
  PROVE  SourceInv'
<1>1. program' = program /\ IsProgram(program, Names)
  BY ProgramsAssumption DEF Refines, TCTypeOK
<1>2. AnnotationsHaveSources /\ IntLiteralsSettled
  BY DEF SourceInv
<1>3. /\ NodeAddresses(program)' = NodeAddresses(program)
      /\ StatementAddresses(program)' = StatementAddresses(program)
      /\ \A a : /\ StatementAt(program, a)' = StatementAt(program, a)
                /\ NodeAt(program, a)' = NodeAt(program, a)
                /\ HasCall(a)' <=> HasCall(a)
                /\ MixesLiterals(a)' <=> MixesLiterals(a)
  BY <1>1 DEF NodeAt, StatementAt, HasCall, MixesLiterals
<1>4. ASSUME NEW a \in NodeAddresses(program), ~HasCall(a), resolved_type'[a] # NoType
      PROVE  HasSource(a, a[3], resolved_type[a])'
  <2>1. CASE resolved_type'[a] = resolved_type[a]
    <3>1. PICK type : type = resolved_type[a]
      OBVIOUS
    <3>2. PICK n : n = a[3]
      OBVIOUS
    <3>3. HasSource(a, n, type) /\ type # NoType
      BY <1>2, <1>4, <2>1, <3>1, <3>2 DEF AnnotationsHaveSources
    <3>4. \A i \in 1 .. n : <<a[1], a[2], i>> \in Addresses(program)
      <4>1. PICK f, s : f = a[1] /\ s = a[2]
        OBVIOUS
      <4>2. /\ f \in 1 .. Len(program) /\ s \in 1 .. Len(program[f].statements)
            /\ n \in 1 .. Len(program[f].statements[s].value)
            /\ Len(program[f].statements[s].value) \in Nat
        BY <1>1, <3>2, <4>1, NodeAddressParts DEF StatementAt
      <4>3. \A i \in 1 .. n : i \in 1 .. Len(program[f].statements[s].value)
        BY <4>2
      <4> QED BY <4>1, <4>2, <4>3, NodeAddress
    <3>5. HasSource(a, n, type)'
      BY <3>3, <3>4, SourceKept
    <3> QED BY <2>1, <3>1, <3>2, <3>5
  <2>2. CASE HasSource(a, a[3], resolved_type[a])'
    BY <2>2
  <2> QED BY <1>4, <2>1, <2>2
<1>5. ASSUME NEW a \in StatementAddresses(program), ~HasCall(a), resolved_type'[a] # NoType
      PROVE  HasSource(a, Len(StatementAt(program, a).value), resolved_type[a])'
  <2>1. CASE resolved_type'[a] = resolved_type[a]
    <3>1. PICK type : type = resolved_type[a]
      OBVIOUS
    <3>2. PICK n : n = Len(StatementAt(program, a).value)
      OBVIOUS
    <3>3. HasSource(a, n, type) /\ type # NoType
      BY <1>2, <1>5, <2>1, <3>1, <3>2 DEF AnnotationsHaveSources
    <3>4. \A i \in 1 .. n : <<a[1], a[2], i>> \in Addresses(program)
      <4>1. PICK f, s : f = a[1] /\ s = a[2]
        OBVIOUS
      <4>2. /\ f \in 1 .. Len(program) /\ s \in 1 .. Len(program[f].statements)
            /\ n = Len(program[f].statements[s].value)
        BY <1>1, <3>2, <4>1, StatementAddressParts DEF StatementAt
      <4> QED BY <4>1, <4>2, NodeAddress
    <3>5. HasSource(a, n, type)'
      BY <3>3, <3>4, SourceKept
    <3> QED BY <1>3, <2>1, <3>1, <3>2, <3>5
  <2>2. CASE HasSource(a, Len(StatementAt(program, a).value), resolved_type[a])'
    BY <2>2
  <2> QED BY <1>5, <2>1, <2>2
<1>6. AnnotationsHaveSources'
  BY <1>3, <1>4, <1>5 DEF AnnotationsHaveSources
<1>7. IntLiteralsSettled'
  <2> SUFFICES ASSUME NEW a \in NodeAddresses(program),
                      NodeAt(program, a).kind = "IntLiteral", ~Unvisited(a)',
                      ~HasCall(a), ~MixesLiterals(a)
               PROVE  resolved_type'[a] \in IntTypes \cup {"IntLiteral"}
    BY <1>3 DEF IntLiteralsSettled
  <2> QED BY <1>2 DEF IntLiteralsSettled
<1> QED BY <1>6, <1>7 DEF SourceInv

LEMMA EmitSource ==
  ASSUME TCTypeOK, Refines, SourceInv, status = "checking", AtNode(program, at), Emit,
         NEW here, here = at,
         CurrentNode.kind \in LiteralTypes => result' = CurrentNode.kind,
         ~HasCall(here) => HasSource(here, here[3], result)',
         ~HasCall(here) /\ result' = "FloatLiteral" =>
           \E j \in 1 .. here[3] : CurrentStatement.value[j].kind = "FloatLiteral"
  PROVE  EmittedHaveSources'
<1>1. /\ at'[1] = here[1] /\ at'[2] = here[2] /\ at'[3] = here[3] + 1
      /\ program' = program /\ emitted' = Append(emitted, result')
  BY DEF Emit
<1>2. /\ here[3] \in Nat /\ emitted \in Seq(TypeIds) /\ Len(emitted) = here[3] - 1
      /\ here[3] \in 1 .. Len(CurrentStatement.value) /\ Len(CurrentStatement.value) \in Nat
  BY NodeShape, AtParts DEF TCTypeOK
<1>3. CurrentStatement' = CurrentStatement
  BY <1>1 DEF CurrentStatement, StatementAt
<1>4. EmittedHaveSources /\ InStatement
  BY DEF SourceInv, InStatement
<1>5. PICK type : type = result'
  OBVIOUS
<1>6. emitted' = Append(emitted, type) /\ IsSequence(emitted)
  BY <1>1, <1>2, <1>5 DEF IsSequence
<1>7. /\ \A i \in 1 .. (here[3] - 1) : emitted'[i] = emitted[i] /\ emitted[i] \in TypeIds
      /\ emitted'[here[3]] = type
  <2>1. /\ \A i \in 1 .. Len(emitted) : Append(emitted, type)[i] = emitted[i]
        /\ Append(emitted, type)[Len(emitted) + 1] = type
    BY <1>6, Appending
  <2>2. Len(emitted) + 1 = here[3]
    BY <1>2
  <2>3. \A i \in 1 .. Len(emitted) : emitted[i] \in TypeIds
    BY <1>2
  <2> QED BY <1>2, <1>6, <2>1, <2>2, <2>3
<1>8. HasCall(at)' <=> HasCall(here)
  BY <1>1, SameStatement DEF HasCall, StatementAt
<1>9. ASSUME NEW i \in 1 .. here[3]
      PROVE  /\ CurrentStatement.value[i].kind \in LiteralTypes =>
                  emitted'[i] = CurrentStatement.value[i].kind
             /\ ~HasCall(here) => HasSource(here, i, emitted[i])'
             /\ ~HasCall(here) /\ emitted'[i] = "FloatLiteral" =>
                  \E j \in 1 .. i : CurrentStatement.value[j].kind = "FloatLiteral"
  <2>1. CASE i = here[3]
    <3>1. CurrentNode = CurrentStatement.value[i]
      BY <2>1 DEF CurrentNode, NodeAt, CurrentStatement
    <3>2. emitted'[i] = result'
      BY <1>5, <1>7, <2>1
    <3>3. ~HasCall(here) => HasSource(here, i, emitted[i])'
      BY <2>1, <3>2 DEF HasSource
    <3> QED BY <2>1, <3>1, <3>2, <3>3
  <2>2. CASE i # here[3]
    <3>1. i \in 1 .. (here[3] - 1)
      BY <1>2, <2>2
    <3>2. PICK old : old = emitted[i]
      OBVIOUS
    <3>3. emitted'[i] = old /\ old \in TypeIds
      BY <1>7, <3>1, <3>2
    <3>4. old # NoType
      BY <3>3 DEF NoType, TypeIds, BuiltinTypes, IntTypes, SignedTypes, UnsignedTypes,
                  FloatTypes, LiteralTypes, Indeterminate
    <3>5. \A k \in 1 .. i : <<here[1], here[2], k>> \in Addresses(program)
      <4>1. \A k \in 1 .. i : k \in 1 .. Len(CurrentStatement.value)
        BY <1>2, <3>1
      <4> QED BY <1>4, <4>1, OperandAddress DEF Operand
    <3>6. ~HasCall(here) => HasSource(here, i, old)
      BY <1>4, <3>1, <3>2 DEF EmittedHaveSources
    <3>7. ~HasCall(here) => HasSource(here, i, old)'
      BY <3>4, <3>5, <3>6, SourceKept
    <3>8. ~HasCall(here) => HasSource(here, i, emitted[i])'
      BY <3>3, <3>7
    <3> QED BY <1>4, <3>1, <3>2, <3>3, <3>8 DEF EmittedHaveSources
  <2> QED BY <2>1, <2>2
<1>10. ASSUME NEW i \in 1 .. here[3]
       PROVE  HasSource(at, i, emitted[i])' <=> HasSource(here, i, emitted[i])'
  <2>1. StatementAt(program, at)' = StatementAt(program, here)'
    BY <1>1 DEF StatementAt
  <2>2. \A k, t : Explains(at, k, t)' <=> Explains(here, k, t)'
    BY <1>1, <2>1 DEF Explains
  <2> QED BY <2>2 DEF HasSource
<1>11. at'[3] - 1 = here[3]
  BY <1>1, <1>2
<1> QED BY <1>3, <1>8, <1>9, <1>10, <1>11 DEF EmittedHaveSources

LEMMA ThrowSource ==
  ASSUME NEW error \in Errors, Throw(error)
  PROVE  SourceInv'
BY DEF Throw, Errors, SourceInv

LEMMA SourceInit == TCInit => SourceInv
<1> SUFFICES ASSUME TCInit PROVE SourceInv
  OBVIOUS
<1>1. at[1] = 1 /\ at[2] = 0 /\ at[3] = 0 /\ IsProgram(program, Names)
  BY ProgramsAssumption DEF TCInit, FirstAddress
<1>2. EmittedHaveSources
  BY <1>1 DEF EmittedHaveSources, InStatement, AtNode, AtExit
<1>3. \A a \in NodeAddresses(program) : Unvisited(a) /\ resolved_type[a] = NoType
  BY <1>1, NodeAddressParts DEF Unvisited, TCInit
<1>4. \A a \in StatementAddresses(program) : resolved_type[a] = NoType
  BY <1>1, StatementAddressParts DEF TCInit
<1> QED BY <1>2, <1>3, <1>4 DEF SourceInv, AnnotationsHaveSources, IntLiteralsSettled

(* The visit of a node: what is written besides its own annotation is the  *)
(* number type that literal operands take.                                 *)
LEMMA VisitSource ==
  ASSUME TCTypeOK, Refines, SourceInv, status = "checking", AtNode(program, at), Emit,
         NEW here, here = at,
         CurrentNode.kind \in LiteralTypes => result' = CurrentNode.kind,
         ~HasCall(here) => HasSource(here, here[3], result)',
         ~HasCall(here) /\ result' = "FloatLiteral" =>
           \E j \in 1 .. here[3] : CurrentStatement.value[j].kind = "FloatLiteral",
         CurrentNode.kind = "IntLiteral" => resolved_type'[here] = "IntLiteral",
         \A a \in Addresses(program) :
           \/ resolved_type'[a] = resolved_type[a]
           \/ a = here /\ resolved_type'[a] = result'
           \/ /\ a[1] = here[1] /\ a[2] = here[2] /\ a[3] \in 1 .. here[3] - 1
              /\ resolved_type'[a] \in Numeric
              /\ NodeAt(program, a).kind = "IntLiteral" /\ ~HasCall(a) /\ ~MixesLiterals(a) =>
                   resolved_type'[a] \in IntTypes
  PROVE  SourceInv'
<1>1. program' = program /\ IsProgram(program, Names)
  BY ProgramsAssumption DEF Refines, TCTypeOK
<1>2. EmittedHaveSources'
  BY EmitSource
<1>3. \A a \in NodeAddresses(program) : ~HasCall(a) =>
        \/ resolved_type'[a] = resolved_type[a]
        \/ HasSource(a, a[3], resolved_type[a])'
  <2> TAKE a \in NodeAddresses(program)
  <2>1. a \in Addresses(program)
    BY <1>1, NodeAddressParts
  <2>2. CASE resolved_type'[a] \in Numeric
    BY <2>2 DEF HasSource
  <2>3. CASE a = here /\ resolved_type'[a] = result'
    <3>1. HasSource(a, a[3], result)' => HasSource(a, a[3], resolved_type[a])'
      BY <2>3 DEF HasSource
    <3> QED BY <2>3, <3>1
  <2> QED BY <2>1, <2>2, <2>3
<1>4. \A a \in StatementAddresses(program) : resolved_type'[a] = resolved_type[a]
  <2> TAKE a \in StatementAddresses(program)
  <2>1. a \in Addresses(program) /\ a = <<a[1], a[2], 0>>
    BY <1>1, StatementAddressParts
  <2>2. here[3] \in Nat /\ here[3] > 0 /\ a[3] = 0
    BY <2>1, AtParts DEF AtNode
  <2> QED BY <2>1, <2>2
<1>5. ASSUME NEW a \in NodeAddresses(program),
             NodeAt(program, a).kind = "IntLiteral", ~Unvisited(a)',
             ~HasCall(a), ~MixesLiterals(a)
      PROVE  \/ ~Unvisited(a) /\ resolved_type'[a] = resolved_type[a]
             \/ resolved_type'[a] \in IntTypes \cup {"IntLiteral"}
  <2>1. a \in Addresses(program)
    BY <1>1, NodeAddressParts
  <2>2. CASE a = here
    BY <1>5, <2>2 DEF CurrentNode
  <2>3. CASE a # here
    <3>1. ~Unvisited(a)
      BY <1>5, <2>3, EmitPlaces
    <3> QED BY <1>5, <2>1, <2>3, <3>1
  <2> QED BY <2>2, <2>3
<1> QED BY <1>2, <1>3, <1>4, <1>5, SourceStep

LEMMA BinarySource ==
  ASSUME TCTypeOK, LiteralInv, FreshInv, Refines, SourceInv, VisitBinary,
         ~Throw("CannotCoerce"), ~Throw("OperandMismatch")
  PROVE  SourceInv'
<1>1. PICK here : here = at
  OBVIOUS
<1>2. PICK lhs, rhs : lhs = emitted[CurrentNode.lhs] /\ rhs = emitted[CurrentNode.rhs]
  OBVIOUS
<1>3. PICK l, r, op : l = CurrentNode.lhs /\ r = CurrentNode.rhs /\ op = CurrentNode.op
  OBVIOUS
<1>4. /\ AtNode(program, at) /\ status = "checking" /\ CurrentNode.kind = "Binary" /\ Emit
      /\ OperandsFit(lhs, rhs) /\ OperandsMatch(lhs, rhs)
      /\ result' = BinaryType(op, lhs, rhs)
      /\ resolved_type' = [resolved_type EXCEPT
           ![Operand(l)] = Annotated(@, lhs, OperandType(lhs, rhs)),
           ![Operand(r)] = Annotated(@, rhs, OperandType(rhs, lhs)),
           ![at] = result']
  BY <1>2, <1>3 DEF VisitBinary
<1>5. lhs \in TypeIds /\ rhs \in TypeIds
  BY <1>2, <1>4, NodeShape
<1>6. /\ IsExpression(CurrentStatement.value, Names)
      /\ here[3] \in 1 .. Len(CurrentStatement.value) /\ here[3] \in Nat
      /\ CurrentNode = CurrentStatement.value[here[3]]
  BY <1>1, <1>4, StatementShape, NodeShape, AtParts
  DEF AtNode, IsStatement, CurrentNode, NodeAt, CurrentStatement
<1>7. l \in 1 .. here[3] - 2 /\ r = here[3] - 1
  BY <1>3, <1>4, <1>6 DEF IsExpression
<1>8. l \in 1 .. here[3] - 1 /\ r \in 1 .. here[3] - 1
  BY <1>6, <1>7
<1>9. /\ EmittedHaveSources /\ InStatement
  BY <1>4 DEF SourceInv, InStatement
<1>10. ~HasCall(here) => HasSource(here, l, lhs) /\ HasSource(here, r, rhs)
  BY <1>1, <1>2, <1>3, <1>8, <1>9 DEF EmittedHaveSources
<1>11. \A i \in 1 .. here[3] : <<here[1], here[2], i>> \in Addresses(program)
  <2>1. \A i \in 1 .. here[3] : i \in 1 .. Len(CurrentStatement.value)
    BY <1>6 DEF IsExpression
  <2> QED BY <1>1, <1>9, <2>1, OperandAddress DEF Operand
<1>12. lhs # NoType /\ rhs # NoType
  BY <1>5 DEF NoType, TypeIds, BuiltinTypes, IntTypes, SignedTypes, UnsignedTypes,
              FloatTypes, LiteralTypes, Indeterminate
<1>13. ~HasCall(here) => HasSource(here, l, lhs)' /\ HasSource(here, r, rhs)'
  <2>1. /\ \A i \in 1 .. l : <<here[1], here[2], i>> \in Addresses(program)
        /\ \A i \in 1 .. r : <<here[1], here[2], i>> \in Addresses(program)
    <3>1. /\ \A i \in 1 .. l : i \in 1 .. here[3]
          /\ \A i \in 1 .. r : i \in 1 .. here[3]
      BY <1>6, <1>8
    <3> QED BY <1>11, <3>1
  <2> QED BY <1>10, <1>12, <2>1, SourceKept
<1>14. ~HasCall(here) => HasSource(here, here[3], lhs)' /\ HasSource(here, here[3], rhs)'
  <2>1. /\ \A i \in 1 .. l : i \in 1 .. here[3]
        /\ \A i \in 1 .. r : i \in 1 .. here[3]
    BY <1>6, <1>8
  <2> QED BY <1>13, <2>1 DEF HasSource
<1>15. ~HasCall(here) => HasSource(here, here[3], result)'
  <2>1. CASE op = "Equals"
    <3>1. result' = "Bool"
      BY <1>4, <2>1 DEF BinaryType
    <3>2. StatementAt(program, here)' = CurrentStatement
      BY <1>1 DEF Refines, StatementAt, CurrentStatement
    <3>3. Explains(here, here[3], result)'
      BY <1>3, <1>4, <1>6, <2>1, <3>1, <3>2 DEF Explains
    <3>4. here[3] \in 1 .. here[3]
      BY <1>6
    <3> QED BY <3>3, <3>4 DEF HasSource
  <2>2. CASE op # "Equals"
    <3>1. result' = rhs \/ (result' = OperandType(rhs, lhs) /\ lhs \notin LiteralTypes)
      BY <1>4, <2>2 DEF BinaryType
    <3>2. rhs \notin LiteralTypes => OperandType(rhs, lhs) = rhs
      BY DEF OperandType
    <3>3. rhs \in LiteralTypes => OperandType(rhs, lhs) \in Numeric
      BY <1>4, <1>5, OperandSettles
    <3>4. result' = rhs \/ result' \in Numeric
      BY <3>1, <3>2, <3>3
    <3>5. result' \in Numeric => HasSource(here, here[3], result)'
      BY DEF HasSource
    <3>6. result' = rhs => (HasSource(here, here[3], rhs)' => HasSource(here, here[3], result)')
      BY DEF HasSource
    <3> QED BY <1>14, <3>4, <3>5, <3>6
  <2> QED BY <2>1, <2>2
<1>16. ~HasCall(here) /\ result' = "FloatLiteral" =>
         \E j \in 1 .. here[3] : CurrentStatement.value[j].kind = "FloatLiteral"
  <2> SUFFICES ASSUME ~HasCall(here), result' = "FloatLiteral"
               PROVE  \E j \in 1 .. here[3] : CurrentStatement.value[j].kind = "FloatLiteral"
    OBVIOUS
  <2>1. op # "Equals"
    BY <1>4 DEF BinaryType
  <2>2. rhs \in LiteralTypes => OperandType(rhs, lhs) # "FloatLiteral"
    <3>1. "FloatLiteral" \notin Numeric
      BY DEF Numeric, IntTypes, SignedTypes, UnsignedTypes, FloatTypes
    <3> QED BY <1>4, <1>5, <3>1, OperandSettles
  <2>3. rhs \notin LiteralTypes => OperandType(rhs, lhs) = rhs
    BY DEF OperandType
  <2>4. rhs = "FloatLiteral"
    BY <1>4, <2>1, <2>2, <2>3 DEF BinaryType, LiteralTypes
  <2>5. PICK j \in 1 .. r : CurrentStatement.value[j].kind = "FloatLiteral"
    BY <1>1, <1>2, <1>3, <1>8, <1>9, <2>4 DEF EmittedHaveSources
  <2>6. j \in 1 .. here[3]
    BY <1>6, <1>8
  <2> QED BY <2>5, <2>6
<1>17. ASSUME NEW i \in 1 .. here[3] - 1, NEW own, NEW other,
              own = emitted[i], own \in LiteralTypes, other = lhs \/ other = rhs,
              OperandsFit(own, other) \/ OperandsFit(other, own),
              CurrentStatement.value[i].kind = "IntLiteral", ~HasCall(here), ~MixesLiterals(here)
       PROVE  OperandType(own, other) \in IntTypes
  <2>1. own = "IntLiteral"
    BY <1>9, <1>17, <1>1 DEF EmittedHaveSources, LiteralTypes
  <2>2. other # "FloatLiteral"
    <3> SUFFICES ASSUME other = "FloatLiteral" PROVE FALSE
      OBVIOUS
    <3>1. PICK k \in {l, r} : other = emitted[k]
      BY <1>2, <1>3, <1>17
    <3>2. k \in 1 .. here[3] - 1
      BY <1>8, <3>1
    <3>3. PICK j \in 1 .. k : CurrentStatement.value[j].kind = "FloatLiteral"
      BY <1>1, <1>9, <1>17, <3>1, <3>2 DEF EmittedHaveSources
    <3>4. j \in 1 .. Len(CurrentStatement.value) /\ i \in 1 .. Len(CurrentStatement.value)
      BY <1>6, <3>2 DEF IsExpression
    <3>5. StatementAt(program, here) = CurrentStatement
      BY <1>1 DEF CurrentStatement
    <3> QED BY <1>17, <3>3, <3>4, <3>5 DEF MixesLiterals
  <2> QED BY <1>5, <1>17, <2>1, <2>2, OperandSettles
<1>18. ASSUME NEW a \in Addresses(program)
       PROVE  \/ resolved_type'[a] = resolved_type[a]
              \/ a = here /\ resolved_type'[a] = result'
              \/ /\ a[1] = here[1] /\ a[2] = here[2] /\ a[3] \in 1 .. here[3] - 1
                 /\ resolved_type'[a] \in Numeric
                 /\ NodeAt(program, a).kind = "IntLiteral" /\ ~HasCall(a) /\ ~MixesLiterals(a) =>
                      resolved_type'[a] \in IntTypes
  <2>1. CASE a = here
    <3>1. resolved_type'[a] = result'
      BY <1>1, <1>4, <2>1 DEF TCTypeOK
    <3> QED BY <2>1, <3>1
  <2>2. CASE a # here /\ \E i \in {l, r} : a = Operand(i) /\ resolved_type'[a] # resolved_type[a]
    <3>1. PICK i \in {l, r} : a = Operand(i)
      BY <2>2
    <3>2. /\ a[1] = here[1] /\ a[2] = here[2] /\ a[3] = i /\ i \in 1 .. here[3] - 1
      BY <1>1, <1>8, <3>1 DEF Operand
    <3>3. l # r /\ Operand(l) # Operand(r) /\ Operand(i) # at
      BY <1>1, <1>6, <1>7, <2>2, <3>1 DEF Operand
    <3>4. NodeAt(program, a) = CurrentStatement.value[i]
      BY <1>1, <3>2 DEF NodeAt, StatementAt, CurrentStatement
    <3>5. (HasCall(a) <=> HasCall(here)) /\ (MixesLiterals(a) <=> MixesLiterals(here))
      BY <3>2, SameStatement
    <3>6. CASE i = l
      <4>1. resolved_type'[a] = Annotated(resolved_type[a], lhs, OperandType(lhs, rhs))
        BY <1>4, <2>2, <3>1, <3>3, <3>6 DEF TCTypeOK
      <4>2. lhs \in LiteralTypes /\ resolved_type'[a] = OperandType(lhs, rhs)
        BY <2>2, <4>1 DEF Annotated
      <4>3. resolved_type'[a] \in Numeric
        BY <1>4, <1>5, <4>2, OperandSettles
      <4>4. lhs = emitted[i]
        BY <1>2, <1>3, <3>6
      <4> QED BY <1>4, <1>17, <3>2, <3>4, <3>5, <4>2, <4>3, <4>4
    <3>7. CASE i = r
      <4>1. resolved_type'[a] = Annotated(resolved_type[a], rhs, OperandType(rhs, lhs))
        BY <1>4, <2>2, <3>1, <3>3, <3>7 DEF TCTypeOK
      <4>2. rhs \in LiteralTypes /\ resolved_type'[a] = OperandType(rhs, lhs)
        BY <2>2, <4>1 DEF Annotated
      <4>3. resolved_type'[a] \in Numeric
        BY <1>4, <1>5, <4>2, OperandSettles
      <4>4. rhs = emitted[i]
        BY <1>2, <1>3, <3>7
      <4> QED BY <1>4, <1>17, <3>2, <3>4, <3>5, <4>2, <4>3, <4>4
    <3> QED BY <3>1, <3>6, <3>7
  <2>3. CASE a # here /\ a # Operand(l) /\ a # Operand(r)
    BY <1>1, <1>4, <2>3 DEF TCTypeOK
  <2> QED BY <2>1, <2>2, <2>3
<1>19. CurrentNode.kind \notin LiteralTypes
  BY <1>4 DEF LiteralTypes
<1> QED BY <1>1, <1>4, <1>15, <1>16, <1>18, <1>19, VisitSource DEF LiteralTypes

(* The exit of a statement: its value, if that is a literal, and the       *)
(* statement get the type it settles on.                                   *)
LEMMA ExitSource ==
  ASSUME TCTypeOK, FreshInv, Refines, SourceInv, status = "checking", AtExit(program, at),
         NEW type, FinishStatement(type), NEW settled,
         ValueType \in LiteralTypes =>
           settled \in Numeric /\ (ValueType = "IntLiteral" => settled \in IntTypes),
         ValueType \notin LiteralTypes => settled = ValueType,
         \/ resolved_type' = resolved_type
         \/ resolved_type' = [resolved_type EXCEPT ![ValueNode] = Annotated(@, ValueType, settled)]
         \/ resolved_type' = [resolved_type EXCEPT
                                ![ValueNode] = Annotated(@, ValueType, settled),
                                ![StatementNode] = settled]
  PROVE  SourceInv'
<1>1. CASE type \in LiteralTypes
  BY <1>1 DEF FinishStatement, SourceInv
<1>2. CASE type \notin LiteralTypes
  <2>1. PICK here : here = at
    OBVIOUS
  <2>2. PICK n : n = Len(CurrentStatement.value)
    OBVIOUS
  <2>3. PICK emittedType : emittedType = ValueType
    OBVIOUS
  <2>4. /\ at' = NextStatement(program, at) /\ program' = program /\ IsProgram(program, Names)
        /\ OnWalk(program, at) /\ ~AtEnd(program, at)
    BY <1>2, ProgramsAssumption DEF FinishStatement, TCTypeOK, AtExit
  <2>5. EmittedHaveSources'
    BY <2>4, NextStatementOnWalk DEF EmittedHaveSources, InStatement
  <2>6. IsExpression(CurrentStatement.value, Names)
    BY StatementShape DEF AtExit, IsStatement
  <2>7. n \in Nat \ {0} /\ here[3] = n + 1
    BY <2>1, <2>2, <2>6 DEF IsExpression, AtExit, CurrentStatement
  <2>8. /\ n \in 1 .. at[3] - 1 /\ emittedType = emitted[n]
        /\ InStatement /\ EmittedHaveSources
    BY <2>1, <2>2, <2>3, <2>7 DEF InStatement, SourceInv, ValueType
  <2>9. emittedType \in TypeIds
    BY <2>3, ValueShape
  <2>10. emittedType # NoType
    BY <2>9 DEF NoType, TypeIds, BuiltinTypes, IntTypes, SignedTypes, UnsignedTypes,
                FloatTypes, LiteralTypes, Indeterminate
  <2>11. \A i \in 1 .. n : <<here[1], here[2], i>> \in Addresses(program)
    BY <2>1, <2>2, <2>8, OperandAddress DEF Operand
  <2>12. ~HasCall(here) => HasSource(here, n, emittedType)'
    <3>1. ~HasCall(here) => HasSource(here, n, emittedType)
      BY <2>1, <2>8 DEF EmittedHaveSources
    <3> QED BY <2>10, <2>11, <3>1, SourceKept
  <2>13. ~HasCall(here) => HasSource(here, n, settled)'
    <3>1. CASE emittedType \in LiteralTypes
      BY <2>3, <3>1 DEF HasSource
    <3>2. CASE emittedType \notin LiteralTypes
      BY <2>3, <2>12, <3>2
    <3> QED BY <3>1, <3>2
  <2>14. ASSUME NEW a \in Addresses(program), resolved_type'[a] # resolved_type[a]
         PROVE  \/ a = ValueNode /\ emittedType \in LiteralTypes /\ resolved_type'[a] = settled
                \/ a = StatementNode /\ resolved_type'[a] = settled
    <3>1. StatementNode # ValueNode
      BY <2>2, <2>7 DEF StatementNode, ValueNode
    <3> QED BY <2>3, <2>14, <3>1 DEF Annotated, TCTypeOK
  <2>15. ASSUME NEW a \in NodeAddresses(program), resolved_type'[a] # resolved_type[a]
         PROVE  /\ a = ValueNode /\ emittedType \in LiteralTypes /\ resolved_type'[a] = settled
                /\ resolved_type'[a] \in Numeric
    <3>1. a \in Addresses(program) /\ a[3] > 0
      BY <2>4, NodeAddressParts
    <3>2. a # StatementNode
      BY <3>1 DEF StatementNode
    <3>3. a = ValueNode /\ emittedType \in LiteralTypes /\ resolved_type'[a] = settled
      BY <2>14, <2>15, <3>1, <3>2
    <3> QED BY <2>3, <3>3
  <2>16. \A a \in NodeAddresses(program) : ~HasCall(a) =>
           \/ resolved_type'[a] = resolved_type[a]
           \/ HasSource(a, a[3], resolved_type[a])'
    BY <2>15 DEF HasSource
  <2>17. ASSUME NEW a \in StatementAddresses(program), ~HasCall(a),
                resolved_type'[a] # resolved_type[a]
         PROVE  HasSource(a, Len(StatementAt(program, a).value), resolved_type[a])'
    <3>1. a \in Addresses(program) /\ a = <<a[1], a[2], 0>>
      BY <2>4, StatementAddressParts
    <3>2. a # ValueNode
      BY <2>2, <2>7, <3>1 DEF ValueNode
    <3>3. a = StatementNode /\ resolved_type'[a] = settled
      BY <2>14, <2>17, <3>1, <3>2
    <3>4. a[1] = here[1] /\ a[2] = here[2]
      BY <2>1, <3>3 DEF StatementNode
    <3>5. HasSource(here, n, settled)'
      BY <2>13, <2>17, <3>4, SameStatement
    <3>6. /\ StatementAt(program, a)' = CurrentStatement
          /\ StatementAt(program, here)' = CurrentStatement
      BY <2>1, <2>4, <3>4 DEF StatementAt, CurrentStatement
    <3>7. \A i : Explains(a, i, settled)' <=> Explains(here, i, settled)'
      BY <3>4, <3>6 DEF Explains
    <3>8. HasSource(a, n, settled)'
      BY <3>5, <3>7 DEF HasSource
    <3>9. Len(StatementAt(program, a).value)' = n
      BY <2>2, <3>6
    <3> QED BY <3>3, <3>8, <3>9 DEF HasSource
  <2>18. ASSUME NEW a \in NodeAddresses(program),
                NodeAt(program, a).kind = "IntLiteral", ~Unvisited(a)',
                ~HasCall(a), ~MixesLiterals(a)
         PROVE  \/ ~Unvisited(a) /\ resolved_type'[a] = resolved_type[a]
                \/ resolved_type'[a] \in IntTypes \cup {"IntLiteral"}
    <3>1. CASE resolved_type'[a] = resolved_type[a]
      BY <2>4, <2>18, <3>1, AdvanceVisited
    <3>2. CASE resolved_type'[a] # resolved_type[a]
      <4>1. a = ValueNode /\ resolved_type'[a] = settled
        BY <2>15, <3>2
      <4>2. NodeAt(program, a) = CurrentStatement.value[n]
        BY <2>2, <4>1 DEF ValueNode, NodeAt, StatementAt, CurrentStatement
      <4>3. emittedType = "IntLiteral"
        BY <2>8, <2>18, <4>2 DEF EmittedHaveSources, LiteralTypes
      <4> QED BY <2>3, <4>1, <4>3 DEF LiteralTypes
    <3> QED BY <3>1, <3>2
  <2>19. \A a \in StatementAddresses(program) : ~HasCall(a) =>
           \/ resolved_type'[a] = resolved_type[a]
           \/ HasSource(a, Len(StatementAt(program, a).value), resolved_type[a])'
    BY <2>4, <2>17 DEF StatementAt, HasSource
  <2> QED BY <2>5, <2>16, <2>18, <2>19, SourceStep
<1> QED BY <1>1, <1>2

LEMMA SourceNext ==
  ASSUME TCTypeOK, LiteralInv, FreshInv, SourceInv, [TCNext \/ TCDone]_tc_vars
  PROVE  SourceInv'
<1> Refines
  BY ProgramFixed, FreshNext DEF Refines
<1>0. IsProgram(program, Names) /\ program' = program
  BY ProgramsAssumption DEF TCTypeOK, Refines
<1>1. CASE EnterFunction
  <2>1. /\ AtFunction(program, at) /\ status = "checking" /\ ~AtEnd(program, at)
        /\ at' = NextStatement(program, at) /\ program' = program
        /\ resolved_type' = [resolved_type EXCEPT ![at] = "Int32"]
    BY <1>1 DEF EnterFunction, AtFunction
  <2>2. EmittedHaveSources'
    BY <1>0, <2>1, NextStatementOnWalk DEF EmittedHaveSources, InStatement, TCTypeOK
  <2>3. "Int32" \in Numeric
    BY DEF Numeric, IntTypes, SignedTypes
  <2>4. \A a \in NodeAddresses(program) : resolved_type'[a] = resolved_type[a]
    <3> TAKE a \in NodeAddresses(program)
    <3>1. a \in Addresses(program) /\ a[3] > 0
      BY <1>0, NodeAddressParts
    <3> QED BY <2>1, <3>1 DEF TCTypeOK, AtFunction
  <2>5. \A a \in StatementAddresses(program) : resolved_type'[a] = resolved_type[a]
    <3> TAKE a \in StatementAddresses(program)
    <3>1. a \in Addresses(program) /\ a[2] > 0
      BY <1>0, StatementAddressParts
    <3> QED BY <2>1, <3>1 DEF TCTypeOK, AtFunction
  <2>6. \A a \in NodeAddresses(program) : ~Unvisited(a)' => ~Unvisited(a)
    BY <2>1, AdvanceVisited
  <2> QED BY <2>1, <2>2, <2>4, <2>5, <2>6, SourceStep
<1>2. CASE EnterStatement
  <2>1. CASE Throw("UndeclaredVariable")
    BY <2>1, ThrowSource DEF Errors
  <2>2. CASE ~Throw("UndeclaredVariable")
    <3>1. /\ at' = Operand(1) /\ AtEntry(program, at) /\ status = "checking"
          /\ resolved_type' = resolved_type
      BY <1>2, <2>2 DEF EnterStatement
    <3>2. /\ at'[1] = at[1] /\ at'[2] = at[2] /\ at'[3] = 1 /\ at[3] = 0
      BY <3>1 DEF Operand, AtEntry
    <3>3. EmittedHaveSources'
      BY <3>2 DEF EmittedHaveSources
    <3>4. ASSUME NEW a \in NodeAddresses(program), ~Unvisited(a)' PROVE ~Unvisited(a)
      <4>1. a[1] \in Nat /\ a[2] \in Nat /\ a[3] \in 1 .. Len(StatementAt(program, a).value)
            /\ Len(StatementAt(program, a).value) \in Nat
        BY <1>0, NodeAddressParts
      <4> QED BY <3>2, <3>4, <4>1, AtParts DEF Unvisited
    <3> QED BY <3>1, <3>3, <3>4, SourceStep
  <2> QED BY <2>1, <2>2
<1>3. PICK here : here = at
  OBVIOUS
<1>4. ASSUME AtNode(program, at), status = "checking", Emit, CurrentNode.kind # "Binary",
             \/ resolved_type' = resolved_type /\ CurrentNode.kind = "FunctionCall"
             \/ resolved_type' = [resolved_type EXCEPT ![at] = result'],
             CurrentNode.kind \in LiteralTypes => result' = CurrentNode.kind,
             CurrentNode.kind = "Variable" =>
               result' \notin LiteralTypes /\ Explains(here, here[3], result)'
      PROVE  SourceInv'
  <2>1. /\ here[3] \in 1 .. Len(CurrentStatement.value) /\ here[3] \in Nat
        /\ CurrentNode = CurrentStatement.value[here[3]]
        /\ CurrentNode.kind \in NodeKinds
    BY <1>3, <1>4, NodeShape, AtParts DEF CurrentNode, NodeAt, CurrentStatement
  <2>2. at \in Addresses(program)
    <3>1. at = Operand(at[3]) /\ at[3] \in 1 .. Len(CurrentStatement.value)
      BY <1>3, <2>1 DEF Operand, TCTypeOK, OnWalk
    <3> QED BY <1>4, <3>1, OperandAddress DEF InStatement
  <2>3. HasCall(here) \/ CurrentNode.kind \in LiteralTypes \/ CurrentNode.kind = "Variable"
    BY <1>3, <1>4, <2>1 DEF HasCall, CurrentStatement, NodeKinds, LiteralTypes
  <2>4. ~HasCall(here) => HasSource(here, here[3], result)'
    <3>1. CurrentNode.kind \in LiteralTypes => HasSource(here, here[3], result)'
      BY <1>4 DEF HasSource
    <3>2. here[3] \in 1 .. here[3]
      BY <2>1
    <3>3. CurrentNode.kind = "Variable" => HasSource(here, here[3], result)'
      BY <1>4, <3>2 DEF HasSource
    <3> QED BY <2>3, <3>1, <3>3
  <2>5. ~HasCall(here) /\ result' = "FloatLiteral" =>
          \E j \in 1 .. here[3] : CurrentStatement.value[j].kind = "FloatLiteral"
    <3>1. here[3] \in 1 .. here[3]
      BY <2>1
    <3> QED BY <1>4, <2>1, <2>3, <3>1 DEF LiteralTypes
  <2>6. CurrentNode.kind = "IntLiteral" => resolved_type'[here] = "IntLiteral"
    BY <1>3, <1>4, <2>2 DEF TCTypeOK, LiteralTypes
  <2>7. \A a \in Addresses(program) :
          resolved_type'[a] = resolved_type[a] \/ (a = here /\ resolved_type'[a] = result')
    BY <1>3, <1>4 DEF TCTypeOK
  <2> QED BY <1>3, <1>4, <2>4, <2>5, <2>6, <2>7, VisitSource
<1>5. CASE VisitLiteral
  BY <1>4, <1>5 DEF VisitLiteral, LiteralTypes
<1>6. CASE VisitVariable
  <2>1. CASE Throw("UndeclaredVariable")
    BY <2>1, ThrowSource DEF Errors
  <2>2. CASE ~Throw("UndeclaredVariable")
    <3>1. /\ AtNode(program, at) /\ status = "checking" /\ Emit /\ CurrentNode.kind = "Variable"
          /\ result' = variable_map[CurrentNode.name]
          /\ resolved_type' = [resolved_type EXCEPT ![at] = result']
      BY <1>6, <2>2 DEF VisitVariable
    <3>2. CurrentNode.name \in Names
      BY <3>1, NodeShape
    <3>3. result' \notin LiteralTypes
      BY <3>1, <3>2 DEF LiteralInv
    <3>4. here = <<here[1], here[2], here[3]>> /\ here \in Addresses(program)
      <4>1. at = Operand(at[3]) /\ at[3] \in 1 .. Len(CurrentStatement.value)
        BY <3>1, NodeShape DEF Operand, TCTypeOK, OnWalk
      <4> QED BY <1>3, <3>1, <4>1, OperandAddress DEF InStatement, Operand
    <3>5. resolved_type'[<<here[1], here[2], here[3]>>] = result'
      BY <1>3, <3>1, <3>4 DEF TCTypeOK
    <3>6. StatementAt(program, here)'.value[here[3]].kind = "Variable"
      BY <1>0, <1>3, <3>1 DEF CurrentNode, NodeAt, StatementAt
    <3>7. Explains(here, here[3], result)'
      BY <3>5, <3>6 DEF Explains
    <3> QED BY <1>4, <3>1, <3>3, <3>7 DEF LiteralTypes
  <2> QED BY <2>1, <2>2
<1>7. CASE VisitFunctionCall
  BY <1>4, <1>7 DEF VisitFunctionCall, LiteralTypes
<1>8. CASE VisitBinary
  BY <1>8, BinarySource, ThrowSource DEF Errors
<1>9. ASSUME AtExit(program, at), status = "checking", NEW expected, NEW type,
             FinishStatement(type), Settles(expected, ValueType),
             \/ resolved_type' = [resolved_type EXCEPT
                  ![ValueNode] = Annotated(@, ValueType, Settled(expected, ValueType))]
             \/ resolved_type' = [resolved_type EXCEPT
                  ![ValueNode] = Annotated(@, ValueType, Settled(expected, ValueType)),
                  ![StatementNode] = Settled(expected, ValueType)]
      PROVE  SourceInv'
  <2>1. PICK value, settled : value = ValueType /\ settled = Settled(expected, value)
    OBVIOUS
  <2>2. value \in LiteralTypes =>
          settled \in Numeric /\ (value = "IntLiteral" => settled \in IntTypes)
    BY <1>9, <2>1, StatementSettles
  <2>3. value \notin LiteralTypes => settled = value
    BY <2>1 DEF Settled
  <2> QED BY <1>9, <2>1, <2>2, <2>3, ExitSource
<1>10. CASE Declaring
  <2>1. CASE Throw("CannotCoerce") \/ Throw("DeclarationMismatch")
    BY <2>1, ThrowSource DEF Errors
  <2>2. CASE ~(Throw("CannotCoerce") \/ Throw("DeclarationMismatch"))
    BY <1>9, <1>10, <2>2 DEF Declaring
  <2> QED BY <2>1, <2>2
<1>11. CASE Assigning
  <2>1. CASE Throw("CannotCoerce") \/ Throw("AssignmentMismatch")
    BY <2>1, ThrowSource DEF Errors
  <2>2. CASE ~(Throw("CannotCoerce") \/ Throw("AssignmentMismatch"))
    BY <1>9, <1>11, <2>2 DEF Assigning
  <2> QED BY <2>1, <2>2
<1>12. CASE Showing
  <2>1. /\ AtExit(program, at) /\ status = "checking" /\ FinishStatement(result)
        /\ resolved_type' = resolved_type
    BY <1>12 DEF Showing
  <2>2. PICK value, settled, type :
          /\ value = ValueType /\ type = result
          /\ settled = IF value \in LiteralTypes THEN "Int32" ELSE value
    OBVIOUS
  <2>3. value = "IntLiteral" \/ value = "FloatLiteral" \/ value \notin LiteralTypes
    BY DEF LiteralTypes
  <2>4. "Int32" \in IntTypes /\ "Int32" \in Numeric
    BY DEF IntTypes, SignedTypes, Numeric
  <2> QED BY <2>1, <2>2, <2>4, ExitSource
<1>13. CASE Returning
  <2>1. CASE Throw("CannotCoerce")
    BY <2>1, ThrowSource DEF Errors
  <2>2. CASE ~Throw("CannotCoerce")
    BY <1>9, <1>13, <2>2 DEF Returning
  <2> QED BY <2>1, <2>2
<1>14. CASE FinishCheck \/ UNCHANGED tc_vars
  <2>1. /\ UNCHANGED << at, resolved_type, emitted >>
        /\ status = "checking" \/ status' = status
    BY <1>14 DEF FinishCheck, tc_vars
  <2>2. CASE status \in {"checking", "checked"}
    <3>1. EmittedHaveSources
      BY <2>2 DEF SourceInv
    <3>2. EmittedHaveSources'
      BY <1>0, <2>1, <3>1 DEF EmittedHaveSources, InStatement, CurrentStatement, HasCall,
                              HasSource, Explains
    <3> QED BY <2>1, <2>2, <3>2, SourceStep DEF Unvisited
  <2>3. CASE status \notin {"checking", "checked"}
    BY <2>1, <2>3 DEF SourceInv
  <2> QED BY <2>2, <2>3
<1> QED
  BY <1>1, <1>2, <1>5, <1>6, <1>7, <1>8, <1>10, <1>11, <1>12, <1>13, <1>14
  DEF TCNext, VisitNode, ExitStatement, TCDone

----------------------------------------------------------------------------
(* What the generator has got through is none of the things it refuses.    *)
Passed(a) ==
  \/ a[1] < pos[1]
  \/ a[1] = pos[1] /\ (a[2] < pos[2] \/ (a[2] = pos[2] /\ a[3] < pos[3]))

Behind(a) == a[1] < pos[1] \/ (a[1] = pos[1] /\ a[2] < pos[2])

DeclaredFine(a) ==
  HasLLVMType(resolved_type[a]) /\ (resolved_type[a] = "Bool" => CallSoFar(a))

PassedAreFine ==
  /\ \A a \in StatementAddresses(program) : Passed(a) => ~DeclaredBefore(a)
  /\ \A a \in NodeAddresses(program) : Passed(a) => ~IsComparison(a) /\ ~IsUnfoundCall(a)
  /\ \A a \in StatementAddresses(program) :
       StatementAt(program, a).kind = "Declare" /\ Behind(a) => DeclaredFine(a)

IsFunction(n) == symbols[n] \notin {NoFunction, FormatString}

(* A show whose string gets the name fmt: no function has it before.       *)
TakesName(b) ==
  /\ StatementAt(program, b).kind = "Show"
  /\ \A f \in 1 .. b[1] : program[f].name # "fmt"

SymbolsFollow ==
  /\ IsFunction("printf")
  /\ \A n \in ModuleNames : IsFunction(n) =>
       n = "printf" \/ \E f \in 1 .. pos[1] : f <= Len(program) /\ program[f].name = n
  /\ \A n \in ModuleNames : symbols[n] = FormatString =>
       n = "fmt" /\ \E b \in StatementAddresses(program) : TakesName(b) /\ b[1] <= pos[1]
  /\ \A f \in 1 .. Len(program) :
       f < pos[1] \/ (f = pos[1] /\ pos[2] > 0) => symbols[program[f].name] # NoFunction
  /\ \A b \in StatementAddresses(program) :
       TakesName(b) /\ Passed(b) => symbols["fmt"] = FormatString

MayRefuse(error) ==
  /\ error = "DeclaredTwice"     => DeclaredBefore(pos)
  /\ error = "UnknownFunction"   => IsUnfoundCall(pos)
  /\ error = "NotImplemented"    => (AtNode(program, pos) /\ IsComparison(pos)) \/ CallSoFar(pos)
  /\ error = "NonIntegerLiteral" => MixesLiterals(pos) \/ HasCall(pos)
  /\ error = "FellOffSwitch"     => HasCall(pos)

RulesInv ==
  /\ PassedAreFine /\ SymbolsFollow /\ MayRefuse(gen)
  /\ gen = "generated" => AtEnd(program, pos)

(* What the checker leaves of where types come from.                       *)
SourcedTree ==
  /\ AnnotationsHaveSources
  /\ \A a \in NodeAddresses(program) :
       NodeAt(program, a).kind = "IntLiteral" /\ ~HasCall(a) /\ ~MixesLiterals(a) =>
         resolved_type[a] \in IntTypes

LEMMA CheckerSources ==
  ASSUME TCTypeOK, LiteralInv, UsesInv, AnnotatedInv, SourceInv, status = "checked"
  PROVE  SourcedTree
<1>1. IsProgram(program, Names) /\ AtEnd(program, at)
  BY ProgramsAssumption DEF TCTypeOK, LiteralInv
<1>2. \A a \in NodeAddresses(program) : ~Unvisited(a) /\ resolved_type[a] # "IntLiteral"
  <2> TAKE a \in NodeAddresses(program)
  <2>1. a \in Addresses(program) /\ ~Unvisited(a)
    BY <1>1, NodeAddressParts, AtParts DEF AtEnd, Unvisited
  <2> QED BY <2>1, CheckerLeaves DEF CheckedTree, LiteralTypes
<1> QED BY <1>2 DEF SourceInv, SourcedTree, IntLiteralsSettled

LEMMA CallsOfStatement ==
  ASSUME NEW a, NEW b, a[1] = b[1], a[2] = b[2], b[2] \in Nat \ {0}
  PROVE  /\ HasCall(a) => CallSoFar(b)
         /\ CallSoFar(a) => CallSoFar(b)
<1>1. PICK c : c = <<b[1], b[2], 0>>
  OBVIOUS
<1>2. HasCall(a) => HasCall(c)
  BY <1>1, SameStatement
<1>3. b[2] \in 1 .. b[2]
  OBVIOUS
<1> QED BY <1>1, <1>2, <1>3 DEF CallSoFar

LEMMA StmtNode ==
  ASSUME IsProgram(program, Names), OnWalk(program, pos), ~AtEnd(program, pos), pos[2] > 0,
         NEW i \in 1 .. Len(Stmt.value)
  PROVE  <<pos[1], pos[2], i>> \in NodeAddresses(program)
BY PosShape, NodeAddress DEF Stmt, StatementAt

(* The type of a statement's node that has a source, seen from where the   *)
(* generator is: a number's, or Bool for one of two reasons.               *)
LEMMA TypesFollow ==
  ASSUME IsProgram(program, Names), OnWalk(program, pos), ~AtEnd(program, pos), pos[2] > 0,
         CheckedTree, PassedAreFine,
         NEW n \in 1 .. Len(Stmt.value), NEW type, type \notin LiteralTypes,
         HasSource(pos, n, type)
  PROVE  \/ type \in Numeric
         \/ type = "Bool" /\ CallSoFar(pos)
         \/ type = "Bool" /\ \E i \in 1 .. n : IsComparison(<<pos[1], pos[2], i>>)
<1>1. /\ pos[1] \in 1 .. Len(program) /\ pos[2] \in 1 .. Len(program[pos[1]].statements)
      /\ pos[1] \in Nat /\ pos[2] \in Nat /\ Len(Stmt.value) \in Nat
      /\ Len(program[pos[1]].statements) \in Nat
  BY PosShape DEF IsProgram
<1>2. CASE type \in Numeric
  BY <1>2
<1>3. CASE type \notin Numeric
  <2>1. PICK i \in 1 .. n : Explains(pos, i, type)
    BY <1>3 DEF HasSource
  <2>2. PICK b : b = <<pos[1], pos[2], i>>
    OBVIOUS
  <2>3. i \in 1 .. Len(Stmt.value) /\ NodeAt(program, b) = Stmt.value[i]
        /\ b[1] = pos[1] /\ b[2] = pos[2]
    BY <1>1, <2>2 DEF NodeAt, StatementAt, Stmt
  <2>4. CASE Stmt.value[i].kind = "Binary" /\ Stmt.value[i].op = "Equals" /\ type = "Bool"
    BY <2>2, <2>3, <2>4 DEF IsComparison
  <2>5. CASE Stmt.value[i].kind = "Variable" /\ resolved_type[b] = type
    <3>1. b \in NodeAddresses(program)
      BY <2>2, <2>3, StmtNode
    <3>2. PICK d \in 1 .. (b[2] - 1) :
            /\ Declares(b[1], d, NodeAt(program, b).name)
            /\ resolved_type[b] = resolved_type[<<b[1], d, 0>>]
      BY <2>3, <2>5, <3>1 DEF CheckedTree
    <3>3. PICK c : c = <<pos[1], d, 0>>
      OBVIOUS
    <3>4. c[1] = pos[1] /\ c[2] = d /\ d \in 1 .. Len(program[pos[1]].statements) /\ d < pos[2]
      <4>1. d \in Nat /\ 1 <= d /\ d < pos[2]
        BY <1>1, <2>3
      <4>2. c[1] = pos[1] /\ c[2] = d
        BY <3>3
      <4> QED BY <1>1, <4>1, <4>2
    <3>5. c \in StatementAddresses(program)
      BY <1>1, <3>3, <3>4 DEF StatementAddresses
    <3>6. StatementAt(program, c).kind = "Declare"
      BY <2>3, <3>2, <3>4 DEF Declares, StatementAt
    <3>7. Behind(c)
      BY <3>4 DEF Behind
    <3>8. DeclaredFine(c)
      BY <3>5, <3>6, <3>7 DEF PassedAreFine
    <3>9. resolved_type[c] = type
      BY <2>3, <2>5, <3>2, <3>3
    <3>10. type = "Bool"
      BY <1>3, <3>8, <3>9 DEF DeclaredFine, HasLLVMType, Numeric
    <3>11. PICK s \in 1 .. d : HasCall(<<c[1], s, 0>>)
      BY <3>4, <3>8, <3>9, <3>10 DEF DeclaredFine, CallSoFar
    <3>12. s \in 1 .. pos[2] /\ HasCall(<<pos[1], s, 0>>)
      BY <1>1, <3>4, <3>11
    <3> QED BY <3>10, <3>12 DEF CallSoFar
  <2> QED BY <2>1, <2>2, <2>4, <2>5 DEF Explains, Stmt, StatementAt
<1> QED BY <1>2, <1>3

----------------------------------------------------------------------------
LEMMA UnfoundFixed ==
  ASSUME program' = program
  PROVE  \A a : IsUnfoundCall(a)' <=> IsUnfoundCall(a)
BY DEF IsUnfoundCall, IsForwardCall, NameTakenByShow

LEMMA SymbolsKept ==
  ASSUME SymbolsFollow, UNCHANGED << pos, symbols, program >>
  PROVE  SymbolsFollow'
BY DEF SymbolsFollow, IsFunction, TakesName, Passed

LEMMA RefuseRules ==
  ASSUME RulesInv, NEW error \in GenErrors, GenThrow(error), UNCHANGED tc_vars,
         MayRefuse(error)
  PROVE  RulesInv'
<1>1. UNCHANGED << pos, symbols, program, resolved_type >> /\ gen' = error
  BY DEF GenThrow, tc_vars
<1>0. \A a : IsUnfoundCall(a)' <=> IsUnfoundCall(a)
  BY <1>1, UnfoundFixed
<1>2. PassedAreFine'
  BY <1>0, <1>1 DEF RulesInv, PassedAreFine, Passed, Behind, DeclaredFine, DeclaredBefore,
              Declares, IsComparison, CallSoFar, HasCall
<1>3. SymbolsFollow'
  BY <1>1, SymbolsKept DEF RulesInv
<1>4. MayRefuse(gen)'
  BY <1>1 DEF MayRefuse, DeclaredBefore, Declares, IsComparison, IsUnfoundCall, IsForwardCall,
              NameTakenByShow, CallSoFar, HasCall, MixesLiterals
<1>5. gen' # "generated"
  BY <1>1 DEF GenErrors
<1> QED BY <1>2, <1>3, <1>4, <1>5 DEF RulesInv

LEMMA RulesStep ==
  ASSUME PassedAreFine, UNCHANGED << program, resolved_type >>,
         gen' \in {"waiting", "generating"}, SymbolsFollow',
         \A a \in StatementAddresses(program) : Passed(a)' => Passed(a) \/ ~DeclaredBefore(a),
         \A a \in NodeAddresses(program) :
           Passed(a)' => Passed(a) \/ (~IsComparison(a) /\ ~IsUnfoundCall(a)),
         \A a \in StatementAddresses(program) :
           StatementAt(program, a).kind = "Declare" /\ Behind(a)' =>
             Behind(a) \/ DeclaredFine(a)
  PROVE  RulesInv'
<1>1. /\ StatementAddresses(program)' = StatementAddresses(program)
      /\ NodeAddresses(program)' = NodeAddresses(program)
      /\ \A a : /\ StatementAt(program, a)' = StatementAt(program, a)
                /\ DeclaredBefore(a)' <=> DeclaredBefore(a)
                /\ IsComparison(a)' <=> IsComparison(a)
                /\ IsUnfoundCall(a)' <=> IsUnfoundCall(a)
                /\ DeclaredFine(a)' <=> DeclaredFine(a)
  BY UnfoundFixed DEF StatementAt, DeclaredFine, DeclaredBefore, Declares, IsComparison,
         CallSoFar, HasCall, NodeAt
<1>2. PassedAreFine'
  BY <1>1 DEF PassedAreFine
<1> QED BY <1>2 DEF RulesInv, MayRefuse

(* A visit that emits its value passes its node.                           *)
LEMMA EmitRules ==
  ASSUME IsProgram(program, Names), OnWalk(program, pos), AtNode(program, pos),
         RulesInv, gen = "generating", NEW value, EmitValue(value), UNCHANGED tc_vars,
         ~IsComparison(pos), ~IsUnfoundCall(pos)
  PROVE  RulesInv'
<1>1. /\ pos'[1] = pos[1] /\ pos'[2] = pos[2] /\ pos'[3] = pos[3] + 1
      /\ UNCHANGED << symbols, gen, program, resolved_type >>
  BY DEF EmitValue, tc_vars
<1>2. /\ pos[1] \in Nat /\ pos[2] \in Nat /\ pos[3] \in Nat \ {0}
      /\ pos = <<pos[1], pos[2], pos[3]>>
  BY DEF OnWalk, AtNode
<1>4. ASSUME NEW a \in StatementAddresses(program), Passed(a)' PROVE Passed(a)
  <2>1. a[3] = 0
    BY StatementAddressParts
  <2> QED BY <1>1, <1>2, <1>4, <2>1 DEF Passed
<1>3. SymbolsFollow'
  BY <1>1, <1>4 DEF RulesInv, SymbolsFollow, IsFunction, TakesName
<1>5. ASSUME NEW a \in NodeAddresses(program), Passed(a)' PROVE Passed(a) \/ a = pos
  <2>1. a[3] \in Nat /\ a = <<a[1], a[2], a[3]>>
    BY NodeAddressParts
  <2> QED BY <1>1, <1>2, <1>5, <2>1 DEF Passed
<1>6. \A a : Behind(a)' => Behind(a)
  BY <1>1 DEF Behind
<1> QED BY <1>1, <1>3, <1>4, <1>5, <1>6, RulesStep DEF RulesInv

(* Going on to the next statement or function passes nothing that was not  *)
(* passed, and leaves at most the statement it was in.                     *)
LEMMA AdvanceRules ==
  ASSUME IsProgram(program, Names), OnWalk(program, pos),
         AtFunction(program, pos) \/ AtExit(program, pos), pos' = NextStatement(program, pos),
         RulesInv, gen = "generating", gen' = gen, UNCHANGED tc_vars,
         IsFunction("printf")',
         \A n \in ModuleNames :
           IsFunction(n)' =>
             IsFunction(n) \/ (AtFunction(program, pos) /\ program[pos[1]].name = n),
         \A n \in ModuleNames : symbols'[n] = FormatString <=> symbols[n] = FormatString,
         \A f \in 1 .. Len(program) :
           symbols[program[f].name] # NoFunction => symbols'[program[f].name] # NoFunction,
         AtFunction(program, pos) => symbols'[program[pos[1]].name] # NoFunction,
         AtExit(program, pos) /\ Stmt.kind = "Declare" => DeclaredFine(StmtAddress)
  PROVE  RulesInv'
<1>1. UNCHANGED << program, resolved_type >>
  BY DEF tc_vars
<1>2. /\ pos[1] \in Nat /\ pos[2] \in Nat /\ pos[3] \in Nat /\ pos[1] \in 1 .. Len(program)
      /\ pos[1] > 0 /\ Len(program) \in Nat
  BY DEF OnWalk, AtFunction, AtExit, AtEnd, IsProgram
<1>3. \/ /\ pos[2] < Len(program[pos[1]].statements)
         /\ pos'[1] = pos[1] /\ pos'[2] = pos[2] + 1 /\ pos'[3] = 0
      \/ /\ ~(pos[2] < Len(program[pos[1]].statements))
         /\ pos'[1] = pos[1] + 1 /\ pos'[2] = 0 /\ pos'[3] = 0
  BY DEF NextStatement
<1>5. ASSUME NEW a, a[1] \in 1 .. Len(program), a[2] \in 1 .. Len(program[a[1]].statements),
             Len(program[a[1]].statements) \in Nat, Behind(a)' \/ Passed(a)', a[3] \in Nat
      PROVE  a[1] < pos[1] \/ (a[1] = pos[1] /\ a[2] <= pos[2])
  <2>1. CASE pos'[1] = pos[1] /\ pos'[2] = pos[2] + 1 /\ pos'[3] = 0
    BY <1>2, <1>5, <2>1 DEF Behind, Passed
  <2>2. CASE /\ ~(pos[2] < Len(program[pos[1]].statements))
             /\ pos'[1] = pos[1] + 1 /\ pos'[2] = 0 /\ pos'[3] = 0
    <3>1. a[1] = pos[1] => a[2] <= pos[2]
      BY <1>2, <1>5, <2>2
    <3>2. a[1] \in Nat /\ a[2] \in Nat /\ pos[1] \in Nat
      BY <1>2, <1>5
    <3>3. a[1] < pos[1] + 1 \/ (a[1] = pos[1] + 1 /\ a[2] <= 0)
      BY <1>5, <2>2, <3>2 DEF Behind, Passed
    <3>4. a[2] # 0
      BY <1>5
    <3> QED BY <3>1, <3>2, <3>3, <3>4
  <2> QED BY <1>3, <2>1, <2>2
<1>6. ASSUME NEW a \in StatementAddresses(program), Behind(a)' \/ Passed(a)'
      PROVE  \/ Passed(a) /\ Behind(a)
             \/ Passed(a) /\ AtExit(program, pos) /\ a = StmtAddress
  <2>1. /\ a[1] \in 1 .. Len(program) /\ a[2] \in 1 .. Len(program[a[1]].statements)
        /\ Len(program[a[1]].statements) \in Nat /\ a = <<a[1], a[2], 0>>
    BY StatementAddressParts
  <2>2. a[1] < pos[1] \/ (a[1] = pos[1] /\ a[2] <= pos[2])
    BY <1>5, <1>6, <2>1
  <2>3. CASE AtFunction(program, pos)
    BY <1>2, <2>1, <2>2, <2>3 DEF AtFunction, Passed, Behind
  <2>4. CASE AtExit(program, pos)
    <3>1. pos[3] > 0
      BY <1>2, <2>4, PosShape DEF AtExit, Stmt
    <3> QED BY <1>2, <2>1, <2>2, <2>4, <3>1 DEF Passed, Behind, StmtAddress
  <2> QED BY <2>3, <2>4
<1>4. SymbolsFollow'
  <2>1. SymbolsFollow
    BY DEF RulesInv
  <2>2. ASSUME NEW n \in ModuleNames, IsFunction(n)'
        PROVE  n = "printf" \/ \E f \in 1 .. pos[1] : f <= Len(program) /\ program[f].name = n
    <3>1. CASE IsFunction(n)
      BY <2>1, <3>1 DEF SymbolsFollow
    <3>2. CASE program[pos[1]].name = n
      <4>1. pos[1] \in 1 .. pos[1] /\ pos[1] <= Len(program)
        BY <1>2
      <4> QED BY <3>2, <4>1
    <3> QED BY <2>2, <3>1, <3>2
  <2>3. \A f \in 1 .. pos[1] : f \in 1 .. pos'[1]
    BY <1>2, <1>3
  <2>4. ASSUME NEW f \in 1 .. Len(program), f < pos'[1] \/ (f = pos'[1] /\ pos'[2] > 0)
        PROVE  symbols'[program[f].name] # NoFunction
    <3>1. f < pos[1] \/ f = pos[1]
      BY <1>2, <1>3, <2>4
    <3>2. CASE f = pos[1] /\ AtFunction(program, pos)
      BY <3>2
    <3>3. CASE f = pos[1] /\ AtExit(program, pos)
      BY <2>1, <3>3 DEF SymbolsFollow, AtExit
    <3>4. CASE f < pos[1]
      BY <2>1, <3>4 DEF SymbolsFollow
    <3> QED BY <3>1, <3>2, <3>3, <3>4
  <2>5. ASSUME NEW n \in ModuleNames, symbols'[n] = FormatString
        PROVE  n = "fmt" /\ \E b \in StatementAddresses(program) :
                              TakesName(b) /\ b[1] <= pos'[1]
    <3>1. n = "fmt" /\ \E b \in StatementAddresses(program) : TakesName(b) /\ b[1] <= pos[1]
      BY <2>1, <2>5 DEF SymbolsFollow
    <3>2. \A b \in StatementAddresses(program) : b[1] \in Nat
      BY <1>2, StatementAddressParts
    <3> QED BY <1>2, <1>3, <3>1, <3>2
  <2>6. ASSUME NEW b \in StatementAddresses(program), TakesName(b), Passed(b)'
        PROVE  symbols'["fmt"] = FormatString
    <3>1. Passed(b)
      BY <1>6, <2>6
    <3> QED BY <2>1, <2>6, <3>1 DEF SymbolsFollow, ModuleNames
  <2>7. \A b : TakesName(b)' <=> TakesName(b)
    BY <1>1 DEF TakesName
  <2>8. StatementAddresses(program)' = StatementAddresses(program) /\ ModuleNames' = ModuleNames
    BY <1>1
  <2> QED BY <1>1, <2>2, <2>3, <2>4, <2>5, <2>6, <2>7, <2>8 DEF SymbolsFollow
<1>7. ASSUME NEW a \in NodeAddresses(program), Passed(a)' PROVE Passed(a)
  <2>1. /\ a[1] \in 1 .. Len(program) /\ a[2] \in 1 .. Len(program[a[1]].statements)
        /\ Len(program[a[1]].statements) \in Nat
        /\ a[3] \in 1 .. Len(StatementAt(program, a).value)
        /\ Len(StatementAt(program, a).value) \in Nat
    BY NodeAddressParts
  <2>2. a[3] \in Nat
    BY <2>1
  <2>3. a[1] < pos[1] \/ (a[1] = pos[1] /\ a[2] <= pos[2])
    BY <1>5, <1>7, <2>1, <2>2
  <2>4. CASE AtFunction(program, pos)
    BY <1>2, <2>1, <2>3, <2>4 DEF AtFunction, Passed
  <2>5. CASE AtExit(program, pos)
    <3>1. a[1] = pos[1] /\ a[2] = pos[2] => StatementAt(program, a) = StatementAt(program, pos)
      BY DEF StatementAt
    <3>2. pos[3] = Len(StatementAt(program, pos).value) + 1
      BY <2>5 DEF AtExit
    <3> QED BY <1>2, <2>1, <2>3, <3>1, <3>2 DEF Passed
  <2> QED BY <2>4, <2>5
<1>8. AtExit(program, pos) => StatementAt(program, StmtAddress) = Stmt
  BY DEF StatementAt, StmtAddress, Stmt
<1> QED BY <1>1, <1>4, <1>6, <1>7, <1>8, RulesStep DEF RulesInv

LEMMA OthersFound ==
  ASSUME NEW a, NodeAt(program, a).kind # "FunctionCall" PROVE ~IsUnfoundCall(a)
BY DEF IsUnfoundCall, IsForwardCall, NameTakenByShow

(* The visit of a node.                                                    *)
LEMMA NodeRules ==
  ASSUME IsProgram(program, Names), GenTypeInv, CheckedTree, SourcedTree, RulesInv,
         gen = "generating", GenNode, UNCHANGED tc_vars
  PROVE  RulesInv'
<1>1. /\ AtNode(program, pos) /\ OnWalk(program, pos)
      /\ pos \in NodeAddresses(program) /\ pos \in Addresses(program)
      /\ Node = NodeAt(program, pos)
      /\ Node.kind \in {"Variable", "FunctionCall"} => Node.name \in Names
      /\ pos[3] \in 1 .. Len(Stmt.value) /\ Node = Stmt.value[pos[3]]
  <2>1. AtNode(program, pos)
    BY DEF GenNode, GenIntLiteral, GenFloatLiteral, GenVariable, GenFunctionCall, GenBinary
  <2> QED BY <2>1, PosNode DEF GenTypeInv, CGTypeOK, Node
<1>2. /\ ~AtEnd(program, pos) /\ pos[2] > 0
      /\ pos[1] \in 1 .. Len(program) /\ Len(program) \in Nat
      /\ pos[1] \in Nat /\ pos[2] \in Nat \ {0} /\ pos[3] \in Nat
      /\ pos = <<pos[1], pos[2], pos[3]>>
  BY <1>1, PosShape DEF AtNode, OnWalk, IsProgram
<1>3. PassedAreFine /\ SymbolsFollow
  BY DEF RulesInv
<1>4. ASSUME NEW error \in GenErrors, GenThrow(error), MayRefuse(error) PROVE RulesInv'
  BY <1>4, RefuseRules
<1>5. ASSUME NEW value, EmitValue(value), ~IsComparison(pos), ~IsUnfoundCall(pos)
      PROVE  RulesInv'
  BY <1>1, <1>5, EmitRules
<1>6. {"NonIntegerLiteral", "UnknownFunction", "NotImplemented", "FellOffSwitch",
       "UnknownVariable", "UnresolvedType", "LiteralSurvived", "UnsupportedOperation"}
        \subseteq GenErrors
  BY DEF GenErrors
<1>7. CASE GenIntLiteral
  <2>1. Node.kind = "IntLiteral"
    BY <1>7 DEF GenIntLiteral
  <2>2. ~IsComparison(pos) /\ ~IsUnfoundCall(pos)
    BY <1>1, <2>1, OthersFound DEF IsComparison
  <2>3. resolved_type[pos] \notin IntTypes => MayRefuse("NonIntegerLiteral")
    BY <1>1, <2>1 DEF SourcedTree, MayRefuse
  <2> QED BY <1>4, <1>5, <1>6, <1>7, <2>2, <2>3 DEF GenIntLiteral
<1>8. CASE GenFloatLiteral
  <2>1. ~IsComparison(pos) /\ ~IsUnfoundCall(pos)
    BY <1>1, <1>8, OthersFound DEF IsComparison, GenFloatLiteral
  <2> QED BY <1>5, <1>8, <2>1 DEF GenFloatLiteral
<1>9. CASE GenVariable
  <2>1. Node.kind = "Variable"
    BY <1>9 DEF GenVariable
  <2>2. ~IsComparison(pos) /\ ~IsUnfoundCall(pos)
    BY <1>1, <2>1, OthersFound DEF IsComparison
  <2>3. PICK type : type = resolved_type[pos]
    OBVIOUS
  <2>4. type \notin LiteralTypes
    BY <1>1, <2>3 DEF CheckedTree
  <2>5. PICK i \in 1 .. Len(Stmt.value) : i = pos[3]
    BY <1>1
  <2>6. HasSource(pos, i, type)
    <3>1. Explains(pos, i, type)
      BY <1>1, <1>2, <2>1, <2>3, <2>5 DEF Explains, Stmt
    <3>2. i \in 1 .. i
      BY <1>2, <2>5
    <3> QED BY <3>1, <3>2 DEF HasSource
  <2>7. type \in Numeric \/ type = "Bool"
    BY <1>1, <1>2, <1>3, <2>4, <2>6, TypesFollow
  <2>8. HasLLVMType(type)
    BY <2>7 DEF HasLLVMType, Numeric
  <2>9. MayRefuse("UnknownVariable") /\ MayRefuse("UnresolvedType")
    BY DEF MayRefuse
  <2> QED BY <1>4, <1>5, <1>6, <1>9, <2>2, <2>3, <2>8, <2>9 DEF GenVariable
<1>10. CASE GenFunctionCall
  <2>1. Node.kind = "FunctionCall" /\ Node.name \in Names
    BY <1>1, <1>10 DEF GenFunctionCall
  <2>2. ~IsComparison(pos)
    BY <1>1, <2>1 DEF IsComparison
  <2>3. CASE symbols[Node.name] = NoFunction
    <3>1. Node.name # "printf"
      BY <1>3, <2>3 DEF SymbolsFollow, IsFunction
    <3>2. ASSUME NEW f \in 1 .. pos[1], program[f].name = Node.name PROVE FALSE
      <4>1. f \in 1 .. Len(program) /\ (f < pos[1] \/ (f = pos[1] /\ pos[2] > 0))
        BY <1>2
      <4> QED BY <1>3, <2>3, <3>2, <4>1 DEF SymbolsFollow
    <3>3. MayRefuse("UnknownFunction")
      BY <1>1, <2>1, <3>1, <3>2 DEF MayRefuse, IsUnfoundCall, IsForwardCall
    <3> QED BY <1>4, <1>6, <1>10, <2>3, <3>3 DEF GenFunctionCall
  <2>4. CASE symbols[Node.name] = FormatString
    <3>1. /\ Node.name = "fmt" /\ Node.name # "printf"
          /\ \E b \in StatementAddresses(program) : TakesName(b) /\ b[1] <= pos[1]
      BY <1>3, <2>1, <2>4 DEF SymbolsFollow, ModuleNames, IsFunction
    <3>2. PICK b \in StatementAddresses(program) : TakesName(b) /\ b[1] <= pos[1]
      BY <3>1
    <3>3. b[1] \in Nat
      BY <1>2, StatementAddressParts
    <3>4. CASE b[1] = pos[1]
      <4>1. IsForwardCall(pos)
        BY <1>1, <2>1, <3>1, <3>2, <3>4 DEF IsForwardCall, TakesName
      <4> QED BY <1>4, <1>6, <1>10, <2>4, <4>1 DEF GenFunctionCall, MayRefuse, IsUnfoundCall
    <3>5. CASE b[1] < pos[1]
      <4>1. NameTakenByShow(pos)
        BY <1>1, <2>1, <3>1, <3>2, <3>5 DEF NameTakenByShow, TakesName
      <4> QED BY <1>4, <1>6, <1>10, <2>4, <4>1 DEF GenFunctionCall, MayRefuse, IsUnfoundCall
    <3> QED BY <1>2, <3>2, <3>3, <3>4, <3>5
  <2>5. CASE IsFunction(Node.name)
    <3>1. Node.name = "printf" \/ \E f \in 1 .. pos[1] : program[f].name = Node.name
      BY <1>3, <2>1, <2>5 DEF SymbolsFollow, ModuleNames
    <3>2. ~IsForwardCall(pos)
      BY <1>1, <3>1 DEF IsForwardCall
    <3>3. ASSUME NEW b \in StatementAddresses(program), TakesName(b), b[1] < pos[1]
          PROVE  Node.name # "fmt"
      <4>1. Passed(b)
        BY <3>3 DEF Passed
      <4>2. symbols["fmt"] = FormatString
        BY <1>3, <3>3, <4>1 DEF SymbolsFollow
      <4> QED BY <2>5, <4>2 DEF IsFunction
    <3>4. ~NameTakenByShow(pos)
      BY <1>1, <3>3 DEF NameTakenByShow, TakesName
    <3> QED BY <1>5, <1>10, <2>2, <2>5, <3>2, <3>4
        DEF GenFunctionCall, IsFunction, IsUnfoundCall
  <2> QED BY <2>3, <2>4, <2>5 DEF IsFunction
<1>11. CASE GenBinary
  <2>1. Node.kind = "Binary"
    BY <1>11 DEF GenBinary
  <2>2. ~IsUnfoundCall(pos)
    BY <1>1, <2>1, OthersFound
  <2>3. PICK type : type = resolved_type[pos]
    OBVIOUS
  <2>4. type # NoType /\ type \notin LiteralTypes
    BY <1>1, <2>1, <2>3 DEF CheckedTree
  <2>5. HasCall(pos) => CallSoFar(pos)
    BY <1>2, CallsOfStatement
  <2>6. PICK n \in 1 .. Len(Stmt.value) : n = pos[3]
    BY <1>1
  <2>7. ~HasCall(pos) => HasSource(pos, n, type)
    BY <1>1, <2>3, <2>4, <2>6 DEF SourcedTree, AnnotationsHaveSources
  <2>8. \/ HasCall(pos)
        \/ type \in Numeric
        \/ type = "Bool" /\ (CallSoFar(pos) \/ IsComparison(pos))
    <3>1. ASSUME NEW i \in 1 .. n, IsComparison(<<pos[1], pos[2], i>>)
          PROVE  IsComparison(pos)
      <4>1. CASE i = n
        BY <1>2, <2>6, <3>1, <4>1
      <4>2. CASE i # n
        <5>1. PICK b : b = <<pos[1], pos[2], i>>
          OBVIOUS
        <5>2. i \in 1 .. Len(Stmt.value) /\ i < pos[3] /\ i \in Nat
          BY <1>1, <1>2, <2>6, <4>2
        <5>3. Passed(b)
          BY <5>1, <5>2 DEF Passed
        <5>4. b \in NodeAddresses(program)
          BY <1>1, <1>2, <5>1, <5>2, StmtNode
        <5> QED BY <1>3, <3>1, <5>1, <5>3, <5>4 DEF PassedAreFine
      <4> QED BY <4>1, <4>2
    <3>2. ASSUME ~HasCall(pos)
          PROVE  \/ type \in Numeric
                 \/ type = "Bool" /\ CallSoFar(pos)
                 \/ type = "Bool" /\ \E i \in 1 .. n : IsComparison(<<pos[1], pos[2], i>>)
      <4>1. HasSource(pos, n, type) /\ OnWalk(program, pos)
        BY <1>1, <2>7, <3>2
      <4> QED BY <1>2, <1>3, <2>4, <4>1, TypesFollow
    <3> QED BY <3>1, <3>2
  <2>9. type \in Numeric => Operations(type) \notin GenErrors
    BY DEF Numeric, IntTypes, SignedTypes, UnsignedTypes, FloatTypes, LiteralTypes, Operations,
           GenErrors
  <2>10. type = "Bool" => Operations(type) = "NotImplemented"
    BY DEF Operations, LiteralTypes, SignedTypes, UnsignedTypes, FloatTypes
  <2>11. Operations(type) \in GenErrors => MayRefuse(Operations(type))
    BY <1>1, <2>5, <2>8, <2>9, <2>10 DEF MayRefuse, Operations, GenErrors
  <2>12. MayRefuse("UnresolvedType") /\ MayRefuse("UnsupportedOperation")
    BY DEF MayRefuse
  <2>13. Node.op \in ArithmeticOperators => ~IsComparison(pos)
    BY <1>1 DEF IsComparison, ArithmeticOperators
  <2> QED BY <1>4, <1>5, <1>6, <1>11, <2>2, <2>3, <2>4, <2>11, <2>12, <2>13 DEF GenBinary
<1> QED BY <1>7, <1>8, <1>9, <1>10, <1>11 DEF GenNode

(* Leaving a statement.                                                    *)
LEMMA ExitRules ==
  ASSUME IsProgram(program, Names), GenTypeInv, CheckedTree, SourcedTree, RulesInv,
         gen = "generating", GenExit, UNCHANGED tc_vars
  PROVE  RulesInv'
<1>1. /\ AtExit(program, pos) /\ OnWalk(program, pos) /\ ~AtNode(program, pos)
      /\ ~AtEnd(program, pos) /\ pos[2] > 0 /\ ~AtFunction(program, pos)
  BY DEF GenExit, GenDeclaration, GenAssignment, GenShow, GenReturn, AtExit, AtNode, AtFunction,
         GenTypeInv, CGTypeOK, OnWalk
<1>2. /\ pos[1] \in Nat /\ pos[2] \in Nat \ {0} /\ pos[3] \in Nat
      /\ Len(Stmt.value) \in Nat \ {0} /\ pos[3] = Len(Stmt.value) + 1
      /\ StmtAddress \in StatementAddresses(program) /\ StmtAddress \in Addresses(program)
      /\ StatementAt(program, StmtAddress) = Stmt
      /\ StmtAddress[1] = pos[1] /\ StmtAddress[2] = pos[2]
  BY <1>1, PosShape DEF AtExit, Stmt, StmtAddress
<1>3. PassedAreFine /\ SymbolsFollow
  BY DEF RulesInv
<1>4. ASSUME Advance, Stmt.kind = "Declare" => DeclaredFine(StmtAddress) PROVE RulesInv'
  <2>1. pos' = NextStatement(program, pos) /\ symbols' = symbols /\ gen' = gen
    BY <1>4 DEF Advance
  <2>2. IsFunction("printf")' /\ \A n : IsFunction(n)' <=> IsFunction(n)
    BY <1>3, <2>1 DEF SymbolsFollow, IsFunction
  <2> QED BY <1>1, <1>4, <2>1, <2>2, AdvanceRules
<1>5. CASE GenAssignment
  BY <1>4, <1>5 DEF GenAssignment
<1>6. CASE GenShow
  BY <1>4, <1>6 DEF GenShow
<1>7. CASE GenReturn
  BY <1>4, <1>7 DEF GenReturn
<1>8. CASE GenDeclaration
  <2>1. PICK type : type = resolved_type[StmtAddress]
    OBVIOUS
  <2>2. Stmt.kind = "Declare" /\ type # NoType /\ type \notin LiteralTypes
    BY <1>2, <1>8, <2>1 DEF GenDeclaration, CheckedTree
  <2>3. PICK a : a = StmtAddress
    OBVIOUS
  <2>4. (HasCall(pos) => CallSoFar(pos)) /\ (CallSoFar(pos) => CallSoFar(a))
    BY <1>2, <2>3, CallsOfStatement
  <2>5. PICK n \in 1 .. Len(Stmt.value) : n = Len(Stmt.value)
    BY <1>2
  <2>6. ~HasCall(pos) => HasSource(pos, n, type)
    <3>1. (HasCall(pos) <=> HasCall(a)) /\ (HasSource(pos, n, type) <=> HasSource(a, n, type))
      BY <1>2, <2>3, SameStatement
    <3>2. ~HasCall(a) => HasSource(a, n, type)
      BY <1>2, <2>1, <2>2, <2>3, <2>5 DEF SourcedTree, AnnotationsHaveSources
    <3> QED BY <3>1, <3>2
  <2>7. \/ HasCall(pos)
        \/ type \in Numeric
        \/ type = "Bool" /\ CallSoFar(pos)
    <3>1. ASSUME NEW i \in 1 .. n, IsComparison(<<pos[1], pos[2], i>>)
          PROVE  FALSE
      <4>1. PICK b : b = <<pos[1], pos[2], i>>
        OBVIOUS
      <4>2. i \in 1 .. Len(Stmt.value) /\ i < pos[3] /\ i \in Nat
        BY <1>2, <2>5
      <4>3. Passed(b)
        BY <4>1, <4>2 DEF Passed
      <4>4. b \in NodeAddresses(program)
        BY <1>1, <4>1, <4>2, StmtNode
      <4> QED BY <1>3, <3>1, <4>1, <4>3, <4>4 DEF PassedAreFine
    <3>2. ASSUME ~HasCall(pos)
          PROVE  \/ type \in Numeric
                 \/ type = "Bool" /\ CallSoFar(pos)
                 \/ type = "Bool" /\ \E i \in 1 .. n : IsComparison(<<pos[1], pos[2], i>>)
      <4>1. HasSource(pos, n, type)
        BY <2>6, <3>2
      <4> QED BY <1>1, <1>3, <2>2, <4>1, TypesFollow
    <3> QED BY <3>1, <3>2
  <2>8. "Bool" \notin Numeric /\ (type \in Numeric \/ type = "Bool" => HasLLVMType(type))
    BY DEF Numeric, IntTypes, SignedTypes, UnsignedTypes, FloatTypes, HasLLVMType
  <2>9. CASE ~HasLLVMType(type)
    <3>1. HasCall(pos) /\ CallSoFar(pos)
      BY <2>4, <2>7, <2>8, <2>9
    <3>2. MayRefuse(NoLLVMType(type))
      BY <3>1 DEF MayRefuse, NoLLVMType
    <3> QED BY <1>8, <2>1, <2>2, <2>9, <3>2, NoLLVMTypeError, RefuseRules DEF GenDeclaration
  <2>10. CASE HasLLVMType(type)
    <3>1. DeclaredFine(StmtAddress)
      BY <2>1, <2>3, <2>4, <2>7, <2>8, <2>10 DEF DeclaredFine
    <3> QED BY <1>4, <1>8, <2>1, <2>2, <2>10, <3>1 DEF GenDeclaration
  <2> QED BY <2>9, <2>10
<1> QED BY <1>5, <1>6, <1>7, <1>8 DEF GenExit

(* Entering a statement.                                                   *)
LEMMA EntryNames ==
  ASSUME IsProgram(program, Names), GenTypeInv, SymbolsFollow, program' = program,
         pos[1] \in Nat, pos[2] \in Nat, pos[2] > 0, pos[3] = 0,
         StmtAddress \in StatementAddresses(program), StatementAt(program, pos) = Stmt,
         pos'[1] = pos[1], pos'[2] = pos[2], pos'[3] = 1, symbols' = NamedFormat
  PROVE  SymbolsFollow'
<1>1. /\ \A n \in ModuleNames :
           \/ symbols'[n] = symbols[n]
           \/ /\ n = "fmt" /\ Stmt.kind = "Show"
              /\ symbols[n] = NoFunction /\ symbols'[n] = FormatString
      /\ Stmt.kind = "Show" => symbols'["fmt"] # NoFunction
  BY FormatNamed DEF GenTypeInv, CGTypeOK
<1>2. "printf" \in ModuleNames /\ "fmt" \in ModuleNames /\ \A n \in Names : n \in ModuleNames
  BY DEF ModuleNames
<1>3. \A n \in ModuleNames : IsFunction(n)' <=> IsFunction(n)
  BY <1>1 DEF IsFunction
<1>4. \A b : TakesName(b)' <=> TakesName(b)
  BY DEF TakesName
<1>5. PICK here : here = StmtAddress
  OBVIOUS
<1>6. /\ here \in StatementAddresses(program) /\ here[1] = pos[1] /\ here[2] = pos[2]
      /\ StatementAt(program, here) = Stmt
  BY <1>5 DEF StmtAddress, StatementAt
<1>7. ASSUME NEW f \in 1 .. pos[1], f <= Len(program), program[f].name = "fmt"
      PROVE  symbols["fmt"] # NoFunction
  <2>1. f \in 1 .. Len(program) /\ (f < pos[1] \/ (f = pos[1] /\ pos[2] > 0))
    BY <1>7
  <2> QED BY <1>7, <2>1 DEF SymbolsFollow
<1>8. pos[1] <= Len(program) /\ Len(program) \in Nat
  BY <1>6, StatementAddressParts DEF IsProgram
<1>9. ASSUME NEW n \in ModuleNames, symbols'[n] = FormatString
      PROVE  n = "fmt" /\ \E b \in StatementAddresses(program) : TakesName(b) /\ b[1] <= pos[1]
  <2>1. CASE symbols[n] = FormatString
    BY <2>1 DEF SymbolsFollow
  <2>2. CASE symbols[n] # FormatString
    <3>1. n = "fmt" /\ Stmt.kind = "Show" /\ symbols["fmt"] = NoFunction
      BY <1>1, <1>9, <2>2
    <3>2. TakesName(here)
      BY <1>6, <1>7, <1>8, <3>1 DEF TakesName
    <3> QED BY <1>6, <3>1, <3>2
  <2> QED BY <2>1, <2>2
<1>10. ASSUME NEW b \in StatementAddresses(program), TakesName(b), Passed(b)'
       PROVE  symbols'["fmt"] = FormatString
  <2>1. /\ b[1] \in 1 .. Len(program) /\ b[2] \in 1 .. Len(program[b[1]].statements)
        /\ Len(program[b[1]].statements) \in Nat /\ b[3] = 0
    BY StatementAddressParts
  <2>2. CASE Passed(b)
    BY <1>1, <1>2, <1>10, <2>2 DEF SymbolsFollow, NoFunction, FormatString
  <2>3. CASE ~Passed(b)
    <3>1. b[1] = pos[1] /\ b[2] = pos[2]
      BY <1>8, <1>10, <2>1, <2>3 DEF Passed
    <3>2. StatementAt(program, b) = Stmt
      BY <3>1 DEF StatementAt
    <3>3. Stmt.kind = "Show" /\ \A f \in 1 .. pos[1] : program[f].name # "fmt"
      BY <1>10, <3>1, <3>2 DEF TakesName
    <3>4. ~IsFunction("fmt")
      BY <1>2, <3>3 DEF SymbolsFollow
    <3> QED BY <1>1, <1>2, <1>3, <3>3, <3>4 DEF IsFunction
  <2> QED BY <2>2, <2>3
<1>11. ASSUME NEW f \in 1 .. Len(program), f < pos[1] \/ (f = pos[1] /\ pos[2] > 0)
       PROVE  symbols'[program[f].name] # NoFunction
  <2>1. program[f].name \in ModuleNames
    BY <1>2 DEF IsProgram
  <2>2. symbols[program[f].name] # NoFunction
    BY <1>11 DEF SymbolsFollow
  <2> QED BY <1>1, <2>1, <2>2 DEF NoFunction, FormatString
<1>12. /\ IsFunction("printf")'
       /\ \A n \in ModuleNames : IsFunction(n)' =>
            n = "printf" \/ \E f \in 1 .. pos'[1] : f <= Len(program') /\ program'[f].name = n
  BY <1>2, <1>3 DEF SymbolsFollow
<1> QED BY <1>4, <1>9, <1>10, <1>11, <1>12 DEF SymbolsFollow

LEMMA RulesInit == Init => RulesInv
<1> SUFFICES ASSUME Init PROVE RulesInv
  OBVIOUS
<1>1. /\ pos[1] = 1 /\ pos[2] = 0 /\ pos[3] = 0 /\ gen = "waiting" /\ IsProgram(program, Names)
      /\ symbols = [n \in ModuleNames |-> IF n = "printf" THEN 0 ELSE NoFunction]
  BY ProgramsAssumption DEF Init, TCInit, CGInit, FirstAddress
<1>2. \A a \in StatementAddresses(program) : ~Passed(a) /\ ~Behind(a)
  BY <1>1, StatementAddressParts DEF Passed, Behind
<1>3. \A a \in NodeAddresses(program) : ~Passed(a)
  BY <1>1, NodeAddressParts DEF Passed
<1>4. SymbolsFollow
  <2>1. Len(program) \in Nat
    BY <1>1 DEF IsProgram
  <2>2. \A n \in ModuleNames : symbols[n] = IF n = "printf" THEN 0 ELSE NoFunction
    BY <1>1
  <2>3. /\ IsFunction("printf")
        /\ \A n \in ModuleNames : IsFunction(n) => n = "printf"
        /\ \A n \in ModuleNames : symbols[n] # FormatString
    BY <2>2 DEF IsFunction, ModuleNames, NoFunction, FormatString
  <2> QED BY <1>1, <1>2, <2>1, <2>3 DEF SymbolsFollow
<1> QED BY <1>1, <1>2, <1>3, <1>4 DEF RulesInv, PassedAreFine, MayRefuse

LEMMA RulesNext ==
  ASSUME TCTypeOK, LiteralInv, UsesInv, AnnotatedInv, SourceInv, GenTypeInv, GenInv, RulesInv,
         [Next \/ Done]_vars
  PROVE  RulesInv'
<1>1. IsProgram(program, Names)
  BY ProgramsAssumption DEF TCTypeOK
<1>2. PassedAreFine /\ SymbolsFollow
  BY DEF RulesInv
<1>3. CASE TCNext /\ UNCHANGED cg_vars
  <2>1. status = "checking"
    BY <1>3 DEF TCNext, EnterFunction, EnterStatement, VisitNode, VisitLiteral, VisitVariable,
                VisitFunctionCall, VisitBinary, ExitStatement, Declaring, Assigning, Showing,
                Returning, FinishCheck
  <2>2. /\ gen = "waiting" /\ gen' = gen /\ pos' = pos /\ symbols' = symbols
        /\ pos[1] = 1 /\ pos[2] = 0 /\ pos[3] = 0
    BY <1>3, <2>1 DEF GenInv, RunsOnChecked, cg_vars, FirstAddress
  <2>3. program' = program
    BY <1>3, ProgramFixed
  <2>4. \A a \in StatementAddresses(program) : ~Passed(a)' /\ ~Behind(a)'
    BY <1>1, <2>2, StatementAddressParts DEF Passed, Behind
  <2>5. \A a \in NodeAddresses(program) : ~Passed(a)'
    BY <1>1, <2>2, NodeAddressParts DEF Passed
  <2>6. PassedAreFine'
    BY <2>3, <2>4, <2>5 DEF PassedAreFine
  <2>7. SymbolsFollow'
    BY <1>2, <2>2, <2>3, SymbolsKept
  <2> QED BY <2>2, <2>6, <2>7 DEF RulesInv, MayRefuse
<1>4. CASE UNCHANGED vars \/ Done
  <2>1. UNCHANGED << program, resolved_type, gen, pos, symbols >>
    BY <1>4 DEF vars, tc_vars, cg_vars, Done
  <2>2. PassedAreFine'
    BY <1>2, <2>1, UnfoundFixed DEF PassedAreFine, Passed, Behind, DeclaredFine, DeclaredBefore,
                      Declares, IsComparison, CallSoFar, HasCall
  <2>3. SymbolsFollow'
    BY <1>2, <2>1, SymbolsKept
  <2>4. MayRefuse(gen)'
    BY <2>1 DEF RulesInv, MayRefuse, DeclaredBefore, Declares, IsComparison, IsUnfoundCall,
                IsForwardCall, NameTakenByShow, CallSoFar, HasCall, MixesLiterals
  <2> QED BY <2>1, <2>2, <2>3, <2>4 DEF RulesInv
<1>5. CASE GenStart /\ UNCHANGED tc_vars
  <2>1. gen' = "generating" /\ UNCHANGED << pos, symbols, program, resolved_type >>
    BY <1>5 DEF GenStart, tc_vars
  <2>2. SymbolsFollow'
    BY <1>2, <2>1, SymbolsKept
  <2>3. \A a : (Passed(a)' <=> Passed(a)) /\ (Behind(a)' <=> Behind(a))
    BY <2>1 DEF Passed, Behind
  <2> QED BY <1>2, <2>1, <2>2, <2>3, RulesStep
<1>6. CASE (CGNext /\ ~GenStart) /\ UNCHANGED tc_vars
  <2>1. gen = "generating"
    BY <1>6 DEF CGNext, GenFunction, GenEntry, GenNode, GenIntLiteral, GenFloatLiteral,
                GenVariable, GenFunctionCall, GenBinary, GenExit, GenDeclaration,
                GenAssignment, GenShow, GenReturn, GenFinish
  <2>2. /\ status = "checked" /\ UNCHANGED << program, resolved_type >>
        /\ OnWalk(program, pos)
    BY <1>6, <2>1 DEF GenInv, RunsOnChecked, tc_vars, GenTypeInv, CGTypeOK
  <2>3. CheckedTree /\ SourcedTree
    BY <2>2, CheckerLeaves, CheckerSources
  <2>4. CASE GenFinish
    <3>1. gen' = "generated" /\ AtEnd(program, pos) /\ UNCHANGED << pos, symbols >>
      BY <2>4 DEF GenFinish
    <3>2. PassedAreFine'
      BY <1>2, <2>2, <3>1, UnfoundFixed
      DEF PassedAreFine, Passed, Behind, DeclaredFine, DeclaredBefore, Declares, IsComparison,
          CallSoFar, HasCall
    <3>3. SymbolsFollow'
      BY <1>2, <2>2, <3>1, SymbolsKept
    <3> QED BY <2>2, <3>1, <3>2, <3>3 DEF RulesInv, MayRefuse
  <2>5. CASE GenFunction
    <3>1. /\ AtFunction(program, pos) /\ pos' = NextStatement(program, pos) /\ gen' = gen
          /\ ~AtExit(program, pos)
      BY <2>2, <2>5 DEF GenFunction, AtFunction, AtExit
    <3>2. PICK name, f : name = program[pos[1]].name /\ f = pos[1]
      OBVIOUS
    <3>3. /\ name \in Names /\ name \in ModuleNames /\ f \in Nat
          /\ f \notin {NoFunction, FormatString}
      <4>1. f \in 1 .. Len(program) /\ Len(program) \in Nat
        BY <1>1, <2>2, <3>1, <3>2 DEF AtFunction, AtEnd, OnWalk, IsProgram
      <4> QED BY <1>1, <3>2, <4>1 DEF IsProgram, NoFunction, FormatString, ModuleNames
    <3>4. symbols' = IF symbols[name] = NoFunction THEN [symbols EXCEPT ![name] = f] ELSE symbols
      BY <2>5, <3>2 DEF GenFunction
    <3>5. \A n \in ModuleNames :
            symbols'[n] = IF n = name /\ symbols[name] = NoFunction THEN f ELSE symbols[n]
      BY <3>3, <3>4 DEF GenTypeInv, CGTypeOK
    <3>6. IsFunction("printf")' /\ symbols'[name] # NoFunction
      BY <1>2, <3>3, <3>5 DEF SymbolsFollow, IsFunction, ModuleNames
    <3>7. /\ \A n \in ModuleNames : IsFunction(n)' => IsFunction(n) \/ n = name
          /\ \A n \in ModuleNames : symbols'[n] = FormatString <=> symbols[n] = FormatString
      BY <3>3, <3>5 DEF IsFunction, ModuleNames, NoFunction, FormatString
    <3>8. \A g \in 1 .. Len(program) :
            symbols[program[g].name] # NoFunction => symbols'[program[g].name] # NoFunction
      <4>1. \A g \in 1 .. Len(program) : program[g].name \in ModuleNames
        BY <1>1 DEF IsProgram, ModuleNames
      <4> QED BY <3>3, <3>5, <4>1
    <3> QED BY <1>1, <1>6, <2>1, <2>2, <3>1, <3>2, <3>6, <3>7, <3>8, AdvanceRules
  <2>6. CASE GenEntry
    <3>1. AtEntry(program, pos) /\ InFunction /\ ~AtEnd(program, pos) /\ pos[2] > 0 /\ pos[3] = 0
      BY <2>1, <2>6 DEF GenEntry, AtEntry, InFunction
    <3>2. /\ StmtAddress \in StatementAddresses(program) /\ IsStatement(Stmt, Names)
          /\ pos[1] \in Nat /\ pos[2] \in Nat /\ pos = <<pos[1], pos[2], pos[3]>>
          /\ StatementAt(program, pos) = Stmt
      BY <1>1, <2>2, <3>1, PosShape DEF OnWalk, Stmt
    <3>3. CASE GenThrow("DeclaredTwice") /\ Stmt.kind = "Declare"
               /\ named_values[Stmt.name] # NoRequest
      <4>1. \E d \in 1 .. (pos[2] - 1) : Declares(pos[1], d, Stmt.name)
        BY <3>1, <3>2, <3>3 DEF GenInv, SlotsFollow, IsSlotOf, IsStatement
      <4>2. MayRefuse("DeclaredTwice")
        BY <3>2, <3>3, <4>1 DEF MayRefuse, DeclaredBefore
      <4> QED BY <1>6, <3>3, <4>2, RefuseRules DEF GenErrors
    <3>4. CASE GenThrow("NonexistentVariable")
      BY <1>6, <3>4, RefuseRules DEF GenErrors, MayRefuse
    <3>5. CASE /\ ~(Stmt.kind = "Declare" /\ named_values[Stmt.name] # NoRequest)
               /\ pos' = <<pos[1], pos[2], 1>> /\ symbols' = NamedFormat /\ gen' = gen
      <4>1. pos'[1] = pos[1] /\ pos'[2] = pos[2] /\ pos'[3] = 1
        BY <3>5
      <4>2. SymbolsFollow'
        BY <1>1, <1>2, <2>2, <3>1, <3>2, <3>5, <4>1, EntryNames
      <4>3. ~DeclaredBefore(pos)
        BY <3>1, <3>2, <3>5
        DEF DeclaredBefore, GenInv, SlotsFollow, DeclaresBefore, IsStatement
      <4>4. ASSUME NEW a \in StatementAddresses(program), Passed(a)'
            PROVE  Passed(a) \/ ~DeclaredBefore(a)
        <5>1. a = <<a[1], a[2], 0>> /\ a[1] \in Nat /\ a[2] \in Nat
          BY <1>1, StatementAddressParts
        <5>2. Passed(a) \/ a = pos
          BY <3>1, <3>2, <4>1, <4>4, <5>1 DEF Passed
        <5> QED BY <4>3, <5>2
      <4>5. ASSUME NEW a \in NodeAddresses(program), Passed(a)' PROVE Passed(a)
        <5>1. a[3] \in Nat /\ a[3] > 0
          BY <1>1, NodeAddressParts
        <5> QED BY <4>1, <4>5, <5>1 DEF Passed
      <4>6. \A a : Behind(a)' => Behind(a)
        BY <4>1 DEF Behind
      <4>7. gen' = "generating"
        BY <2>1, <3>5
      <4> QED BY <1>2, <2>2, <4>2, <4>4, <4>5, <4>6, <4>7, RulesStep
    <3> QED BY <2>6, <3>3, <3>4, <3>5 DEF GenEntry
  <2>7. CASE GenNode
    BY <1>1, <1>6, <2>1, <2>3, <2>7, NodeRules
  <2>8. CASE GenExit
    BY <1>1, <1>6, <2>1, <2>3, <2>8, ExitRules
  <2> QED BY <1>6, <2>4, <2>5, <2>6, <2>7, <2>8 DEF CGNext
<1> QED BY <1>3, <1>4, <1>5, <1>6 DEF Next

(* At the end everything is passed.                                        *)
LEMMA RulesAtTheEnd ==
  ASSUME TCTypeOK, GenTypeInv, GenInv, RulesInv
  PROVE  GenerationFollowsSource /\ NoInternalError
<1>1. IsProgram(program, Names) /\ pos[1] \in Nat
  BY ProgramsAssumption DEF TCTypeOK, GenTypeInv, CGTypeOK, OnWalk
<1>2. ASSUME gen = "generated"
      PROVE  /\ \A a \in StatementAddresses(program) : ~DeclaredBefore(a)
             /\ \A a \in NodeAddresses(program) : ~IsComparison(a) /\ ~IsUnfoundCall(a)
  <2>1. AtEnd(program, pos) /\ PassedAreFine
    BY <1>2 DEF RulesInv
  <2>2. \A a \in StatementAddresses(program) : Passed(a)
    BY <1>1, <2>1, StatementAddressParts DEF AtEnd, Passed
  <2>3. \A a \in NodeAddresses(program) : Passed(a)
    BY <1>1, <2>1, NodeAddressParts DEF AtEnd, Passed
  <2> QED BY <2>1, <2>2, <2>3 DEF PassedAreFine
<1> QED BY <1>2 DEF RulesInv, MayRefuse, GenerationFollowsSource, GenInv, NoGuardFires, NoInternalError

LEMMA RulesHold == Spec => [](GenerationFollowsSource /\ NoInternalError)
<1>1. Init => SourceInv
  BY SourceInit DEF Init
<1>2. TCTypeOK /\ LiteralInv /\ FreshInv /\ SourceInv /\ [Next \/ Done]_vars => SourceInv'
  BY CheckerStep, SourceNext
<1>3. /\ TCTypeOK /\ LiteralInv /\ UsesInv /\ AnnotatedInv /\ SourceInv /\ GenTypeInv /\ GenInv
      /\ RulesInv /\ [Next \/ Done]_vars
      => RulesInv'
  BY RulesNext
<1>4. TCTypeOK /\ GenTypeInv /\ GenInv /\ RulesInv => GenerationFollowsSource /\ NoInternalError
  BY RulesAtTheEnd
<1> QED BY <1>1, <1>2, <1>3, <1>4, RulesInit, CompilationInvariant, PTL DEF Spec

(* What the generator refuses it refuses for a reason in the source: a     *)
(* second declaration, a comparison, a call of a function that comes later *)
(* or lost its name to the string of a show, or a type that a call let     *)
(* through; what it generates code for has none of the first three.        *)
THEOREM GenerationFollows == Spec => []GenerationFollowsSource
BY RulesHold, PTL

(* Of its guards against the checker five never fire, and the one of the   *)
(* int literal only where literals of both classes meet or a call is made. *)
THEOREM NoInternalErrors == Spec => []NoInternalError
BY RulesHold, PTL
----------------------------------------------------------------------------
(* The widths of values.  In a program of KeepsWidths an annotation and    *)
(* what is emitted for the node never part: there is no Float32, a float   *)
(* literal being emitted as a double whatever its annotation; literals of  *)
(* two classes never meet; and where two literals are operands, and are    *)
(* settled before the type of their node is known, that type can only be   *)
(* the one they were settled to.                                           *)
Allows(type) ==
  /\ type # "Float32"
  /\ HasConstantArithmetic(program) =>
       type \in {NoType, "Int32", "Float64", "Bool"} \cup LiteralTypes
  /\ OnlyInt32(program) => type \in {NoType, "Int32", "Bool", "IntLiteral"}

EmittedWidth(a, i) ==
  LET e == StatementAt(program, a).value
      annotation == resolved_type[<<a[1], a[2], i>>]
  IN  /\ Allows(emitted[i])
      /\ emitted[i] \in LiteralTypes =>
           /\ e[i].kind = emitted[i] \/ HasConstantArithmetic(program)
           /\ \E j \in 1 .. Len(e) : e[j].kind = emitted[i]
      /\ annotation = emitted[i] \/ (emitted[i] \in LiteralTypes /\ Concrete(annotation))

EmittedWidths == InStatement => \A i \in 1 .. (at[3] - 1) : EmittedWidth(at, i)

NodeWidth(a) ==
  LET node == NodeAt(program, a)
      type == resolved_type[a]
      lhs  == resolved_type[<<a[1], a[2], node.lhs>>]
      rhs  == resolved_type[<<a[1], a[2], node.rhs>>]
  IN  /\ node.kind = "FloatLiteral" => type \in FloatTypes \cup {"FloatLiteral"}
      /\ node.kind = "Binary" /\ node.op # "Equals" =>
           /\ Concrete(lhs) /\ rhs = lhs
           /\ \/ type = lhs
              \/ /\ HasConstantArithmetic(program)
                 /\ type \in LiteralTypes /\ lhs = LiteralDefault(type)

StatementWidth(a) ==
  LET stmt == StatementAt(program, a)
      type == resolved_type[<<a[1], a[2], Len(stmt.value)>>]
  IN  /\ stmt.kind # "Show" => Concrete(type)
      /\ stmt.kind \in {"Declare", "Return"} => resolved_type[a] = type
      /\ stmt.kind = "Assign"  => DeclaredAs(a[1], a[2], stmt.name, type)

WidthsInv ==
  KeepsWidths(program) /\ status \in {"checking", "checked"} =>
    /\ EmittedWidths
    /\ \A n \in Names : Allows(variable_map[n])
    /\ \A a \in Addresses(program) : Allows(resolved_type[a])
    /\ \A a \in NodeAddresses(program) : ~Unvisited(a) => NodeWidth(a)
    /\ \A a \in StatementAddresses(program) : Left(a) => StatementWidth(a)

(* A literal annotation only gives way to a type the literal fits.         *)
LiteralsFit ==
  \A a \in Addresses(program) :
    resolved_type[a] \in LiteralTypes =>
      \/ resolved_type'[a] = resolved_type[a]
      \/ resolved_type'[a] # NoType /\ LiteralFits(resolved_type'[a], resolved_type[a])

(* In a constant calculation there is only one type that it can fit.       *)
LEMMA DefaultOnly ==
  ASSUME NEW literal \in LiteralTypes, NEW type, type # NoType, LiteralFits(type, literal),
         Allows(type), HasConstantArithmetic(program)
  PROVE  type = LiteralDefault(literal)
<1>1. type \in {"Int32", "Float64", "Bool"} \cup LiteralTypes
  BY DEF Allows
<1>2. CASE literal = "IntLiteral"
  BY <1>1, <1>2 DEF LiteralFits, LiteralDefault, IntTypes, SignedTypes, UnsignedTypes, LiteralTypes
<1>3. CASE literal = "FloatLiteral"
  BY <1>1, <1>3 DEF LiteralFits, LiteralDefault, FloatTypes, LiteralTypes
<1> QED BY <1>2, <1>3 DEF LiteralTypes

(* What is known of a node's width is kept while literals settle.          *)
LEMMA NodeWidthKept ==
  ASSUME IsProgram(program, Names), Refines, LiteralsFit,
         NEW a \in NodeAddresses(program), Allows(resolved_type[a])', NodeWidth(a)
  PROVE  NodeWidth(a)'
<1>1. program' = program
  BY DEF Refines
<1>2. PICK node : node = NodeAt(program, a)
  OBVIOUS
<1>3. NodeAt(program, a)' = node
  BY <1>1, <1>2 DEF NodeAt, StatementAt
<1>4. a \in Addresses(program)
  BY NodeAddressParts
<1>5. \/ resolved_type'[a] = resolved_type[a]
      \/ /\ resolved_type[a] \in LiteralTypes \cup {NoType}
         /\ resolved_type[a] \in LiteralTypes =>
              resolved_type'[a] # NoType /\ LiteralFits(resolved_type'[a], resolved_type[a])
  BY <1>4 DEF Refines, LiteralsFit
<1>6. ASSUME node.kind = "FloatLiteral"
      PROVE  resolved_type'[a] \in FloatTypes \cup {"FloatLiteral"}
  <2>1. resolved_type[a] \in FloatTypes \cup {"FloatLiteral"}
    BY <1>2, <1>6 DEF NodeWidth
  <2>2. resolved_type[a] # NoType
    BY <2>1 DEF NoType, FloatTypes
  <2>3. resolved_type[a] \in FloatTypes => resolved_type[a] \notin LiteralTypes
    BY DEF FloatTypes, LiteralTypes
  <2>4. resolved_type[a] = "FloatLiteral" /\ LiteralFits(resolved_type'[a], "FloatLiteral")
          /\ resolved_type'[a] # NoType => resolved_type'[a] \in FloatTypes
    BY DEF LiteralFits
  <2> QED BY <1>5, <2>1, <2>2, <2>3, <2>4 DEF LiteralTypes
<1>7. ASSUME node.kind = "Binary", node.op # "Equals"
      PROVE  LET lhs == resolved_type'[<<a[1], a[2], node.lhs>>]
                 rhs == resolved_type'[<<a[1], a[2], node.rhs>>]
             IN  /\ Concrete(lhs) /\ rhs = lhs
                 /\ \/ resolved_type'[a] = lhs
                    \/ /\ HasConstantArithmetic(program)
                       /\ resolved_type'[a] \in LiteralTypes
                       /\ lhs = LiteralDefault(resolved_type'[a])
  <2>1. PICK l, r : l = <<a[1], a[2], node.lhs>> /\ r = <<a[1], a[2], node.rhs>>
    OBVIOUS
  <2>2. l \in Addresses(program) /\ r \in Addresses(program)
    BY <1>2, <1>7, <2>1, OperandsOf
  <2>3. /\ Concrete(resolved_type[l]) /\ resolved_type[r] = resolved_type[l]
        /\ \/ resolved_type[a] = resolved_type[l]
           \/ /\ HasConstantArithmetic(program)
              /\ resolved_type[a] \in LiteralTypes
              /\ resolved_type[l] = LiteralDefault(resolved_type[a])
    BY <1>2, <1>7, <2>1 DEF NodeWidth
  <2>4. resolved_type'[l] = resolved_type[l] /\ resolved_type'[r] = resolved_type[r]
    BY <2>2, <2>3 DEF Refines, Concrete
  <2>5. CASE resolved_type[a] = resolved_type[l]
    <3>1. resolved_type'[a] = resolved_type[a]
      BY <1>4, <2>3, <2>5 DEF Refines, Concrete
    <3> QED BY <2>1, <2>3, <2>4, <2>5, <3>1
  <2>6. CASE /\ HasConstantArithmetic(program) /\ resolved_type[a] \in LiteralTypes
             /\ resolved_type[l] = LiteralDefault(resolved_type[a])
    <3>1. CASE resolved_type'[a] = resolved_type[a]
      BY <2>1, <2>3, <2>4, <2>6, <3>1
    <3>2. CASE resolved_type'[a] # resolved_type[a]
      <4>1. PICK type, literal : type = resolved_type'[a] /\ literal = resolved_type[a]
        OBVIOUS
      <4>2. type # NoType /\ LiteralFits(type, literal) /\ literal \in LiteralTypes
        BY <1>5, <2>6, <3>2, <4>1
      <4>3. Allows(type)
        BY <1>1, <4>1 DEF Allows
      <4>4. type = LiteralDefault(literal)
        BY <2>6, <4>2, <4>3, DefaultOnly
      <4> QED BY <2>1, <2>3, <2>4, <2>6, <4>1, <4>4
    <3> QED BY <3>1, <3>2
  <2> QED BY <2>3, <2>5, <2>6
<1> QED BY <1>1, <1>3, <1>6, <1>7 DEF NodeWidth

LEMMA StatementWidthKept ==
  ASSUME TCTypeOK, IsProgram(program, Names), Refines,
         NEW a \in StatementAddresses(program), StatementWidth(a)
  PROVE  StatementWidth(a)'
<1>1. program' = program
  BY DEF Refines
<1>2. PICK stmt, f, s : stmt = StatementAt(program, a) /\ f = a[1] /\ s = a[2]
  OBVIOUS
<1>3. PICK root : root = <<a[1], a[2], Len(stmt.value)>>
  OBVIOUS
<1>4. /\ f \in 1 .. Len(program) /\ s \in 1 .. Len(program[f].statements)
      /\ stmt = program[f].statements[s] /\ a \in Addresses(program)
  BY <1>2, StatementAddressParts DEF StatementAt
<1>5. Len(stmt.value) \in 1 .. Len(stmt.value)
  <2>1. IsStatement(stmt, Names)
    BY <1>4 DEF IsProgram
  <2>2. Len(stmt.value) \in Nat \ {0}
    BY <2>1 DEF IsStatement, IsExpression
  <2> QED BY <2>2
<1>6. root \in Addresses(program)
  BY <1>2, <1>3, <1>4, <1>5, NodeAddress
<1>7. PICK type : type = resolved_type[root]
  OBVIOUS
<1>8. /\ stmt.kind # "Show" => Concrete(type)
      /\ stmt.kind \in {"Declare", "Return"} => resolved_type[a] = type
      /\ stmt.kind = "Assign"  => DeclaredAs(f, s, stmt.name, type)
  BY <1>2, <1>3, <1>7 DEF StatementWidth
<1>9. Concrete(type) => resolved_type'[root] = type
  BY <1>6, <1>7 DEF Refines, Concrete
<1>10. Concrete(type) /\ stmt.kind \in {"Declare", "Return"} => resolved_type'[a] = type
  BY <1>4, <1>8 DEF Refines, Concrete
<1>11. ASSUME stmt.kind = "Assign"
       PROVE  DeclaredAs(f, s, stmt.name, type)'
  <2>1. PICK name : name = stmt.name
    OBVIOUS
  <2>2. type \notin LiteralTypes \cup {NoType} /\ DeclaredAs(f, s, name, type)
    BY <1>8, <1>11, <2>1 DEF Concrete
  <2>3. DeclaredAs(f, s, name, type)'
    BY <1>4, <2>2, DeclaredKept
  <2> QED BY <2>1, <2>3
<1>12. StatementAt(program, a)' = stmt
  BY <1>1, <1>2 DEF StatementAt
<1>13. PICK type2 : type2 = resolved_type'[root]
  OBVIOUS
<1>14. stmt.kind # "Show" => type2 = type
  BY <1>8, <1>9, <1>13
<1>15. /\ stmt.kind # "Show" => Concrete(type2)
       /\ stmt.kind \in {"Declare", "Return"} => resolved_type'[a] = type2
       /\ stmt.kind = "Assign"  => DeclaredAs(f, s, stmt.name, type2)'
  BY <1>8, <1>10, <1>11, <1>14
<1> QED BY <1>2, <1>3, <1>12, <1>13, <1>15 DEF StatementWidth, Concrete

LEMMA WidthStep ==
  ASSUME TCTypeOK, Refines, LiteralsFit, KeepsWidths(program), WidthsInv,
         status \in {"checking", "checked"}, EmittedWidths',
         \A n \in Names : variable_map'[n] = variable_map[n] \/ Allows(variable_map'[n]),
         \A a \in Addresses(program) :
           resolved_type'[a] = resolved_type[a] \/ Allows(resolved_type'[a]),
         \A a \in NodeAddresses(program) : ~Unvisited(a)' => ~Unvisited(a) \/ NodeWidth(a)',
         \A a \in StatementAddresses(program) : Left(a)' => Left(a) \/ StatementWidth(a)'
  PROVE  WidthsInv'
<1>1. program' = program /\ IsProgram(program, Names)
  BY ProgramsAssumption DEF Refines, TCTypeOK
<1>2. \A type : Allows(type)' <=> Allows(type)
  BY <1>1 DEF Allows
<1>3. /\ \A n \in Names : Allows(variable_map[n])
      /\ \A a \in Addresses(program) : Allows(resolved_type[a])
      /\ \A a \in NodeAddresses(program) : ~Unvisited(a) => NodeWidth(a)
      /\ \A a \in StatementAddresses(program) : Left(a) => StatementWidth(a)
  BY DEF WidthsInv
<1>4. \A n \in Names : Allows(variable_map'[n])
  BY <1>3
<1>5. \A a \in Addresses(program) : Allows(resolved_type'[a])
  BY <1>3
<1>6. \A a \in Addresses(program) : Allows(resolved_type[a])'
  BY <1>1, <1>5 DEF Allows
<1>7. \A n \in Names : Allows(variable_map[n])'
  BY <1>1, <1>4 DEF Allows
<1>8. ASSUME NEW a \in NodeAddresses(program), ~Unvisited(a)' PROVE NodeWidth(a)'
  <2>1. a \in Addresses(program)
    BY <1>1, NodeAddressParts
  <2>2. Allows(resolved_type[a])'
    BY <1>6, <2>1
  <2>3. CASE ~Unvisited(a)
    BY <1>1, <1>3, <2>2, <2>3, NodeWidthKept
  <2> QED BY <1>8, <2>3
<1>9. ASSUME NEW a \in StatementAddresses(program), Left(a)' PROVE StatementWidth(a)'
  <2>1. CASE Left(a)
    BY <1>1, <1>3, <2>1, StatementWidthKept
  <2> QED BY <1>9, <2>1
<1>10. /\ \A a \in Addresses(program)' : Allows(resolved_type[a])'
       /\ \A a \in NodeAddresses(program)' : ~Unvisited(a)' => NodeWidth(a)'
       /\ \A a \in StatementAddresses(program)' : Left(a)' => StatementWidth(a)'
  BY <1>1, <1>6, <1>8, <1>9
<1> QED BY <1>7, <1>10 DEF WidthsInv

(* What the statement at hand is made of.                                  *)
LEMMA PlainHere ==
  ASSUME TCTypeOK, KeepsWidths(program), ~AtEnd(program, at), at[2] > 0
  PROVE  /\ StatementNode \in StatementAddresses(program)
         /\ StatementAt(program, StatementNode) = CurrentStatement
         /\ IsPlainStatement(CurrentStatement)
         /\ IsStatement(CurrentStatement, Names)
         /\ \A i \in 1 .. Len(CurrentStatement.value) :
              /\ Operand(i) \in NodeAddresses(program)
              /\ NodeAt(program, Operand(i)) = CurrentStatement.value[i]
<1>1. /\ at[1] \in 1 .. Len(program) /\ at[2] \in 1 .. Len(program[at[1]].statements)
      /\ IsStatement(CurrentStatement, Names)
  BY StatementShape
<1>2. StatementNode \in StatementAddresses(program)
  BY <1>1 DEF StatementNode, StatementAddresses
<1>3. StatementAt(program, StatementNode) = CurrentStatement
  BY DEF StatementAt, StatementNode, CurrentStatement
<1>4. IsPlainStatement(CurrentStatement)
  BY <1>2, <1>3 DEF KeepsWidths, IsPlain
<1>5. \A i \in 1 .. Len(CurrentStatement.value) : Operand(i) \in NodeAddresses(program)
  BY <1>1, NodeAddress DEF Operand, CurrentStatement, StatementAt
<1>6. \A i : NodeAt(program, Operand(i)) = CurrentStatement.value[i]
  BY DEF NodeAt, StatementAt, Operand, CurrentStatement
<1> QED BY <1>1, <1>2, <1>3, <1>4, <1>5, <1>6

(* What a literal can settle on.                                           *)
LEMMA FittingConcrete ==
  ASSUME NEW type, NEW literal, LiteralFits(type, literal), type # NoType
  PROVE  Concrete(type)
BY DEF LiteralFits, Concrete, IntTypes, SignedTypes, UnsignedTypes, FloatTypes, LiteralTypes

LEMMA AllowsDefault ==
  ASSUME NEW literal \in LiteralTypes, Allows(literal)
  PROVE  /\ Allows(LiteralDefault(literal)) /\ LiteralDefault(literal) # NoType
         /\ LiteralFits(LiteralDefault(literal), literal)
<1>1. CASE literal = "IntLiteral"
  BY <1>1 DEF Allows, LiteralDefault, LiteralFits, NoType, IntTypes, SignedTypes
<1>2. CASE literal = "FloatLiteral"
  BY <1>2 DEF Allows, LiteralDefault, LiteralFits, NoType, FloatTypes
<1> QED BY <1>1, <1>2 DEF LiteralTypes

LEMMA OperandFits ==
  ASSUME NEW own \in LiteralTypes, NEW other \in TypeIds,
         OperandsFit(own, other) \/ OperandsFit(other, own),
         other \in LiteralTypes => other = own, Allows(own), Allows(other)
  PROVE  /\ OperandType(own, other) # NoType /\ LiteralFits(OperandType(own, other), own)
         /\ Allows(OperandType(own, other))
         /\ other \in LiteralTypes => OperandType(own, other) = LiteralDefault(own)
<1>1. CASE other \in LiteralTypes
  <2>1. OperandType(own, other) = LiteralDefault(own)
    BY <1>1 DEF OperandType, LiteralDefault, LiteralTypes
  <2> QED BY <2>1, AllowsDefault
<1>2. CASE other \notin LiteralTypes
  <2>1. OperandType(own, other) = other
    BY <1>2 DEF OperandType
  <2>2. LiteralFits(other, own)
    BY <1>2 DEF OperandsFit
  <2> QED BY <1>2, <2>1, <2>2, TypeIdsAreTypes
<1> QED BY <1>1, <1>2

LEMMA StatementFits ==
  ASSUME NEW own \in LiteralTypes, NEW expected, Settles(expected, own),
         Allows(own), Allows(expected)
  PROVE  /\ Settled(expected, own) # NoType /\ LiteralFits(Settled(expected, own), own)
         /\ Allows(Settled(expected, own))
<1>1. CASE expected = NoType
  <2>1. Settled(expected, own) = LiteralDefault(own)
    BY <1>1 DEF Settled, ResolveLiteral
  <2> QED BY <2>1, AllowsDefault
<1>2. CASE expected # NoType
  <2>1. Settled(expected, own) = expected
    BY <1>2 DEF Settled, ResolveLiteral
  <2> QED BY <1>2, <2>1 DEF Settles
<1> QED BY <1>1, <1>2

(* The visit of a node.                                                    *)
LEMMA EmitWidth ==
  ASSUME TCTypeOK, Refines, LiteralsFit, KeepsWidths(program), WidthsInv, status = "checking",
         AtNode(program, at), Emit,
         NEW here, here = at, NEW type, type = result', Allows(type),
         type \in LiteralTypes =>
           /\ CurrentNode.kind = type \/ HasConstantArithmetic(program)
           /\ \E j \in 1 .. Len(CurrentStatement.value) : CurrentStatement.value[j].kind = type,
         resolved_type'[here] = type
  PROVE  EmittedWidths'
<1>1. /\ at'[1] = here[1] /\ at'[2] = here[2] /\ at'[3] = here[3] + 1
      /\ program' = program /\ emitted' = Append(emitted, type)
  BY DEF Emit
<1>2. /\ here[3] \in Nat /\ Len(emitted) = here[3] - 1 /\ emitted \in Seq(TypeIds)
      /\ here[3] \in 1 .. Len(CurrentStatement.value) /\ Len(CurrentStatement.value) \in Nat
  BY NodeShape, AtParts DEF TCTypeOK
<1>3. /\ \A i \in 1 .. (here[3] - 1) : emitted'[i] = emitted[i] /\ emitted[i] \in TypeIds
      /\ emitted'[here[3]] = type
  <2>1. IsSequence(emitted)
    BY <1>2 DEF IsSequence
  <2>2. /\ \A i \in 1 .. Len(emitted) : Append(emitted, type)[i] = emitted[i]
        /\ Append(emitted, type)[Len(emitted) + 1] = type
    BY <2>1, Appending
  <2>3. Len(emitted) + 1 = here[3]
    BY <1>2
  <2>4. \A i \in 1 .. Len(emitted) : emitted[i] \in TypeIds
    BY <1>2
  <2> QED BY <1>1, <1>2, <2>2, <2>3, <2>4
<1>4. EmittedWidths /\ InStatement
  BY DEF WidthsInv, InStatement
<1>5. PICK e : e = CurrentStatement.value
  OBVIOUS
<1>6. StatementAt(program, at)'.value = e /\ StatementAt(program, here)'.value = e
      /\ StatementAt(program, here).value = e
  BY <1>1, <1>5 DEF StatementAt, CurrentStatement
<1>7. (HasConstantArithmetic(program)' <=> HasConstantArithmetic(program))
      /\ \A t : Allows(t)' <=> Allows(t)
  BY <1>1 DEF Allows
<1>8. ASSUME NEW i \in 1 .. here[3], NEW emittedType, emittedType = emitted'[i],
             NEW annotation, annotation = resolved_type'[<<here[1], here[2], i>>]
      PROVE  /\ Allows(emittedType)
             /\ emittedType \in LiteralTypes =>
                  /\ e[i].kind = emittedType \/ HasConstantArithmetic(program)
                  /\ \E j \in 1 .. Len(e) : e[j].kind = emittedType
             /\ annotation = emittedType \/ (emittedType \in LiteralTypes /\ Concrete(annotation))
  <2>1. CASE i = here[3]
    <3>1. emittedType = type
      BY <1>3, <1>8, <2>1
    <3>2. here = <<here[1], here[2], i>>
      BY <2>1 DEF TCTypeOK, OnWalk
    <3>3. annotation = type
      BY <1>8, <3>2
    <3>4. CurrentNode.kind = e[i].kind
      BY <1>5, <2>1 DEF CurrentNode, NodeAt, CurrentStatement
    <3> QED BY <1>5, <3>1, <3>3, <3>4
  <2>2. CASE i # here[3]
    <3>1. i \in 1 .. (here[3] - 1)
      BY <1>2, <2>2
    <3>2. emittedType = emitted[i] /\ emittedType \in TypeIds /\ emittedType # NoType
      BY <1>3, <1>8, <3>1, TypeIdsAreTypes
    <3>3. EmittedWidth(here, i)
      BY <1>4, <3>1 DEF EmittedWidths
    <3>4. PICK a, old : a = <<here[1], here[2], i>> /\ old = resolved_type[a]
      OBVIOUS
    <3>5. /\ Allows(emittedType)
          /\ emittedType \in LiteralTypes =>
               /\ e[i].kind = emittedType \/ HasConstantArithmetic(program)
               /\ \E j \in 1 .. Len(e) : e[j].kind = emittedType
          /\ old = emittedType \/ (emittedType \in LiteralTypes /\ Concrete(old))
      BY <1>6, <3>2, <3>3, <3>4 DEF EmittedWidth
    <3>6. a \in Addresses(program)
      <4>1. i \in 1 .. Len(CurrentStatement.value)
        BY <1>2, <3>1
      <4> QED BY <1>4, <3>4, <4>1, OperandAddress DEF Operand
    <3>7. Concrete(old) => annotation = old
      BY <1>8, <3>4, <3>6 DEF Refines, Concrete
    <3>8. old \in LiteralTypes => annotation = old \/ Concrete(annotation)
      BY <1>8, <3>4, <3>6, FittingConcrete DEF LiteralsFit
    <3> QED BY <3>2, <3>5, <3>7, <3>8 DEF Concrete
  <2> QED BY <2>1, <2>2
<1>9. \A i \in 1 .. here[3] : EmittedWidth(at, i)'
  <2> TAKE i \in 1 .. here[3]
  <2>1. PICK emittedType, annotation :
          emittedType = emitted'[i] /\ annotation = resolved_type'[<<here[1], here[2], i>>]
    OBVIOUS
  <2>2. /\ Allows(emittedType)
        /\ emittedType \in LiteralTypes =>
             /\ e[i].kind = emittedType \/ HasConstantArithmetic(program)
             /\ \E j \in 1 .. Len(e) : e[j].kind = emittedType
        /\ annotation = emittedType \/ (emittedType \in LiteralTypes /\ Concrete(annotation))
    BY <1>8, <2>1
  <2>3. annotation = resolved_type'[<<at'[1], at'[2], i>>]
    BY <1>1, <2>1
  <2>4. Allows(emitted[i])'
    BY <1>1, <2>1, <2>2 DEF Allows
  <2> QED BY <1>6, <1>7, <2>1, <2>2, <2>3, <2>4 DEF EmittedWidth, Concrete
<1>10. at'[3] - 1 = here[3]
  BY <1>1, <1>2
<1> QED BY <1>9, <1>10 DEF EmittedWidths

LEMMA VisitWidth ==
  ASSUME TCTypeOK, Refines, LiteralsFit, KeepsWidths(program), WidthsInv, status = "checking",
         AtNode(program, at), Emit,
         NEW here, here = at, NEW type, type = result', Allows(type),
         type \in LiteralTypes =>
           /\ CurrentNode.kind = type \/ HasConstantArithmetic(program)
           /\ \E j \in 1 .. Len(CurrentStatement.value) : CurrentStatement.value[j].kind = type,
         resolved_type'[here] = type, NodeWidth(here)',
         \A a \in Addresses(program) :
           resolved_type'[a] = resolved_type[a] \/ Allows(resolved_type'[a])
  PROVE  WidthsInv'
<1>1. EmittedWidths'
  BY EmitWidth
<1>2. variable_map' = variable_map
  BY DEF Emit
<1>3. \A a \in NodeAddresses(program) : ~Unvisited(a)' => ~Unvisited(a) \/ NodeWidth(a)'
  <2> SUFFICES ASSUME NEW a \in NodeAddresses(program), ~Unvisited(a)', Unvisited(a)
               PROVE  NodeWidth(a)'
    OBVIOUS
  <2>1. a = here
    BY EmitPlaces
  <2> QED BY <2>1
<1>4. \A a \in StatementAddresses(program) : Left(a)' => Left(a)
  BY EmitPlaces
<1> QED BY <1>1, <1>2, <1>3, <1>4, WidthStep

(* A leaf takes its own type; a literal is not settled yet.                *)
LEMMA LeafWidth ==
  ASSUME TCTypeOK, FreshInv, Refines, KeepsWidths(program), WidthsInv, status = "checking",
         AtNode(program, at), Emit,
         NEW here, here = at, NEW type, type = result', Allows(type),
         CurrentNode.kind # "Binary",
         CurrentNode.kind = "FloatLiteral" => type = "FloatLiteral",
         type \in LiteralTypes => CurrentNode.kind = type,
         resolved_type' = [resolved_type EXCEPT ![at] = type]
  PROVE  WidthsInv'
<1>1. /\ here[3] \in 1 .. Len(CurrentStatement.value) /\ here = Operand(here[3])
      /\ CurrentNode = CurrentStatement.value[here[3]]
  BY NodeShape DEF Operand, TCTypeOK, OnWalk, CurrentNode, NodeAt, CurrentStatement
<1>2. here \in Addresses(program)
  BY <1>1, OperandAddress DEF InStatement
<1>3. resolved_type'[here] = type
  BY <1>2 DEF TCTypeOK
<1>4. resolved_type[here] = NoType
  <2>1. Unvisited(here)
    <3>1. at[3] \in Nat
      BY AtParts
    <3> QED BY <3>1 DEF Unvisited
  <2> QED BY <1>2, <2>1 DEF FreshInv
<1>5. \A a \in Addresses(program) : resolved_type'[a] = resolved_type[a] \/ a = here
  BY DEF TCTypeOK
<1>6. LiteralsFit
  BY <1>4, <1>5, NoTypeIsConcrete DEF LiteralsFit
<1>7. NodeWidth(here)'
  <2>0. program' = program
    BY DEF Refines
  <2>1. NodeAt(program, here)' = CurrentNode
    <3>1. NodeAt(program, here)' = NodeAt(program, here)
      BY <2>0 DEF NodeAt, StatementAt
    <3> QED BY <3>1 DEF CurrentNode
  <2> QED BY <1>3, <2>1 DEF NodeWidth
<1>8. type \in LiteralTypes =>
        \E j \in 1 .. Len(CurrentStatement.value) : CurrentStatement.value[j].kind = type
  BY <1>1
<1> QED BY <1>3, <1>5, <1>6, <1>7, <1>8, VisitWidth

(* The operands of an operator take one type, the type the operator takes  *)
(* unless that is still a literal's.                                       *)
LEMMA BinaryWidth ==
  ASSUME TCTypeOK, FreshInv, Refines, KeepsWidths(program), WidthsInv, VisitBinary,
         ~Throw("CannotCoerce"), ~Throw("OperandMismatch")
  PROVE  WidthsInv'
<1>1. PICK here : here = at
  OBVIOUS
<1>2. PICK l, r, op : l = CurrentNode.lhs /\ r = CurrentNode.rhs /\ op = CurrentNode.op
  OBVIOUS
<1>3. PICK lhs, rhs : lhs = emitted[l] /\ rhs = emitted[r]
  OBVIOUS
<1>4. PICK type : type = result'
  OBVIOUS
<1>5. /\ AtNode(program, at) /\ status = "checking" /\ CurrentNode.kind = "Binary" /\ Emit
      /\ OperandsFit(lhs, rhs) /\ OperandsMatch(lhs, rhs)
      /\ type = BinaryType(op, lhs, rhs)
      /\ resolved_type' = [resolved_type EXCEPT
           ![Operand(l)] = Annotated(@, lhs, OperandType(lhs, rhs)),
           ![Operand(r)] = Annotated(@, rhs, OperandType(rhs, lhs)),
           ![at] = type]
  BY <1>2, <1>3, <1>4 DEF VisitBinary
<1>6. lhs \in TypeIds /\ rhs \in TypeIds
  BY <1>2, <1>3, <1>5, NodeShape
<1>7. /\ here[3] \in 1 .. Len(CurrentStatement.value) /\ here[3] \in Nat
      /\ CurrentNode = CurrentStatement.value[here[3]] /\ here = Operand(here[3])
      /\ Len(CurrentStatement.value) \in Nat
  BY <1>1, <1>5, NodeShape, AtParts DEF Operand, TCTypeOK, OnWalk, CurrentNode, NodeAt,
                                        CurrentStatement
<1>8. IsStatement(CurrentStatement, Names) /\ IsPlainStatement(CurrentStatement)
      /\ \A i \in 1 .. Len(CurrentStatement.value) :
           /\ Operand(i) \in NodeAddresses(program)
           /\ NodeAt(program, Operand(i)) = CurrentStatement.value[i]
  BY <1>5, PlainHere DEF AtNode
<1>9. l \in 1 .. here[3] - 2 /\ r = here[3] - 1
  BY <1>2, <1>5, <1>7, <1>8 DEF IsStatement, IsExpression
<1>10. /\ l \in 1 .. at[3] - 1 /\ r \in 1 .. at[3] - 1 /\ l # r /\ l # here[3] /\ r # here[3]
       /\ l \in 1 .. Len(CurrentStatement.value) /\ r \in 1 .. Len(CurrentStatement.value)
  <2>1. PICK k \in Nat, m \in Nat : k = at[3] /\ k = here[3] /\ m = Len(CurrentStatement.value)
    BY <1>1, <1>7
  <2>2. k \in 1 .. m /\ l \in 1 .. k - 2 /\ r = k - 1
    BY <1>7, <1>9, <2>1
  <2>3. /\ l \in 1 .. k - 1 /\ r \in 1 .. k - 1 /\ l # r /\ l # k /\ r # k
        /\ l \in 1 .. m /\ r \in 1 .. m
    BY <2>2
  <2> QED BY <2>1, <2>3
<1>11. InStatement
  BY <1>5 DEF InStatement
<1>12. /\ here \in Addresses(program) /\ Operand(l) \in Addresses(program)
       /\ Operand(r) \in Addresses(program)
       /\ Operand(l) # Operand(r) /\ Operand(l) # here /\ Operand(r) # here
  <2>1. here \in Addresses(program) /\ Operand(l) \in Addresses(program)
        /\ Operand(r) \in Addresses(program)
    BY <1>7, <1>10, <1>11, OperandAddress
  <2> QED BY <1>7, <1>10, <2>1 DEF Operand
<1>13. EmittedWidth(at, l) /\ EmittedWidth(at, r)
  BY <1>5, <1>10, <1>11 DEF WidthsInv, EmittedWidths
<1>14. PICK e : e = CurrentStatement.value
  OBVIOUS
<1>15. /\ Allows(lhs) /\ Allows(rhs)
       /\ lhs \in LiteralTypes => /\ e[l].kind = lhs \/ HasConstantArithmetic(program)
                                  /\ \E j \in 1 .. Len(e) : e[j].kind = lhs
       /\ rhs \in LiteralTypes => /\ e[r].kind = rhs \/ HasConstantArithmetic(program)
                                  /\ \E j \in 1 .. Len(e) : e[j].kind = rhs
       /\ \/ resolved_type[Operand(l)] = lhs
          \/ lhs \in LiteralTypes /\ Concrete(resolved_type[Operand(l)])
       /\ \/ resolved_type[Operand(r)] = rhs
          \/ rhs \in LiteralTypes /\ Concrete(resolved_type[Operand(r)])
  BY <1>3, <1>13, <1>14 DEF EmittedWidth, Operand, CurrentStatement
<1>16. lhs \in LiteralTypes /\ rhs \in LiteralTypes => lhs = rhs
  <2>1. ~\E i, j \in 1 .. Len(e) : e[i].kind = "IntLiteral" /\ e[j].kind = "FloatLiteral"
    BY <1>8, <1>14 DEF IsPlainStatement, IsPlainExpression
  <2> QED BY <1>15, <2>1 DEF LiteralTypes
<1>17. PICK left, right : left = OperandType(lhs, rhs) /\ right = OperandType(rhs, lhs)
  OBVIOUS
<1>18. /\ lhs \in LiteralTypes =>
            /\ left # NoType /\ LiteralFits(left, lhs) /\ Allows(left)
            /\ rhs \in LiteralTypes => left = LiteralDefault(lhs)
       /\ rhs \in LiteralTypes =>
            /\ right # NoType /\ LiteralFits(right, rhs) /\ Allows(right)
            /\ lhs \in LiteralTypes => right = LiteralDefault(rhs)
  BY <1>5, <1>6, <1>15, <1>16, <1>17, OperandFits
<1>19. /\ lhs \notin LiteralTypes => left = lhs
       /\ rhs \notin LiteralTypes => right = rhs
       /\ lhs \in LiteralTypes /\ rhs \notin LiteralTypes => left = rhs
       /\ rhs \in LiteralTypes /\ lhs \notin LiteralTypes => right = lhs
  BY <1>17 DEF OperandType
<1>20. left = right /\ Concrete(left) /\ Allows(left)
  <2>1. CASE lhs \in LiteralTypes /\ rhs \in LiteralTypes
    BY <1>16, <1>18, <2>1, FittingConcrete
  <2>2. CASE lhs \notin LiteralTypes /\ rhs \notin LiteralTypes
    <3>1. lhs = rhs
      BY <1>5, <2>2 DEF OperandsMatch
    <3> QED BY <1>6, <1>15, <1>19, <2>2, <3>1, TypeIdsAreTypes DEF Concrete
  <2>3. CASE lhs \in LiteralTypes /\ rhs \notin LiteralTypes
    BY <1>6, <1>15, <1>19, <2>3, TypeIdsAreTypes DEF Concrete
  <2>4. CASE lhs \notin LiteralTypes /\ rhs \in LiteralTypes
    BY <1>6, <1>15, <1>19, <2>4, TypeIdsAreTypes DEF Concrete
  <2> QED BY <2>1, <2>2, <2>3, <2>4
<1>21. /\ resolved_type'[here] = type
       /\ resolved_type'[Operand(l)] = left /\ resolved_type'[Operand(r)] = right
       /\ \A a \in Addresses(program) :
            a # here /\ a # Operand(l) /\ a # Operand(r) => resolved_type'[a] = resolved_type[a]
  <2>1. PICK a, b : a = Operand(l) /\ b = Operand(r)
    OBVIOUS
  <2>2. /\ resolved_type'[here] = type
        /\ resolved_type'[a] = Annotated(resolved_type[a], lhs, left)
        /\ resolved_type'[b] = Annotated(resolved_type[b], rhs, right)
        /\ \A c \in Addresses(program) :
             c # here /\ c # a /\ c # b => resolved_type'[c] = resolved_type[c]
    BY <1>1, <1>5, <1>12, <1>17, <2>1 DEF TCTypeOK
  <2> QED BY <1>15, <1>19, <2>1, <2>2 DEF Annotated
<1>22. LiteralsFit
  <2> SUFFICES ASSUME NEW a \in Addresses(program), resolved_type[a] \in LiteralTypes,
                      resolved_type'[a] # resolved_type[a]
               PROVE  resolved_type'[a] # NoType /\ LiteralFits(resolved_type'[a], resolved_type[a])
    BY DEF LiteralsFit
  <2>1. CASE a = here
    <3>1. Unvisited(here)
      BY <1>1, AtParts DEF Unvisited
    <3>2. resolved_type[here] = NoType
      BY <1>5, <1>12, <3>1 DEF FreshInv
    <3> QED BY <2>1, <3>2, NoTypeIsConcrete
  <2>2. CASE a = Operand(l)
    BY <1>15, <1>18, <1>21, <2>2 DEF Concrete
  <2>3. CASE a = Operand(r)
    BY <1>15, <1>18, <1>21, <2>3 DEF Concrete
  <2> QED BY <1>21, <2>1, <2>2, <2>3
<1>23. Allows(type)
  <2>1. CASE op = "Equals"
    BY <1>5, <2>1 DEF BinaryType, Allows, NoType
  <2>2. CASE op # "Equals"
    BY <1>5, <1>15, <1>17, <1>20, <2>2 DEF BinaryType
  <2> QED BY <2>1, <2>2
<1>24. type \in LiteralTypes => type = rhs /\ lhs \in LiteralTypes /\ rhs \in LiteralTypes
  <2>1. right \notin LiteralTypes /\ "Bool" \notin LiteralTypes
    BY <1>20 DEF Concrete, LiteralTypes
  <2> QED BY <1>5, <1>17, <2>1 DEF BinaryType
<1>25. lhs \in LiteralTypes /\ rhs \in LiteralTypes => HasConstantArithmetic(program)
  <2> SUFFICES ASSUME lhs \in LiteralTypes, rhs \in LiteralTypes, ~HasConstantArithmetic(program)
               PROVE  FALSE
    OBVIOUS
  <2>1. e[l].kind \in LiteralTypes /\ e[r].kind \in LiteralTypes
    BY <1>15
  <2>2. here \in NodeAddresses(program) /\ NodeAt(program, here) = e[here[3]]
    BY <1>7, <1>8, <1>14
  <2>3. StatementAt(program, here).value = e
    BY <1>1, <1>14 DEF CurrentStatement
  <2>4. e[here[3]].kind = "Binary" /\ e[here[3]].lhs = l /\ e[here[3]].rhs = r
    BY <1>2, <1>5, <1>7, <1>14
  <2> QED BY <2>1, <2>2, <2>3, <2>4 DEF HasConstantArithmetic
<1>26. NodeWidth(here)'
  <2>1. NodeAt(program, here)' = CurrentNode
    BY <1>1 DEF Refines, NodeAt, StatementAt, CurrentNode
  <2>2. /\ resolved_type'[<<here[1], here[2], l>>] = left
        /\ resolved_type'[<<here[1], here[2], r>>] = right
    BY <1>1, <1>21 DEF Operand
  <2>3. HasConstantArithmetic(program)' <=> HasConstantArithmetic(program)
    BY DEF Refines
  <2>4. CASE op # "Equals" /\ lhs \in LiteralTypes /\ rhs \in LiteralTypes
    <3>1. type = rhs /\ left = LiteralDefault(type) /\ type \in LiteralTypes
      BY <1>5, <1>16, <1>18, <2>4 DEF BinaryType
    <3> QED BY <1>2, <1>5, <1>20, <1>21, <1>25, <2>1, <2>2, <2>3, <2>4, <3>1
            DEF NodeWidth, Concrete, LiteralDefault
  <2>5. CASE op # "Equals" /\ ~(lhs \in LiteralTypes /\ rhs \in LiteralTypes)
    <3>1. type = left
      BY <1>5, <1>17, <1>19, <1>20, <2>5 DEF BinaryType
    <3> QED BY <1>2, <1>5, <1>20, <1>21, <2>1, <2>2, <3>1 DEF NodeWidth, Concrete
  <2>6. CASE op = "Equals"
    BY <1>2, <1>5, <2>1, <2>6 DEF NodeWidth
  <2> QED BY <2>4, <2>5, <2>6
<1>27. \A a \in Addresses(program) :
         resolved_type'[a] = resolved_type[a] \/ Allows(resolved_type'[a])
  BY <1>20, <1>21, <1>23
<1>28. type \in LiteralTypes =>
         /\ CurrentNode.kind = type \/ HasConstantArithmetic(program)
         /\ \E j \in 1 .. Len(CurrentStatement.value) : CurrentStatement.value[j].kind = type
  BY <1>14, <1>15, <1>24, <1>25
<1> QED BY <1>1, <1>4, <1>5, <1>21, <1>22, <1>23, <1>26, <1>27, <1>28, VisitWidth

(* The exit of a statement.                                                *)
LEMMA ValueWidth ==
  ASSUME TCTypeOK, KeepsWidths(program), WidthsInv, status = "checking", AtExit(program, at)
  PROVE  /\ ValueType \in TypeIds /\ Allows(ValueType)
         /\ \/ resolved_type[ValueNode] = ValueType
            \/ ValueType \in LiteralTypes /\ Concrete(resolved_type[ValueNode])
         /\ ValueNode \in Addresses(program) /\ StatementNode \in Addresses(program)
         /\ ValueNode # StatementNode
<1>1. /\ IsStatement(CurrentStatement, Names) /\ StatementNode \in StatementAddresses(program)
  BY PlainHere DEF AtExit
<1>2. PICK n : n = Len(CurrentStatement.value)
  OBVIOUS
<1>3. n \in Nat \ {0} /\ at[3] = n + 1
  BY <1>1, <1>2 DEF IsStatement, IsExpression, AtExit, CurrentStatement
<1>4. InStatement
  BY DEF InStatement
<1>5. n \in 1 .. at[3] - 1 /\ n \in 1 .. Len(CurrentStatement.value)
  BY <1>2, <1>3
<1>6. EmittedWidth(at, n)
  BY <1>4, <1>5 DEF WidthsInv, EmittedWidths
<1>7. ValueNode = <<at[1], at[2], n>> /\ ValueType = emitted[n] /\ ValueNode = Operand(n)
  BY <1>2 DEF ValueNode, ValueType, Operand
<1>8. ValueNode \in Addresses(program)
  BY <1>4, <1>5, <1>7, OperandAddress
<1>9. ValueNode # StatementNode
  BY <1>3, <1>7 DEF StatementNode
<1>10. StatementNode \in Addresses(program)
  BY <1>1 DEF Addresses
<1>11. /\ Allows(ValueType)
       /\ \/ resolved_type[ValueNode] = ValueType
          \/ ValueType \in LiteralTypes /\ Concrete(resolved_type[ValueNode])
  BY <1>6, <1>7 DEF EmittedWidth
<1> QED BY <1>8, <1>9, <1>10, <1>11, ValueShape

LEMMA ExitWidth ==
  ASSUME TCTypeOK, FreshInv, Refines, KeepsWidths(program), WidthsInv, status = "checking",
         AtExit(program, at), NEW type, FinishStatement(type),
         NEW value, value = ValueType, NEW settled,
         value \in LiteralTypes =>
           settled # NoType /\ LiteralFits(settled, value) /\ Allows(settled),
         value \notin LiteralTypes => settled = value,
         \A n \in Names : variable_map'[n] = variable_map[n] \/ variable_map'[n] = settled,
         \A a \in Addresses(program) :
           \/ resolved_type'[a] = resolved_type[a]
           \/ resolved_type'[a] = settled
              /\ ((a = ValueNode /\ value \in LiteralTypes) \/ a = StatementNode),
         NEW here, here = StatementNode, type \notin LiteralTypes => StatementWidth(here)'
  PROVE  WidthsInv'
<1>1. CASE type \in LiteralTypes
  BY <1>1 DEF FinishStatement, WidthsInv
<1>2. CASE type \notin LiteralTypes
  <2>1. /\ at' = NextStatement(program, at) /\ program' = program /\ IsProgram(program, Names)
        /\ OnWalk(program, at) /\ ~AtEnd(program, at)
    BY <1>2, ProgramsAssumption DEF FinishStatement, TCTypeOK, AtExit
  <2>2. EmittedWidths'
    BY <2>1, NextStatementOnWalk DEF EmittedWidths, InStatement
  <2>3. /\ Allows(value) /\ ValueNode \in Addresses(program) /\ StatementNode \in Addresses(program)
        /\ \/ resolved_type[ValueNode] = value
           \/ value \in LiteralTypes /\ Concrete(resolved_type[ValueNode])
    BY ValueWidth
  <2>4. Allows(settled)
    BY <2>3
  <2>5. LiteralsFit
    <3> SUFFICES ASSUME NEW a \in Addresses(program), resolved_type[a] \in LiteralTypes,
                        resolved_type'[a] # resolved_type[a]
                 PROVE  /\ resolved_type'[a] # NoType
                        /\ LiteralFits(resolved_type'[a], resolved_type[a])
      BY DEF LiteralsFit
    <3>1. CASE a = StatementNode
      BY <2>3, <3>1, RootUnread, NoTypeIsConcrete
    <3>2. CASE a # StatementNode
      BY <2>3, <3>2 DEF Concrete
    <3> QED BY <3>1, <3>2
  <2>6. \A a \in NodeAddresses(program) : ~Unvisited(a)' => ~Unvisited(a)
    BY <2>1, AdvanceVisited
  <2>7. ASSUME NEW a \in StatementAddresses(program), Left(a)'
        PROVE  Left(a) \/ StatementWidth(a)'
    <3>1. Left(a) \/ a = StatementNode
      BY <2>1, <2>7, AdvancePlaces
    <3>2. a = here => StatementWidth(a)'
      BY <1>2
    <3> QED BY <3>1, <3>2
  <2>8. \A n \in Names : variable_map'[n] = variable_map[n] \/ Allows(variable_map'[n])
    BY <2>4
  <2>9. \A a \in Addresses(program) :
          resolved_type'[a] = resolved_type[a] \/ Allows(resolved_type'[a])
    BY <2>4
  <2> QED BY <2>2, <2>5, <2>6, <2>7, <2>8, <2>9, WidthStep
<1> QED BY <1>1, <1>2

LEMMA ThrowWidth ==
  ASSUME NEW error \in Errors, Throw(error)
  PROVE  WidthsInv'
BY DEF Throw, Errors, WidthsInv

LEMMA DeclaringWidth ==
  ASSUME TCTypeOK, FreshInv, Refines, KeepsWidths(program), WidthsInv, Declaring,
         ~Throw("CannotCoerce"), ~Throw("DeclarationMismatch")
  PROVE  WidthsInv'
<1>1. PICK value, expected : value = ValueType /\ expected = CurrentStatement.annotation
  OBVIOUS
<1>2. PICK settled : settled = Settled(expected, value)
  OBVIOUS
<1>3. /\ AtExit(program, at) /\ status = "checking" /\ CurrentStatement.kind = "Declare"
      /\ Settles(expected, value) /\ FinishStatement(settled)
      /\ resolved_type' = [resolved_type EXCEPT
           ![ValueNode] = Annotated(@, value, settled), ![StatementNode] = settled]
      /\ variable_map' = [variable_map EXCEPT ![CurrentStatement.name] = settled]
  BY <1>1, <1>2 DEF Declaring
<1>4. /\ value \in TypeIds /\ value # NoType /\ Allows(value)
      /\ resolved_type[ValueNode] = value
         \/ (value \in LiteralTypes /\ Concrete(resolved_type[ValueNode]))
      /\ ValueNode \in Addresses(program) /\ StatementNode \in Addresses(program)
      /\ ValueNode # StatementNode
  BY <1>1, <1>3, ValueWidth, TypeIdsAreTypes
<1>5. Allows(expected)
  <2>1. /\ StatementNode \in StatementAddresses(program)
        /\ StatementAt(program, StatementNode) = CurrentStatement
    BY <1>3, PlainHere DEF AtExit
  <2>2. expected \in Annotations(program)
    BY <1>1, <1>3, <2>1 DEF Annotations
  <2>3. expected # "Float32"
    BY <2>2 DEF KeepsWidths
  <2>4. HasConstantArithmetic(program) => expected \in {NoType, "Int32", "Float64", "Bool"}
    BY <2>2 DEF KeepsWidths
  <2>5. OnlyInt32(program) => expected \in {NoType, "Int32"}
    BY <2>2 DEF OnlyInt32
  <2> QED BY <2>3, <2>4, <2>5 DEF Allows
<1>6. value \in LiteralTypes =>
        settled # NoType /\ LiteralFits(settled, value) /\ Allows(settled)
  BY <1>2, <1>3, <1>4, <1>5, StatementFits
<1>7. value \notin LiteralTypes => settled = value
  BY <1>2 DEF Settled
<1>8. Concrete(settled)
  BY <1>4, <1>6, <1>7, FittingConcrete DEF Concrete
<1>9. PICK here, root : here = StatementNode /\ root = ValueNode
  OBVIOUS
<1>10. /\ resolved_type'[root] = Annotated(resolved_type[root], value, settled)
       /\ resolved_type'[here] = settled
       /\ \A a \in Addresses(program) :
            a # root /\ a # here => resolved_type'[a] = resolved_type[a]
  BY <1>3, <1>4, <1>9 DEF TCTypeOK
<1>11. resolved_type'[root] = settled
  BY <1>4, <1>7, <1>9, <1>10 DEF Annotated
<1>12. \A a \in Addresses(program) :
         \/ resolved_type'[a] = resolved_type[a]
         \/ resolved_type'[a] = settled
            /\ ((a = ValueNode /\ value \in LiteralTypes) \/ a = StatementNode)
  BY <1>9, <1>10 DEF Annotated
<1>13. StatementWidth(here)'
  <2>1. StatementAt(program, here)' = CurrentStatement
    BY <1>9 DEF Refines, StatementAt, StatementNode, CurrentStatement
  <2>2. root = <<here[1], here[2], Len(CurrentStatement.value)>>
    BY <1>9 DEF StatementNode, ValueNode
  <2>3. PICK n : n = Len(CurrentStatement.value)
    OBVIOUS
  <2>4. resolved_type'[<<here[1], here[2], n>>] = settled
    BY <1>11, <2>2, <2>3
  <2>5. Len(StatementAt(program, here).value)' = n
    BY <2>1, <2>3
  <2> QED BY <1>3, <1>8, <1>10, <2>1, <2>4, <2>5 DEF StatementWidth, Concrete
<1>14. \A n \in Names : variable_map'[n] = variable_map[n] \/ variable_map'[n] = settled
  BY <1>3 DEF TCTypeOK
<1>15. PICK type : type = settled
  OBVIOUS
<1>16. FinishStatement(type) /\ AtExit(program, at) /\ status = "checking"
  BY <1>3, <1>15
<1> QED BY <1>1, <1>6, <1>7, <1>9, <1>12, <1>13, <1>14, <1>16, ExitWidth

LEMMA AssigningWidth ==
  ASSUME TCTypeOK, LiteralInv, FreshInv, UsesInv, Refines, KeepsWidths(program), WidthsInv,
         Assigning, ~Throw("CannotCoerce"), ~Throw("AssignmentMismatch")
  PROVE  WidthsInv'
<1>1. PICK name : name = CurrentStatement.name
  OBVIOUS
<1>2. PICK value, expected : value = ValueType /\ expected = variable_map[name]
  OBVIOUS
<1>3. PICK settled : settled = Settled(expected, value)
  OBVIOUS
<1>4. PICK type : type = result
  OBVIOUS
<1>5. /\ AtExit(program, at) /\ status = "checking" /\ CurrentStatement.kind = "Assign"
      /\ Settles(expected, value) /\ settled = expected /\ FinishStatement(type)
      /\ resolved_type' = [resolved_type EXCEPT ![ValueNode] = Annotated(@, value, settled)]
      /\ variable_map' = variable_map
  BY <1>1, <1>2, <1>3, <1>4 DEF Assigning
<1>6. /\ value \in TypeIds /\ value # NoType /\ Allows(value)
      /\ resolved_type[ValueNode] = value
         \/ (value \in LiteralTypes /\ Concrete(resolved_type[ValueNode]))
      /\ ValueNode \in Addresses(program) /\ StatementNode \in Addresses(program)
      /\ ValueNode # StatementNode
  BY <1>2, <1>5, ValueWidth, TypeIdsAreTypes
<1>7. name \in Names /\ IsExpression(CurrentStatement.value, Names)
  BY <1>1, <1>5, StatementShape DEF AtExit, IsStatement
<1>8. Allows(expected)
  BY <1>2, <1>5, <1>7 DEF WidthsInv
<1>9. value \in LiteralTypes =>
        settled # NoType /\ LiteralFits(settled, value) /\ Allows(settled)
  BY <1>3, <1>5, <1>6, <1>8, StatementFits
<1>10. value \notin LiteralTypes => settled = value
  BY <1>3 DEF Settled
<1>11. PICK here : here = StatementNode
  OBVIOUS
<1>12. \A a \in Addresses(program) :
         \/ resolved_type'[a] = resolved_type[a]
         \/ resolved_type'[a] = settled
            /\ ((a = ValueNode /\ value \in LiteralTypes) \/ a = StatementNode)
  BY <1>5 DEF TCTypeOK, Annotated
<1>13. ASSUME type \notin LiteralTypes PROVE StatementWidth(here)'
  <2>1. type = value
    <3>1. at[3] - 1 = Len(CurrentStatement.value) /\ at[3] > 1
      BY <1>5, <1>7 DEF AtExit, IsExpression, CurrentStatement
    <3> QED BY <1>2, <1>4, <1>5, <3>1 DEF LiteralInv, InStatement, ValueType
  <2>2. value \notin LiteralTypes /\ expected = value /\ resolved_type[ValueNode] = value
    BY <1>5, <1>6, <1>10, <1>13, <2>1
  <2>3. DeclaredAs(at[1], at[2], name, value)
    <3>1. expected # NoType
      BY <1>6, <2>2
    <3> QED BY <1>2, <1>5, <1>7, <2>2, <3>1 DEF UsesInv, TableFollows, AtExit
  <2>4. StatementWidth(here)
    <3>1. StatementAt(program, here) = CurrentStatement
      BY <1>11 DEF StatementAt, StatementNode, CurrentStatement
    <3>2. here[1] = at[1] /\ here[2] = at[2]
      BY <1>11 DEF StatementNode
    <3>3. resolved_type[<<here[1], here[2], Len(CurrentStatement.value)>>] = value
      BY <2>2, <3>2 DEF ValueNode
    <3> QED BY <1>1, <1>5, <1>6, <2>2, <2>3, <3>1, <3>2, <3>3 DEF StatementWidth, Concrete
  <2>5. here \in StatementAddresses(program)
    BY <1>5, <1>11, PlainHere DEF AtExit
  <2>6. IsProgram(program, Names)
    BY ProgramsAssumption DEF TCTypeOK
  <2> QED BY <2>4, <2>5, <2>6, StatementWidthKept
<1>14. \A n \in Names : variable_map'[n] = variable_map[n] \/ variable_map'[n] = settled
  BY <1>5
<1> QED BY <1>2, <1>5, <1>9, <1>10, <1>11, <1>12, <1>13, <1>14, ExitWidth

LEMMA ReturningWidth ==
  ASSUME TCTypeOK, FreshInv, Refines, KeepsWidths(program), WidthsInv, Returning,
         ~Throw("CannotCoerce")
  PROVE  WidthsInv'
<1>1. PICK value, expected : value = ValueType /\ expected = resolved_type[<<at[1], 0, 0>>]
  OBVIOUS
<1>2. PICK settled : settled = Settled(expected, value)
  OBVIOUS
<1>3. /\ AtExit(program, at) /\ status = "checking" /\ CurrentStatement.kind = "Return"
      /\ Settles(expected, value) /\ FinishStatement(settled) /\ variable_map' = variable_map
      /\ resolved_type' = [resolved_type EXCEPT
           ![ValueNode] = Annotated(@, value, settled), ![StatementNode] = settled]
  BY <1>1, <1>2 DEF Returning
<1>4. /\ value \in TypeIds /\ value # NoType /\ Allows(value)
      /\ resolved_type[ValueNode] = value
         \/ (value \in LiteralTypes /\ Concrete(resolved_type[ValueNode]))
      /\ ValueNode \in Addresses(program) /\ StatementNode \in Addresses(program)
      /\ ValueNode # StatementNode
  BY <1>1, <1>3, ValueWidth, TypeIdsAreTypes
<1>5. Allows(expected)
  <2>1. <<at[1], 0, 0>> \in Addresses(program)
    BY <1>3, StatementShape DEF AtExit, Addresses, FunctionAddresses
  <2> QED BY <1>1, <1>3, <2>1 DEF WidthsInv
<1>6. value \in LiteralTypes =>
        settled # NoType /\ LiteralFits(settled, value) /\ Allows(settled)
  BY <1>2, <1>3, <1>4, <1>5, StatementFits
<1>7. value \notin LiteralTypes => settled = value
  BY <1>2 DEF Settled
<1>8. Concrete(settled)
  BY <1>4, <1>6, <1>7, FittingConcrete DEF Concrete
<1>9. PICK here, root : here = StatementNode /\ root = ValueNode
  OBVIOUS
<1>10. /\ resolved_type'[root] = Annotated(resolved_type[root], value, settled)
       /\ resolved_type'[here] = settled
       /\ \A a \in Addresses(program) :
            a # root /\ a # here => resolved_type'[a] = resolved_type[a]
  BY <1>3, <1>4, <1>9 DEF TCTypeOK
<1>11. resolved_type'[root] = settled
  BY <1>4, <1>7, <1>9, <1>10 DEF Annotated
<1>12. \A a \in Addresses(program) :
         \/ resolved_type'[a] = resolved_type[a]
         \/ resolved_type'[a] = settled
            /\ ((a = ValueNode /\ value \in LiteralTypes) \/ a = StatementNode)
  BY <1>9, <1>10 DEF Annotated
<1>13. StatementWidth(here)'
  <2>1. StatementAt(program, here)' = CurrentStatement
    BY <1>9 DEF Refines, StatementAt, StatementNode, CurrentStatement
  <2>2. root = <<here[1], here[2], Len(CurrentStatement.value)>>
    BY <1>9 DEF StatementNode, ValueNode
  <2>3. PICK n : n = Len(CurrentStatement.value)
    OBVIOUS
  <2>4. resolved_type'[<<here[1], here[2], n>>] = settled
    BY <1>11, <2>2, <2>3
  <2>5. Len(StatementAt(program, here).value)' = n
    BY <2>1, <2>3
  <2> QED BY <1>3, <1>8, <1>10, <2>1, <2>4, <2>5 DEF StatementWidth, Concrete
<1>14. \A n \in Names : variable_map'[n] = variable_map[n] \/ variable_map'[n] = settled
  BY <1>3
<1>15. PICK type : type = settled
  OBVIOUS
<1>16. FinishStatement(type) /\ AtExit(program, at) /\ status = "checking"
  BY <1>3, <1>15
<1> QED BY <1>1, <1>6, <1>7, <1>9, <1>12, <1>13, <1>14, <1>16, ExitWidth

LEMMA ShowingWidth ==
  ASSUME TCTypeOK, FreshInv, Refines, KeepsWidths(program), WidthsInv, Showing
  PROVE  WidthsInv'
<1>1. PICK value, type : value = ValueType /\ type = result
  OBVIOUS
<1>2. /\ AtExit(program, at) /\ status = "checking" /\ CurrentStatement.kind = "Show"
      /\ resolved_type' = resolved_type /\ variable_map' = variable_map /\ FinishStatement(type)
  BY <1>1 DEF Showing
<1>3. PICK settled :
        settled = IF value \in LiteralTypes THEN LiteralDefault(value) ELSE value
  OBVIOUS
<1>4. Allows(value)
  BY <1>1, <1>2, ValueWidth
<1>5. value \in LiteralTypes =>
        settled # NoType /\ LiteralFits(settled, value) /\ Allows(settled)
  BY <1>3, <1>4, AllowsDefault
<1>6. PICK here : here = StatementNode
  OBVIOUS
<1>7. StatementWidth(here)'
  <2>1. StatementAt(program, here)' = CurrentStatement
    BY <1>6 DEF Refines, StatementAt, StatementNode, CurrentStatement
  <2> QED BY <1>2, <2>1 DEF StatementWidth
<1>8. value \notin LiteralTypes => settled = value
  BY <1>3
<1>9. /\ \A n \in Names : variable_map'[n] = variable_map[n] \/ variable_map'[n] = settled
      /\ \A a \in Addresses(program) :
           \/ resolved_type'[a] = resolved_type[a]
           \/ resolved_type'[a] = settled
              /\ ((a = ValueNode /\ value \in LiteralTypes) \/ a = StatementNode)
  BY <1>2
<1> QED BY <1>1, <1>2, <1>5, <1>6, <1>7, <1>8, <1>9, ExitWidth

LEMMA WidthsInit == TCInit => WidthsInv
<1> SUFFICES ASSUME TCInit PROVE WidthsInv
  OBVIOUS
<1>1. at[1] = 1 /\ at[2] = 0 /\ at[3] = 0 /\ IsProgram(program, Names)
  BY ProgramsAssumption DEF TCInit, FirstAddress
<1>2. EmittedWidths
  BY <1>1 DEF EmittedWidths, InStatement, AtNode, AtExit
<1>3. \A a \in NodeAddresses(program) : Unvisited(a)
  BY <1>1, NodeAddressParts DEF Unvisited
<1>4. \A a \in StatementAddresses(program) : ~Left(a)
  BY <1>1, StatementAddressParts DEF Left
<1>5. Allows(NoType)
  BY DEF Allows, NoType
<1>6. /\ \A n \in Names : Allows(variable_map[n])
      /\ \A a \in Addresses(program) : Allows(resolved_type[a])
  BY <1>5 DEF TCInit
<1> QED BY <1>2, <1>3, <1>4, <1>6 DEF WidthsInv

LEMMA WidthsNext ==
  ASSUME TCTypeOK, LiteralInv, FreshInv, UsesInv, WidthsInv, [TCNext \/ TCDone]_tc_vars
  PROVE  WidthsInv'
<1> Refines
  BY ProgramFixed, FreshNext DEF Refines
<1>0. IsProgram(program, Names) /\ program' = program
  BY ProgramsAssumption DEF TCTypeOK, Refines
<1>1. CASE ~KeepsWidths(program)
  BY <1>0, <1>1 DEF WidthsInv
<1>2. CASE KeepsWidths(program)
  <2>1. CASE EnterFunction
    <3>1. /\ AtFunction(program, at) /\ status = "checking" /\ ~AtEnd(program, at)
          /\ at' = NextStatement(program, at)
          /\ resolved_type' = [resolved_type EXCEPT ![at] = "Int32"]
          /\ variable_map' = [n \in Names |-> NoType]
      BY <2>1 DEF EnterFunction, AtFunction
    <3>2. EmittedWidths'
      BY <1>0, <3>1, NextStatementOnWalk DEF EmittedWidths, InStatement, TCTypeOK
    <3>3. Allows("Int32") /\ Allows(NoType)
      BY DEF Allows, NoType
    <3>4. ~AtExit(program, at)
      BY <3>1 DEF AtFunction, AtExit
    <3>5. LiteralsFit
      <4>1. resolved_type[at] = NoType \/ at \notin Addresses(program)
        BY <3>1 DEF FreshInv, Unvisited, AtFunction
      <4>2. \A a \in Addresses(program) : a # at => resolved_type'[a] = resolved_type[a]
        BY <3>1 DEF TCTypeOK
      <4> QED BY <4>1, <4>2, NoTypeIsConcrete DEF LiteralsFit
    <3>6. \A a \in NodeAddresses(program) : ~Unvisited(a)' => ~Unvisited(a)
      BY <1>0, <3>1, AdvanceVisited
    <3>7. \A a \in StatementAddresses(program) : Left(a)' => Left(a)
      BY <1>0, <3>1, <3>4, AdvancePlaces
    <3>8. \A a \in Addresses(program) :
            resolved_type'[a] = resolved_type[a] \/ Allows(resolved_type'[a])
      BY <3>1, <3>3 DEF TCTypeOK
    <3>9. \A n \in Names : Allows(variable_map'[n])
      BY <3>1, <3>3
    <3> QED BY <1>2, <3>1, <3>2, <3>5, <3>6, <3>7, <3>8, <3>9, WidthStep
  <2>2. CASE EnterStatement
    <3>1. CASE Throw("UndeclaredVariable")
      BY <3>1, ThrowWidth DEF Errors
    <3>2. CASE ~Throw("UndeclaredVariable")
      <4>1. /\ at' = Operand(1) /\ AtEntry(program, at) /\ status = "checking"
            /\ resolved_type' = resolved_type /\ variable_map' = variable_map
        BY <2>2, <3>2 DEF EnterStatement
      <4>2. at'[1] = at[1] /\ at'[2] = at[2] /\ at'[3] = 1 /\ at[3] = 0
        BY <4>1 DEF Operand, AtEntry
      <4>3. EmittedWidths'
        BY <4>2 DEF EmittedWidths
      <4>4. ASSUME NEW a \in NodeAddresses(program), ~Unvisited(a)' PROVE ~Unvisited(a)
        <5>1. a[1] \in Nat /\ a[2] \in Nat /\ a[3] \in 1 .. Len(StatementAt(program, a).value)
              /\ Len(StatementAt(program, a).value) \in Nat
          BY <1>0, NodeAddressParts
        <5> QED BY <4>2, <4>4, <5>1, AtParts DEF Unvisited
      <4>5. \A a \in StatementAddresses(program) : Left(a)' => Left(a)
        BY <4>2 DEF Left
      <4>6. LiteralsFit
        BY <4>1 DEF LiteralsFit
      <4> QED BY <1>2, <4>1, <4>3, <4>4, <4>5, <4>6, WidthStep
    <3> QED BY <3>1, <3>2
  <2>3. CASE VisitLiteral
    <3>1. PICK here, type : here = at /\ type = CurrentNode.kind
      OBVIOUS
    <3>2. /\ AtNode(program, at) /\ status = "checking" /\ Emit /\ type \in LiteralTypes
          /\ result' = type /\ resolved_type' = [resolved_type EXCEPT ![at] = type]
      BY <2>3, <3>1 DEF VisitLiteral
    <3>3. Allows(type)
      <4>1. type = "FloatLiteral" => ~OnlyInt32(program)
        <5>1. at = Operand(at[3]) /\ at[3] \in 1 .. Len(CurrentStatement.value)
          BY <3>2, NodeShape DEF Operand, TCTypeOK, OnWalk
        <5>2. at \in NodeAddresses(program)
          BY <1>2, <3>2, <5>1, PlainHere DEF AtNode
        <5> QED BY <3>1, <5>2 DEF OnlyInt32, CurrentNode
      <4> QED BY <3>2, <4>1 DEF Allows, LiteralTypes
    <3> QED BY <1>2, <3>1, <3>2, <3>3, LeafWidth DEF LiteralTypes
  <2>4. CASE VisitVariable
    <3>1. CASE Throw("UndeclaredVariable")
      BY <3>1, ThrowWidth DEF Errors
    <3>2. CASE ~Throw("UndeclaredVariable")
      <4>1. PICK here, type : here = at /\ type = variable_map[CurrentNode.name]
        OBVIOUS
      <4>2. /\ AtNode(program, at) /\ status = "checking" /\ Emit
            /\ CurrentNode.kind = "Variable"
            /\ result' = type /\ resolved_type' = [resolved_type EXCEPT ![at] = type]
        BY <2>4, <3>2, <4>1 DEF VisitVariable
      <4>3. CurrentNode.name \in Names
        BY <4>2, NodeShape
      <4>4. Allows(type) /\ type \notin LiteralTypes
        BY <1>2, <4>1, <4>2, <4>3 DEF WidthsInv, LiteralInv
      <4> QED BY <1>2, <4>1, <4>2, <4>4, LeafWidth
    <3> QED BY <3>1, <3>2
  <2>5. ~VisitFunctionCall
    <3> SUFFICES ASSUME VisitFunctionCall PROVE FALSE
      OBVIOUS
    <3>1. AtNode(program, at) /\ CurrentNode.kind = "FunctionCall"
      BY DEF VisitFunctionCall
    <3>2. IsPlainExpression(CurrentStatement.value)
      BY <1>2, <3>1, PlainHere DEF AtNode, IsPlainStatement
    <3>3. at[3] \in 1 .. Len(CurrentStatement.value)
          /\ CurrentNode = CurrentStatement.value[at[3]]
      BY <3>1, NodeShape DEF CurrentNode, NodeAt, CurrentStatement
    <3> QED BY <3>1, <3>2, <3>3 DEF IsPlainExpression
  <2>6. CASE VisitBinary
    BY <1>2, <2>6, BinaryWidth, ThrowWidth DEF Errors
  <2>7. CASE Declaring
    BY <1>2, <2>7, DeclaringWidth, ThrowWidth DEF Errors
  <2>8. CASE Assigning
    BY <1>2, <2>8, AssigningWidth, ThrowWidth DEF Errors
  <2>9. CASE Returning
    BY <1>2, <2>9, ReturningWidth, ThrowWidth DEF Errors
  <2>10. CASE Showing
    BY <1>2, <2>10, ShowingWidth
  <2>11. CASE FinishCheck \/ UNCHANGED tc_vars
    <3>1. /\ UNCHANGED << at, resolved_type, emitted, variable_map >>
          /\ status = "checking" \/ status' = status
      BY <2>11 DEF FinishCheck, tc_vars
    <3>2. CASE status \in {"checking", "checked"}
      <4>1. EmittedWidths
        BY <1>2, <3>2 DEF WidthsInv
      <4>2. EmittedWidths'
        BY <1>0, <3>1, <4>1 DEF EmittedWidths, InStatement, EmittedWidth, Allows
      <4>3. LiteralsFit
        BY <3>1 DEF LiteralsFit
      <4> QED BY <1>2, <3>1, <3>2, <4>2, <4>3, WidthStep DEF Unvisited, Left
    <3>3. CASE status \notin {"checking", "checked"}
      BY <3>1, <3>3 DEF WidthsInv
    <3> QED BY <3>2, <3>3
  <2> QED
    BY <2>1, <2>2, <2>3, <2>4, <2>5, <2>6, <2>7, <2>8, <2>9, <2>10, <2>11
    DEF TCNext, VisitNode, ExitStatement, TCDone
<1> QED BY <1>1, <1>2

----------------------------------------------------------------------------
(* What the checker leaves of the widths: operands and results of one      *)
(* type, and a value of the type of the variable it goes to.               *)
WideTree ==
  /\ \A a \in Addresses(program) : Allows(resolved_type[a])
  /\ \A a \in NodeAddresses(program) :
       LET node == NodeAt(program, a)
       IN  /\ node.kind = "FloatLiteral" => resolved_type[a] = "Float64"
           /\ node.kind = "Binary" /\ node.op # "Equals" =>
                /\ resolved_type[<<a[1], a[2], node.lhs>>] = resolved_type[a]
                /\ resolved_type[<<a[1], a[2], node.rhs>>] = resolved_type[a]
  /\ \A a \in StatementAddresses(program) : StatementWidth(a)

LEMMA CheckerWidths ==
  ASSUME TCTypeOK, LiteralInv, UsesInv, AnnotatedInv, WidthsInv, status = "checked",
         KeepsWidths(program)
  PROVE  WideTree
<1>1. IsProgram(program, Names) /\ AtEnd(program, at)
  BY ProgramsAssumption DEF TCTypeOK, LiteralInv
<1>2. /\ \A a \in Addresses(program) : Allows(resolved_type[a])
      /\ \A a \in NodeAddresses(program) : ~Unvisited(a) => NodeWidth(a)
      /\ \A a \in StatementAddresses(program) : Left(a) => StatementWidth(a)
  BY DEF WidthsInv
<1>3. \A a \in Addresses(program) : resolved_type[a] \notin LiteralTypes
  BY CheckerLeaves DEF CheckedTree
<1>4. \A a \in StatementAddresses(program) : Left(a)
  BY <1>1, StatementAddressParts, AtParts DEF AtEnd, Left
<1>5. ASSUME NEW a \in NodeAddresses(program)
      PROVE  /\ a \in Addresses(program) /\ NodeWidth(a) /\ Allows(resolved_type[a])
             /\ resolved_type[a] \notin LiteralTypes
  <2>1. a \in Addresses(program) /\ ~Unvisited(a)
    BY <1>1, NodeAddressParts, AtParts DEF AtEnd, Unvisited
  <2> QED BY <1>2, <1>3, <2>1
<1>6. ASSUME NEW a \in NodeAddresses(program), NodeAt(program, a).kind = "FloatLiteral"
      PROVE  resolved_type[a] = "Float64"
  BY <1>5, <1>6 DEF NodeWidth, Allows, FloatTypes, LiteralTypes
<1>7. ASSUME NEW a \in NodeAddresses(program), NodeAt(program, a).kind = "Binary",
             NodeAt(program, a).op # "Equals"
      PROVE  /\ resolved_type[<<a[1], a[2], NodeAt(program, a).lhs>>] = resolved_type[a]
             /\ resolved_type[<<a[1], a[2], NodeAt(program, a).rhs>>] = resolved_type[a]
  BY <1>5, <1>7 DEF NodeWidth
<1> QED BY <1>2, <1>4, <1>6, <1>7 DEF WideTree

----------------------------------------------------------------------------
(* What the requests of the generator are, one by one, and that every      *)
(* value emitted in a statement has the type its node is annotated with.   *)
RequestFor(a, i) ==
  apply(Operations(resolved_type[<<a[1], a[2], i>>]), NodeAt(program, a).op)

FineRequest(r) ==
  /\ r.op = "Store" => r.slot \in 1 .. Len(ir) /\ r.value.type = ir[r.slot].type
  /\ r.op \in Instructions =>
       /\ r.lhs.type = r.rhs.type
       /\ r.op = RequestFor(r.at, NodeAt(program, r.at).lhs)
       /\ r.op = RequestFor(r.at, NodeAt(program, r.at).rhs)
  /\ OnlyInt32(program) /\ r.op \in {"Print", "Ret"} => r.value.type = "i32"
  /\ r.op = "Ret" => r.value.type = LLVMType(resolved_type[<<r.at[1], r.at[2], 0>>])

RequestsFine == \A n \in 1 .. Len(ir) : FineRequest(ir[n])

ValuesWide ==
  InFunction /\ pos[3] > 0 =>
    \A j \in 1 .. Len(values) : values[j].type = LLVMType(resolved_type[<<pos[1], pos[2], j>>])

RequestsInv ==
  KeepsWidths(program) =>
    /\ ValuesWide /\ RequestsFine
    /\ gen = "waiting" => Len(ir) = 0

LEMMA FineKept ==
  ASSUME Extends, NEW r, FineRequest(r)
  PROVE  FineRequest(r)'
<1>1. \A i \in 1 .. Len(ir) : i \in 1 .. Len(ir') /\ ir'[i] = ir[i]
  BY DEF Extends
<1>2. \A i : RequestFor(r.at, i)' = RequestFor(r.at, i)
  BY DEF Extends, RequestFor, NodeAt, StatementAt
<1>3. /\ NodeAt(program, r.at)' = NodeAt(program, r.at)
      /\ program' = program /\ resolved_type' = resolved_type
  BY DEF Extends, NodeAt, StatementAt
<1> QED BY <1>1, <1>2, <1>3 DEF FineRequest

LEMMA RequestsKept ==
  ASSUME Extends, RequestsFine, \A n \in Len(ir) + 1 .. Len(ir') : FineRequest(ir[n])'
  PROVE  RequestsFine'
<1>1. ASSUME NEW n \in 1 .. Len(ir') PROVE FineRequest(ir[n])'
  <2>1. CASE n \in 1 .. Len(ir)
    <3>1. PICK r : r = ir[n]
      OBVIOUS
    <3>2. FineRequest(r)
      BY <2>1, <3>1 DEF RequestsFine
    <3>3. FineRequest(r)'
      BY <3>2, FineKept
    <3>4. ir'[n] = r
      BY <2>1, <3>1 DEF Extends
    <3> QED BY <3>3, <3>4 DEF FineRequest
  <2>2. CASE n \notin 1 .. Len(ir)
    <3>1. n \in Len(ir) + 1 .. Len(ir')
      BY <2>2 DEF Extends
    <3> QED BY <3>1
  <2> QED BY <2>1, <2>2
<1> QED BY <1>1 DEF RequestsFine

LEMMA RequestAdded ==
  ASSUME GenTypeInv, UNCHANGED << program, resolved_type >>, RequestsFine,
         ir' = ir \/ \E r : ir' = Append(ir, r) /\ FineRequest(r)
  PROVE  RequestsFine'
<1>1. Extends
  BY Extending
<1>2. CASE ir' = ir
  BY <1>1, <1>2, RequestsKept DEF Extends
<1>3. CASE \E r : ir' = Append(ir, r) /\ FineRequest(r)
  <2>1. PICK r : ir' = Append(ir, r) /\ FineRequest(r)
    BY <1>3
  <2>2. Len(ir') = Len(ir) + 1 /\ ir'[Len(ir) + 1] = r /\ Len(ir) \in Nat
    BY <2>1, Appending DEF GenTypeInv
  <2>3. FineRequest(r)'
    BY <1>1, <2>1, FineKept
  <2>4. \A n \in Len(ir) + 1 .. Len(ir') : ir'[n] = r
    BY <2>2
  <2>5. \A n \in Len(ir) + 1 .. Len(ir') : FineRequest(ir[n])'
    BY <2>3, <2>4 DEF FineRequest
  <2> QED BY <1>1, <2>5, RequestsKept
<1> QED BY <1>2, <1>3

(* A throw asks for nothing.                                               *)
LEMMA GenThrowRequests ==
  ASSUME GenTypeInv, RequestsInv, NEW error \in GenErrors, GenThrow(error), UNCHANGED tc_vars
  PROVE  RequestsInv'
<1>1. gen' = error /\ error \notin {"generating", "waiting"} /\ ir' = ir
      /\ program' = program /\ resolved_type' = resolved_type
  BY DEF GenThrow, GenErrors, tc_vars
<1>2. RequestsFine => RequestsFine'
  BY <1>1, RequestAdded
<1>3. ValuesWide'
  BY <1>1 DEF ValuesWide, InFunction
<1> QED BY <1>1, <1>2, <1>3 DEF RequestsInv

(* A visit adds a value of its node's type.                                *)
LEMMA EmitRequests ==
  ASSUME IsProgram(program, Names), GenTypeInv, RequestsInv, KeepsWidths(program),
         gen = "generating", AtNode(program, pos), UNCHANGED tc_vars,
         NEW value, EmitValue(value), NEW here, here = pos,
         value.type = LLVMType(resolved_type[here]),
         ir' = ir \/ \E r : ir' = Append(ir, r) /\ FineRequest(r)
  PROVE  RequestsInv'
<1>1. /\ pos'[1] = here[1] /\ pos'[2] = here[2] /\ gen' = gen
      /\ values' = Append(values, value)
      /\ UNCHANGED << program, resolved_type >>
  BY DEF EmitValue, tc_vars
<1>2. RequestsFine'
  BY <1>1, RequestAdded DEF RequestsInv
<1>3. /\ here[3] \in 1 .. Len(Stmt.value) /\ here = <<here[1], here[2], here[3]>>
      /\ InFunction /\ pos[3] > 0
  BY PosNode DEF GenTypeInv, CGTypeOK, OnWalk, InFunction, AtNode
<1>4. Len(values) = here[3] - 1
  BY DEF GenTypeInv, CGTypeOK
<1>5. /\ Len(values) \in Nat /\ Len(values') = Len(values) + 1
      /\ values'[Len(values) + 1] = value
      /\ \A j \in 1 .. Len(values) : values'[j] = values[j]
  BY <1>1, Appending DEF GenTypeInv
<1>6. \A j \in 1 .. Len(values) : values[j].type = LLVMType(resolved_type[<<here[1], here[2], j>>])
  BY <1>3 DEF RequestsInv, ValuesWide
<1>7. ASSUME NEW j \in 1 .. Len(values')
      PROVE  values'[j].type = LLVMType(resolved_type[<<here[1], here[2], j>>])
  <2>1. CASE j = Len(values) + 1
    <3>1. j = here[3]
      BY <1>3, <1>4, <2>1
    <3> QED BY <1>3, <1>5, <2>1, <3>1
  <2>2. CASE j # Len(values) + 1
    BY <1>5, <1>6, <2>2
  <2> QED BY <2>1, <2>2
<1>8. ValuesWide'
  BY <1>1, <1>7 DEF ValuesWide
<1> QED BY <1>1, <1>2, <1>8 DEF RequestsInv

(* A visit of a node in a checked tree.                                    *)
LEMMA NodeRequests ==
  ASSUME IsProgram(program, Names), GenTypeInv, CheckedTree, WideTree, RequestsInv,
         KeepsWidths(program), gen = "generating", GenNode, UNCHANGED tc_vars
  PROVE  RequestsInv'
<1>1. PICK here, type : here = pos /\ type = resolved_type[pos]
  OBVIOUS
<1>2. /\ AtNode(program, pos) /\ here \in NodeAddresses(program) /\ here \in Addresses(program)
      /\ Node = NodeAt(program, here)
      /\ Node.kind = "Binary" =>
           /\ Node.op \in BinaryOperators
           /\ Node.lhs \in 1 .. (pos[3] - 2) /\ Node.rhs = pos[3] - 1
  <2>1. AtNode(program, pos)
    BY DEF GenNode, GenIntLiteral, GenFloatLiteral, GenVariable, GenFunctionCall, GenBinary
  <2> QED BY <1>1, <2>1, PosNode DEF GenTypeInv, CGTypeOK, Node
<1>3. type \notin LiteralTypes
  BY <1>1, <1>2 DEF CheckedTree
<1>4. ASSUME NEW error \in GenErrors, GenThrow(error) PROVE RequestsInv'
  BY <1>4, GenThrowRequests
<1>5. ASSUME NEW value, EmitValue(value), value.type = LLVMType(type),
             ir' = ir \/ \E r : ir' = Append(ir, r) /\ FineRequest(r)
      PROVE  RequestsInv'
  BY <1>1, <1>2, <1>5, EmitRequests
<1>6. {"NonIntegerLiteral", "UnknownFunction", "UnknownVariable", "UnresolvedType",
       "UnsupportedOperation"} \subseteq GenErrors
  BY DEF GenErrors
<1>7. CASE GenIntLiteral
  <2>1. CASE type \notin IntTypes
    BY <1>1, <1>4, <1>6, <1>7, <2>1 DEF GenIntLiteral
  <2>2. CASE type \in IntTypes
    <3>1. PICK width, bits : width = IntWidth[type] /\ bits = AsBits(width, Node.value)
      OBVIOUS
    <3>2. EmitValue(Constant(width, bits)) /\ ir' = ir
      BY <1>1, <1>7, <2>2, <3>1 DEF GenIntLiteral, ConstantType
    <3>3. LLVMType(type) = width
      BY <2>2, <3>1 DEF LLVMType, IntTypes, SignedTypes, UnsignedTypes
    <3>4. Constant(width, bits).type = LLVMType(type)
      BY <3>3 DEF Constant
    <3> QED BY <1>5, <3>2, <3>4
  <2> QED BY <2>1, <2>2
<1>8. CASE GenFloatLiteral
  <2>1. PICK bits : bits = Node.value
    OBVIOUS
  <2>2. Node.kind = "FloatLiteral" /\ EmitValue(Constant("double", bits)) /\ ir' = ir
    BY <1>8, <2>1 DEF GenFloatLiteral
  <2>3. type = "Float64"
    BY <1>1, <1>2, <2>2 DEF WideTree
  <2>4. LLVMType(type) = "double"
    BY <2>3 DEF LLVMType, IntTypes, SignedTypes, UnsignedTypes
  <2>5. Constant("double", bits).type = LLVMType(type)
    BY <2>4 DEF Constant
  <2> QED BY <1>5, <2>2, <2>5
<1>9. ~GenFunctionCall
  <2> SUFFICES ASSUME Node.kind = "FunctionCall" PROVE FALSE
    BY DEF GenFunctionCall
  <2>1. /\ StmtAddress \in StatementAddresses(program)
        /\ StatementAt(program, StmtAddress) = Stmt
    BY <1>2, PosShape DEF AtNode, GenTypeInv, CGTypeOK
  <2>2. pos[3] \in 1 .. Len(Stmt.value) /\ Node = Stmt.value[pos[3]]
    BY <1>2, PosNode DEF GenTypeInv, CGTypeOK
  <2> QED BY <2>1, <2>2 DEF KeepsWidths, IsPlain, IsPlainStatement, IsPlainExpression
<1>10. CASE GenVariable
  <2>1. CASE \E error \in GenErrors : GenThrow(error)
    BY <1>4, <2>1
  <2>2. CASE ~\E error \in GenErrors : GenThrow(error)
    <3>1. PICK r, n :
            /\ r.op = "Load" /\ n = NextRequest /\ ir' = Append(ir, r)
            /\ EmitValue(Result(LLVMType(type), NextRequest))
      <4>1. PICK r : /\ r = [at |-> pos, op |-> "Load", type |-> LLVMType(type),
                            slot |-> named_values[Node.name]]
        OBVIOUS
      <4>2. ir' = Append(ir, r) /\ EmitValue(Result(LLVMType(type), NextRequest))
        BY <1>1, <1>6, <1>10, <2>2, <4>1, NoLLVMTypeError DEF GenVariable, Request
      <4> QED BY <4>1, <4>2
    <3>2. FineRequest(r)
      BY <3>1 DEF FineRequest, Instructions
    <3>3. EmitValue(Result(LLVMType(type), n)) /\ Result(LLVMType(type), n).type = LLVMType(type)
      BY <3>1 DEF Result
    <3> QED BY <1>5, <3>1, <3>2, <3>3
  <2> QED BY <2>1, <2>2
<1>11. CASE GenBinary
  <2>1. CASE \E error \in GenErrors : GenThrow(error)
    BY <1>4, <2>1
  <2>2. CASE ~\E error \in GenErrors : GenThrow(error)
    <3>1. PICK lhs, rhs, r, n, width :
            /\ lhs = values[Node.lhs] /\ rhs = values[Node.rhs] /\ n = NextRequest
            /\ width = lhs.type
            /\ r = [at |-> pos, op |-> apply(Operations(type), Node.op), lhs |-> lhs, rhs |-> rhs]
      OBVIOUS
    <3>2. /\ Node.kind = "Binary" /\ Node.op \in ArithmeticOperators
          /\ Operations(type) \notin GenErrors
          /\ ir' = Append(ir, r) /\ EmitValue(Result(width, n))
      BY <1>1, <1>6, <1>11, <2>2, <3>1 DEF GenBinary, Request
    <3>3. Node.op # "Equals"
      BY <3>2 DEF ArithmeticOperators
    <3>4. /\ resolved_type[<<here[1], here[2], Node.lhs>>] = type
          /\ resolved_type[<<here[1], here[2], Node.rhs>>] = type
      BY <1>1, <1>2, <3>2, <3>3 DEF WideTree
    <3>5. /\ Len(values) = pos[3] - 1 /\ InFunction /\ pos[3] > 0 /\ pos[3] \in Nat
      BY <1>2 DEF GenTypeInv, CGTypeOK, InFunction, AtNode, OnWalk
    <3>6. Node.lhs \in 1 .. Len(values) /\ Node.rhs \in 1 .. Len(values)
      <4>1. PICK k \in Nat : k = pos[3]
        BY <3>5
      <4>2. PICK i, j : i = Node.lhs /\ j = Node.rhs
        OBVIOUS
      <4>3. i \in 1 .. k - 2 /\ j = k - 1 /\ Len(values) = k - 1
        BY <1>2, <3>2, <3>5, <4>1, <4>2
      <4>4. i \in 1 .. k - 1 /\ j \in 1 .. k - 1
        BY <4>3
      <4> QED BY <4>2, <4>3, <4>4
    <3>7. lhs.type = LLVMType(type) /\ rhs.type = LLVMType(type)
      BY <1>1, <3>1, <3>4, <3>5, <3>6 DEF RequestsInv, ValuesWide
    <3>8. FineRequest(r)
      <4>1. r.op \in Instructions
        BY <3>1, <3>2, ApplyInstruction
      <4>2. r.op \notin {"Store", "Print", "Ret"}
        BY <4>1 DEF Instructions
      <4>3. /\ r.at = here /\ r.lhs = lhs /\ r.rhs = rhs
            /\ r.op = apply(Operations(type), Node.op)
        BY <1>1, <3>1
      <4>4. r.op = RequestFor(here, Node.lhs) /\ r.op = RequestFor(here, Node.rhs)
        BY <1>2, <3>4, <4>3 DEF RequestFor
      <4> QED BY <1>2, <3>7, <4>2, <4>3, <4>4 DEF FineRequest
    <3>9. Result(width, n).type = LLVMType(type)
      BY <3>1, <3>7 DEF Result
    <3> QED BY <1>5, <3>2, <3>8, <3>9
  <2> QED BY <2>1, <2>2
<1> QED BY <1>7, <1>8, <1>9, <1>10, <1>11 DEF GenNode

(* The value of a statement that is behind all of its nodes is a number.   *)
LEMMA RootNumeric ==
  ASSUME IsProgram(program, Names), OnWalk(program, pos), AtExit(program, pos),
         KeepsWidths(program), CheckedTree, SourcedTree, WideTree, PassedAreFine,
         NEW root, root = <<pos[1], pos[2], Len(Stmt.value)>>
  PROVE  resolved_type[root] \in Numeric
<1>1. PICK n : n = Len(Stmt.value)
  OBVIOUS
<1>2. /\ pos[1] \in 1 .. Len(program) /\ pos[2] \in 1 .. Len(program[pos[1]].statements)
      /\ pos[1] \in Nat /\ pos[2] \in Nat /\ n \in Nat \ {0}
      /\ StmtAddress \in StatementAddresses(program)
      /\ StatementAt(program, StmtAddress) = Stmt
      /\ IsExpression(Stmt.value, Names)
      /\ ~AtEnd(program, pos) /\ pos[2] > 0 /\ Len(program[pos[1]].statements) \in Nat
  BY <1>1, PosShape DEF AtExit, IsStatement, IsProgram
<1>3. /\ n \in 1 .. n /\ root \in NodeAddresses(program)
      /\ root[1] = pos[1] /\ root[2] = pos[2] /\ root[3] = n
  BY <1>1, <1>2, StmtNode
<1>4. NodeAt(program, root) = Stmt.value[n] /\ StatementAt(program, root) = Stmt
  BY <1>3 DEF NodeAt, StatementAt, Stmt
<1>5. IsPlainExpression(Stmt.value)
  BY <1>2 DEF KeepsWidths, IsPlain, IsPlainStatement
<1>6. ~CallSoFar(pos)
  <2>1. ASSUME NEW s \in 1 .. pos[2] PROVE ~HasCall(<<pos[1], s, 0>>)
    <3>1. PICK a : a = <<pos[1], s, 0>>
      OBVIOUS
    <3>2. s \in 1 .. Len(program[pos[1]].statements)
      BY <1>2
    <3>3. a \in StatementAddresses(program)
      BY <1>2, <3>1, <3>2 DEF StatementAddresses
    <3>4. IsPlainExpression(StatementAt(program, a).value)
      BY <3>3 DEF KeepsWidths, IsPlain, IsPlainStatement
    <3> QED BY <3>1, <3>4 DEF HasCall, IsPlainExpression
  <2> QED BY <2>1 DEF CallSoFar
<1>7. ~HasCall(root) /\ ~MixesLiterals(root)
  <2>1. ~HasCall(root)
    BY <1>4, <1>5 DEF HasCall, IsPlainExpression
  <2>2. PICK e : e = Stmt.value
    OBVIOUS
  <2>3. ~ \E i, j \in 1 .. Len(e) : e[i].kind = "IntLiteral" /\ e[j].kind = "FloatLiteral"
    BY <1>5, <2>2 DEF IsPlainExpression
  <2>4. ~ {"IntLiteral", "FloatLiteral"} \subseteq { e[i].kind : i \in 1 .. Len(e) }
    BY <2>3
  <2>5. ~MixesLiterals(root)
    BY <1>4, <2>2, <2>4 DEF MixesLiterals
  <2> QED BY <2>1, <2>5
<1>8. ~HasCall(root) => (HasSource(root, n, resolved_type[root]) \/ resolved_type[root] = NoType)
  BY <1>3 DEF SourcedTree, AnnotationsHaveSources
<1>9. \A i \in 1 .. n : ~IsComparison(<<pos[1], pos[2], i>>)
  <2> TAKE i \in 1 .. n
  <2>1. PICK a : a = <<pos[1], pos[2], i>>
    OBVIOUS
  <2>2. a \in NodeAddresses(program)
    BY <1>1, <1>2, <2>1, StmtNode
  <2>3. a[1] = pos[1] /\ a[2] = pos[2] /\ a[3] < pos[3]
    BY <1>1, <1>2, <2>1 DEF AtExit, Stmt
  <2> QED BY <2>1, <2>2, <2>3 DEF Passed, PassedAreFine
<1>10. resolved_type[root] \notin LiteralTypes
  BY <1>3 DEF CheckedTree, Addresses
<1>11. resolved_type[root] # NoType => resolved_type[root] \in Numeric
  <2> SUFFICES ASSUME resolved_type[root] # NoType PROVE resolved_type[root] \in Numeric
    OBVIOUS
  <2>1. PICK type : type = resolved_type[root]
    OBVIOUS
  <2>2. HasSource(root, n, type) /\ type \notin LiteralTypes
    BY <1>7, <1>8, <1>10, <2>1
  <2>3. HasSource(pos, n, type)
    BY <1>3, <2>2, SameStatement
  <2>4. n \in 1 .. Len(Stmt.value)
    BY <1>1, <1>3
  <2> QED BY <1>2, <1>6, <1>9, <2>1, <2>2, <2>3, <2>4, TypesFollow
<1>12. Stmt.value[n].kind \in NodeKinds \ {"FunctionCall"}
  BY <1>1, <1>3, <1>5, <1>2 DEF IsExpression, IsPlainExpression
<1>13. CASE Stmt.value[n].kind = "IntLiteral"
  BY <1>3, <1>4, <1>7, <1>13 DEF SourcedTree, Numeric
<1>14. CASE Stmt.value[n].kind = "FloatLiteral"
  BY <1>3, <1>4, <1>14 DEF WideTree, Numeric, FloatTypes
<1>15. CASE Stmt.value[n].kind \in {"Variable", "Binary"}
  BY <1>3, <1>4, <1>11, <1>15 DEF CheckedTree
<1> QED BY <1>12, <1>13, <1>14, <1>15 DEF NodeKinds

(* Leaving a statement in a checked tree.                                  *)
LEMMA ExitRequests ==
  ASSUME IsProgram(program, Names), GenTypeInv, GenInv, CheckedTree, SourcedTree, WideTree,
         PassedAreFine, RequestsInv, KeepsWidths(program), gen = "generating", GenExit,
         UNCHANGED tc_vars
  PROVE  RequestsInv'
<1>1. PICK root, type : /\ root = <<pos[1], pos[2], Len(Stmt.value)>>
                        /\ type = resolved_type[root]
  OBVIOUS
<1>2. /\ AtExit(program, pos) /\ UNCHANGED << program, resolved_type >>
      /\ OnWalk(program, pos) /\ ~AtEnd(program, pos) /\ pos[2] > 0
  BY DEF GenExit, GenDeclaration, GenAssignment, GenShow, GenReturn, tc_vars, AtExit,
         GenTypeInv, CGTypeOK
<1>3. /\ StmtAddress \in StatementAddresses(program)
      /\ StatementAt(program, StmtAddress) = Stmt
      /\ IsStatement(Stmt, Names) /\ Len(Stmt.value) \in Nat \ {0}
      /\ pos[1] \in 1 .. Len(program) /\ pos[2] \in Nat
  BY <1>2, PosShape
<1>4. IsSequence(ir) /\ Len(ir) \in Nat
  BY Appending DEF GenTypeInv
<1>5. StmtValue.type = LLVMType(type)
  <2>1. InFunction /\ pos[3] > 0 /\ Len(values) = Len(Stmt.value)
    BY <1>2, <1>3 DEF InFunction, AtExit, Stmt, GenTypeInv, CGTypeOK
  <2>2. Len(Stmt.value) \in 1 .. Len(values)
    BY <1>3, <2>1
  <2> QED BY <1>1, <2>1, <2>2 DEF RequestsInv, ValuesWide, StmtValue
<1>6. OnlyInt32(program) => StmtValue.type = "i32"
  <2> SUFFICES ASSUME OnlyInt32(program) PROVE StmtValue.type = "i32"
    OBVIOUS
  <2>1. type \in Numeric
    BY <1>1, <1>2, RootNumeric
  <2>2. root \in Addresses(program)
    <3>1. root \in NodeAddresses(program)
      BY <1>1, <1>2, <1>3, StmtNode
    <3> QED BY <3>1 DEF Addresses
  <2>3. type = "Int32"
    BY <1>1, <2>1, <2>2 DEF WideTree, Allows, Numeric, NoType, IntTypes, SignedTypes,
                            UnsignedTypes, FloatTypes
  <2> QED BY <1>5, <2>3 DEF LLVMType, IntWidth, IntTypes, SignedTypes, UnsignedTypes
<1>7. ASSUME Advance PROVE ValuesWide' /\ gen' = gen
  <2>1. pos'[3] = 0 /\ gen' = gen
    BY <1>7 DEF Advance, NextStatement
  <2> QED BY <2>1 DEF ValuesWide
<1>8. ASSUME NEW r, Request(r), Advance, FineRequest(r) PROVE RequestsInv'
  <2>1. RequestsFine'
    BY <1>2, <1>8, RequestAdded DEF Request, RequestsInv
  <2> QED BY <1>7, <1>8, <2>1 DEF RequestsInv
<1>9. ASSUME NEW op \in {"Print", "Ret"}, NEW value, value = StmtValue,
             NEW here, here = StmtAddress, op = "Ret" => Stmt.kind = "Return"
       PROVE  FineRequest([at |-> here, op |-> op, value |-> value])
  <2>1. op = "Ret" => value.type = LLVMType(resolved_type[<<here[1], here[2], 0>>])
    <3>1. <<here[1], here[2], 0>> = StmtAddress
      BY <1>9 DEF StmtAddress
    <3>2. Stmt.kind = "Return" => resolved_type[StmtAddress] = type
      BY <1>1, <1>3 DEF WideTree, StatementWidth, StmtAddress
    <3> QED BY <1>5, <1>9, <3>1, <3>2
  <2> QED BY <1>6, <1>9, <2>1 DEF FineRequest, Instructions
<1>10. PICK value, here : value = StmtValue /\ here = StmtAddress
  OBVIOUS
<1>11. CASE GenShow
  <2>1. Request([at |-> here, op |-> "Print", value |-> value]) /\ Advance
    BY <1>10, <1>11 DEF GenShow
  <2> QED BY <1>8, <1>9, <1>10, <2>1
<1>12. CASE GenReturn
  <2>1. Request([at |-> here, op |-> "Ret", value |-> value]) /\ Advance
        /\ Stmt.kind = "Return"
    BY <1>10, <1>12 DEF GenReturn
  <2> QED BY <1>8, <1>9, <1>10, <2>1
<1>13. CASE GenAssignment
  <2>1. PICK n, slot : n = Stmt.name /\ slot = named_values[n]
    OBVIOUS
  <2>2. Stmt.kind = "Assign" /\ Advance
        /\ Request([at |-> here, op |-> "Store", value |-> value, slot |-> slot])
    BY <1>10, <1>13, <2>1 DEF GenAssignment
  <2>3. n \in Names /\ InFunction
    BY <1>2, <1>3, <2>1, <2>2 DEF IsStatement, InFunction
  <2>4. StmtAddress[1] = pos[1] /\ StmtAddress[2] = pos[2]
    BY DEF StmtAddress
  <2>5. DeclaredAs(pos[1], pos[2], n, type)
    BY <1>1, <1>3, <2>1, <2>2, <2>4 DEF WideTree, StatementWidth
  <2>6. PICK d \in 1 .. (pos[2] - 1) :
          Declares(pos[1], d, n) /\ resolved_type[<<pos[1], d, 0>>] = type
    BY <2>5 DEF DeclaredAs, LatestDeclaration
  <2>7. slot # NoRequest
    BY <2>1, <2>3, <2>6 DEF GenInv, SlotsFollow, DeclaresBefore
  <2>8. PICK e \in 1 .. (pos[2] - 1) : IsSlotOf(e, n)
    BY <2>1, <2>3, <2>7 DEF GenInv, SlotsFollow
  <2>9. e = d
    BY <2>3, <2>6, <2>8 DEF GenInv, DeclaredOnce, IsSlotOf
  <2>10. ir[slot].type = LLVMType(type)
    BY <2>1, <2>6, <2>8, <2>9 DEF IsSlotOf
  <2>11. slot \in 1 .. Len(ir)
    <3>1. slot \in 0 .. Len(ir)
      BY <2>1, <2>3 DEF GenTypeInv, CGTypeOK
    <3> QED BY <1>4, <2>7, <3>1 DEF NoRequest
  <2>12. FineRequest([at |-> here, op |-> "Store", value |-> value, slot |-> slot])
    BY <1>5, <1>10, <2>10, <2>11 DEF FineRequest, Instructions
  <2> QED BY <1>8, <2>2, <2>12
<1>14. CASE GenDeclaration
  <2>1. CASE \E error \in GenErrors : GenThrow(error)
    BY <2>1, GenThrowRequests
  <2>2. CASE ~\E error \in GenErrors : GenThrow(error)
    <3>1. "UnresolvedType" \in GenErrors
      BY DEF GenErrors
    <3>2. PICK slot, first, second :
            /\ slot = LLVMType(resolved_type[StmtAddress])
            /\ first = [at |-> StmtAddress, op |-> "Alloca", type |-> slot]
            /\ second = [at |-> StmtAddress, op |-> "Store", value |-> StmtValue,
                         slot |-> NextRequest]
      OBVIOUS
    <3>3. Stmt.kind = "Declare" /\ ir' = ir \o << first, second >> /\ Advance
      BY <1>14, <2>2, <3>1, <3>2, NoLLVMTypeError DEF GenDeclaration, SlotOfDeclaration
    <3>4. /\ first.op = "Alloca" /\ first.type = slot
          /\ second.op = "Store" /\ second.value = value /\ second.slot = Len(ir) + 1
      BY <1>10, <3>2 DEF NextRequest
    <3>5. slot = LLVMType(type)
      BY <1>1, <1>3, <3>2, <3>3 DEF WideTree, StatementWidth, StmtAddress
    <3>6. ir' = Append(Append(ir, first), second)
      BY <1>4, <3>3, AppendingTwo
    <3>7. PICK half : half = Append(ir, first)
      OBVIOUS
    <3>8. /\ IsSequence(half) /\ Len(half) = Len(ir) + 1 /\ half[Len(ir) + 1] = first
          /\ \A i \in 1 .. Len(ir) : half[i] = ir[i]
      BY <1>4, <3>7, Appending
    <3>9. /\ Len(ir') = Len(half) + 1 /\ ir'[Len(half) + 1] = second
          /\ \A i \in 1 .. Len(half) : ir'[i] = half[i]
      BY <3>6, <3>7, <3>8, Appending
    <3>10. /\ Len(ir') = Len(ir) + 2 /\ ir'[Len(ir) + 1] = first /\ ir'[Len(ir) + 2] = second
           /\ \A i \in 1 .. Len(ir) : ir'[i] = ir[i]
      BY <1>4, <3>8, <3>9
    <3>11. Extends
      BY <1>2, <1>4, <3>10 DEF Extends
    <3>12. FineRequest(first)'
      BY <3>4 DEF FineRequest, Instructions
    <3>13. FineRequest(second)'
      <4>1. second.slot \in 1 .. Len(ir') /\ ir'[second.slot] = first
        BY <1>4, <3>4, <3>10
      <4>2. second.value.type = first.type
        BY <1>5, <1>10, <3>4, <3>5
      <4> QED BY <3>4, <4>1, <4>2 DEF FineRequest, Instructions
    <3>14. ASSUME NEW k \in Len(ir) + 1 .. Len(ir') PROVE FineRequest(ir[k])'
      <4>1. k = Len(ir) + 1 \/ k = Len(ir) + 2
        BY <1>4, <3>10
      <4>2. ir'[k] = first \/ ir'[k] = second
        BY <3>10, <4>1
      <4> QED BY <3>12, <3>13, <4>2 DEF FineRequest
    <3>15. RequestsFine'
      BY <3>11, <3>14, RequestsKept DEF RequestsInv
    <3> QED BY <1>7, <3>3, <3>15 DEF RequestsInv
  <2> QED BY <2>1, <2>2
<1> QED BY <1>11, <1>12, <1>13, <1>14 DEF GenExit

LEMMA RequestsInit == Init => RequestsInv
<1> SUFFICES ASSUME Init PROVE RequestsInv
  OBVIOUS
<1>1. gen = "waiting" /\ ir = << >>
  BY DEF Init, CGInit
<1> QED BY <1>1 DEF RequestsInv, ValuesWide, InFunction, RequestsFine

LEMMA RequestsNext ==
  ASSUME TCTypeOK, LiteralInv, UsesInv, AnnotatedInv, SourceInv, WidthsInv,
         GenTypeInv, GenInv, RulesInv, RequestsInv, [Next \/ Done]_vars
  PROVE  RequestsInv'
<1>1. IsProgram(program, Names)
  BY ProgramsAssumption DEF TCTypeOK
<1>2. program' = program
  <2>1. [TCNext \/ TCDone]_tc_vars
    BY CheckerStep
  <2> QED BY <2>1, ProgramFixed
<1>3. CASE ~KeepsWidths(program)
  BY <1>2, <1>3 DEF RequestsInv
<1>4. CASE KeepsWidths(program)
  <2>1. ValuesWide /\ RequestsFine /\ (gen = "waiting" => Len(ir) = 0)
    BY <1>4 DEF RequestsInv
  <2>2. CASE TCNext /\ UNCHANGED cg_vars
    <3>1. status = "checking"
      BY <2>2 DEF TCNext, EnterFunction, EnterStatement, VisitNode, VisitLiteral, VisitVariable,
                  VisitFunctionCall, VisitBinary, ExitStatement, Declaring, Assigning, Showing,
                  Returning, FinishCheck
    <3>2. gen = "waiting" /\ gen' = gen /\ ir' = ir
      BY <2>2, <3>1 DEF GenInv, RunsOnChecked, cg_vars
    <3> QED BY <2>1, <3>2 DEF RequestsInv, ValuesWide, InFunction, RequestsFine
  <2>3. CASE UNCHANGED vars \/ Done
    <3>1. UNCHANGED << program, resolved_type, gen, pos, ir, values >>
      BY <2>3 DEF vars, tc_vars, cg_vars, Done
    <3>2. RequestsFine'
      BY <2>1, <3>1, RequestAdded
    <3>3. ValuesWide'
      BY <2>1, <3>1 DEF ValuesWide, InFunction
    <3> QED BY <2>1, <3>1, <3>2, <3>3 DEF RequestsInv
  <2>4. CASE GenStart /\ UNCHANGED tc_vars
    <3>1. /\ pos' = pos /\ pos[3] = 0 /\ gen' = "generating" /\ ir' = ir
          /\ UNCHANGED << program, resolved_type >>
      BY <2>4 DEF GenStart, GenInv, RunsOnChecked, FirstAddress, tc_vars
    <3>2. RequestsFine'
      BY <2>1, <3>1, RequestAdded
    <3> QED BY <3>1, <3>2 DEF RequestsInv, ValuesWide
  <2>5. CASE (CGNext /\ ~GenStart) /\ UNCHANGED tc_vars
    <3>1. gen = "generating"
      BY <2>5 DEF CGNext, GenFunction, GenEntry, GenNode, GenIntLiteral, GenFloatLiteral,
                  GenVariable, GenFunctionCall, GenBinary, GenExit, GenDeclaration,
                  GenAssignment, GenShow, GenReturn, GenFinish
    <3>2. status = "checked" /\ UNCHANGED << program, resolved_type >>
      BY <2>5, <3>1 DEF GenInv, RunsOnChecked, tc_vars
    <3>3. CheckedTree /\ SourcedTree /\ WideTree /\ PassedAreFine
      BY <1>4, <3>2, CheckerLeaves, CheckerSources, CheckerWidths DEF RulesInv
    <3>4. ASSUME ir' = ir, gen' # "waiting", pos'[3] = 0 \/ gen' # "generating" \/ values' = << >>
          PROVE  RequestsInv'
      <4>1. RequestsFine'
        BY <2>1, <3>2, <3>4, RequestAdded
      <4> QED BY <3>4, <4>1 DEF RequestsInv, ValuesWide, InFunction
    <3>5. CASE GenFinish
      BY <3>4, <3>5 DEF GenFinish
    <3>6. CASE GenFunction
      BY <3>1, <3>4, <3>6 DEF GenFunction, NextStatement
    <3>7. CASE GenEntry
      BY <3>1, <3>4, <3>7 DEF GenEntry, GenThrow
    <3>8. CASE GenNode
      BY <1>1, <1>4, <2>5, <3>1, <3>3, <3>8, NodeRequests
    <3>9. CASE GenExit
      BY <1>1, <1>4, <2>5, <3>1, <3>3, <3>9, ExitRequests
    <3> QED BY <2>5, <3>5, <3>6, <3>7, <3>8, <3>9 DEF CGNext
  <2> QED BY <2>2, <2>3, <2>4, <2>5 DEF Next
<1> QED BY <1>3, <1>4

LEMMA RequestsAreTyped == RequestsInv => RequestsWellTyped
<1> SUFFICES ASSUME RequestsInv, KeepsWidths(program)
             PROVE  /\ StoresMatch /\ OperandsMatchRequests
                    /\ OnlyInt32(program) =>
                         \A n \in Requests({"Print", "Ret"}) : ir[n].value.type = "i32"
  BY DEF RequestsWellTyped
<1>1. \A n \in 1 .. Len(ir) : FineRequest(ir[n])
  BY DEF RequestsInv, RequestsFine
<1>2. StoresMatch
  BY <1>1 DEF StoresMatch, Requests, Slot, FineRequest
<1>3. OperandsMatchRequests
  BY <1>1 DEF OperandsMatchRequests, Requests, FineRequest, RequestFor
<1>4. OnlyInt32(program) => \A n \in Requests({"Print", "Ret"}) : ir[n].value.type = "i32"
  BY <1>1 DEF Requests, FineRequest
<1> QED BY <1>2, <1>3, <1>4

LEMMA RequestsInvariant ==
  Spec => [](TCTypeOK /\ GenTypeInv /\ GenInv /\ RulesInv /\ RequestsInv)
<1>1. Init => SourceInv /\ WidthsInv
  BY SourceInit, WidthsInit DEF Init
<1>2. TCTypeOK /\ LiteralInv /\ FreshInv /\ SourceInv /\ [Next \/ Done]_vars => SourceInv'
  BY CheckerStep, SourceNext
<1>3. TCTypeOK /\ LiteralInv /\ FreshInv /\ UsesInv /\ WidthsInv /\ [Next \/ Done]_vars
      => WidthsInv'
  BY CheckerStep, WidthsNext
<1>4. /\ TCTypeOK /\ LiteralInv /\ UsesInv /\ AnnotatedInv /\ SourceInv /\ GenTypeInv /\ GenInv
      /\ RulesInv /\ [Next \/ Done]_vars
      => RulesInv'
  BY RulesNext
<1>5. /\ TCTypeOK /\ LiteralInv /\ UsesInv /\ AnnotatedInv /\ SourceInv /\ WidthsInv
      /\ GenTypeInv /\ GenInv /\ RulesInv /\ RequestsInv /\ [Next \/ Done]_vars
      => RequestsInv'
  BY RequestsNext
<1> QED
  BY <1>1, <1>2, <1>3, <1>4, <1>5, RulesInit, RequestsInit,
     CompilationInvariant, PTL
  DEF Spec

(* In a program whose annotations keep to the widths that are emitted, no  *)
(* store or operation ever mixes types, every operation is the one of both *)
(* its operands' types, and what is printed or returned by a program that  *)
(* only has values of type Int32 is an i32.                                *)
THEOREM RequestsTyped == Spec => []RequestsWellTyped
BY RequestsInvariant, RequestsAreTyped, PTL

----------------------------------------------------------------------------
(* Where the requests stand: each was made for a statement the generator   *)
(* has been at, in the order of the statements; a Ret is the last one of   *)
(* its statement; and every statement left behind has made one.            *)
Together(a, b) == a[1] = b[1] /\ a[2] = b[2]

InSource(a) == a[1] \in 1 .. Len(program) /\ a[2] \in 1 .. Len(program[a[1]].statements)

FromSource(r) ==
  /\ InSource(r.at)
  /\ r.op = "Ret"  => StatementAt(program, r.at).kind = "Return"
  /\ r.op = "Call" => HasCall(r.at)

Reached(r) == Behind(r.at) \/ (Together(r.at, pos) /\ pos[3] > 0 /\ r.op # "Ret")

Follows(q, r) == Before(q.at, r.at) \/ (Together(q.at, r.at) /\ q.op # "Ret")

Asked(a) ==
  \E n \in 1 .. Len(ir) :
    Together(ir[n].at, a) /\ (StatementAt(program, a).kind = "Return" => ir[n].op = "Ret")

BlocksInv ==
  /\ \A n \in 1 .. Len(ir) : FromSource(ir[n]) /\ Reached(ir[n])
  /\ \A m, n \in 1 .. Len(ir) : m < n => Follows(ir[m], ir[n])
  /\ \A a \in StatementAddresses(program) : Behind(a) => Asked(a)
  /\ gen = "waiting" => Len(ir) = 0

LEMMA BehindAdvance ==
  ASSUME IsProgram(program, Names), OnWalk(program, pos), ~AtEnd(program, pos),
         pos' = NextStatement(program, pos), NEW a, InSource(a)
  PROVE  Behind(a)' <=> Behind(a) \/ Together(a, pos)
<1>1. PICK f, s : f = pos[1] /\ s = pos[2]
  OBVIOUS
<1>2. f \in Nat /\ s \in Nat /\ f \in 1 .. Len(program)
  BY <1>1 DEF OnWalk, AtEnd, IsProgram
<1>3. PICK g, t : g = a[1] /\ t = a[2]
  OBVIOUS
<1>4. PICK l : l = Len(program[f].statements)
  OBVIOUS
<1>5. l \in Nat /\ s <= l
  BY <1>1, <1>2, <1>4 DEF OnWalk, IsProgram
<1>6. g \in Nat /\ t \in Nat \ {0} /\ (g = f => t <= l)
  BY <1>2, <1>3, <1>4 DEF InSource, IsProgram
<1>7. \/ s < l /\ pos'[1] = f /\ pos'[2] = s + 1
      \/ ~(s < l) /\ pos'[1] = f + 1 /\ pos'[2] = 0
  BY <1>1, <1>4 DEF NextStatement
<1>8. Behind(a) \/ Together(a, pos) <=> g < f \/ (g = f /\ t <= s)
  <2>1. Behind(a) <=> g < f \/ (g = f /\ t < s)
    BY <1>1, <1>3 DEF Behind
  <2>2. Together(a, pos) <=> g = f /\ t = s
    BY <1>1, <1>3 DEF Together
  <2> QED BY <1>2, <1>6, <2>1, <2>2
<1>9. CASE s < l /\ pos'[1] = f /\ pos'[2] = s + 1
  <2>1. Behind(a)' <=> g < f \/ (g = f /\ t < s + 1)
    BY <1>3, <1>9 DEF Behind
  <2> QED BY <1>2, <1>6, <1>8, <2>1
<1>10. CASE ~(s < l) /\ pos'[1] = f + 1 /\ pos'[2] = 0
  <2>1. Behind(a)' <=> g < f + 1 \/ (g = f + 1 /\ t < 0)
    BY <1>3, <1>10 DEF Behind
  <2> QED BY <1>2, <1>5, <1>6, <1>8, <1>10, <2>1
<1> QED BY <1>7, <1>9, <1>10

LEMMA BlocksStep ==
  ASSUME BlocksInv, Extends, gen' # "waiting",
         \A n \in Len(ir) + 1 .. Len(ir') :
           /\ FromSource(ir[n])' /\ Reached(ir[n])'
           /\ Together(ir'[n].at, pos) /\ (ir'[n].op = "Ret" => n = Len(ir')),
         \A r : FromSource(r) /\ Reached(r) => Reached(r)',
         \A a \in StatementAddresses(program) : Behind(a)' => Behind(a) \/ Asked(a)'
  PROVE  BlocksInv'
<1>1. /\ Len(ir) \in Nat /\ Len(ir') \in Nat /\ program' = program
      /\ \A i \in 1 .. Len(ir) : i \in 1 .. Len(ir') /\ ir'[i] = ir[i]
  BY DEF Extends
<1>2. \A r : FromSource(r)' <=> FromSource(r)
  <2> TAKE r
  <2>1. StatementAt(program, r.at)' = StatementAt(program, r.at)
    BY <1>1 DEF StatementAt
  <2>2. InSource(r.at)' <=> InSource(r.at)
    BY <1>1 DEF InSource
  <2>3. HasCall(r.at)' <=> HasCall(r.at)
    BY <2>1 DEF HasCall
  <2> QED BY <2>1, <2>2, <2>3 DEF FromSource
<1>3. ASSUME NEW n \in 1 .. Len(ir') PROVE FromSource(ir[n])' /\ Reached(ir[n])'
  <2>1. CASE n \in 1 .. Len(ir)
    <3>1. PICK r : r = ir[n] /\ r = ir'[n]
      BY <1>1, <2>1
    <3>2. FromSource(r) /\ Reached(r)
      BY <2>1, <3>1 DEF BlocksInv
    <3>3. FromSource(r)' /\ Reached(r)'
      BY <1>2, <3>2
    <3> QED BY <3>1, <3>3 DEF FromSource, Reached
  <2>2. CASE n \notin 1 .. Len(ir)
    <3>1. n \in Len(ir) + 1 .. Len(ir')
      BY <1>1, <2>2
    <3> QED BY <3>1
  <2> QED BY <2>1, <2>2
<1>4. ASSUME NEW m \in 1 .. Len(ir'), NEW n \in 1 .. Len(ir'), m < n
      PROVE  Follows(ir'[m], ir'[n])
  <2>1. CASE n \in 1 .. Len(ir)
    <3>1. m \in 1 .. Len(ir)
      BY <1>1, <1>4, <2>1
    <3> QED BY <1>1, <1>4, <2>1, <3>1 DEF BlocksInv
  <2>2. CASE n \notin 1 .. Len(ir) /\ m \in 1 .. Len(ir)
    <3>1. n \in Len(ir) + 1 .. Len(ir')
      BY <1>1, <2>2
    <3>2. PICK q, r : q = ir[m] /\ q = ir'[m] /\ r = ir'[n]
      BY <1>1, <2>2
    <3>3. Reached(q) /\ Together(r.at, pos)
      BY <2>2, <3>1, <3>2 DEF BlocksInv
    <3>4. Follows(q, r)
      BY <3>3 DEF Reached, Behind, Before, Together, Follows
    <3> QED BY <3>2, <3>4
  <2>3. CASE n \notin 1 .. Len(ir) /\ m \notin 1 .. Len(ir)
    <3>1. m \in Len(ir) + 1 .. Len(ir') /\ n \in Len(ir) + 1 .. Len(ir') /\ m # Len(ir')
      BY <1>1, <1>4, <2>3
    <3>2. PICK q, r : q = ir'[m] /\ r = ir'[n]
      OBVIOUS
    <3>3. Together(q.at, pos) /\ Together(r.at, pos) /\ q.op # "Ret"
      BY <3>1, <3>2
    <3>4. Follows(q, r)
      BY <3>3 DEF Together, Follows
    <3> QED BY <3>2, <3>4
  <2> QED BY <2>1, <2>2, <2>3
<1>5. ASSUME NEW a \in StatementAddresses(program), Behind(a)' PROVE Asked(a)'
  <2>1. CASE Asked(a)
    <3>1. PICK n \in 1 .. Len(ir) :
            Together(ir[n].at, a) /\ (StatementAt(program, a).kind = "Return" => ir[n].op = "Ret")
      BY <2>1 DEF Asked
    <3>2. n \in 1 .. Len(ir') /\ ir'[n] = ir[n] /\ StatementAt(program, a)' = StatementAt(program, a)
      BY <1>1 DEF StatementAt
    <3>3. Together(ir[n].at, a)' /\ (StatementAt(program, a)'.kind = "Return" => ir'[n].op = "Ret")
      BY <3>1, <3>2 DEF Together
    <3> QED BY <3>2, <3>3 DEF Asked
  <2>2. CASE ~Asked(a)
    BY <1>5, <2>2 DEF BlocksInv
  <2> QED BY <2>1, <2>2
<1>6. StatementAddresses(program)' = StatementAddresses(program)
  BY <1>1
<1>7. \A m, n \in 1 .. Len(ir') : m < n => Follows(ir[m], ir[n])'
  BY <1>4 DEF Follows, Before, Together
<1> QED BY <1>3, <1>5, <1>6, <1>7 DEF BlocksInv

(* A step that makes no request and leaves no statement.                   *)
LEMMA BlocksStay ==
  ASSUME GenTypeInv, BlocksInv, UNCHANGED << program, resolved_type, ir >>,
         pos'[1] = pos[1], pos'[2] = pos[2], pos[3] > 0 => pos'[3] > 0, gen' # "waiting"
  PROVE  BlocksInv'
<1>1. Extends
  BY Extending
<1>2. \A n \in Len(ir) + 1 .. Len(ir') : FALSE
  BY <1>1 DEF Extends
<1>3. \A r : Reached(r) => Reached(r)'
  BY DEF Reached, Behind, Together
<1>4. \A a : Behind(a)' => Behind(a)
  BY DEF Behind
<1> QED BY <1>1, <1>2, <1>3, <1>4, BlocksStep

(* A request made in the visit of a node.                                  *)
LEMMA BlocksRequest ==
  ASSUME IsProgram(program, Names), GenTypeInv, BlocksInv, UNCHANGED << program, resolved_type >>,
         gen = "generating", AtNode(program, pos), NEW value, EmitValue(value),
         NEW r, ir' = Append(ir, r), r.at = pos, r.op # "Ret", r.op = "Call" => HasCall(pos)
  PROVE  BlocksInv'
<1>1. pos'[1] = pos[1] /\ pos'[2] = pos[2] /\ gen' = gen
  BY DEF EmitValue
<1>2. Extends
  BY Extending
<1>3. Len(ir') = Len(ir) + 1 /\ ir'[Len(ir) + 1] = r /\ Len(ir) \in Nat
  BY Appending DEF GenTypeInv
<1>4. OnWalk(program, pos) /\ ~AtEnd(program, pos) /\ pos[2] > 0 /\ pos[3] > 0
  BY DEF GenTypeInv, CGTypeOK, AtNode
<1>5. InSource(pos) /\ pos[3] \in Nat
  BY <1>4, PosShape DEF InSource
<1>6. pos'[3] > 0
  BY <1>4, <1>5 DEF EmitValue
<1>7. FromSource(r)
  BY <1>5 DEF FromSource
<1>8. FromSource(r)'
  <2>1. FromSource(r)' <=> FromSource(r)
    <3>1. StatementAt(program, r.at)' = StatementAt(program, r.at)
      BY DEF StatementAt
    <3>2. InSource(r.at)' <=> InSource(r.at)
      BY DEF InSource
    <3>3. HasCall(r.at)' <=> HasCall(r.at)
      BY <3>1 DEF HasCall
    <3> QED BY <3>1, <3>2, <3>3 DEF FromSource
  <2> QED BY <1>7, <2>1
<1>9. Reached(r)'
  BY <1>1, <1>6 DEF Reached, Together
<1>10. ASSUME NEW n \in Len(ir) + 1 .. Len(ir')
       PROVE  /\ FromSource(ir[n])' /\ Reached(ir[n])'
              /\ Together(ir'[n].at, pos) /\ (ir'[n].op = "Ret" => n = Len(ir'))
  <2>1. n = Len(ir) + 1 /\ ir'[n] = r
    BY <1>3
  <2>2. FromSource(ir[n])' /\ Reached(ir[n])'
    BY <1>8, <1>9, <2>1 DEF FromSource, Reached
  <2> QED BY <2>1, <2>2 DEF Together
<1>11. \A q : Reached(q) => Reached(q)'
  BY <1>1, <1>6 DEF Reached, Behind, Together
<1>12. \A a : Behind(a)' => Behind(a)
  BY <1>1 DEF Behind
<1>13. gen' # "waiting"
  BY <1>1
<1> QED BY <1>2, <1>10, <1>11, <1>12, <1>13, BlocksStep

LEMMA BlocksNode ==
  ASSUME IsProgram(program, Names), GenTypeInv, BlocksInv, UNCHANGED tc_vars,
         gen = "generating", GenNode
  PROVE  BlocksInv'
<1>1. UNCHANGED << program, resolved_type >> /\ AtNode(program, pos) /\ OnWalk(program, pos)
  BY DEF tc_vars, GenNode, GenIntLiteral, GenFloatLiteral, GenVariable, GenFunctionCall,
         GenBinary, GenTypeInv, CGTypeOK
<1>2. CASE \E error \in GenErrors : GenThrow(error)
  <2>1. ir' = ir /\ pos' = pos /\ gen' # "waiting"
    BY <1>2 DEF GenThrow, GenErrors
  <2> QED BY <1>1, <2>1, BlocksStay
<1>3. CASE ir' = ir /\ \E value : EmitValue(value)
  <2>1. /\ pos'[1] = pos[1] /\ pos'[2] = pos[2] /\ pos'[3] = pos[3] + 1 /\ gen' = gen
        /\ pos[3] \in Nat
    BY <1>1, <1>3 DEF EmitValue, OnWalk
  <2>2. pos[3] > 0 => pos'[3] > 0
    BY <2>1
  <2>3. gen' # "waiting"
    BY <2>1
  <2> QED BY <1>1, <1>3, <2>1, <2>2, <2>3, BlocksStay
<1>4. ASSUME NEW op, op \notin {"Ret", "Call"} \/ (op = "Call" /\ Node.kind = "FunctionCall"),
             NEW r, r.at = pos, r.op = op, Request(r), \E value : EmitValue(value)
      PROVE  BlocksInv'
  <2>1. pos[3] \in 1 .. Len(StatementAt(program, pos).value)
        /\ Node = StatementAt(program, pos).value[pos[3]]
    BY <1>1 DEF AtNode, Node, NodeAt
  <2>2. Node.kind = "FunctionCall" => HasCall(pos)
    BY <2>1 DEF HasCall
  <2>3. ir' = Append(ir, r)
    BY <1>4 DEF Request
  <2>4. r.op # "Ret" /\ (r.op = "Call" => HasCall(pos))
    BY <1>4, <2>2
  <2>5. PICK value : EmitValue(value)
    BY <1>4
  <2> QED BY <1>1, <1>4, <2>3, <2>4, <2>5, BlocksRequest
<1> SUFFICES ASSUME ~ \E error \in GenErrors : GenThrow(error) PROVE BlocksInv'
  BY <1>2
<1>5. "NonIntegerLiteral" \in GenErrors /\ "UnknownVariable" \in GenErrors
      /\ "UnresolvedType" \in GenErrors /\ "UnknownFunction" \in GenErrors
      /\ "UnsupportedOperation" \in GenErrors
  BY DEF GenErrors
<1>6. CASE GenIntLiteral
  BY <1>3, <1>5, <1>6 DEF GenIntLiteral
<1>7. CASE GenFloatLiteral
  BY <1>3, <1>7 DEF GenFloatLiteral
<1>8. CASE GenVariable
  <2>1. PICK type, slot : type = LLVMType(resolved_type[pos]) /\ slot = named_values[Node.name]
    OBVIOUS
  <2>2. /\ Request([at |-> pos, op |-> "Load", type |-> type, slot |-> slot])
        /\ EmitValue(Result(type, NextRequest))
    BY <1>5, <1>8, <2>1, NoLLVMTypeError DEF GenVariable
  <2>3. PICK here : here = pos
    OBVIOUS
  <2>4. PICK r : r = [at |-> here, op |-> "Load", type |-> type, slot |-> slot]
    OBVIOUS
  <2>5. r.at = pos /\ r.op = "Load" /\ Request(r)
    BY <2>2, <2>3, <2>4
  <2> QED BY <1>4, <2>2, <2>5
<1>9. CASE GenFunctionCall
  <2>1. PICK callee : callee = symbols[Node.name]
    OBVIOUS
  <2>2. /\ Request([at |-> pos, op |-> "Call", function |-> callee])
        /\ EmitValue(Result("i32", NextRequest)) /\ Node.kind = "FunctionCall"
    BY <1>5, <1>9, <2>1 DEF GenFunctionCall
  <2>3. PICK here : here = pos
    OBVIOUS
  <2>4. PICK r : r = [at |-> here, op |-> "Call", function |-> callee]
    OBVIOUS
  <2>5. r.at = pos /\ r.op = "Call" /\ Request(r)
    BY <2>2, <2>3, <2>4
  <2> QED BY <1>4, <2>2, <2>5
<1>10. CASE GenBinary
  <2>1. PICK operations, lhs, rhs : /\ operations = Operations(resolved_type[pos])
                                    /\ lhs = values[Node.lhs] /\ rhs = values[Node.rhs]
    OBVIOUS
  <2>2. PICK op : op = apply(operations, Node.op)
    OBVIOUS
  <2>3. /\ operations \notin GenErrors /\ Node.op \in ArithmeticOperators
        /\ Request([at |-> pos, op |-> op, lhs |-> lhs, rhs |-> rhs])
        /\ EmitValue(Result(lhs.type, NextRequest))
    BY <1>5, <1>10, <2>1, <2>2 DEF GenBinary
  <2>4. op \notin {"Ret", "Call"}
    <3>1. op \in Instructions
      BY <2>1, <2>2, <2>3, ApplyInstruction
    <3> QED BY <3>1 DEF Instructions
  <2>5. PICK here : here = pos
    OBVIOUS
  <2>6. PICK r : r = [at |-> here, op |-> op, lhs |-> lhs, rhs |-> rhs]
    OBVIOUS
  <2>7. r.at = pos /\ r.op = op /\ Request(r)
    BY <2>3, <2>5, <2>6
  <2> QED BY <1>4, <2>3, <2>4, <2>7
<1> QED BY <1>6, <1>7, <1>8, <1>9, <1>10 DEF GenNode

(* Leaving a statement.                                                    *)
LEMMA BlocksLeave ==
  ASSUME IsProgram(program, Names), GenTypeInv, BlocksInv, Extends, gen = "generating",
         AtExit(program, pos), Advance, Len(ir') > Len(ir),
         \A n \in Len(ir) + 1 .. Len(ir') :
           /\ ir'[n].at = StmtAddress /\ ir'[n].op # "Call"
           /\ ir'[n].op = "Ret" => n = Len(ir') /\ Stmt.kind = "Return",
         Stmt.kind = "Return" => ir'[Len(ir')].op = "Ret"
  PROVE  BlocksInv'
<1>1. /\ pos' = NextStatement(program, pos) /\ gen' = gen /\ program' = program
      /\ OnWalk(program, pos) /\ ~AtEnd(program, pos) /\ pos[2] > 0
  BY DEF Advance, Extends, AtExit, GenTypeInv, CGTypeOK
<1>2. PICK here : here = StmtAddress
  OBVIOUS
<1>3. /\ InSource(here) /\ Together(here, pos) /\ StatementAt(program, here) = Stmt
  BY <1>1, <1>2, PosShape DEF InSource, Together, StmtAddress
<1>4. \A a : InSource(a) => (Behind(a)' <=> Behind(a) \/ Together(a, pos))
  BY <1>1, BehindAdvance
<1>5. \A r : FromSource(r) /\ Reached(r) => Reached(r)'
  BY <1>4 DEF FromSource, Reached
<1>6. ASSUME NEW n \in Len(ir) + 1 .. Len(ir')
      PROVE  /\ FromSource(ir[n])' /\ Reached(ir[n])'
             /\ Together(ir'[n].at, pos) /\ (ir'[n].op = "Ret" => n = Len(ir'))
  <2>1. PICK r : r = ir'[n]
    OBVIOUS
  <2>2. r.at = here /\ r.op # "Call" /\ (r.op = "Ret" => n = Len(ir') /\ Stmt.kind = "Return")
    BY <1>2, <2>1
  <2>3. InSource(here)' /\ StatementAt(program, here)' = Stmt
    BY <1>1, <1>3 DEF InSource, StatementAt
  <2>4. FromSource(r)'
    BY <2>2, <2>3 DEF FromSource
  <2>5. Reached(r)'
    BY <1>3, <1>4, <2>2 DEF Reached
  <2>6. FromSource(ir[n])' /\ Reached(ir[n])'
    BY <2>1, <2>4, <2>5 DEF FromSource, Reached
  <2> QED BY <1>3, <2>1, <2>2, <2>6
<1>7. ASSUME NEW a \in StatementAddresses(program), Behind(a)' PROVE Behind(a) \/ Asked(a)'
  <2>1. InSource(a) /\ a = <<a[1], a[2], 0>>
    BY StatementAddressParts DEF InSource
  <2>2. CASE Together(a, pos)
    <3>1. a = here
      BY <1>2, <2>1, <2>2 DEF Together, StmtAddress
    <3>2. PICK n : n = Len(ir')
      OBVIOUS
    <3>3. n \in Len(ir) + 1 .. Len(ir') /\ n \in 1 .. Len(ir')
      BY <3>2 DEF Extends
    <3>4. PICK r : r = ir'[n]
      OBVIOUS
    <3>5. r.at = here /\ (Stmt.kind = "Return" => r.op = "Ret")
      BY <1>2, <3>2, <3>3, <3>4
    <3>6. StatementAt(program, a)' = Stmt
      BY <1>1, <1>3, <3>1 DEF StatementAt
    <3>7. Together(ir[n].at, a)' /\ (StatementAt(program, a)'.kind = "Return" => ir'[n].op = "Ret")
      BY <3>1, <3>4, <3>5, <3>6 DEF Together
    <3> QED BY <3>3, <3>7 DEF Asked
  <2> QED BY <1>4, <1>7, <2>1, <2>2
<1>8. gen' # "waiting"
  BY <1>1
<1> QED BY <1>5, <1>6, <1>7, <1>8, BlocksStep

LEMMA BlocksExit ==
  ASSUME IsProgram(program, Names), GenTypeInv, BlocksInv, UNCHANGED tc_vars,
         gen = "generating", GenExit
  PROVE  BlocksInv'
<1>1. UNCHANGED << program, resolved_type >> /\ AtExit(program, pos)
  BY DEF tc_vars, GenExit, GenDeclaration, GenAssignment, GenShow, GenReturn
<1>2. IsSequence(ir) /\ Len(ir) \in Nat
  BY Appending DEF GenTypeInv
<1>3. PICK here : here = StmtAddress
  OBVIOUS
<1>4. ASSUME NEW r, r.at = here, r.op # "Call", Request(r), Advance,
             r.op = "Ret" <=> Stmt.kind = "Return"
      PROVE  BlocksInv'
  <2>1. ir' = Append(ir, r) /\ Extends
    BY <1>1, <1>4, Extending DEF Request
  <2>2. Len(ir') = Len(ir) + 1 /\ ir'[Len(ir) + 1] = r
    BY <1>2, <2>1, Appending
  <2>3. Len(ir') > Len(ir)
    BY <1>2, <2>2
  <2>4. \A n \in Len(ir) + 1 .. Len(ir') : n = Len(ir') /\ ir'[n] = r
    BY <1>2, <2>2
  <2>5. ir'[Len(ir')] = r
    BY <2>2
  <2> QED BY <1>1, <1>3, <1>4, <2>1, <2>3, <2>4, <2>5, BlocksLeave
<1>5. PICK value : value = StmtValue
  OBVIOUS
<1>6. CASE GenShow
  <2>1. PICK r : r = [at |-> here, op |-> "Print", value |-> value]
    OBVIOUS
  <2>2. Request(r) /\ Advance /\ Stmt.kind = "Show"
    BY <1>3, <1>5, <1>6, <2>1 DEF GenShow
  <2> QED BY <1>4, <2>1, <2>2
<1>7. CASE GenReturn
  <2>1. PICK r : r = [at |-> here, op |-> "Ret", value |-> value]
    OBVIOUS
  <2>2. Request(r) /\ Advance /\ Stmt.kind = "Return"
    BY <1>3, <1>5, <1>7, <2>1 DEF GenReturn
  <2> QED BY <1>4, <2>1, <2>2
<1>8. CASE GenAssignment
  <2>1. PICK slot : slot = named_values[Stmt.name]
    OBVIOUS
  <2>2. PICK r : r = [at |-> here, op |-> "Store", value |-> value, slot |-> slot]
    OBVIOUS
  <2>3. Request(r) /\ Advance /\ Stmt.kind = "Assign"
    BY <1>3, <1>5, <1>8, <2>1, <2>2 DEF GenAssignment
  <2> QED BY <1>4, <2>2, <2>3
<1>9. CASE GenDeclaration
  <2>1. CASE \E error \in GenErrors : GenThrow(error)
    <3>1. ir' = ir /\ pos' = pos /\ gen' # "waiting"
      BY <2>1 DEF GenThrow, GenErrors
    <3> QED BY <1>1, <3>1, BlocksStay
  <2>2. CASE ~\E error \in GenErrors : GenThrow(error)
    <3>1. "UnresolvedType" \in GenErrors
      BY DEF GenErrors
    <3>2. PICK slot, first, second :
            /\ slot = LLVMType(resolved_type[StmtAddress])
            /\ first = [at |-> StmtAddress, op |-> "Alloca", type |-> slot]
            /\ second = [at |-> StmtAddress, op |-> "Store", value |-> StmtValue,
                         slot |-> NextRequest]
      OBVIOUS
    <3>3. Stmt.kind = "Declare" /\ ir' = ir \o << first, second >> /\ Advance
      BY <1>9, <2>2, <3>1, <3>2, NoLLVMTypeError DEF GenDeclaration, SlotOfDeclaration
    <3>4. first.op = "Alloca" /\ second.op = "Store" /\ first.at = here /\ second.at = here
      BY <1>3, <3>2
    <3>5. ir' = Append(Append(ir, first), second)
      BY <1>2, <3>3, AppendingTwo
    <3>6. PICK half : half = Append(ir, first)
      OBVIOUS
    <3>7. /\ IsSequence(half) /\ Len(half) = Len(ir) + 1 /\ half[Len(ir) + 1] = first
          /\ \A i \in 1 .. Len(ir) : half[i] = ir[i]
      BY <1>2, <3>6, Appending
    <3>8. /\ Len(ir') = Len(half) + 1 /\ ir'[Len(half) + 1] = second
          /\ \A i \in 1 .. Len(half) : ir'[i] = half[i]
      BY <3>5, <3>6, <3>7, Appending
    <3>9. /\ Len(ir') = Len(ir) + 2 /\ ir'[Len(ir) + 1] = first /\ ir'[Len(ir) + 2] = second
          /\ \A i \in 1 .. Len(ir) : ir'[i] = ir[i]
      BY <1>2, <3>7, <3>8
    <3>10. Extends /\ Len(ir') > Len(ir)
      BY <1>1, <1>2, <3>9 DEF Extends
    <3>11. ASSUME NEW n \in Len(ir) + 1 .. Len(ir')
           PROVE  ir'[n].at = StmtAddress /\ ir'[n].op \in {"Alloca", "Store"}
      <4>1. n = Len(ir) + 1 \/ n = Len(ir) + 2
        BY <1>2, <3>9
      <4>2. ir'[n] = first \/ ir'[n] = second
        BY <3>9, <4>1
      <4> QED BY <1>3, <3>4, <4>2
    <3> QED BY <1>1, <3>3, <3>10, <3>11, BlocksLeave
  <2> QED BY <2>1, <2>2
<1> QED BY <1>6, <1>7, <1>8, <1>9 DEF GenExit

LEMMA BlocksInit == Init => BlocksInv
<1> SUFFICES ASSUME Init PROVE BlocksInv
  OBVIOUS
<1>1. /\ pos[1] = 1 /\ pos[2] = 0 /\ ir = << >> /\ IsProgram(program, Names)
  BY ProgramsAssumption DEF Init, CGInit, TCInit, FirstAddress
<1>2. \A n \in 1 .. Len(ir) : FALSE
  BY <1>1
<1>3. ASSUME NEW a \in StatementAddresses(program) PROVE ~Behind(a)
  <2>1. a[1] \in Nat \ {0} /\ a[2] \in Nat \ {0}
    BY <1>1, StatementAddressParts
  <2> QED BY <1>1, <2>1 DEF Behind
<1>4. Len(ir) = 0
  BY <1>1
<1> QED BY <1>2, <1>3, <1>4 DEF BlocksInv

LEMMA BlocksNext ==
  ASSUME TCTypeOK, GenTypeInv, GenInv, BlocksInv, [Next \/ Done]_vars
  PROVE  BlocksInv'
<1>1. IsProgram(program, Names)
  BY ProgramsAssumption DEF TCTypeOK
<1>2. program' = program
  <2>1. [TCNext \/ TCDone]_tc_vars
    BY CheckerStep
  <2> QED BY <2>1, ProgramFixed
<1>3. ASSUME UNCHANGED << ir, pos, gen >> PROVE BlocksInv'
  <2>1. \A r : (FromSource(r)' <=> FromSource(r)) /\ (Reached(r)' <=> Reached(r))
    <3> TAKE r
    <3>1. StatementAt(program, r.at)' = StatementAt(program, r.at)
      BY <1>2 DEF StatementAt
    <3>2. InSource(r.at)' <=> InSource(r.at)
      BY <1>2 DEF InSource
    <3>3. HasCall(r.at)' <=> HasCall(r.at)
      BY <3>1 DEF HasCall
    <3>4. Reached(r)' <=> Reached(r)
      BY <1>3 DEF Reached, Behind, Together
    <3> QED BY <3>1, <3>2, <3>3, <3>4 DEF FromSource
  <2>2. \A n \in 1 .. Len(ir) : FromSource(ir[n])' /\ Reached(ir[n])'
    <3> TAKE n \in 1 .. Len(ir)
    <3>1. PICK r : r = ir[n] /\ r = ir'[n]
      BY <1>3
    <3>2. FromSource(r)' /\ Reached(r)'
      BY <2>1, <3>1 DEF BlocksInv
    <3> QED BY <3>1, <3>2 DEF FromSource, Reached
  <2>3. \A m, n \in 1 .. Len(ir) : m < n => Follows(ir[m], ir[n])'
    BY <1>3 DEF BlocksInv, Follows, Before, Together
  <2>4. ASSUME NEW a \in StatementAddresses(program), Behind(a)' PROVE Asked(a)'
    <3>1. Asked(a)
      BY <1>3, <2>4 DEF BlocksInv, Behind
    <3> QED BY <1>2, <1>3, <3>1 DEF Asked, Together, StatementAt
  <2> QED BY <1>2, <1>3, <2>2, <2>3, <2>4 DEF BlocksInv
<1>4. CASE TCNext /\ UNCHANGED cg_vars
  BY <1>3, <1>4 DEF cg_vars
<1>5. CASE UNCHANGED vars \/ Done
  BY <1>3, <1>5 DEF vars, tc_vars, cg_vars, Done
<1>6. CASE CGNext /\ UNCHANGED tc_vars
  <2>1. UNCHANGED << program, resolved_type >>
    BY <1>6 DEF tc_vars
  <2>2. CASE GenStart \/ GenFinish
    <3>1. ir' = ir /\ pos' = pos /\ gen' # "waiting"
      BY <2>2 DEF GenStart, GenFinish
    <3> QED BY <2>1, <3>1, BlocksStay
  <2>3. CASE GenEntry
    <3>1. CASE \E error \in GenErrors : GenThrow(error)
      <4>1. ir' = ir /\ pos' = pos /\ gen' # "waiting"
        BY <3>1 DEF GenThrow, GenErrors
      <4> QED BY <2>1, <4>1, BlocksStay
    <3>2. CASE ~\E error \in GenErrors : GenThrow(error)
      <4>1. "DeclaredTwice" \in GenErrors /\ "NonexistentVariable" \in GenErrors
        BY DEF GenErrors
      <4>2. pos' = <<pos[1], pos[2], 1>> /\ ir' = ir /\ gen' = gen /\ gen = "generating"
        BY <2>3, <3>2, <4>1 DEF GenEntry
      <4>3. pos'[1] = pos[1] /\ pos'[2] = pos[2] /\ pos'[3] > 0 /\ gen' # "waiting"
        BY <4>2
      <4> QED BY <2>1, <4>2, <4>3, BlocksStay
    <3> QED BY <3>1, <3>2
  <2>4. CASE GenFunction
    <3>1. /\ pos' = NextStatement(program, pos) /\ ir' = ir /\ gen' = gen /\ gen = "generating"
          /\ AtFunction(program, pos) /\ OnWalk(program, pos)
      BY <2>4 DEF GenFunction, GenTypeInv, CGTypeOK
    <3>2. ~AtEnd(program, pos) /\ pos[2] = 0
      BY <3>1 DEF AtFunction
    <3>3. ASSUME NEW a, InSource(a) PROVE (Behind(a)' <=> Behind(a)) /\ ~Together(a, pos)
      <4>1. ~Together(a, pos)
        BY <3>2, <3>3 DEF InSource, Together
      <4> QED BY <1>1, <3>1, <3>2, <3>3, <4>1, BehindAdvance
    <3>4. Extends
      BY <2>1, <3>1, Extending
    <3>5. \A n \in Len(ir) + 1 .. Len(ir') : FALSE
      BY <3>1, <3>4 DEF Extends
    <3>6. \A r : FromSource(r) /\ Reached(r) => Reached(r)'
      BY <3>3 DEF FromSource, Reached
    <3>7. \A a \in StatementAddresses(program) : Behind(a)' => Behind(a)
      BY <1>1, <3>3, StatementAddressParts DEF InSource
    <3>8. gen' # "waiting"
      BY <3>1
    <3> QED BY <3>4, <3>5, <3>6, <3>7, <3>8, BlocksStep
  <2>5. CASE GenNode
    <3>1. gen = "generating"
      BY <2>5 DEF GenNode, GenIntLiteral, GenFloatLiteral, GenVariable, GenFunctionCall, GenBinary
    <3> QED BY <1>1, <1>6, <2>5, <3>1, BlocksNode
  <2>6. CASE GenExit
    <3>1. gen = "generating"
      BY <2>6 DEF GenExit, GenDeclaration, GenAssignment, GenShow, GenReturn
    <3> QED BY <1>1, <1>6, <2>6, <3>1, BlocksExit
  <2> QED BY <1>6, <2>2, <2>3, <2>4, <2>5, <2>6 DEF CGNext
<1> QED BY <1>4, <1>5, <1>6 DEF Next

(* The last of the requests R is the only Ret if and only if the last of l *)
(* statements is the only Return.                                          *)
Covers(R, place, rets, l, returns) ==
  /\ l \in Nat /\ R \subseteq Nat /\ place \in [R -> 1 .. l]
  /\ rets \subseteq R /\ returns \subseteq 1 .. l
  /\ \A s \in 1 .. l : \E n \in R : place[n] = s /\ (s \in returns => n \in rets)
  /\ \A n \in rets : place[n] \in returns
  /\ \A m, n \in R : m < n => place[m] < place[n] \/ (place[m] = place[n] /\ m \notin rets)

LEMMA LastIsOnly ==
  ASSUME NEW R, NEW place, NEW rets, NEW l, NEW returns, Covers(R, place, rets, l, returns)
  PROVE  (\E n \in R : \A m \in R : m <= n /\ (m \in rets <=> m = n))
         <=> l > 0 /\ \A s \in 1 .. l : s \in returns <=> s = l
<1> USE DEF Covers
<1>1. ASSUME NEW n \in R, \A m \in R : m <= n /\ (m \in rets <=> m = n)
      PROVE  l > 0 /\ \A s \in 1 .. l : s \in returns <=> s = l
  <2>1. n \in rets /\ place[n] \in returns /\ place[n] \in 1 .. l
    BY <1>1
  <2>2. l > 0 /\ l \in 1 .. l
    BY <2>1
  <2>3. place[n] = l
    <3>1. PICK k \in R : place[k] = l
      BY <2>2
    <3>2. k <= n /\ k \in Nat /\ n \in Nat
      BY <1>1
    <3>3. CASE k < n
      <4>1. l < place[n] \/ l = place[n]
        BY <3>1, <3>3
      <4> QED BY <2>1, <4>1
    <3> QED BY <3>1, <3>2, <3>3
  <2>4. ASSUME NEW s \in returns PROVE s = l
    <3>1. PICK k \in R : place[k] = s /\ k \in rets
      OBVIOUS
    <3>2. k = n
      BY <1>1, <3>1
    <3> QED BY <2>3, <3>1, <3>2
  <2>5. l \in returns
    BY <2>1, <2>3
  <2> QED BY <2>2, <2>4, <2>5
<1>2. ASSUME l > 0, \A s \in 1 .. l : s \in returns <=> s = l
      PROVE  \E n \in R : \A m \in R : m <= n /\ (m \in rets <=> m = n)
  <2>1. l \in 1 .. l /\ l \in returns
    BY <1>2
  <2>2. PICK n \in R : place[n] = l /\ n \in rets
    BY <2>1
  <2>3. ASSUME NEW m \in R PROVE m <= n
    <3>1. m \in Nat /\ n \in Nat /\ place[m] \in 1 .. l
      OBVIOUS
    <3>2. CASE n < m
      <4>1. l < place[m]
        BY <2>2, <3>2
      <4> QED BY <3>1, <4>1
    <3> QED BY <3>1, <3>2
  <2>4. ASSUME NEW m \in R, m \in rets PROVE m = n
    <3>1. place[m] = l
      BY <1>2, <2>4
    <3>2. m <= n /\ m \in Nat /\ n \in Nat
      BY <2>3
    <3>3. CASE m < n
      <4>1. place[m] < place[n]
        BY <2>4, <3>3
      <4> QED BY <2>2, <3>1, <4>1
    <3> QED BY <3>2, <3>3
  <2> QED BY <2>2, <2>3, <2>4
<1> QED BY <1>1, <1>2

LEMMA BlockFollows ==
  ASSUME IsProgram(program, Names), BlocksInv, AtEnd(program, pos), OnWalk(program, pos),
         NEW f \in 1 .. Len(program)
  PROVE  (\E n \in RequestsOf(f) : \A m \in RequestsOf(f) : m <= n /\ (ir[m].op = "Ret" <=> m = n))
         <=> ReturnsAtEnd(f)
<1>1. PICK stmts, l : stmts = program[f].statements /\ l = Len(stmts)
  OBVIOUS
<1>2. l \in Nat /\ f \in Nat /\ Len(program) \in Nat /\ pos[1] \in Nat
  BY <1>1 DEF IsProgram, OnWalk
<1>3. PICK R, rets, returns :
        /\ R = RequestsOf(f)
        /\ rets = { n \in R : ir[n].op = "Ret" }
        /\ returns = { s \in 1 .. l : stmts[s].kind = "Return" }
  OBVIOUS
<1>4. PICK place : place = [n \in R |-> ir[n].at[2]]
  OBVIOUS
<1>5. ASSUME NEW n \in R
      PROVE  /\ n \in 1 .. Len(ir) /\ n \in Nat /\ ir[n].at[1] = f
             /\ place[n] = ir[n].at[2] /\ place[n] \in 1 .. l
             /\ n \in rets => place[n] \in returns
  <2>1. n \in 1 .. Len(ir) /\ ir[n].at[1] = f
    BY <1>3 DEF RequestsOf
  <2>2. FromSource(ir[n]) /\ place[n] = ir[n].at[2]
    BY <1>4, <2>1 DEF BlocksInv
  <2>3. place[n] \in 1 .. l
    BY <1>1, <2>1, <2>2 DEF FromSource, InSource
  <2>4. n \in rets => stmts[place[n]].kind = "Return"
    BY <1>1, <1>3, <2>1, <2>2 DEF FromSource, StatementAt
  <2> QED BY <1>3, <2>1, <2>2, <2>3, <2>4
<1>6. ASSUME NEW s \in 1 .. l
      PROVE  \E n \in R : place[n] = s /\ (s \in returns => n \in rets)
  <2>1. PICK a : a = <<f, s, 0>>
    OBVIOUS
  <2>2. a \in StatementAddresses(program) /\ StatementAt(program, a) = stmts[s]
    BY <1>1, <2>1 DEF StatementAddresses, StatementAt
  <2>3. Behind(a)
    BY <1>2, <2>1 DEF AtEnd, Behind
  <2>4. PICK n \in 1 .. Len(ir) :
          Together(ir[n].at, a) /\ (StatementAt(program, a).kind = "Return" => ir[n].op = "Ret")
    BY <2>2, <2>3 DEF BlocksInv, Asked
  <2>5. ir[n].at[1] = f /\ ir[n].at[2] = s
    BY <2>1, <2>4 DEF Together
  <2>6. n \in R
    BY <1>3, <2>5 DEF RequestsOf
  <2> QED BY <1>3, <1>4, <2>2, <2>4, <2>5, <2>6
<1>7. ASSUME NEW m \in R, NEW n \in R, m < n
      PROVE  place[m] < place[n] \/ (place[m] = place[n] /\ m \notin rets)
  <2>1. Follows(ir[m], ir[n])
    BY <1>5, <1>7 DEF BlocksInv
  <2>2. ~(ir[m].at[1] < ir[n].at[1])
    BY <1>2, <1>5
  <2> QED BY <1>3, <1>5, <2>1, <2>2 DEF Follows, Before, Together
<1>8. place \in [R -> 1 .. l] /\ R \in SUBSET Nat
  BY <1>4, <1>5
<1>9. rets \in SUBSET R /\ returns \in SUBSET (1 .. l)
  BY <1>3
<1>10. (\E n \in R : \A m \in R : m <= n /\ (m \in rets <=> m = n))
       <=> l > 0 /\ \A s \in 1 .. l : s \in returns <=> s = l
  <2>1. Covers(R, place, rets, l, returns)
    BY <1>2, <1>5, <1>6, <1>7, <1>8, <1>9 DEF Covers
  <2> QED BY <2>1, LastIsOnly
<1>11. ReturnsAtEnd(f) <=> l > 0 /\ \A s \in 1 .. l : s \in returns <=> s = l
  BY <1>1, <1>3 DEF ReturnsAtEnd
<1> QED BY <1>3, <1>10, <1>11

(* A program of KeepsWidths calls nothing, and what an Int32 function      *)
(* returns is an i32.                                                      *)
LEMMA ValidModule ==
  ASSUME BlocksInv, GenInv, RequestsInv, KeepsWidths(program), BlocksEnd,
         IsProgram(program, Names), \A f \in 1 .. Len(program) : ReturnsInt(f)
  PROVE  ModuleIsValid
<1>1. StoresMatch /\ LoadsMatchAllocas
  BY RequestsAreTyped DEF RequestsWellTyped, GenInv
<1>2. \A n \in Requests(Instructions) : ir[n].lhs.type = ir[n].rhs.type
  BY RequestsAreTyped DEF RequestsWellTyped, OperandsMatchRequests
<1>3. ASSUME NEW n \in Requests({"Ret"}) PROVE ir[n].value.type = "i32"
  <2>1. PICK r, f, s : r = ir[n] /\ f = r.at[1] /\ s = r.at[2]
    OBVIOUS
  <2>2. FromSource(r) /\ FineRequest(r) /\ r.op = "Ret"
    BY <2>1 DEF Requests, BlocksInv, RequestsInv, RequestsFine
  <2>3. /\ f \in 1 .. Len(program) /\ s \in 1 .. Len(program[f].statements)
        /\ program[f].statements[s].kind = "Return"
    BY <2>1, <2>2 DEF FromSource, InSource, StatementAt
  <2>4. resolved_type[<<f, s, 0>>] = "Int32"
    BY <2>3 DEF ReturnsInt
  <2>5. r.value.type = LLVMType("Int32")
    BY <2>1, <2>2, <2>4 DEF FineRequest
  <2> QED BY <2>1, <2>5 DEF LLVMType, IntWidth, IntTypes, SignedTypes, UnsignedTypes
<1>4. ASSUME NEW n \in Requests({"Call"}) PROVE FALSE
  <2>1. PICK r : r = ir[n]
    OBVIOUS
  <2>2. FromSource(r) /\ r.op = "Call"
    BY <2>1 DEF Requests, BlocksInv
  <2>3. PICK a : a = <<r.at[1], r.at[2], 0>>
    OBVIOUS
  <2>4. a \in StatementAddresses(program) /\ StatementAt(program, a) = StatementAt(program, r.at)
    BY <2>2, <2>3 DEF FromSource, InSource, StatementAddresses, StatementAt
  <2>5. IsPlainExpression(StatementAt(program, a).value)
    BY <2>4 DEF KeepsWidths, IsPlain, IsPlainStatement
  <2>6. HasCall(r.at)
    BY <2>2 DEF FromSource
  <2> QED BY <2>4, <2>5, <2>6 DEF HasCall, IsPlainExpression
<1> QED BY <1>1, <1>2, <1>3, <1>4 DEF ModuleIsValid

(* Blocks end as LLVM demands exactly where the source returns once, at    *)
(* the end, and such a program without the known gaps is a valid module.   *)
THEOREM BlocksFollow == Spec => []BlocksFollowReturns
<1>1. TCTypeOK /\ GenTypeInv /\ GenInv /\ BlocksInv /\ [Next \/ Done]_vars => BlocksInv'
  BY BlocksNext
<1>2. TCTypeOK /\ GenTypeInv /\ GenInv /\ RulesInv /\ RequestsInv /\ BlocksInv
      => BlocksFollowReturns
  <2> SUFFICES ASSUME TCTypeOK, GenTypeInv, GenInv, RulesInv, RequestsInv, BlocksInv,
                      gen = "generated"
               PROVE  BlocksFollowReturns
    BY DEF BlocksFollowReturns
  <2>1. IsProgram(program, Names) /\ AtEnd(program, pos) /\ OnWalk(program, pos)
    BY ProgramsAssumption DEF TCTypeOK, RulesInv, GenTypeInv, CGTypeOK
  <2>2. BlocksEnd <=> \A f \in 1 .. Len(program) : ReturnsAtEnd(f)
    BY <2>1, BlockFollows DEF BlocksEnd
  <2>3. BlocksEnd /\ KeepsWidths(program) /\ (\A f \in 1 .. Len(program) : ReturnsInt(f))
        => ModuleIsValid
    BY <2>1, ValidModule
  <2> QED BY <2>2, <2>3 DEF BlocksFollowReturns
<1> QED BY <1>1, <1>2, BlocksInit, RequestsInvariant, PTL DEF Spec

----------------------------------------------------------------------------
(* The rest of the module: the requests, run as LLVM runs them, do what    *)
(* the source says.                                                        *)

(* Both sides are functions defined by recursion; each satisfies the       *)
(* equation it is defined by.                                              *)
FrameFrom(requests, f, calls, frames, n) ==
  IF n = 0 THEN NewFrame
  ELSE IF requests[n].at[1] = f THEN Perform(frames[n - 1], requests[n], calls)
  ELSE Answer(frames[n - 1], 0)

LEMMA FramesDefined ==
  ASSUME NEW q, Len(q) \in Nat, NEW f, NEW calls
  PROVE  Frames(q, f, calls) =
           [n \in 0 .. Len(q) |-> FrameFrom(q, f, calls, Frames(q, f, calls), n)]
<1> DEFINE last == Len(q)
           Defines(x, k) == x = [n \in 0 .. k |-> FrameFrom(q, f, calls, x, n)]
           T == { k \in 0 .. last : \E x : Defines(x, k) }
<1>1. ASSUME NEW x, NEW y, NEW n \in 0 .. last, \A j \in 0 .. n - 1 : x[j] = y[j]
      PROVE  FrameFrom(q, f, calls, x, n) = FrameFrom(q, f, calls, y, n)
  <2>1. CASE n = 0
    BY <2>1 DEF FrameFrom
  <2>2. CASE n # 0
    <3>1. x[n - 1] = y[n - 1]
      BY <1>1, <2>2
    <3> QED BY <3>1 DEF FrameFrom
  <2> QED BY <2>1, <2>2
<1>2. 0 \in T
  <2>1. Defines([n \in 0 .. 0 |-> NewFrame], 0)
    BY DEF FrameFrom
  <2>2. \E x : Defines(x, 0)
    <3> HIDE DEF Defines
    <3> QED BY <2>1
  <2> HIDE DEF Defines
  <2> QED BY <2>2
<1>3. ASSUME NEW k \in 0 .. last - 1, k \in T
      PROVE  k + 1 \in T
  <2>1. PICK x : Defines(x, k)
    BY <1>3
  <2> DEFINE y == [n \in 0 .. k + 1 |-> IF n <= k THEN x[n] ELSE FrameFrom(q, f, calls, x, k + 1)]
  <2>2. k \in Nat /\ k + 1 \in 0 .. last
    OBVIOUS
  <2>3. \A j \in 0 .. k : x[j] = y[j]
    BY <2>2
  <2>4. \A n \in 0 .. k + 1 : y[n] = FrameFrom(q, f, calls, x, n)
    BY <2>1, <2>2
  <2>5. ASSUME NEW n \in 0 .. k + 1
        PROVE  FrameFrom(q, f, calls, x, n) = FrameFrom(q, f, calls, y, n)
    <3>1. n \in 0 .. last /\ \A j \in 0 .. n - 1 : j \in 0 .. k
      BY <2>2
    <3>2. \A j \in 0 .. n - 1 : x[j] = y[j]
      BY <2>3, <3>1
    <3> HIDE DEF y
    <3> QED BY <1>1, <3>1, <3>2
  <2>6. \A n \in 0 .. k + 1 : y[n] = FrameFrom(q, f, calls, y, n)
    BY <2>4, <2>5
  <2>7. y = [n \in 0 .. k + 1 |-> y[n]]
    OBVIOUS
  <2> HIDE DEF y
  <2>8. Defines(y, k + 1)
    BY <2>6, <2>7
  <2> HIDE DEF Defines
  <2> QED BY <2>2, <2>8
<1>4. last \in T
  <2>1. \A k \in 0 .. last - 1 : k \in T => k + 1 \in T
    BY <1>3
  <2> HIDE DEF T
  <2>2. 0 .. last \subseteq T
    BY <1>2, <2>1, Counting
  <2> QED BY <2>2
<1>5. \E x : Defines(x, last)
  BY <1>4
<1>6. Frames(q, f, calls) = CHOOSE x : Defines(x, last)
  BY Zenon DEF Frames, FrameFrom
<1>7. Defines(Frames(q, f, calls), last)
  <2> HIDE DEF Defines
  <2> QED BY <1>5, <1>6, Zenon
<1> QED BY <1>7

RunFrom(requests, run, f) ==
  Frames(requests, f, [g \in 1 .. f - 1 |-> run[g]])[Len(requests)]

LEMMA ExecutedDefined ==
  ASSUME NEW q, NEW m \in Nat
  PROVE  Executed(q, m) =
           [n \in 1 .. m |-> RunFrom(q, Executed(q, m), n)]
<1> DEFINE last == m
           Defines(x, k) == x = [n \in 1 .. k |-> RunFrom(q, x, n)]
           T == { k \in 0 .. last : \E x : Defines(x, k) }
<1>1. ASSUME NEW x, NEW y, NEW n \in 1 .. last, \A j \in 1 .. n - 1 : x[j] = y[j]
      PROVE  RunFrom(q, x, n) = RunFrom(q, y, n)
  <2>1. [g \in 1 .. n - 1 |-> x[g]] = [g \in 1 .. n - 1 |-> y[g]]
    BY <1>1
  <2> QED BY <2>1 DEF RunFrom
<1>2. 0 \in T
  <2>1. Defines([n \in 1 .. 0 |-> {}], 0)
    OBVIOUS
  <2>2. \E x : Defines(x, 0)
    <3> HIDE DEF Defines
    <3> QED BY <2>1
  <2> HIDE DEF Defines
  <2> QED BY <2>2
<1>3. ASSUME NEW k \in 0 .. last - 1, k \in T
      PROVE  k + 1 \in T
  <2>1. PICK x : Defines(x, k)
    BY <1>3
  <2> DEFINE y == [n \in 1 .. k + 1 |-> IF n <= k THEN x[n] ELSE RunFrom(q, x, k + 1)]
  <2>2. k \in Nat /\ k + 1 \in 0 .. last
    OBVIOUS
  <2>3. \A j \in 1 .. k : x[j] = y[j]
    BY <2>2
  <2>4. \A n \in 1 .. k + 1 : y[n] = RunFrom(q, x, n)
    BY <2>1, <2>2
  <2>5. ASSUME NEW n \in 1 .. k + 1
        PROVE  RunFrom(q, x, n) = RunFrom(q, y, n)
    <3>1. n \in 1 .. last /\ \A j \in 1 .. n - 1 : j \in 1 .. k
      BY <2>2
    <3>2. \A j \in 1 .. n - 1 : x[j] = y[j]
      BY <2>3, <3>1
    <3> HIDE DEF y
    <3> QED BY <1>1, <3>1, <3>2
  <2>6. \A n \in 1 .. k + 1 : y[n] = RunFrom(q, y, n)
    BY <2>4, <2>5
  <2>7. y = [n \in 1 .. k + 1 |-> y[n]]
    OBVIOUS
  <2> HIDE DEF y
  <2>8. Defines(y, k + 1)
    BY <2>6, <2>7
  <2> HIDE DEF Defines
  <2> QED BY <2>2, <2>8
<1>4. last \in T
  <2>1. \A k \in 0 .. last - 1 : k \in T => k + 1 \in T
    BY <1>3
  <2> HIDE DEF T
  <2>2. 0 .. last \subseteq T
    BY <1>2, <2>1, Counting
  <2> QED BY <2>2
<1>5. \E x : Defines(x, last)
  BY <1>4
<1>6. Executed(q, m) = CHOOSE x : Defines(x, last)
  BY Zenon DEF Executed, RunFrom
<1>7. Defines(Executed(q, m), last)
  <2> HIDE DEF Defines
  <2> QED BY <1>5, <1>6, Zenon
<1> QED BY <1>7

NumberFrom(prog, e, held, calls, numbers, i) ==
  CASE e[i].kind \in LiteralTypes   -> e[i].value
    [] e[i].kind = "Variable"     -> held[e[i].name]
    [] e[i].kind = "FunctionCall" -> calls[Callee(prog, e[i].name)].returned
    [] OTHER -> Arithmetic(e[i].op, numbers[e[i].lhs], numbers[e[i].rhs])

LEMMA EvaluatedDefined ==
  ASSUME NEW prog, NEW e, NEW names, IsExpression(e, names), NEW held, NEW calls
  PROVE  Evaluated(prog, e, held, calls) =
           [n \in 1 .. Len(e) |-> NumberFrom(prog, e, held, calls, Evaluated(prog, e, held, calls), n)]
<1> DEFINE last == Len(e)
           Defines(x, k) == x = [n \in 1 .. k |-> NumberFrom(prog, e, held, calls, x, n)]
           T == { k \in 0 .. last : \E x : Defines(x, k) }
<1>0. /\ last \in Nat
      /\ \A i \in 1 .. last :
           e[i].kind = "Binary" => e[i].lhs \in 1 .. i - 1 /\ e[i].rhs \in 1 .. i - 1
  BY DEF IsExpression
<1>1. ASSUME NEW x, NEW y, NEW n \in 1 .. last, \A j \in 1 .. n - 1 : x[j] = y[j]
      PROVE  NumberFrom(prog, e, held, calls, x, n) = NumberFrom(prog, e, held, calls, y, n)
  <2>1. CASE e[n].kind = "Binary"
    <3>1. e[n].lhs \in 1 .. n - 1 /\ e[n].rhs \in 1 .. n - 1
      BY <1>0, <2>1
    <3>2. x[e[n].lhs] = y[e[n].lhs] /\ x[e[n].rhs] = y[e[n].rhs]
      BY <1>1, <3>1
    <3> QED BY <3>2 DEF NumberFrom
  <2>2. CASE e[n].kind # "Binary"
    <3>1. e[n].kind \in NodeKinds
      BY DEF IsExpression
    <3> QED BY <2>2, <3>1 DEF NumberFrom, NodeKinds, LiteralTypes
  <2> QED BY <2>1, <2>2
<1>2. 0 \in T
  <2>1. Defines([n \in 1 .. 0 |-> 0], 0)
    OBVIOUS
  <2>2. \E x : Defines(x, 0)
    <3> HIDE DEF Defines
    <3> QED BY <2>1
  <2> HIDE DEF Defines
  <2> QED BY <1>0, <2>2
<1>3. ASSUME NEW k \in 0 .. last - 1, k \in T
      PROVE  k + 1 \in T
  <2>1. PICK x : Defines(x, k)
    BY <1>3
  <2> DEFINE y == [n \in 1 .. k + 1 |-> IF n <= k THEN x[n] ELSE NumberFrom(prog, e, held, calls, x, k + 1)]
  <2>2. k \in Nat /\ k + 1 \in 0 .. last
    BY <1>0
  <2>3. \A j \in 1 .. k : x[j] = y[j]
    BY <2>2
  <2>4. \A n \in 1 .. k + 1 : y[n] = NumberFrom(prog, e, held, calls, x, n)
    BY <2>1, <2>2
  <2>5. ASSUME NEW n \in 1 .. k + 1
        PROVE  NumberFrom(prog, e, held, calls, x, n) = NumberFrom(prog, e, held, calls, y, n)
    <3>1. n \in 1 .. last /\ \A j \in 1 .. n - 1 : j \in 1 .. k
      BY <1>0, <2>2
    <3>2. \A j \in 1 .. n - 1 : x[j] = y[j]
      BY <2>3, <3>1
    <3> HIDE DEF y
    <3> QED BY <1>1, <3>1, <3>2
  <2>6. \A n \in 1 .. k + 1 : y[n] = NumberFrom(prog, e, held, calls, y, n)
    BY <2>4, <2>5
  <2>7. y = [n \in 1 .. k + 1 |-> y[n]]
    OBVIOUS
  <2> HIDE DEF y
  <2>8. Defines(y, k + 1)
    BY <2>6, <2>7
  <2> HIDE DEF Defines
  <2> QED BY <2>2, <2>8
<1>4. last \in T
  <2>1. \A k \in 0 .. last - 1 : k \in T => k + 1 \in T
    BY <1>3
  <2> HIDE DEF T
  <2>2. 0 .. last \subseteq T
    BY <1>0, <1>2, <2>1, Counting
  <2> QED BY <1>0, <2>2
<1>5. \E x : Defines(x, last)
  BY <1>4
<1>6. Evaluated(prog, e, held, calls) = CHOOSE x : Defines(x, last)
  BY Zenon DEF Evaluated, NumberFrom
<1>7. Defines(Evaluated(prog, e, held, calls), last)
  <2> HIDE DEF Defines
  <2> QED BY <1>5, <1>6, Zenon
<1> QED BY <1>7

ShownFrom(prog, e, before, calls, shown, i) ==
  IF i = 0 THEN before
  ELSE IF e[i].kind = "FunctionCall"
  THEN shown[i - 1] \o calls[Callee(prog, e[i].name)].shown ELSE shown[i - 1]

LEMMA ShownDefined ==
  ASSUME NEW prog, NEW e, Len(e) \in Nat, NEW before, NEW calls
  PROVE  ShownBy(prog, e, before, calls) =
           [n \in 0 .. Len(e) |-> ShownFrom(prog, e, before, calls, ShownBy(prog, e, before, calls), n)]
<1> DEFINE last == Len(e)
           Defines(x, k) == x = [n \in 0 .. k |-> ShownFrom(prog, e, before, calls, x, n)]
           T == { k \in 0 .. last : \E x : Defines(x, k) }
<1>1. ASSUME NEW x, NEW y, NEW n \in 0 .. last, \A j \in 0 .. n - 1 : x[j] = y[j]
      PROVE  ShownFrom(prog, e, before, calls, x, n) = ShownFrom(prog, e, before, calls, y, n)
  <2>1. CASE n = 0
    BY <2>1 DEF ShownFrom
  <2>2. CASE n # 0
    <3>1. x[n - 1] = y[n - 1]
      BY <1>1, <2>2
    <3> QED BY <3>1 DEF ShownFrom
  <2> QED BY <2>1, <2>2
<1>2. 0 \in T
  <2>1. Defines([n \in 0 .. 0 |-> before], 0)
    BY DEF ShownFrom
  <2>2. \E x : Defines(x, 0)
    <3> HIDE DEF Defines
    <3> QED BY <2>1
  <2> HIDE DEF Defines
  <2> QED BY <2>2
<1>3. ASSUME NEW k \in 0 .. last - 1, k \in T
      PROVE  k + 1 \in T
  <2>1. PICK x : Defines(x, k)
    BY <1>3
  <2> DEFINE y == [n \in 0 .. k + 1 |-> IF n <= k THEN x[n] ELSE ShownFrom(prog, e, before, calls, x, k + 1)]
  <2>2. k \in Nat /\ k + 1 \in 0 .. last
    OBVIOUS
  <2>3. \A j \in 0 .. k : x[j] = y[j]
    BY <2>2
  <2>4. \A n \in 0 .. k + 1 : y[n] = ShownFrom(prog, e, before, calls, x, n)
    BY <2>1, <2>2
  <2>5. ASSUME NEW n \in 0 .. k + 1
        PROVE  ShownFrom(prog, e, before, calls, x, n) = ShownFrom(prog, e, before, calls, y, n)
    <3>1. n \in 0 .. last /\ \A j \in 0 .. n - 1 : j \in 0 .. k
      BY <2>2
    <3>2. \A j \in 0 .. n - 1 : x[j] = y[j]
      BY <2>3, <3>1
    <3> HIDE DEF y
    <3> QED BY <1>1, <3>1, <3>2
  <2>6. \A n \in 0 .. k + 1 : y[n] = ShownFrom(prog, e, before, calls, y, n)
    BY <2>4, <2>5
  <2>7. y = [n \in 0 .. k + 1 |-> y[n]]
    OBVIOUS
  <2> HIDE DEF y
  <2>8. Defines(y, k + 1)
    BY <2>6, <2>7
  <2> HIDE DEF Defines
  <2> QED BY <2>2, <2>8
<1>4. last \in T
  <2>1. \A k \in 0 .. last - 1 : k \in T => k + 1 \in T
    BY <1>3
  <2> HIDE DEF T
  <2>2. 0 .. last \subseteq T
    BY <1>2, <2>1, Counting
  <2> QED BY <2>2
<1>5. \E x : Defines(x, last)
  BY <1>4
<1>6. ShownBy(prog, e, before, calls) = CHOOSE x : Defines(x, last)
  BY Zenon DEF ShownBy, ShownFrom
<1>7. Defines(ShownBy(prog, e, before, calls), last)
  <2> HIDE DEF Defines
  <2> QED BY <1>5, <1>6, Zenon
<1> QED BY <1>7

StateFrom(prog, f, calls, states, s) ==
  IF s = 0 THEN Begun ELSE After(prog, prog[f].statements[s], states[s - 1], calls)

LEMMA StatesDefined ==
  ASSUME NEW prog, NEW f, Len(prog[f].statements) \in Nat, NEW calls
  PROVE  States(prog, f, calls) =
           [n \in 0 .. Len(prog[f].statements) |-> StateFrom(prog, f, calls, States(prog, f, calls), n)]
<1> DEFINE last == Len(prog[f].statements)
           Defines(x, k) == x = [n \in 0 .. k |-> StateFrom(prog, f, calls, x, n)]
           T == { k \in 0 .. last : \E x : Defines(x, k) }
<1>1. ASSUME NEW x, NEW y, NEW n \in 0 .. last, \A j \in 0 .. n - 1 : x[j] = y[j]
      PROVE  StateFrom(prog, f, calls, x, n) = StateFrom(prog, f, calls, y, n)
  <2>1. CASE n = 0
    BY <2>1 DEF StateFrom
  <2>2. CASE n # 0
    <3>1. x[n - 1] = y[n - 1]
      BY <1>1, <2>2
    <3> QED BY <3>1 DEF StateFrom
  <2> QED BY <2>1, <2>2
<1>2. 0 \in T
  <2>1. Defines([n \in 0 .. 0 |-> Begun], 0)
    BY DEF StateFrom
  <2>2. \E x : Defines(x, 0)
    <3> HIDE DEF Defines
    <3> QED BY <2>1
  <2> HIDE DEF Defines
  <2> QED BY <2>2
<1>3. ASSUME NEW k \in 0 .. last - 1, k \in T
      PROVE  k + 1 \in T
  <2>1. PICK x : Defines(x, k)
    BY <1>3
  <2> DEFINE y == [n \in 0 .. k + 1 |-> IF n <= k THEN x[n] ELSE StateFrom(prog, f, calls, x, k + 1)]
  <2>2. k \in Nat /\ k + 1 \in 0 .. last
    OBVIOUS
  <2>3. \A j \in 0 .. k : x[j] = y[j]
    BY <2>2
  <2>4. \A n \in 0 .. k + 1 : y[n] = StateFrom(prog, f, calls, x, n)
    BY <2>1, <2>2
  <2>5. ASSUME NEW n \in 0 .. k + 1
        PROVE  StateFrom(prog, f, calls, x, n) = StateFrom(prog, f, calls, y, n)
    <3>1. n \in 0 .. last /\ \A j \in 0 .. n - 1 : j \in 0 .. k
      BY <2>2
    <3>2. \A j \in 0 .. n - 1 : x[j] = y[j]
      BY <2>3, <3>1
    <3> HIDE DEF y
    <3> QED BY <1>1, <3>1, <3>2
  <2>6. \A n \in 0 .. k + 1 : y[n] = StateFrom(prog, f, calls, y, n)
    BY <2>4, <2>5
  <2>7. y = [n \in 0 .. k + 1 |-> y[n]]
    OBVIOUS
  <2> HIDE DEF y
  <2>8. Defines(y, k + 1)
    BY <2>6, <2>7
  <2> HIDE DEF Defines
  <2> QED BY <2>2, <2>8
<1>4. last \in T
  <2>1. \A k \in 0 .. last - 1 : k \in T => k + 1 \in T
    BY <1>3
  <2> HIDE DEF T
  <2>2. 0 .. last \subseteq T
    BY <1>2, <2>1, Counting
  <2> QED BY <2>2
<1>5. \E x : Defines(x, last)
  BY <1>4
<1>6. States(prog, f, calls) = CHOOSE x : Defines(x, last)
  BY Zenon DEF States, StateFrom
<1>7. Defines(States(prog, f, calls), last)
  <2> HIDE DEF Defines
  <2> QED BY <1>5, <1>6, Zenon
<1> QED BY <1>7

MeanFrom(prog, mean, f) ==
  States(prog, f, [g \in 1 .. f - 1 |-> mean[g]])[Len(prog[f].statements)]

LEMMA MeaningDefined ==
  ASSUME NEW prog, Len(prog) \in Nat
  PROVE  Meaning(prog) =
           [n \in 1 .. Len(prog) |-> MeanFrom(prog, Meaning(prog), n)]
<1> DEFINE last == Len(prog)
           Defines(x, k) == x = [n \in 1 .. k |-> MeanFrom(prog, x, n)]
           T == { k \in 0 .. last : \E x : Defines(x, k) }
<1>1. ASSUME NEW x, NEW y, NEW n \in 1 .. last, \A j \in 1 .. n - 1 : x[j] = y[j]
      PROVE  MeanFrom(prog, x, n) = MeanFrom(prog, y, n)
  <2>1. [g \in 1 .. n - 1 |-> x[g]] = [g \in 1 .. n - 1 |-> y[g]]
    BY <1>1
  <2> QED BY <2>1 DEF MeanFrom
<1>2. 0 \in T
  <2>1. Defines([n \in 1 .. 0 |-> {}], 0)
    OBVIOUS
  <2>2. \E x : Defines(x, 0)
    <3> HIDE DEF Defines
    <3> QED BY <2>1
  <2> HIDE DEF Defines
  <2> QED BY <2>2
<1>3. ASSUME NEW k \in 0 .. last - 1, k \in T
      PROVE  k + 1 \in T
  <2>1. PICK x : Defines(x, k)
    BY <1>3
  <2> DEFINE y == [n \in 1 .. k + 1 |-> IF n <= k THEN x[n] ELSE MeanFrom(prog, x, k + 1)]
  <2>2. k \in Nat /\ k + 1 \in 0 .. last
    OBVIOUS
  <2>3. \A j \in 1 .. k : x[j] = y[j]
    BY <2>2
  <2>4. \A n \in 1 .. k + 1 : y[n] = MeanFrom(prog, x, n)
    BY <2>1, <2>2
  <2>5. ASSUME NEW n \in 1 .. k + 1
        PROVE  MeanFrom(prog, x, n) = MeanFrom(prog, y, n)
    <3>1. n \in 1 .. last /\ \A j \in 1 .. n - 1 : j \in 1 .. k
      BY <2>2
    <3>2. \A j \in 1 .. n - 1 : x[j] = y[j]
      BY <2>3, <3>1
    <3> HIDE DEF y
    <3> QED BY <1>1, <3>1, <3>2
  <2>6. \A n \in 1 .. k + 1 : y[n] = MeanFrom(prog, y, n)
    BY <2>4, <2>5
  <2>7. y = [n \in 1 .. k + 1 |-> y[n]]
    OBVIOUS
  <2> HIDE DEF y
  <2>8. Defines(y, k + 1)
    BY <2>6, <2>7
  <2> HIDE DEF Defines
  <2> QED BY <2>2, <2>8
<1>4. last \in T
  <2>1. \A k \in 0 .. last - 1 : k \in T => k + 1 \in T
    BY <1>3
  <2> HIDE DEF T
  <2>2. 0 .. last \subseteq T
    BY <1>2, <2>1, Counting
  <2> QED BY <2>2
<1>5. \E x : Defines(x, last)
  BY <1>4
<1>6. Meaning(prog) = CHOOSE x : Defines(x, last)
  BY Zenon DEF Meaning, MeanFrom
<1>7. Defines(Meaning(prog), last)
  <2> HIDE DEF Defines
  <2> QED BY <1>5, <1>6, Zenon
<1> QED BY <1>7

----------------------------------------------------------------------------
(* Frames.                                                                 *)

FrameOf(q, f, calls) == Frames(q, f, calls)[Len(q)]

IsFrame(x, n) ==
  /\ x = [cell |-> x.cell, shown |-> x.shown, returned |-> x.returned]
  /\ IsSequence(x.cell) /\ Len(x.cell) = n

LEMMA FrameSteps ==
  ASSUME NEW q, Len(q) \in Nat, NEW f, NEW calls
  PROVE  /\ Frames(q, f, calls)[0] = NewFrame
         /\ \A n \in 1 .. Len(q) :
              Frames(q, f, calls)[n] =
                IF q[n].at[1] = f THEN Perform(Frames(q, f, calls)[n - 1], q[n], calls)
                ELSE Answer(Frames(q, f, calls)[n - 1], 0)
<1> DEFINE frames == Frames(q, f, calls)
<1>1. frames = [n \in 0 .. Len(q) |-> FrameFrom(q, f, calls, frames, n)]
  BY FramesDefined
<1> HIDE DEF frames
<1>2. \A n \in 0 .. Len(q) : frames[n] = FrameFrom(q, f, calls, frames, n)
  BY <1>1
<1>3. frames[0] = NewFrame
  BY <1>2 DEF FrameFrom
<1>4. ASSUME NEW n \in 1 .. Len(q)
      PROVE  frames[n] = IF q[n].at[1] = f THEN Perform(frames[n - 1], q[n], calls)
                         ELSE Answer(frames[n - 1], 0)
  BY <1>2 DEF FrameFrom
<1> QED BY <1>3, <1>4 DEF frames

(* Requests that come later change no frame before them.                   *)
LEMMA FramesKept ==
  ASSUME NEW q, NEW r, Len(q) \in Nat, Len(r) \in Nat, Len(q) <= Len(r),
         \A n \in 1 .. Len(q) : r[n] = q[n], NEW f, NEW calls
  PROVE  \A n \in 0 .. Len(q) : Frames(r, f, calls)[n] = Frames(q, f, calls)[n]
<1> DEFINE x == Frames(q, f, calls)
           y == Frames(r, f, calls)
           T == { n \in 0 .. Len(q) : y[n] = x[n] }
<1>1. /\ x[0] = NewFrame
      /\ \A n \in 1 .. Len(q) : x[n] = IF q[n].at[1] = f THEN Perform(x[n - 1], q[n], calls)
                                       ELSE Answer(x[n - 1], 0)
  BY FrameSteps
<1>2. /\ y[0] = NewFrame
      /\ \A n \in 1 .. Len(r) : y[n] = IF r[n].at[1] = f THEN Perform(y[n - 1], r[n], calls)
                                       ELSE Answer(y[n - 1], 0)
  BY FrameSteps
<1> HIDE DEF x, y
<1>3. 0 \in T
  BY <1>1, <1>2
<1>4. ASSUME NEW k \in 0 .. Len(q) - 1, k \in T PROVE k + 1 \in T
  <2>1. k + 1 \in 1 .. Len(q) /\ k + 1 \in 1 .. Len(r) /\ (k + 1) - 1 = k /\ y[k] = x[k]
    BY <1>4
  <2>2. r[k + 1] = q[k + 1]
    BY <2>1
  <2>3. y[k + 1] = x[k + 1]
    BY <1>1, <1>2, <2>1, <2>2
  <2> QED BY <2>1, <2>3
<1>5. 0 .. Len(q) \subseteq T
  <2>1. \A k \in 0 .. Len(q) - 1 : k \in T => k + 1 \in T
    BY <1>4
  <2> HIDE DEF T
  <2> QED BY <1>3, <2>1, Counting
<1> QED BY <1>5 DEF x, y

LEMMA FrameAppended ==
  ASSUME NEW q, IsSequence(q), NEW r, NEW f, NEW calls
  PROVE  FrameOf(Append(q, r), f, calls) =
           IF r.at[1] = f THEN Perform(FrameOf(q, f, calls), r, calls)
           ELSE Answer(FrameOf(q, f, calls), 0)
<1> DEFINE p == Append(q, r)
<1>1. /\ Len(q) \in Nat /\ Len(p) = Len(q) + 1 /\ p[Len(q) + 1] = r
      /\ \A i \in 1 .. Len(q) : p[i] = q[i]
  BY Appending
<1> HIDE DEF p
<1>2. Frames(p, f, calls)[Len(q)] = Frames(q, f, calls)[Len(q)]
  BY <1>1, FramesKept
<1>3. /\ Len(p) \in Nat /\ Len(p) \in 1 .. Len(p) /\ Len(p) - 1 = Len(q) /\ p[Len(p)] = r
  BY <1>1
<1>4. Frames(p, f, calls)[Len(p)] =
        IF p[Len(p)].at[1] = f THEN Perform(Frames(p, f, calls)[Len(p) - 1], p[Len(p)], calls)
        ELSE Answer(Frames(p, f, calls)[Len(p) - 1], 0)
  BY <1>3, FrameSteps
<1> QED BY <1>2, <1>3, <1>4 DEF FrameOf, p

LEMMA FrameOfNothing ==
  ASSUME NEW f, NEW calls
  PROVE  FrameOf(<< >>, f, calls) = NewFrame
BY FrameSteps DEF FrameOf

LEMMA FrameShape ==
  ASSUME NEW x, NEW n, IsFrame(x, n)
  PROVE  \E c, s, t : /\ x = [cell |-> c, shown |-> s, returned |-> t] /\ IsSequence(c) /\ Len(c) = n
                      /\ x.cell = c /\ x.shown = s /\ x.returned = t
BY DEF IsFrame

LEMMA FrameMade ==
  ASSUME NEW x, NEW c, NEW s, NEW t, x = [cell |-> c, shown |-> s, returned |-> t], IsSequence(c)
  PROVE  IsFrame(x, Len(c)) /\ x.cell = c /\ x.shown = s /\ x.returned = t
BY DEF IsFrame

LEMMA CellsChanged ==
  ASSUME NEW c, NEW s, NEW t, NEW x, x = [cell |-> c, shown |-> s, returned |-> t], NEW d
  PROVE  [x EXCEPT !.cell = d] = [cell |-> d, shown |-> s, returned |-> t]
OBVIOUS

(* What an answer adds.                                                    *)
LEMMA Answering ==
  ASSUME NEW x, NEW n \in Nat, IsFrame(x, n), NEW number
  PROVE  /\ IsFrame(Answer(x, number), n + 1)
         /\ Answer(x, number).shown = x.shown /\ Answer(x, number).returned = x.returned
         /\ Answer(x, number).cell[n + 1] = number
         /\ \A k \in 1 .. n : Answer(x, number).cell[k] = x.cell[k]
<1>1. PICK c, s, t : /\ x = [cell |-> c, shown |-> s, returned |-> t] /\ IsSequence(c) /\ Len(c) = n
                     /\ x.cell = c /\ x.shown = s /\ x.returned = t
  BY FrameShape
<1> DEFINE d == Append(c, number)
<1>2. /\ IsSequence(d) /\ Len(d) = n + 1 /\ d[n + 1] = number
      /\ \A k \in 1 .. n : d[k] = c[k]
  BY <1>1, Appending
<1>3. Answer(x, number) = [x EXCEPT !.cell = d]
  BY <1>1 DEF Answer
<1> HIDE DEF d
<1>4. Answer(x, number) = [cell |-> d, shown |-> s, returned |-> t]
  BY <1>1, <1>3, CellsChanged
<1>5. /\ IsFrame(Answer(x, number), Len(d)) /\ Answer(x, number).cell = d
      /\ Answer(x, number).shown = s /\ Answer(x, number).returned = t
  BY <1>2, <1>4, FrameMade
<1> QED BY <1>1, <1>2, <1>5

Replaced(c, k, number) == [c EXCEPT ![k] = number]

LEMMA Replacing ==
  ASSUME NEW c, IsSequence(c), NEW k, NEW number
  PROVE  /\ IsSequence(Replaced(c, k, number)) /\ Len(Replaced(c, k, number)) = Len(c)
         /\ k \in 1 .. Len(c) => Replaced(c, k, number)[k] = number
         /\ \A j \in 1 .. Len(c) : j # k => Replaced(c, k, number)[j] = c[j]
<1>0. PICK d : d = Replaced(c, k, number) /\ d = [c EXCEPT ![k] = number]
  BY DEF Replaced
<1>1. PICK S : c \in Seq(S)
  BY DEF IsSequence
<1>2. PICK n \in Nat : n = Len(c)
  BY <1>1
<1>3. c \in [1 .. n -> S \cup {number}]
  <2>1. c \in [1 .. n -> S]
    BY <1>1, <1>2
  <2> QED BY <2>1
<1>4. d \in [1 .. n -> S \cup {number}]
  BY <1>0, <1>3
<1>5. d \in Seq(S \cup {number})
  <2>1. PICK T : T = S \cup {number}
    OBVIOUS
  <2>2. d \in UNION {[1 .. m -> T] : m \in Nat}
    BY <1>4, <2>1
  <2>3. d \in Seq(T)
    BY <2>2, SeqDef, Zenon
  <2> QED BY <2>1, <2>3
<1>6. Len(d) = n
  BY <1>4, <1>5
<1>7. /\ k \in 1 .. n => d[k] = number
      /\ \A j \in 1 .. n : j # k => d[j] = c[j]
  BY <1>0, <1>3
<1> QED BY <1>0, <1>2, <1>5, <1>6, <1>7 DEF IsSequence

(* A cell that is written leaves the others as they are.                   *)
Stored(x, k, number) == [x EXCEPT !.cell[k] = number]
Shown(x, told)       == [x EXCEPT !.shown = told]
Returned(x, number)  == [x EXCEPT !.returned = number]

LEMMA Writing ==
  ASSUME NEW x, NEW n, IsFrame(x, n), NEW k, NEW number,
         NEW y, y = Stored(x, k, number)
  PROVE  /\ IsFrame(y, n) /\ y.shown = x.shown /\ y.returned = x.returned
         /\ k \in 1 .. n => y.cell[k] = number
         /\ \A j \in 1 .. n : j # k => y.cell[j] = x.cell[j]
<1>1. PICK c, s, t : /\ x = [cell |-> c, shown |-> s, returned |-> t] /\ IsSequence(c) /\ Len(c) = n
                     /\ x.cell = c /\ x.shown = s /\ x.returned = t
  BY FrameShape
<1> DEFINE d == Replaced(c, k, number)
<1>3. /\ IsSequence(d) /\ Len(d) = n
      /\ k \in 1 .. n => d[k] = number
      /\ \A j \in 1 .. n : j # k => d[j] = c[j]
  <2>1. IsSequence(c)
    BY <1>1
  <2>2. /\ IsSequence(d) /\ Len(d) = Len(c)
        /\ k \in 1 .. Len(c) => d[k] = number
        /\ \A j \in 1 .. Len(c) : j # k => d[j] = c[j]
    BY <2>1, Replacing
  <2> QED BY <1>1, <2>2
<1>4. y = [x EXCEPT !.cell = d]
  BY <1>1 DEF Replaced, Stored
<1> HIDE DEF d
<1>5. y = [cell |-> d, shown |-> s, returned |-> t]
  BY <1>1, <1>4, CellsChanged
<1>6. IsFrame(y, Len(d)) /\ y.cell = d /\ y.shown = s /\ y.returned = t
  <2>1. IsSequence(d)
    BY <1>3
  <2> QED BY <1>5, <2>1, FrameMade, Zenon
<1> QED BY <1>1, <1>3, <1>6

(* What is shown or returned changes no cell.                              *)
LEMMA Telling ==
  ASSUME NEW x, NEW n, IsFrame(x, n), NEW told
  PROVE  /\ IsFrame(Shown(x, told), n)
         /\ Shown(x, told).cell = x.cell
         /\ Shown(x, told).shown = told /\ Shown(x, told).returned = x.returned
         /\ IsFrame(Returned(x, told), n)
         /\ Returned(x, told).cell = x.cell
         /\ Returned(x, told).shown = x.shown /\ Returned(x, told).returned = told
<1>1. PICK c, s, t : /\ x = [cell |-> c, shown |-> s, returned |-> t] /\ IsSequence(c) /\ Len(c) = n
                     /\ x.cell = c /\ x.shown = s /\ x.returned = t
  BY FrameShape
<1>2. ASSUME NEW y, y = Shown(x, told)
      PROVE  IsFrame(y, n) /\ y.cell = c /\ y.shown = told /\ y.returned = t
  <2>1. y = [cell |-> c, shown |-> told, returned |-> t]
    BY <1>1, <1>2 DEF Shown
  <2> QED BY <1>1, <2>1, FrameMade
<1>3. ASSUME NEW y, y = Returned(x, told)
      PROVE  IsFrame(y, n) /\ y.cell = c /\ y.shown = s /\ y.returned = told
  <2>1. y = [cell |-> c, shown |-> s, returned |-> told]
    BY <1>1, <1>3 DEF Returned
  <2> QED BY <1>1, <2>1, FrameMade
<1> QED BY <1>1, <1>2, <1>3

(* What each request does to a frame.                                      *)
Same(x, y, n) == \A k \in 1 .. n : y.cell[k] = x.cell[k]

LEMMA PerformMemory ==
  ASSUME NEW x, NEW n \in Nat, IsFrame(x, n), NEW r, NEW calls, r.op \in {"Alloca", "Store", "Load"},
         NEW y, y = Perform(x, r, calls)
  PROVE  /\ IsFrame(y, n + 1) /\ y.shown = x.shown /\ y.returned = x.returned
         /\ r.op # "Store" => Same(x, y, n)
         /\ r.op = "Load" => y.cell[n + 1] = x.cell[r.slot]
         /\ r.op = "Store" =>
              /\ r.slot \in 1 .. n => y.cell[r.slot] = Get(x, r.value)
              /\ \A k \in 1 .. n : k # r.slot => y.cell[k] = x.cell[k]
<1>1. CASE r.op = "Alloca"
  <2>1. y = Answer(x, 0)
    BY <1>1 DEF Perform
  <2> QED BY <1>1, <2>1, Answering DEF Same
<1>2. CASE r.op = "Load"
  <2>1. y = Answer(x, x.cell[r.slot])
    BY <1>2 DEF Perform
  <2> QED BY <1>2, <2>1, Answering DEF Same
<1>3. CASE r.op = "Store"
  <2>1. PICK z : z = Stored(x, r.slot, Get(x, r.value))
    OBVIOUS
  <2>2. y = Answer(z, 0)
    BY <1>3, <2>1 DEF Perform, Stored
  <2>3. /\ IsFrame(z, n) /\ z.shown = x.shown /\ z.returned = x.returned
        /\ r.slot \in 1 .. n => z.cell[r.slot] = Get(x, r.value)
        /\ \A k \in 1 .. n : k # r.slot => z.cell[k] = x.cell[k]
    BY <2>1, Writing
  <2>4. /\ IsFrame(y, n + 1) /\ y.shown = z.shown /\ y.returned = z.returned
        /\ \A k \in 1 .. n : y.cell[k] = z.cell[k]
    BY <2>2, <2>3, Answering
  <2> QED BY <1>3, <2>3, <2>4
<1> QED BY <1>1, <1>2, <1>3

AfterCall(x, n, called, y) ==
  /\ IsFrame(y, n + 1) /\ Same(x, y, n) /\ y.returned = x.returned
  /\ y.shown = x.shown \o called.shown
  /\ y.cell[n + 1] = called.returned

LEMMA PerformCall ==
  ASSUME NEW x, NEW n \in Nat, IsFrame(x, n), NEW r, NEW calls, r.op = "Call",
         NEW y, y = Perform(x, r, calls)
  PROVE  AfterCall(x, n, calls[r.function], y)
<1>1. PICK told : told = x.shown \o calls[r.function].shown
  OBVIOUS
<1>2. PICK z : z = Shown(x, told)
  OBVIOUS
<1>3. y = Answer(z, calls[r.function].returned)
  BY <1>1, <1>2 DEF Perform, Shown
<1>4. IsFrame(z, n) /\ z.cell = x.cell /\ z.shown = told /\ z.returned = x.returned
  BY <1>2, Telling
<1>5. /\ IsFrame(y, n + 1) /\ y.shown = z.shown /\ y.returned = z.returned
      /\ y.cell[n + 1] = calls[r.function].returned
      /\ \A k \in 1 .. n : y.cell[k] = z.cell[k]
  BY <1>3, <1>4, Answering
<1> QED BY <1>1, <1>4, <1>5 DEF Same, AfterCall

LEMMA PerformOutput ==
  ASSUME NEW x, NEW n \in Nat, IsFrame(x, n), NEW r, NEW calls, r.op \in {"Print", "Ret"},
         NEW y, y = Perform(x, r, calls)
  PROVE  /\ IsFrame(y, n + 1) /\ Same(x, y, n)
         /\ r.op = "Ret" => y.returned = Get(x, r.value) /\ y.shown = x.shown
         /\ r.op = "Print" =>
              /\ y.returned = x.returned
              /\ y.shown = Append(x.shown, Printed(x, r.value))
<1>1. PICK told : told = Append(x.shown, Printed(x, r.value))
  OBVIOUS
<1>2. PICK z : z = IF r.op = "Ret" THEN Returned(x, Get(x, r.value)) ELSE Shown(x, told)
  OBVIOUS
<1>3. y = Answer(z, 0)
  BY <1>1, <1>2 DEF Perform, Returned, Shown
<1>4. /\ IsFrame(z, n) /\ z.cell = x.cell
      /\ r.op = "Ret" => z.returned = Get(x, r.value) /\ z.shown = x.shown
      /\ r.op = "Print" => z.returned = x.returned /\ z.shown = told
  <2>1. CASE r.op = "Ret"
    BY <1>2, <2>1, Telling
  <2>2. CASE r.op # "Ret"
    BY <1>2, <2>2, Telling
  <2> QED BY <2>1, <2>2
<1>5. /\ IsFrame(y, n + 1) /\ y.shown = z.shown /\ y.returned = z.returned
      /\ \A k \in 1 .. n : y.cell[k] = z.cell[k]
  BY <1>3, <1>4, Answering
<1> QED BY <1>1, <1>4, <1>5 DEF Same

AfterNumber(x, n, number, y) ==
  /\ IsFrame(y, n + 1) /\ Same(x, y, n) /\ y.shown = x.shown /\ y.returned = x.returned
  /\ y.cell[n + 1] = number

LEMMA PerformOther ==
  ASSUME NEW x, NEW n \in Nat, IsFrame(x, n), NEW r, NEW calls,
         r.op \notin {"Alloca", "Store", "Load", "Call", "Print", "Ret"},
         NEW y, y = Perform(x, r, calls)
  PROVE  AfterNumber(x, n, Compute(r.op, r.lhs.type, Get(x, r.lhs), Get(x, r.rhs)), y)
<1>1. y = Answer(x, Compute(r.op, r.lhs.type, Get(x, r.lhs), Get(x, r.rhs)))
  BY DEF Perform
<1> QED BY <1>1, Answering DEF Same, AfterNumber

LEMMA PerformFrame ==
  ASSUME NEW x, NEW n \in Nat, IsFrame(x, n), NEW r, NEW calls
  PROVE  IsFrame(Perform(x, r, calls), n + 1)
<1>1. PICK y : y = Perform(x, r, calls)
  OBVIOUS
<1>2. CASE r.op \in {"Alloca", "Store", "Load"}
  BY <1>1, <1>2, PerformMemory
<1>3. CASE r.op = "Call"
  BY <1>1, <1>3, PerformCall DEF AfterCall
<1>4. CASE r.op \in {"Print", "Ret"}
  <2>1. IsFrame(y, n + 1)
    BY <1>1, <1>4, PerformOutput
  <2> QED BY <1>1, <2>1
<1>5. CASE r.op \notin {"Alloca", "Store", "Load", "Call", "Print", "Ret"}
  BY <1>1, <1>5, PerformOther DEF AfterNumber
<1> QED BY <1>2, <1>3, <1>4, <1>5

LEMMA FramesAreFrames ==
  ASSUME NEW q, Len(q) \in Nat, NEW f, NEW calls
  PROVE  IsFrame(FrameOf(q, f, calls), Len(q))
<1> DEFINE x == Frames(q, f, calls)
           T == { n \in 0 .. Len(q) : IsFrame(x[n], n) }
<1>1. /\ x[0] = NewFrame
      /\ \A n \in 1 .. Len(q) : x[n] = IF q[n].at[1] = f THEN Perform(x[n - 1], q[n], calls)
                                       ELSE Answer(x[n - 1], 0)
  BY FrameSteps
<1>2. FrameOf(q, f, calls) = x[Len(q)]
  BY DEF FrameOf
<1> HIDE DEF x
<1>3. 0 \in T
  <2>1. << >> \in Seq({}) /\ Len(<< >>) = 0
    OBVIOUS
  <2>2. IsSequence(<< >>)
    BY <2>1 DEF IsSequence
  <2>3. IsFrame(NewFrame, 0)
    BY <2>1, <2>2 DEF IsFrame, NewFrame
  <2> QED BY <1>1, <2>3
<1>4. ASSUME NEW k \in 0 .. Len(q) - 1, k \in T PROVE k + 1 \in T
  <2>1. k \in Nat /\ k + 1 \in 1 .. Len(q) /\ k + 1 \in 0 .. Len(q) /\ (k + 1) - 1 = k
    OBVIOUS
  <2>2. IsFrame(x[k], k)
    BY <1>4
  <2>3. IsFrame(Perform(x[k], q[k + 1], calls), k + 1) /\ IsFrame(Answer(x[k], 0), k + 1)
    BY <2>1, <2>2, PerformFrame, Answering
  <2>4. x[k + 1] = IF q[k + 1].at[1] = f THEN Perform(x[k], q[k + 1], calls) ELSE Answer(x[k], 0)
    BY <1>1, <2>1
  <2> QED BY <2>1, <2>3, <2>4
<1>5. 0 .. Len(q) \subseteq T
  <2>1. \A k \in 0 .. Len(q) - 1 : k \in T => k + 1 \in T
    BY <1>4
  <2> HIDE DEF T
  <2> QED BY <1>3, <2>1, Counting
<1> QED BY <1>2, <1>5

----------------------------------------------------------------------------
(* The source, step by step.                                               *)
Numbered(prog, e, held, calls, number) ==
  \A i \in 1 .. Len(e) :
    /\ e[i].kind \in LiteralTypes => number[i] = e[i].value
    /\ e[i].kind = "Variable" => number[i] = held[e[i].name]
    /\ e[i].kind = "FunctionCall" => number[i] = calls[Callee(prog, e[i].name)].returned
    /\ e[i].kind = "Binary" =>
         number[i] = Arithmetic(e[i].op, number[e[i].lhs], number[e[i].rhs])

LEMMA EvaluatedSteps ==
  ASSUME NEW prog, NEW e, NEW names, IsExpression(e, names), NEW held, NEW calls
  PROVE  Numbered(prog, e, held, calls, Evaluated(prog, e, held, calls))
<1>1. PICK number : number = Evaluated(prog, e, held, calls)
  OBVIOUS
<1>2. number = [n \in 1 .. Len(e) |-> NumberFrom(prog, e, held, calls, number, n)]
  BY <1>1, EvaluatedDefined
<1>3. ASSUME NEW i \in 1 .. Len(e)
      PROVE  /\ e[i].kind \in LiteralTypes => number[i] = e[i].value
             /\ e[i].kind = "Variable" => number[i] = held[e[i].name]
             /\ e[i].kind = "FunctionCall" => number[i] = calls[Callee(prog, e[i].name)].returned
             /\ e[i].kind = "Binary" =>
                  number[i] = Arithmetic(e[i].op, number[e[i].lhs], number[e[i].rhs])
  <2>1. number[i] = NumberFrom(prog, e, held, calls, number, i)
    BY <1>2
  <2> QED BY <2>1 DEF NumberFrom, LiteralTypes
<1>4. Numbered(prog, e, held, calls, number)
  BY <1>3 DEF Numbered
<1> QED BY <1>1, <1>4

Narrated(prog, e, before, calls, told) ==
  /\ told[0] = before
  /\ \A i \in 1 .. Len(e) :
       /\ e[i].kind = "FunctionCall" =>
            told[i] = told[i - 1] \o calls[Callee(prog, e[i].name)].shown
       /\ e[i].kind # "FunctionCall" => told[i] = told[i - 1]

LEMMA ShownSteps ==
  ASSUME NEW prog, NEW e, Len(e) \in Nat, NEW before, NEW calls
  PROVE  Narrated(prog, e, before, calls, ShownBy(prog, e, before, calls))
<1> PICK told : told = ShownBy(prog, e, before, calls)
  OBVIOUS
<1>1. told = [n \in 0 .. Len(e) |-> ShownFrom(prog, e, before, calls, told, n)]
  BY ShownDefined
<1>2. \A n \in 0 .. Len(e) : told[n] = ShownFrom(prog, e, before, calls, told, n)
  BY <1>1
<1>3. told[0] = before
  BY <1>2 DEF ShownFrom
<1>4. ASSUME NEW i \in 1 .. Len(e)
      PROVE  /\ e[i].kind = "FunctionCall" =>
                  told[i] = told[i - 1] \o calls[Callee(prog, e[i].name)].shown
             /\ e[i].kind # "FunctionCall" => told[i] = told[i - 1]
  <2>1. told[i] = ShownFrom(prog, e, before, calls, told, i) /\ i # 0
    BY <1>2
  <2> QED BY <2>1, Zenon DEF ShownFrom
<1>5. Narrated(prog, e, before, calls, told)
  BY <1>3, <1>4 DEF Narrated
<1> QED BY <1>5

LEMMA StatesSteps ==
  ASSUME NEW prog, NEW f, Len(prog[f].statements) \in Nat, NEW calls,
         NEW states, states = States(prog, f, calls)
  PROVE  /\ states[0] = Begun
         /\ \A s \in 1 .. Len(prog[f].statements) :
              states[s] = After(prog, prog[f].statements[s], states[s - 1], calls)
<1>1. states = [n \in 0 .. Len(prog[f].statements) |-> StateFrom(prog, f, calls, states, n)]
  BY StatesDefined
<1>2. \A n \in 0 .. Len(prog[f].statements) : states[n] = StateFrom(prog, f, calls, states, n)
  BY <1>1
<1> QED BY <1>2 DEF StateFrom

LEMMA MeaningSteps ==
  ASSUME NEW prog, Len(prog) \in Nat, NEW f \in 1 .. Len(prog),
         NEW meant, meant = Meaning(prog)
  PROVE  meant[f] = States(prog, f, Earlier(meant, f))[Len(prog[f].statements)]
<1>1. meant = [n \in 1 .. Len(prog) |-> MeanFrom(prog, meant, n)]
  BY MeaningDefined
<1>2. meant[f] = MeanFrom(prog, meant, f)
  BY <1>1
<1> QED BY <1>2 DEF MeanFrom, Earlier

LEMMA ExecutedSteps ==
  ASSUME NEW q, NEW m \in Nat, NEW f \in 1 .. m, NEW run, run = Executed(q, m)
  PROVE  run[f] = FrameOf(q, f, Earlier(run, f))
<1>1. run = [n \in 1 .. m |-> RunFrom(q, run, n)]
  BY ExecutedDefined
<1>2. run[f] = RunFrom(q, run, f)
  BY <1>1
<1> QED BY <1>2 DEF RunFrom, FrameOf, Earlier

(* What a statement leaves.                                                *)
HeldAfter(stmt, held, number) == [held EXCEPT ![stmt.name] = number]

Changes(stmt, state, number, told, y) ==
  /\ stmt.kind \in {"Declare", "Assign"} => y.vars = HeldAfter(stmt, state.vars, number)
  /\ stmt.kind \notin {"Declare", "Assign"} => y.vars = state.vars
  /\ stmt.kind = "Show" => y.shown = Append(told, number)
  /\ stmt.kind # "Show" => y.shown = told
  /\ stmt.kind = "Return" => y.returned = number
  /\ stmt.kind # "Return" => y.returned = state.returned

LEMMA AfterParts ==
  ASSUME NEW prog, NEW stmt, NEW state, NEW calls
  PROVE  Changes(stmt, state, Evaluated(prog, stmt.value, state.vars, calls)[Len(stmt.value)],
                 ShownBy(prog, stmt.value, state.shown, calls)[Len(stmt.value)],
                 After(prog, stmt, state, calls))
BY DEF After, HeldAfter, Changes

IsTable(held) == held = [n \in Names |-> held[n]]

LEMMA HeldIsTable ==
  ASSUME NEW prog, NEW f, Len(prog[f].statements) \in Nat, NEW calls,
         NEW states, states = States(prog, f, calls)
  PROVE  \A s \in 0 .. Len(prog[f].statements) : IsTable(states[s].vars)
<1> DEFINE stmts == prog[f].statements
           T == { s \in 0 .. Len(stmts) : IsTable(states[s].vars) }
<1>1. /\ states[0] = Begun
      /\ \A s \in 1 .. Len(stmts) : states[s] = After(prog, stmts[s], states[s - 1], calls)
  BY StatesSteps
<1>2. Len(stmts) \in Nat
  OBVIOUS
<1> HIDE DEF stmts
<1>3. 0 \in T
  <2>1. IsTable(Begun.vars)
    BY DEF Begun, IsTable
  <2> QED BY <1>1, <1>2, <2>1
<1>4. ASSUME NEW k \in 0 .. Len(stmts) - 1, k \in T PROVE k + 1 \in T
  <2>1. k + 1 \in 1 .. Len(stmts) /\ k + 1 \in 0 .. Len(stmts) /\ (k + 1) - 1 = k
    BY <1>2
  <2>2. PICK y, state, stmt : y = states[k + 1] /\ state = states[k] /\ stmt = stmts[k + 1]
    OBVIOUS
  <2>3. y = After(prog, stmt, state, calls) /\ IsTable(state.vars)
    BY <1>1, <1>4, <2>1, <2>2
  <2>4. PICK number : y.vars = HeldAfter(stmt, state.vars, number) \/ y.vars = state.vars
    <3>1. PICK number, told :
            /\ number = Evaluated(prog, stmt.value, state.vars, calls)[Len(stmt.value)]
            /\ told = ShownBy(prog, stmt.value, state.shown, calls)[Len(stmt.value)]
      OBVIOUS
    <3>2. y.vars = HeldAfter(stmt, state.vars, number) \/ y.vars = state.vars
      <4>1. Changes(stmt, state, number, told, y)
        BY <2>3, <3>1, AfterParts
      <4> QED BY <4>1 DEF Changes
    <3> QED BY <3>2
  <2>5. PICK held, vars_ : held = state.vars /\ vars_ = y.vars
    OBVIOUS
  <2>6. held = [n \in Names |-> held[n]]
    BY <2>3, <2>5 DEF IsTable
  <2>7. CASE vars_ = HeldAfter(stmt, held, number)
    <3>1. vars_ = [n \in Names |-> IF n = stmt.name THEN number ELSE held[n]]
      BY <2>6, <2>7 DEF HeldAfter
    <3> QED BY <2>1, <2>2, <2>5, <3>1 DEF IsTable
  <2>8. CASE vars_ = held
    BY <2>1, <2>2, <2>3, <2>5, <2>8
  <2> QED BY <2>4, <2>5, <2>7, <2>8
<1>5. 0 .. Len(stmts) \subseteq T
  <2>1. \A k \in 0 .. Len(stmts) - 1 : k \in T => k + 1 \in T
    BY <1>4
  <2> HIDE DEF T
  <2> QED BY <1>2, <1>3, <2>1, Counting
<1> QED BY <1>5 DEF stmts

LEMMA HoldingAfter ==
  ASSUME NEW stmt, NEW held, IsTable(held), NEW number, stmt.name \in Names,
         NEW after, after = HeldAfter(stmt, held, number)
  PROVE  /\ after[stmt.name] = number
         /\ \A n \in Names : n # stmt.name => after[n] = held[n]
<1>1. held = [n \in Names |-> held[n]]
  BY DEF IsTable
<1>2. after = [n \in Names |-> IF n = stmt.name THEN number ELSE held[n]]
  BY <1>1 DEF HeldAfter
<1> QED BY <1>2

----------------------------------------------------------------------------
(* What is shown, number by number.                                        *)
Shows(shown, numbers) ==
  IsSequence(shown) /\ IsSequence(numbers) /\ ShowsAs(shown, numbers)

LEMMA NothingShown == Shows(<< >>, << >>)
<1>1. << >> \in Seq({}) /\ Len(<< >>) = 0
  OBVIOUS
<1>2. IsSequence(<< >>)
  BY <1>1 DEF IsSequence
<1> QED BY <1>1, <1>2 DEF Shows, ShowsAs

LEMMA ShowingOne ==
  ASSUME NEW shown, NEW numbers, Shows(shown, numbers), NEW entry, NEW number,
         entry.bits = AsBits(entry.type, number)
  PROVE  Shows(Append(shown, entry), Append(numbers, number))
<1>1. IsSequence(shown) /\ IsSequence(numbers) /\ Len(shown) = Len(numbers)
  BY DEF Shows, ShowsAs
<1> DEFINE x == Append(shown, entry)
           y == Append(numbers, number)
<1>2. /\ IsSequence(x) /\ Len(shown) \in Nat /\ Len(x) = Len(shown) + 1 /\ x[Len(shown) + 1] = entry
      /\ \A i \in 1 .. Len(shown) : x[i] = shown[i]
  BY <1>1, Appending
<1>3. /\ IsSequence(y) /\ Len(y) = Len(numbers) + 1 /\ y[Len(numbers) + 1] = number
      /\ \A i \in 1 .. Len(numbers) : y[i] = numbers[i]
  BY <1>1, Appending
<1> HIDE DEF x, y
<1>4. ASSUME NEW i \in 1 .. Len(y) PROVE x[i].bits = AsBits(x[i].type, y[i])
  <2>1. CASE i = Len(numbers) + 1
    BY <1>1, <1>2, <1>3, <2>1
  <2>2. CASE i # Len(numbers) + 1
    <3>1. i \in 1 .. Len(numbers) /\ i \in 1 .. Len(shown)
      BY <1>1, <1>2, <1>3, <2>2
    <3>2. shown[i].bits = AsBits(shown[i].type, numbers[i])
      BY <3>1 DEF Shows, ShowsAs
    <3> QED BY <1>2, <1>3, <3>1, <3>2
  <2> QED BY <2>1, <2>2
<1>5. Shows(x, y)
  BY <1>1, <1>2, <1>3, <1>4 DEF Shows, ShowsAs
<1> QED BY <1>5 DEF x, y

LEMMA ShowingMore ==
  ASSUME NEW shown, NEW numbers, Shows(shown, numbers), NEW more, NEW others, Shows(more, others)
  PROVE  Shows(shown \o more, numbers \o others)
<1>1. /\ IsSequence(shown) /\ IsSequence(numbers) /\ Len(shown) = Len(numbers)
      /\ IsSequence(more) /\ IsSequence(others) /\ Len(more) = Len(others)
  BY DEF Shows, ShowsAs
<1>a. PICK x : x = shown \o more
  OBVIOUS
<1>b. PICK y : y = numbers \o others
  OBVIOUS
<1>2. /\ IsSequence(x) /\ Len(shown) \in Nat /\ Len(more) \in Nat /\ Len(x) = Len(shown) + Len(more)
      /\ \A i \in 1 .. Len(shown) : x[i] = shown[i]
      /\ \A j \in 1 .. Len(more) : x[Len(shown) + j] = more[j]
  <2>1. IsSequence(shown) /\ IsSequence(more)
    BY <1>1
  <2>2. PICK m \in Nat, n \in Nat : m = Len(shown) /\ n = Len(more)
    BY <2>1, Concatenating
  <2>3. /\ IsSequence(x) /\ Len(x) = m + n
        /\ \A i \in 1 .. m : x[i] = shown[i]
        /\ \A j \in 1 .. n : x[m + j] = more[j]
    BY <1>a, <2>1, <2>2, Concatenating
  <2> QED BY <2>2, <2>3
<1>3. /\ IsSequence(y) /\ Len(y) = Len(numbers) + Len(others)
      /\ \A i \in 1 .. Len(numbers) : y[i] = numbers[i]
      /\ \A j \in 1 .. Len(others) : y[Len(numbers) + j] = others[j]
  <2>1. IsSequence(numbers) /\ IsSequence(others)
    BY <1>1
  <2>2. PICK m \in Nat, n \in Nat : m = Len(numbers) /\ n = Len(others)
    BY <2>1, Concatenating
  <2>3. /\ IsSequence(y) /\ Len(y) = m + n
        /\ \A i \in 1 .. m : y[i] = numbers[i]
        /\ \A j \in 1 .. n : y[m + j] = others[j]
    BY <1>b, <2>1, <2>2, Concatenating
  <2> QED BY <2>2, <2>3
<1>4. ASSUME NEW i \in 1 .. Len(y) PROVE x[i].bits = AsBits(x[i].type, y[i])
  <2>1. CASE i <= Len(shown)
    <3>1. i \in 1 .. Len(numbers) /\ i \in 1 .. Len(shown)
      BY <1>1, <1>2, <2>1
    <3>2. shown[i].bits = AsBits(shown[i].type, numbers[i])
      BY <3>1 DEF Shows, ShowsAs
    <3> QED BY <1>2, <1>3, <3>1, <3>2
  <2>2. CASE ~(i <= Len(shown))
    <3>1. PICK j : j = i - Len(shown)
      OBVIOUS
    <3>2. j \in 1 .. Len(more) /\ i = Len(shown) + j /\ i = Len(numbers) + j /\ j \in 1 .. Len(others)
      BY <1>1, <1>2, <1>3, <2>2, <3>1
    <3>3. more[j].bits = AsBits(more[j].type, others[j])
      BY <3>2 DEF Shows, ShowsAs
    <3>4. x[i] = more[j] /\ y[i] = others[j]
      BY <1>2, <1>3, <3>2
    <3> QED BY <3>3, <3>4
  <2> QED BY <2>1, <2>2
<1>5. Shows(x, y)
  BY <1>1, <1>2, <1>3, <1>4 DEF Shows, ShowsAs
<1> QED BY <1>a, <1>b, <1>5

----------------------------------------------------------------------------
(* Arithmetic on the bits that fit is arithmetic on numbers.               *)
LEMMA NarrowTypes ==
  /\ DOMAIN Narrow = {"i8", "i16"}
  /\ \A type \in DOMAIN Narrow :
       /\ Narrow[type] \in Nat \ {0}
       /\ Narrow[type] \div 2 \in Nat /\ Narrow[type] = 2 * (Narrow[type] \div 2)
<1>1. /\ DOMAIN Narrow = {"i8", "i16"}
      /\ \A type \in {"i8", "i16"} : Narrow[type] = IF type = "i8" THEN 256 ELSE 65536
  BY DEF Narrow
<1>2. 65536 \in Nat \ {0} /\ 65536 \div 2 \in Nat /\ 65536 = 2 * (65536 \div 2)
  OBVIOUS
<1>3. 256 \in Nat \ {0} /\ 256 \div 2 \in Nat /\ 256 = 2 * (256 \div 2)
  OBVIOUS
<1>4. ASSUME NEW type \in {"i8", "i16"}
      PROVE  /\ Narrow[type] \in Nat \ {0}
             /\ Narrow[type] \div 2 \in Nat /\ Narrow[type] = 2 * (Narrow[type] \div 2)
  <2>1. Narrow[type] = 256 \/ Narrow[type] = 65536
    BY <1>1
  <2> QED BY <1>2, <1>3, <2>1, SMT
<1> QED BY <1>1, <1>4

(* k times M more leaves the same remainder.                               *)
LEMMA Parts ==
  ASSUME NEW M \in Nat \ {0}, NEW l \in Int
  PROVE  l = M * (l \div M) + (l % M) /\ l % M \in 0 .. M - 1 /\ l \div M \in Int
<1>1. l = M * (l \div M) + (l % M)
  OBVIOUS
<1>2. l % M \in 0 .. M - 1
  OBVIOUS
<1>3. l \div M \in Int
  OBVIOUS
<1> QED BY <1>1, <1>2, <1>3

LEMMA Multiples ==
  ASSUME NEW M \in Nat \ {0}, NEW d \in Int, NEW c \in Int, M * d = c, c < M, -M < c
  PROVE  c = 0
<1>1. d >= 1 => M * d >= M
  OBVIOUS
<1>2. d <= -1 => M * d <= -M
  OBVIOUS
<1>3. d = 0
  BY <1>1, <1>2
<1> QED BY <1>3

LEMMA OneRemainder ==
  ASSUME NEW M \in Nat \ {0}, NEW p \in Int, NEW a \in Int, NEW q \in Int, NEW b \in Int,
         NEW k \in Int, M * p + a = M * k + (M * q + b), a \in 0 .. M - 1, b \in 0 .. M - 1
  PROVE  a = b
<1>1. M * (p - (k + q)) = b - a
  OBVIOUS
<1>2. b - a \in Int /\ b - a < M /\ -M < b - a /\ p - (k + q) \in Int
  OBVIOUS
<1>3. b - a = 0
  BY <1>1, <1>2, Multiples
<1> QED BY <1>3

LEMMA Remainder ==
  ASSUME NEW M \in Nat \ {0}, NEW k \in Int, NEW c \in Int
  PROVE  (M * k + c) % M = c % M
<1>1. M * k \in Int /\ M * k + c \in Int
  OBVIOUS
<1>2. ASSUME NEW n \in Int, n = M * k + c PROVE n % M = c % M
  <2>1. n = M * (n \div M) + (n % M) /\ n % M \in 0 .. M - 1 /\ n \div M \in Int
    BY Parts
  <2>2. c = M * (c \div M) + (c % M) /\ c % M \in 0 .. M - 1 /\ c \div M \in Int
    BY Parts
  <2>3. n % M \in Int /\ c % M \in Int
    BY <2>1, <2>2
  <2>4. M * (n \div M) + (n % M) = M * k + (M * (c \div M) + (c % M))
    BY <1>2, <2>1, <2>2
  <2> QED BY <2>1, <2>2, <2>3, <2>4, OneRemainder
<1> QED BY <1>1, <1>2

LEMMA Product ==
  ASSUME NEW M \in Int, NEW p \in Int, NEW a \in Int, NEW q \in Int, NEW b \in Int
  PROVE  (M * p + a) * (M * q + b) = M * (M * (p * q) + (p * b + q * a)) + a * b
OBVIOUS

LEMMA Remainders ==
  ASSUME NEW M \in Nat \ {0}, NEW l \in Int, NEW r \in Int
  PROVE  /\ ((l % M) + (r % M)) % M = (l + r) % M
         /\ ((l % M) - (r % M)) % M = (l - r) % M
         /\ ((l % M) * (r % M)) % M = (l * r) % M
<1>0. /\ l = M * (l \div M) + (l % M) /\ l % M \in 0 .. M - 1 /\ l \div M \in Int
      /\ r = M * (r \div M) + (r % M) /\ r % M \in 0 .. M - 1 /\ r \div M \in Int
  BY Parts
<1>1. PICK p, a, q, b : p = l \div M /\ a = l % M /\ q = r \div M /\ b = r % M
  OBVIOUS
<1>2. /\ l = M * p + a /\ r = M * q + b
      /\ p \in Int /\ a \in Int /\ q \in Int /\ b \in Int
  BY <1>0, <1>1
<1>3. ASSUME NEW k \in Int, NEW c \in Int, NEW n, n = M * k + c
      PROVE  c % M = n % M
  BY <1>3, Remainder
<1>4. (a + b) % M = (l + r) % M
  <2>1. PICK k, c, n : k = p + q /\ c = a + b /\ n = l + r
    OBVIOUS
  <2>2. n = M * k + c /\ k \in Int /\ c \in Int
    BY <1>2, <2>1
  <2>3. c % M = n % M
    BY <2>2, <1>3
  <2> QED BY <2>1, <2>3
<1>5. (a - b) % M = (l - r) % M
  <2>1. PICK k, c, n : k = p - q /\ c = a - b /\ n = l - r
    OBVIOUS
  <2>2. n = M * k + c /\ k \in Int /\ c \in Int
    BY <1>2, <2>1
  <2>3. c % M = n % M
    BY <2>2, <1>3
  <2> QED BY <2>1, <2>3
<1>6. (a * b) % M = (l * r) % M
  <2>1. M \in Int
    OBVIOUS
  <2>2. l * r = M * (M * (p * q) + (p * b + q * a)) + a * b
    BY <1>2, <2>1, Product
  <2>3. M * (p * q) + (p * b + q * a) \in Int /\ a * b \in Int
    BY <1>2, <2>1
  <2>4. PICK k, c, n : k = M * (p * q) + (p * b + q * a) /\ c = a * b /\ n = l * r
    OBVIOUS
  <2>5. n = M * k + c /\ k \in Int /\ c \in Int
    BY <2>2, <2>3, <2>4
  <2>6. c % M = n % M
    BY <2>5, <1>3
  <2> QED BY <2>4, <2>6
<1> QED BY <1>1, <1>4, <1>5, <1>6

(* Signed and unsigned numbers that fit are read back as they were.        *)
LEMMA SmallRemainder ==
  ASSUME NEW M \in Nat \ {0}, NEW l \in Int
  PROVE  /\ l \in 0 .. M - 1 => l % M = l
         /\ l \in (-M) .. -1 => l % M = l + M
<1>1. l = M * (l \div M) + (l % M) /\ l % M \in 0 .. M - 1 /\ l \div M \in Int
  BY Parts
<1>2. PICK p, a : p = l \div M /\ a = l % M
  OBVIOUS
<1>3. l = M * p + a /\ p \in Int /\ a \in Int /\ a \in 0 .. M - 1
  BY <1>1, <1>2
<1>4. ASSUME l \in 0 .. M - 1 PROVE a = l
  <2>1. M * p + a = M * 0 + (M * 0 + l)
    BY <1>3
  <2> QED BY <1>3, <1>4, <2>1, OneRemainder
<1>5. ASSUME l \in (-M) .. -1 PROVE a = l + M
  <2>1. l + M \in 0 .. M - 1 /\ l + M \in Int
    BY <1>5
  <2>2. M * p + a = M * (-1) + (M * 0 + (l + M))
    BY <1>3
  <2> QED BY <1>3, <2>1, <2>2, OneRemainder
<1> QED BY <1>2, <1>4, <1>5

LEMMA SignedBits ==
  ASSUME NEW type, NEW l \in Int,
         type \in DOMAIN Narrow => l \in (-(Narrow[type] \div 2)) .. (Narrow[type] \div 2 - 1)
  PROVE  Signed(type, AsBits(type, l)) = l
<1>1. CASE type \notin DOMAIN Narrow
  BY <1>1 DEF Signed, AsBits
<1>2. CASE type \in DOMAIN Narrow
  <2>1. PICK M, half : M = Narrow[type] /\ half = Narrow[type] \div 2
    OBVIOUS
  <2>2. M \in Nat \ {0} /\ half \in Nat /\ M = 2 * half /\ l \in (-half) .. (half - 1)
    BY <1>2, <2>1, NarrowTypes
  <2>3. PICK bits : bits = l % M
    OBVIOUS
  <2>4. AsBits(type, l) = bits
    BY <1>2, <2>1, <2>3 DEF AsBits
  <2>5. Signed(type, bits) = IF 2 * bits >= M THEN bits - M ELSE bits
    BY <1>2, <2>1 DEF Signed
  <2>6. l \in 0 .. M - 1 => bits = l
    BY <2>2, <2>3, SmallRemainder
  <2>7. l \in (-M) .. -1 => bits = l + M
    BY <2>2, <2>3, SmallRemainder
  <2>8. (IF 2 * bits >= M THEN bits - M ELSE bits) = l
    BY <2>2, <2>6, <2>7
  <2> QED BY <2>4, <2>5, <2>8
<1> QED BY <1>1, <1>2

LEMMA UnsignedBits ==
  ASSUME NEW type, NEW l \in Int, type \in DOMAIN Narrow => l \in 0 .. (Narrow[type] - 1)
  PROVE  AsBits(type, l) = l
<1>1. CASE type \notin DOMAIN Narrow
  BY <1>1 DEF AsBits
<1>2. CASE type \in DOMAIN Narrow
  <2>1. PICK M : M = Narrow[type] /\ M \in Nat \ {0}
    BY <1>2, NarrowTypes
  <2>2. l % M = l
    BY <1>2, <2>1, SmallRemainder
  <2> QED BY <1>2, <2>1, <2>2 DEF AsBits
<1> QED BY <1>1, <1>2

LEMMA BitsOfBits ==
  ASSUME NEW type, NEW l \in Int, NEW r \in Int
  PROVE  /\ AsBits(type, AsBits(type, l) + AsBits(type, r)) = AsBits(type, l + r)
         /\ AsBits(type, AsBits(type, l) - AsBits(type, r)) = AsBits(type, l - r)
         /\ AsBits(type, AsBits(type, l) * AsBits(type, r)) = AsBits(type, l * r)
<1>1. CASE type \notin DOMAIN Narrow
  <2>1. \A n : AsBits(type, n) = n
    BY <1>1 DEF AsBits
  <2>2. /\ AsBits(type, l) = l /\ AsBits(type, r) = r
        /\ AsBits(type, l + r) = l + r /\ AsBits(type, l - r) = l - r
        /\ AsBits(type, l * r) = l * r
    BY <2>1, Zenon
  <2> QED BY <2>2
<1>2. CASE type \in DOMAIN Narrow
  <2>1. PICK M : M = Narrow[type] /\ M \in Nat \ {0}
    BY <1>2, NarrowTypes
  <2>2. \A n : AsBits(type, n) = n % M
    BY <1>2, <2>1 DEF AsBits
  <2>3. /\ ((l % M) + (r % M)) % M = (l + r) % M
        /\ ((l % M) - (r % M)) % M = (l - r) % M
        /\ ((l % M) * (r % M)) % M = (l * r) % M
    <3>1. M \in Nat \ {0}
      BY <2>1
    <3> QED BY <3>1, Remainders, Zenon
  <2> QED BY <2>2, <2>3, Zenon
<1> QED BY <1>1, <1>2

LEMMA SignedOrNot ==
  ASSUME NEW type \in IntTypes
  PROVE  /\ type \in SignedTypes \/ type \in UnsignedTypes
         /\ ~(type \in SignedTypes /\ type \in UnsignedTypes)
BY DEF IntTypes, SignedTypes, UnsignedTypes

LEMMA NumberSets ==
  ASSUME NEW type \in IntTypes, NEW width, width = IntWidth[type],
         NEW M, M = Narrow[width], NEW half, half = M \div 2
  PROVE  /\ width \in DOMAIN Narrow /\ type \in SignedTypes =>
              Numbers(type) = (-half) .. (half - 1)
         /\ width \in DOMAIN Narrow /\ type \in UnsignedTypes => Numbers(type) = 0 .. (M - 1)
         /\ width \notin DOMAIN Narrow =>
              Numbers(type) = IF type \in SignedTypes THEN (-Wide) .. Wide ELSE 0 .. Wide
BY SignedOrNot, Zenon DEF Numbers

LEMMA NumbersOfType ==
  ASSUME NEW type \in IntTypes, NEW n \in Numbers(type)
  PROVE  /\ n \in Int
         /\ type \in SignedTypes /\ IntWidth[type] \in DOMAIN Narrow =>
              n \in (-(Narrow[IntWidth[type]] \div 2)) .. (Narrow[IntWidth[type]] \div 2 - 1)
         /\ type \in UnsignedTypes =>
              /\ n \in Nat
              /\ IntWidth[type] \in DOMAIN Narrow => n \in 0 .. (Narrow[IntWidth[type]] - 1)
<1>1. PICK width, M, half : width = IntWidth[type] /\ M = Narrow[width] /\ half = M \div 2
  OBVIOUS
<1>2. width \in DOMAIN Narrow => M \in Nat \ {0} /\ half \in Nat
  BY <1>1, NarrowTypes
<1>3. ~(type \in SignedTypes /\ type \in UnsignedTypes)
  BY SignedOrNot
<1>4. type \in SignedTypes \/ type \in UnsignedTypes
  BY SignedOrNot
<1>5. CASE width \in DOMAIN Narrow /\ type \in SignedTypes
  <2>1. Numbers(type) = (-half) .. (half - 1)
    BY <1>1, <1>5, NumberSets
  <2> QED BY <1>1, <1>2, <1>3, <1>5, <2>1
<1>6. CASE width \in DOMAIN Narrow /\ type \in UnsignedTypes
  <2>1. Numbers(type) = 0 .. (M - 1)
    BY <1>1, <1>6, NumberSets
  <2> QED BY <1>1, <1>2, <1>3, <1>6, <2>1
<1>7. CASE width \notin DOMAIN Narrow
  <2>1. Numbers(type) = IF type \in SignedTypes THEN (-Wide) .. Wide ELSE 0 .. Wide
    BY <1>1, <1>7, NumberSets
  <2> QED BY <1>1, <1>3, <1>7, <2>1
<1> QED BY <1>4, <1>5, <1>6, <1>7

(* An operator computed on bits is the operator on the numbers: of the     *)
(* numbers of its type where it divides.                                   *)
LEMMA Computing ==
  ASSUME NEW type \in IntTypes, NEW T, T \in {"i8", "i16"} => T = LLVMType(type),
         NEW op \in ArithmeticOperators, NEW l \in Int, NEW r \in Int,
         op = "ForwardSlash" => l \in Numbers(type) /\ r \in Numbers(type) \ {0}
  PROVE  Compute(apply(Operations(type), op), T, AsBits(T, l), AsBits(T, r))
           = AsBits(T, Arithmetic(op, l, r))
<1>1. /\ type \in SignedTypes => Operations(type) = "signed"
      /\ type \in UnsignedTypes => Operations(type) = "unsigned"
      /\ type \in SignedTypes \/ type \in UnsignedTypes
  <2>1. type \in SignedTypes \/ type \in UnsignedTypes
    BY SignedOrNot
  <2>2. ASSUME type \in SignedTypes PROVE Operations(type) = "signed"
    <3>1. /\ Operations("Int8") = "signed" /\ Operations("Int16") = "signed"
          /\ Operations("Int32") = "signed" /\ Operations("Int64") = "signed"
      BY DEF Operations, SignedTypes, UnsignedTypes, FloatTypes, LiteralTypes
    <3> QED BY <2>2, <3>1 DEF SignedTypes
  <2>3. ASSUME type \in UnsignedTypes PROVE Operations(type) = "unsigned"
    <3>1. /\ Operations("UInt8") = "unsigned" /\ Operations("UInt16") = "unsigned"
          /\ Operations("UInt32") = "unsigned" /\ Operations("UInt64") = "unsigned"
      BY DEF Operations, SignedTypes, UnsignedTypes, FloatTypes, LiteralTypes
    <3> QED BY <2>3, <3>1 DEF UnsignedTypes
  <2> QED BY <2>1, <2>2, <2>3
<1>2. Operations(type) \in {"signed", "unsigned"}
  BY <1>1
<1>3. CASE op = "Plus"
  <2>1. apply(Operations(type), op) = "Add"
    BY <1>2, <1>3 DEF apply
  <2>2. Compute("Add", T, AsBits(T, l), AsBits(T, r)) = AsBits(T, AsBits(T, l) + AsBits(T, r))
    BY DEF Compute
  <2>3. Arithmetic(op, l, r) = l + r
    BY <1>3 DEF Arithmetic
  <2> QED BY <2>1, <2>2, <2>3, BitsOfBits
<1>4. CASE op = "Minus"
  <2>1. apply(Operations(type), op) = "Sub"
    BY <1>2, <1>4 DEF apply
  <2>2. Compute("Sub", T, AsBits(T, l), AsBits(T, r)) = AsBits(T, AsBits(T, l) - AsBits(T, r))
    BY DEF Compute
  <2>3. Arithmetic(op, l, r) = l - r
    BY <1>4 DEF Arithmetic
  <2> QED BY <2>1, <2>2, <2>3, BitsOfBits
<1>5. CASE op = "Asterisk"
  <2>1. apply(Operations(type), op) = "Mul"
    BY <1>2, <1>5 DEF apply
  <2>2. Compute("Mul", T, AsBits(T, l), AsBits(T, r)) = AsBits(T, AsBits(T, l) * AsBits(T, r))
    BY DEF Compute
  <2>3. Arithmetic(op, l, r) = l * r
    BY <1>5 DEF Arithmetic
  <2> QED BY <2>1, <2>2, <2>3, BitsOfBits
<1>6. CASE op = "ForwardSlash"
  <2>1. l \in Numbers(type) /\ r \in Numbers(type) /\ r # 0
    BY <1>6
  <2>2. Arithmetic(op, l, r) = Quotient(l, r)
    BY <1>6, <2>1 DEF Arithmetic
  <2>3. CASE type \in SignedTypes
    <3>1. apply(Operations(type), op) = "SDiv"
      BY <1>1, <1>6, <2>3 DEF apply
    <3>2. Compute("SDiv", T, AsBits(T, l), AsBits(T, r)) =
            AsBits(T, Quotient(Signed(T, AsBits(T, l)), Signed(T, AsBits(T, r))))
      BY DEF Compute
    <3>3. T \in DOMAIN Narrow => IntWidth[type] = T
      BY NarrowTypes DEF LLVMType, IntTypes, SignedTypes, UnsignedTypes
    <3>4. T \in DOMAIN Narrow =>
            /\ l \in (-(Narrow[T] \div 2)) .. (Narrow[T] \div 2 - 1)
            /\ r \in (-(Narrow[T] \div 2)) .. (Narrow[T] \div 2 - 1)
      <4>1. /\ IntWidth[type] \in DOMAIN Narrow =>
                  l \in (-(Narrow[IntWidth[type]] \div 2)) .. (Narrow[IntWidth[type]] \div 2 - 1)
            /\ IntWidth[type] \in DOMAIN Narrow =>
                  r \in (-(Narrow[IntWidth[type]] \div 2)) .. (Narrow[IntWidth[type]] \div 2 - 1)
        BY <2>1, <2>3, NumbersOfType
      <4> QED BY <3>3, <4>1
    <3>5. Signed(T, AsBits(T, l)) = l /\ Signed(T, AsBits(T, r)) = r
      BY <3>4, SignedBits
    <3> QED BY <2>2, <3>1, <3>2, <3>5
  <2>4. CASE type \in UnsignedTypes
    <3>1. apply(Operations(type), op) = "UDiv"
      BY <1>1, <1>6, <2>4 DEF apply
    <3>2. Compute("UDiv", T, AsBits(T, l), AsBits(T, r)) = AsBits(T, AsBits(T, l) \div AsBits(T, r))
      BY DEF Compute
    <3>3. T \in DOMAIN Narrow => IntWidth[type] = T
      BY NarrowTypes DEF LLVMType, IntTypes, SignedTypes, UnsignedTypes
    <3>4. /\ l \in Nat /\ r \in Nat
          /\ T \in DOMAIN Narrow => l \in 0 .. (Narrow[T] - 1) /\ r \in 0 .. (Narrow[T] - 1)
      <4>1. /\ l \in Nat /\ r \in Nat
            /\ IntWidth[type] \in DOMAIN Narrow =>
                 l \in 0 .. (Narrow[IntWidth[type]] - 1) /\ r \in 0 .. (Narrow[IntWidth[type]] - 1)
        BY <2>1, <2>4, NumbersOfType
      <4> QED BY <3>3, <4>1
    <3>5. AsBits(T, l) = l /\ AsBits(T, r) = r
      BY <3>4, UnsignedBits
    <3>6. Quotient(l, r) = l \div r
      BY <2>1, <3>4 DEF Quotient, Magnitude
    <3> QED BY <2>2, <3>1, <3>2, <3>5, <3>6
  <2> QED BY <1>1, <2>3, <2>4
<1> QED BY <1>3, <1>4, <1>5, <1>6 DEF ArithmeticOperators

----------------------------------------------------------------------------
(* Where the two runs stand when the generator is at `p': the function f   *)
(* has run that many statements, and shown that much.                      *)
StateAt(prog, f, s) == States(prog, f, Earlier(Meaning(prog), f))[s]

NumbersAt(prog, f, s) ==
  Evaluated(prog, prog[f].statements[s].value, StateAt(prog, f, s - 1).vars,
            Earlier(Meaning(prog), f))

ToldAt(prog, f, s) ==
  ShownBy(prog, prog[f].statements[s].value, StateAt(prog, f, s - 1).shown,
          Earlier(Meaning(prog), f))

StatementsRun(prog, p, f) ==
  IF f < p[1] THEN Len(prog[f].statements)
  ELSE IF f = p[1] /\ p[2] > 0 THEN p[2] - 1
  ELSE 0

Told(prog, p, f) ==
  IF f = p[1] /\ p[2] > 0 /\ p[3] > 0 THEN ToldAt(prog, f, p[2])[p[3] - 1]
  ELSE StateAt(prog, f, StatementsRun(prog, p, f)).shown

(* The functions before f do what they mean.                               *)
Agrees(x, m) == x.returned = m.returned /\ Shows(x.shown, m.shown)

AgreeBefore(prog, calls, f) == \A g \in 1 .. f - 1 : Agrees(calls[g], Meaning(prog)[g])

OutputFits(prog, q, p, f) ==
  \A calls : AgreeBefore(prog, calls, f) =>
    /\ FrameOf(q, f, calls).returned = StateAt(prog, f, StatementsRun(prog, p, f)).returned
    /\ Shows(FrameOf(q, f, calls).shown, Told(prog, p, f))

(* The slots hold the variables, the values the numbers, as bits.          *)
HoldsSlots(q, x, slots, held) ==
  \A n \in Names : slots[n] # NoRequest => x.cell[slots[n]] = AsBits(q[slots[n]].type, held[n])

Holds(x, value, number) ==
  value.of[1] \in {"constant", "request"} /\ Get(x, value) = AsBits(value.type, number)

HoldsValues(x, vals, numbers) == \A i \in 1 .. Len(vals) : Holds(x, vals[i], numbers[i])

MemoryFits(prog, q, p, vals, slots) ==
  \A calls : AgreeBefore(prog, calls, p[1]) =>
    /\ HoldsSlots(q, FrameOf(q, p[1], calls), slots, StateAt(prog, p[1], p[2] - 1).vars)
    /\ p[3] > 0 => HoldsValues(FrameOf(q, p[1], calls), vals, NumbersAt(prog, p[1], p[2]))

LEMMA StateAfter ==
  ASSUME NEW prog, NEW f, Len(prog[f].statements) \in Nat,
         NEW s \in 1 .. Len(prog[f].statements),
         NEW stmt, stmt = prog[f].statements[s]
  PROVE  Changes(stmt, StateAt(prog, f, s - 1), NumbersAt(prog, f, s)[Len(stmt.value)],
                 ToldAt(prog, f, s)[Len(stmt.value)], StateAt(prog, f, s))
<1>1. PICK calls, states : calls = Earlier(Meaning(prog), f) /\ states = States(prog, f, calls)
  OBVIOUS
<1>2. states[s] = After(prog, prog[f].statements[s], states[s - 1], calls)
  BY <1>1, StatesSteps
<1>3. states[s] = StateAt(prog, f, s) /\ states[s - 1] = StateAt(prog, f, s - 1)
  BY <1>1 DEF StateAt
<1>4. PICK before : before = StateAt(prog, f, s - 1)
  OBVIOUS
<1>5. NumbersAt(prog, f, s) = Evaluated(prog, stmt.value, before.vars, calls)
  BY <1>1, <1>4 DEF NumbersAt
<1>6. ToldAt(prog, f, s) = ShownBy(prog, stmt.value, before.shown, calls)
  BY <1>1, <1>4 DEF ToldAt
<1>7. StateAt(prog, f, s) = After(prog, stmt, before, calls)
  BY <1>2, <1>3, <1>4
<1> QED BY <1>4, <1>5, <1>6, <1>7, AfterParts

LEMMA StateBegun ==
  ASSUME NEW prog, NEW f, Len(prog[f].statements) \in Nat
  PROVE  StateAt(prog, f, 0) = Begun
<1>1. PICK states : states = States(prog, f, Earlier(Meaning(prog), f))
  OBVIOUS
<1>2. states[0] = Begun
  BY <1>1, StatesSteps
<1> QED BY <1>1, <1>2 DEF StateAt

LEMMA VariablesAt ==
  ASSUME NEW prog, NEW f, Len(prog[f].statements) \in Nat,
         NEW s \in 0 .. Len(prog[f].statements)
  PROVE  IsTable(StateAt(prog, f, s).vars)
<1>1. PICK calls, states : calls = Earlier(Meaning(prog), f) /\ states = States(prog, f, calls)
  OBVIOUS
<1>2. IsTable(states[s].vars)
  BY <1>1, HeldIsTable
<1> QED BY <1>1, <1>2 DEF StateAt

LEMMA MeantLast ==
  ASSUME NEW prog, Len(prog) \in Nat, NEW f \in 1 .. Len(prog)
  PROVE  Meaning(prog)[f] = StateAt(prog, f, Len(prog[f].statements))
<1>1. PICK meant : meant = Meaning(prog)
  OBVIOUS
<1>2. meant[f] = States(prog, f, Earlier(meant, f))[Len(prog[f].statements)]
  BY <1>1, MeaningSteps
<1> QED BY <1>1, <1>2 DEF StateAt

LEMMA NumbersOfNodes ==
  ASSUME NEW prog, NEW f, NEW s, NEW names,
         IsExpression(prog[f].statements[s].value, names)
  PROVE  Numbered(prog, prog[f].statements[s].value, StateAt(prog, f, s - 1).vars,
                  Earlier(Meaning(prog), f), NumbersAt(prog, f, s))
BY EvaluatedSteps DEF NumbersAt

LEMMA ToldByNodes ==
  ASSUME NEW prog, NEW f, NEW s, Len(prog[f].statements[s].value) \in Nat
  PROVE  Narrated(prog, prog[f].statements[s].value, StateAt(prog, f, s - 1).shown,
                  Earlier(Meaning(prog), f), ToldAt(prog, f, s))
BY ShownSteps DEF ToldAt

----------------------------------------------------------------------------
(* Requests made for one function do not disturb the frames of others, nor *)
(* its own slots and values.                                               *)
OthersKept(q, r, g) ==
  \A f, calls : f # g =>
    /\ FrameOf(r, f, calls).shown = FrameOf(q, f, calls).shown
    /\ FrameOf(r, f, calls).returned = FrameOf(q, f, calls).returned

LEMMA OneRequest ==
  ASSUME NEW q, IsSequence(q), NEW r, NEW g, r.at[1] = g
  PROVE  OthersKept(q, Append(q, r), g)
<1> SUFFICES ASSUME NEW f, NEW calls, f # g
             PROVE  /\ FrameOf(Append(q, r), f, calls).shown = FrameOf(q, f, calls).shown
                    /\ FrameOf(Append(q, r), f, calls).returned = FrameOf(q, f, calls).returned
  BY DEF OthersKept
<1>1. PICK x : x = FrameOf(q, f, calls)
  OBVIOUS
<1>2. Len(q) \in Nat
  BY Appending
<1>3. IsFrame(x, Len(q))
  BY <1>1, <1>2, FramesAreFrames
<1>4. Answer(x, 0).shown = x.shown /\ Answer(x, 0).returned = x.returned
  BY <1>2, <1>3, Answering
<1>5. FrameOf(Append(q, r), f, calls) = Answer(x, 0)
  BY <1>1, FrameAppended
<1> QED BY <1>1, <1>4, <1>5

LEMMA OwnRequest ==
  ASSUME NEW q, IsSequence(q), NEW r, NEW calls
  PROVE  /\ Len(q) \in Nat /\ IsFrame(FrameOf(q, r.at[1], calls), Len(q))
         /\ FrameOf(Append(q, r), r.at[1], calls) = Perform(FrameOf(q, r.at[1], calls), r, calls)
<1>1. Len(q) \in Nat
  BY Appending
<1>2. IsFrame(FrameOf(q, r.at[1], calls), Len(q))
  BY <1>1, FramesAreFrames
<1> QED BY <1>1, <1>2, FrameAppended

Runs(q, t, r, g) ==
  \A calls, x, y :
    x = FrameOf(q, g, calls) /\ y = FrameOf(t, g, calls) =>
      IsFrame(x, Len(q)) /\ y = Perform(x, r, calls)

LEMMA OwnStep ==
  ASSUME NEW q, IsSequence(q), NEW r
  PROVE  Runs(q, Append(q, r), r, r.at[1])
BY OwnRequest DEF Runs

LEMMA OthersTwice ==
  ASSUME NEW q, NEW r, NEW t, NEW g, OthersKept(q, r, g), OthersKept(r, t, g)
  PROVE  OthersKept(q, t, g)
BY DEF OthersKept

LEMMA OthersStay ==
  ASSUME NEW q, NEW g
  PROVE  OthersKept(q, q, g)
BY DEF OthersKept

LEMMA ValueKept ==
  ASSUME NEW x, NEW y, NEW n \in Nat, Same(x, y, n), NEW value, NEW number,
         value.of[1] = "request" => value.of[2] \in 1 .. n, Holds(x, value, number)
  PROVE  Holds(y, value, number) /\ Get(y, value) = Get(x, value)
BY DEF Same, Holds, Get

LEMMA ValuesAppended ==
  ASSUME NEW x, NEW y, NEW n \in Nat, Same(x, y, n), NEW vals, IsSequence(vals), NEW numbers,
         \A i \in 1 .. Len(vals) : vals[i].of[1] = "request" => vals[i].of[2] \in 1 .. n,
         HoldsValues(x, vals, numbers), NEW value, Holds(y, value, numbers[Len(vals) + 1])
  PROVE  HoldsValues(y, Append(vals, value), numbers)
<1>1. PICK more : more = Append(vals, value)
  OBVIOUS
<1>2. /\ Len(vals) \in Nat /\ Len(more) = Len(vals) + 1 /\ more[Len(vals) + 1] = value
      /\ \A i \in 1 .. Len(vals) : more[i] = vals[i]
  BY <1>1, Appending
<1>3. ASSUME NEW i \in 1 .. Len(more) PROVE Holds(y, more[i], numbers[i])
  <2>1. CASE i = Len(vals) + 1
    BY <1>2, <2>1
  <2>2. CASE i # Len(vals) + 1
    <3>1. i \in 1 .. Len(vals)
      BY <1>2, <2>2
    <3>2. Holds(x, vals[i], numbers[i])
      BY <3>1 DEF HoldsValues
    <3>3. Holds(y, vals[i], numbers[i])
      BY <3>1, <3>2, ValueKept
    <3> QED BY <1>2, <3>1, <3>3
  <2> QED BY <2>1, <2>2
<1> QED BY <1>1, <1>3 DEF HoldsValues

LEMMA SlotsUndisturbed ==
  ASSUME NEW q, NEW r, NEW n \in Nat, \A i \in 1 .. n : r[i] = q[i],
         NEW x, NEW y, Same(x, y, n), NEW slots, \A m \in Names : slots[m] \in 0 .. n,
         NEW held, HoldsSlots(q, x, slots, held)
  PROVE  HoldsSlots(r, y, slots, held)
<1> SUFFICES ASSUME NEW m \in Names, slots[m] # NoRequest
             PROVE  y.cell[slots[m]] = AsBits(r[slots[m]].type, held[m])
  BY DEF HoldsSlots
<1>1. slots[m] \in 1 .. n
  BY DEF NoRequest
<1>2. x.cell[slots[m]] = AsBits(q[slots[m]].type, held[m])
  BY DEF HoldsSlots
<1>3. y.cell[slots[m]] = x.cell[slots[m]] /\ r[slots[m]] = q[slots[m]]
  BY <1>1 DEF Same
<1> QED BY <1>2, <1>3

(* The slot of one name gets a new number, others keep theirs.             *)
Begins(q, r, n) == \A i \in 1 .. n : r[i] = q[i]

OthersHeld(x, y, n, slots, more, name) ==
  \A m \in Names : m # name =>
    more[m] = slots[m] /\ slots[m] \in 0 .. n
    /\ (slots[m] # NoRequest => y.cell[slots[m]] = x.cell[slots[m]])

LEMMA SlotsWritten ==
  ASSUME NEW q, NEW r, NEW n \in Nat, Begins(q, r, n), NEW x, NEW y, NEW slots,
         NEW held, HoldsSlots(q, x, slots, held), NEW stmt, stmt.name \in Names,
         NEW more, NEW after, IsTable(held), NEW number, after = HeldAfter(stmt, held, number),
         OthersHeld(x, y, n, slots, more, stmt.name),
         y.cell[more[stmt.name]] = AsBits(r[more[stmt.name]].type, number)
  PROVE  HoldsSlots(r, y, more, after)
<1> SUFFICES ASSUME NEW m \in Names, more[m] # NoRequest
             PROVE  y.cell[more[m]] = AsBits(r[more[m]].type, after[m])
  BY DEF HoldsSlots
<1>1. /\ after[stmt.name] = number
      /\ \A k \in Names : k # stmt.name => after[k] = held[k]
  BY HoldingAfter
<1>2. CASE m = stmt.name
  BY <1>1, <1>2
<1>3. CASE m # stmt.name
  <2>1. more[m] = slots[m] /\ slots[m] \in 1 .. n /\ y.cell[slots[m]] = x.cell[slots[m]]
    BY <1>3 DEF NoRequest, OthersHeld
  <2>2. x.cell[slots[m]] = AsBits(q[slots[m]].type, held[m])
    BY <1>3, <2>1 DEF HoldsSlots
  <2>3. r[slots[m]] = q[slots[m]]
    BY <2>1 DEF Begins
  <2> QED BY <1>1, <1>3, <2>1, <2>2, <2>3
<1> QED BY <1>2, <1>3

----------------------------------------------------------------------------
(* The steps of the generator, as steps of both runs.                      *)

(* A visit that emits `value': the number of the node is in it.            *)
Emits(prog, q, r, p, vals, slots, value) ==
  \A calls, x, y :
    /\ x = FrameOf(q, p[1], calls) /\ y = FrameOf(r, p[1], calls)
    /\ AgreeBefore(prog, calls, p[1])
    /\ HoldsSlots(q, x, slots, StateAt(prog, p[1], p[2] - 1).vars)
    /\ HoldsValues(x, vals, NumbersAt(prog, p[1], p[2]))
    /\ Shows(x.shown, ToldAt(prog, p[1], p[2])[p[3] - 1])
    => /\ Same(x, y, Len(q)) /\ y.returned = x.returned
       /\ Shows(y.shown, ToldAt(prog, p[1], p[2])[p[3]])
       /\ Holds(y, value, NumbersAt(prog, p[1], p[2])[p[3]])

LEMMA OutputOfOthers ==
  ASSUME NEW prog, NEW q, NEW r, NEW p, NEW next, NEW g, OthersKept(q, r, g),
         NEW f, f # g, OutputFits(prog, q, p, f), Told(prog, next, f) = Told(prog, p, f),
         StatementsRun(prog, next, f) = StatementsRun(prog, p, f)
  PROVE  OutputFits(prog, r, next, f)
BY DEF OutputFits, OthersKept

LEMMA EmitFits ==
  ASSUME NEW prog, NEW q, NEW r, Len(q) \in Nat, \A i \in 1 .. Len(q) : r[i] = q[i],
         NEW p, p[1] \in 1 .. Len(prog), p[2] \in Nat \ {0}, p[3] \in Nat \ {0},
         NEW next, next = <<p[1], p[2], p[3] + 1>>,
         OthersKept(q, r, p[1]), \A f \in 1 .. Len(prog) : OutputFits(prog, q, p, f),
         NEW vals, IsSequence(vals), Len(vals) = p[3] - 1,
         \A i \in 1 .. Len(vals) : vals[i].of[1] = "request" => vals[i].of[2] \in 1 .. Len(q),
         NEW slots, \A m \in Names : slots[m] \in 0 .. Len(q),
         MemoryFits(prog, q, p, vals, slots), NEW value,
         Emits(prog, q, r, p, vals, slots, value)
  PROVE  /\ \A f \in 1 .. Len(prog) : OutputFits(prog, r, next, f)
         /\ MemoryFits(prog, r, next, Append(vals, value), slots)
<1>1. /\ next[1] = p[1] /\ next[2] = p[2] /\ next[3] = p[3] + 1 /\ next[3] > 0
      /\ next[3] - 1 = p[3] /\ p[3] > 0 /\ p[2] > 0
  <2>1. PICK g, s, i : g = p[1] /\ s = p[2] /\ i = p[3]
    OBVIOUS
  <2>2. next = <<g, s, i + 1>> /\ s \in Nat \ {0} /\ i \in Nat \ {0}
    BY <2>1
  <2>3. next[1] = g /\ next[2] = s /\ next[3] = i + 1
    BY <2>2
  <2> QED BY <2>1, <2>2, <2>3
<1>2. \A f : StatementsRun(prog, next, f) = StatementsRun(prog, p, f)
  BY <1>1 DEF StatementsRun
<1>3. ASSUME NEW calls, AgreeBefore(prog, calls, p[1]),
             NEW x, x = FrameOf(q, p[1], calls), NEW y, y = FrameOf(r, p[1], calls)
      PROVE  /\ Same(x, y, Len(q)) /\ y.returned = x.returned
             /\ x.returned = StateAt(prog, p[1], StatementsRun(prog, p, p[1])).returned
             /\ Shows(y.shown, ToldAt(prog, p[1], p[2])[p[3]])
             /\ Holds(y, value, NumbersAt(prog, p[1], p[2])[p[3]])
             /\ HoldsSlots(q, x, slots, StateAt(prog, p[1], p[2] - 1).vars)
             /\ HoldsValues(x, vals, NumbersAt(prog, p[1], p[2]))
  <2>1. OutputFits(prog, q, p, p[1])
    OBVIOUS
  <2>2. /\ x.returned = StateAt(prog, p[1], StatementsRun(prog, p, p[1])).returned
        /\ Shows(x.shown, Told(prog, p, p[1]))
    BY <1>3, <2>1 DEF OutputFits
  <2>3. Told(prog, p, p[1]) = ToldAt(prog, p[1], p[2])[p[3] - 1]
    BY <1>1 DEF Told
  <2>4. /\ HoldsSlots(q, x, slots, StateAt(prog, p[1], p[2] - 1).vars)
        /\ HoldsValues(x, vals, NumbersAt(prog, p[1], p[2]))
    BY <1>1, <1>3 DEF MemoryFits
  <2>5. Shows(x.shown, ToldAt(prog, p[1], p[2])[p[3] - 1])
    BY <2>2, <2>3
  <2>6. /\ Same(x, y, Len(q)) /\ y.returned = x.returned
        /\ Shows(y.shown, ToldAt(prog, p[1], p[2])[p[3]])
        /\ Holds(y, value, NumbersAt(prog, p[1], p[2])[p[3]])
    BY <1>3, <2>4, <2>5 DEF Emits
  <2> QED BY <2>2, <2>4, <2>6
<1>4. ASSUME NEW f \in 1 .. Len(prog) PROVE OutputFits(prog, r, next, f)
  <2>1. CASE f = p[1]
    <3>1. Told(prog, next, f) = ToldAt(prog, p[1], p[2])[p[3]]
      BY <1>1, <2>1 DEF Told
    <3>2. ASSUME NEW calls, AgreeBefore(prog, calls, f)
          PROVE  /\ FrameOf(r, f, calls).returned =
                      StateAt(prog, f, StatementsRun(prog, next, f)).returned
                 /\ Shows(FrameOf(r, f, calls).shown, Told(prog, next, f))
      BY <1>2, <1>3, <2>1, <3>1, <3>2
    <3> QED BY <3>2 DEF OutputFits
  <2>2. CASE f # p[1]
    <3>1. Told(prog, next, f) = Told(prog, p, f)
      BY <1>1, <1>2, <2>2 DEF Told
    <3>2. OutputFits(prog, q, p, f)
      OBVIOUS
    <3>3. StatementsRun(prog, next, f) = StatementsRun(prog, p, f)
      BY <1>2
    <3> QED BY <2>2, <3>1, <3>2, <3>3, OutputOfOthers
  <2> QED BY <2>1, <2>2
<1>5. ASSUME NEW calls, AgreeBefore(prog, calls, next[1])
      PROVE  /\ HoldsSlots(r, FrameOf(r, next[1], calls), slots,
                           StateAt(prog, next[1], next[2] - 1).vars)
             /\ HoldsValues(FrameOf(r, next[1], calls), Append(vals, value),
                            NumbersAt(prog, next[1], next[2]))
  <2>1. PICK x, y : x = FrameOf(q, p[1], calls) /\ y = FrameOf(r, p[1], calls)
    OBVIOUS
  <2>2. PICK numbers, held : /\ numbers = NumbersAt(prog, p[1], p[2])
                             /\ held = StateAt(prog, p[1], p[2] - 1).vars
    OBVIOUS
  <2>3. /\ Same(x, y, Len(q)) /\ Holds(y, value, numbers[p[3]])
        /\ HoldsSlots(q, x, slots, held) /\ HoldsValues(x, vals, numbers)
    BY <1>1, <1>3, <1>5, <2>1, <2>2
  <2>4. HoldsSlots(r, y, slots, held)
    BY <2>3, SlotsUndisturbed
  <2>5. Len(vals) + 1 = p[3]
    OBVIOUS
  <2>6. HoldsValues(y, Append(vals, value), numbers)
    BY <2>3, <2>5, ValuesAppended
  <2> QED BY <1>1, <2>1, <2>2, <2>4, <2>6
<1>6. MemoryFits(prog, r, next, Append(vals, value), slots)
  BY <1>5 DEF MemoryFits
<1> QED BY <1>4, <1>6

(* A visit that ends a statement: what the statement does has been done.   *)
Ends(prog, q, r, p, vals, slots, more) ==
  \A calls, x, y :
    /\ x = FrameOf(q, p[1], calls) /\ y = FrameOf(r, p[1], calls)
    /\ AgreeBefore(prog, calls, p[1])
    /\ HoldsSlots(q, x, slots, StateAt(prog, p[1], p[2] - 1).vars)
    /\ HoldsValues(x, vals, NumbersAt(prog, p[1], p[2]))
    /\ Shows(x.shown, ToldAt(prog, p[1], p[2])[p[3] - 1])
    /\ x.returned = StateAt(prog, p[1], p[2] - 1).returned
    => /\ y.returned = StateAt(prog, p[1], p[2]).returned
       /\ Shows(y.shown, StateAt(prog, p[1], p[2]).shown)
       /\ HoldsSlots(r, y, more, StateAt(prog, p[1], p[2]).vars)

(* The walk goes on: to the next statement, or to the next function.       *)
LEMMA Onward ==
  ASSUME NEW prog, NEW p, p[1] \in 1 .. Len(prog), Len(prog) \in Nat,
         p[2] \in 0 .. Len(prog[p[1]].statements),
         \A f \in 1 .. Len(prog) : Len(prog[f].statements) \in Nat,
         NEW next, next = NextStatement(prog, p)
  PROVE  /\ next[3] = 0
         /\ (next[1] = p[1] /\ next[2] = p[2] + 1) \/ (next[1] = p[1] + 1 /\ next[2] = 0)
         /\ StatementsRun(prog, next, p[1]) = p[2]
         /\ \A f \in 1 .. Len(prog) : f # p[1] =>
              StatementsRun(prog, next, f) = StatementsRun(prog, p, f)
         /\ \A f : Told(prog, next, f) = StateAt(prog, f, StatementsRun(prog, next, f)).shown
         /\ \A f : f # p[1] => Told(prog, p, f) = StateAt(prog, f, StatementsRun(prog, p, f)).shown
<1>1. PICK g, s : g = p[1] /\ s = p[2]
  OBVIOUS
<1>2. PICK l : l = Len(prog[g].statements)
  OBVIOUS
<1>3. g \in 1 .. Len(prog) /\ l \in Nat /\ s \in 0 .. l
  BY <1>1, <1>2
<1>4. /\ s < l => next = <<g, s + 1, 0>>
      /\ ~(s < l) => next = <<g + 1, 0, 0>>
  BY <1>1, <1>2 DEF NextStatement
<1>5. next[3] = 0
  BY <1>4
<1>6. \A f : Told(prog, next, f) = StateAt(prog, f, StatementsRun(prog, next, f)).shown
  BY <1>5 DEF Told
<1>7. \A f : f # p[1] => Told(prog, p, f) = StateAt(prog, f, StatementsRun(prog, p, f)).shown
  BY DEF Told
<1>8. CASE s < l
  <2>1. next[1] = g /\ next[2] = s + 1
    BY <1>4, <1>8
  <2>2. StatementsRun(prog, next, g) = s
    BY <1>3, <2>1 DEF StatementsRun
  <2>3. \A f \in 1 .. Len(prog) : f # g => StatementsRun(prog, next, f) = StatementsRun(prog, p, f)
    BY <1>1, <2>1 DEF StatementsRun
  <2>4. (next[1] = p[1] /\ next[2] = p[2] + 1) \/ (next[1] = p[1] + 1 /\ next[2] = 0)
    BY <1>1, <2>1
  <2>5. StatementsRun(prog, next, p[1]) = p[2]
    BY <1>1, <2>2
  <2>6. \A f \in 1 .. Len(prog) : f # p[1] =>
          StatementsRun(prog, next, f) = StatementsRun(prog, p, f)
    BY <1>1, <2>3
  <2> QED BY <1>5, <1>6, <1>7, <2>4, <2>5, <2>6
<1>9. CASE ~(s < l)
  <2>1. next[1] = g + 1 /\ next[2] = 0 /\ s = l
    BY <1>3, <1>4, <1>9
  <2>2. StatementsRun(prog, next, g) = s
    BY <1>2, <1>3, <2>1 DEF StatementsRun
  <2>3. ASSUME NEW f \in 1 .. Len(prog), f # g
        PROVE  StatementsRun(prog, next, f) = StatementsRun(prog, p, f)
    <3>1. f < next[1] <=> f < p[1]
      BY <1>1, <1>3, <2>1, <2>3
    <3> QED BY <1>1, <2>1, <2>3, <3>1 DEF StatementsRun
  <2>4. (next[1] = p[1] /\ next[2] = p[2] + 1) \/ (next[1] = p[1] + 1 /\ next[2] = 0)
    BY <1>1, <2>1
  <2>5. StatementsRun(prog, next, p[1]) = p[2]
    BY <1>1, <2>2
  <2>6. \A f \in 1 .. Len(prog) : f # p[1] =>
          StatementsRun(prog, next, f) = StatementsRun(prog, p, f)
    BY <1>1, <2>3
  <2> QED BY <1>5, <1>6, <1>7, <2>4, <2>5, <2>6
<1> QED BY <1>8, <1>9

LEMMA EndFits ==
  ASSUME NEW prog, Len(prog) \in Nat, \A f \in 1 .. Len(prog) : Len(prog[f].statements) \in Nat,
         NEW q, NEW r,
         NEW p, p[1] \in 1 .. Len(prog), p[2] \in 1 .. Len(prog[p[1]].statements),
         p[3] \in Nat \ {0},
         NEW next, next = NextStatement(prog, p),
         OthersKept(q, r, p[1]), \A f \in 1 .. Len(prog) : OutputFits(prog, q, p, f),
         NEW vals, NEW slots, MemoryFits(prog, q, p, vals, slots), NEW more,
         Ends(prog, q, r, p, vals, slots, more)
  PROVE  /\ \A f \in 1 .. Len(prog) : OutputFits(prog, r, next, f)
         /\ next[2] > 0 => MemoryFits(prog, r, next, vals, more)
<1>1. p[2] \in Nat \ {0} /\ p[2] \in 0 .. Len(prog[p[1]].statements) /\ p[3] > 0 /\ p[2] > 0
  OBVIOUS
<1>2. /\ next[3] = 0
      /\ (next[1] = p[1] /\ next[2] = p[2] + 1) \/ (next[1] = p[1] + 1 /\ next[2] = 0)
      /\ StatementsRun(prog, next, p[1]) = p[2]
      /\ \A f \in 1 .. Len(prog) : f # p[1] =>
           StatementsRun(prog, next, f) = StatementsRun(prog, p, f)
      /\ \A f : Told(prog, next, f) = StateAt(prog, f, StatementsRun(prog, next, f)).shown
      /\ \A f : f # p[1] => Told(prog, p, f) = StateAt(prog, f, StatementsRun(prog, p, f)).shown
  BY <1>1, Onward
<1>3. ASSUME NEW calls, AgreeBefore(prog, calls, p[1]), NEW y, y = FrameOf(r, p[1], calls)
      PROVE  /\ y.returned = StateAt(prog, p[1], p[2]).returned
             /\ Shows(y.shown, StateAt(prog, p[1], p[2]).shown)
             /\ HoldsSlots(r, y, more, StateAt(prog, p[1], p[2]).vars)
  <2>1. PICK x : x = FrameOf(q, p[1], calls)
    OBVIOUS
  <2>2. OutputFits(prog, q, p, p[1])
    OBVIOUS
  <2>3. /\ x.returned = StateAt(prog, p[1], StatementsRun(prog, p, p[1])).returned
        /\ Shows(x.shown, Told(prog, p, p[1]))
    BY <1>3, <2>1, <2>2 DEF OutputFits
  <2>4. Told(prog, p, p[1]) = ToldAt(prog, p[1], p[2])[p[3] - 1]
    BY <1>1 DEF Told
  <2>5. StatementsRun(prog, p, p[1]) = p[2] - 1
    BY <1>1 DEF StatementsRun
  <2>6. /\ HoldsSlots(q, x, slots, StateAt(prog, p[1], p[2] - 1).vars)
        /\ HoldsValues(x, vals, NumbersAt(prog, p[1], p[2]))
    BY <1>1, <1>3, <2>1 DEF MemoryFits
  <2>7. /\ Shows(x.shown, ToldAt(prog, p[1], p[2])[p[3] - 1])
        /\ x.returned = StateAt(prog, p[1], p[2] - 1).returned
    BY <2>3, <2>4, <2>5
  <2> QED BY <1>3, <2>1, <2>6, <2>7 DEF Ends
<1>4. ASSUME NEW f \in 1 .. Len(prog) PROVE OutputFits(prog, r, next, f)
  <2>1. CASE f = p[1]
    <3>1. Told(prog, next, f) = StateAt(prog, p[1], p[2]).shown
      BY <1>2, <2>1
    <3>2. ASSUME NEW calls, AgreeBefore(prog, calls, f)
          PROVE  /\ FrameOf(r, f, calls).returned =
                      StateAt(prog, f, StatementsRun(prog, next, f)).returned
                 /\ Shows(FrameOf(r, f, calls).shown, Told(prog, next, f))
      BY <1>2, <1>3, <2>1, <3>1, <3>2
    <3> QED BY <3>2 DEF OutputFits
  <2>2. CASE f # p[1]
    <3>1. Told(prog, next, f) = Told(prog, p, f)
      BY <1>2, <2>2
    <3>2. StatementsRun(prog, next, f) = StatementsRun(prog, p, f)
      BY <1>2, <2>2
    <3>3. OutputFits(prog, q, p, f)
      OBVIOUS
    <3> QED BY <2>2, <3>1, <3>2, <3>3, OutputOfOthers
  <2> QED BY <2>1, <2>2
<1>5. ASSUME next[2] > 0 PROVE MemoryFits(prog, r, next, vals, more)
  <2>1. next[1] = p[1] /\ next[2] - 1 = p[2] /\ ~(next[3] > 0)
    BY <1>1, <1>2, <1>5
  <2>2. \A calls : AgreeBefore(prog, calls, next[1]) =>
          HoldsSlots(r, FrameOf(r, next[1], calls), more, StateAt(prog, next[1], next[2] - 1).vars)
    BY <1>3, <2>1
  <2> QED BY <2>1, <2>2 DEF MemoryFits
<1> QED BY <1>4, <1>5

----------------------------------------------------------------------------
(* A name that can be called stands for the first function that has it.    *)
IsFirst(f, n) ==
  /\ f \in 1 .. Len(program) /\ program[f].name = n
  /\ \A g \in 1 .. f - 1 : program[g].name # n

SymbolsAreFirst ==
  \A n \in Names :
    IsFunction(n) /\ symbols[n] # 0 => IsFirst(symbols[n], n) /\ symbols[n] <= pos[1]

LEMMA FirstIsCallee ==
  ASSUME IsProgram(program, Names), NEW f, NEW n, IsFirst(f, n)
  PROVE  Callee(program, n) = f
<1> DEFINE Found(g) == g \in 1 .. Len(program) /\ program[g].name = n
                       /\ \A h \in 1 .. g - 1 : program[h].name # n
<1>1. Found(f)
  BY DEF IsFirst
<1>2. ASSUME NEW g, Found(g) PROVE g = f
  <2>1. g \in Nat /\ f \in Nat /\ Len(program) \in Nat /\ g >= 1 /\ f >= 1
    BY <1>1, <1>2 DEF IsProgram
  <2>2. ~(g < f) /\ ~(f < g)
    BY <1>1, <1>2, <2>1
  <2> QED BY <2>1, <2>2
<1>3. Callee(program, n) = CHOOSE g : Found(g)
  BY DEF Callee
<1> HIDE DEF Found
<1> QED BY <1>1, <1>2, <1>3

LEMMA SymbolsInit == Init => SymbolsAreFirst
<1> SUFFICES ASSUME Init PROVE \A n \in Names : ~IsFunction(n) \/ symbols[n] = 0
  BY DEF SymbolsAreFirst
<1> QED BY DEF Init, CGInit, IsFunction, ModuleNames

LEMMA SymbolsNext ==
  ASSUME TCTypeOK, GenTypeInv, RulesInv, SymbolsAreFirst, [Next \/ Done]_vars
  PROVE  SymbolsAreFirst'
<1>1. IsProgram(program, Names)
  BY ProgramsAssumption DEF TCTypeOK
<1>2. program' = program
  <2>1. CASE TCNext
    BY <2>1, ProgramFixed
  <2>2. CASE ~TCNext
    BY <2>2 DEF Next, Done, vars, tc_vars
  <2> QED BY <2>1, <2>2
<1>3. CASE GenFunction
  <2>1. /\ AtFunction(program, pos) /\ pos' = NextStatement(program, pos)
    BY <1>3 DEF GenFunction
  <2>2. PICK name, f : name = program[pos[1]].name /\ f = pos[1]
    OBVIOUS
  <2>3. f \in 1 .. Len(program) /\ Len(program) \in Nat /\ f \in Nat /\ name \in Names
    <3>1. f \in 1 .. Len(program) /\ Len(program) \in Nat
      BY <1>1, <2>1, <2>2 DEF AtFunction, AtEnd, OnWalk, IsProgram, GenTypeInv, CGTypeOK
    <3> QED BY <1>1, <2>2, <3>1 DEF IsProgram
  <2>4. symbols' = IF symbols[name] = NoFunction THEN [symbols EXCEPT ![name] = f] ELSE symbols
    BY <1>3, <2>2 DEF GenFunction
  <2>5. \A n \in Names :
          symbols'[n] = IF n = name /\ symbols[name] = NoFunction THEN f ELSE symbols[n]
    BY <2>3, <2>4 DEF GenTypeInv, CGTypeOK, ModuleNames
  <2>6. pos'[1] \in Nat /\ pos'[1] >= f
    BY <2>1, <2>2, <2>3 DEF NextStatement
  <2>7. symbols[name] = NoFunction => IsFirst(f, name)
    <3>1. \A g \in 1 .. Len(program) : g < f => symbols[program[g].name] # NoFunction
      BY <2>2 DEF RulesInv, SymbolsFollow
    <3>2. \A g \in 1 .. f - 1 : g \in 1 .. Len(program) /\ g < f
      BY <2>3
    <3> QED BY <2>2, <2>3, <3>1, <3>2 DEF IsFirst
  <2>8. ASSUME NEW n \in Names, IsFunction(n)', symbols'[n] # 0
        PROVE  IsFirst(symbols'[n], n) /\ symbols'[n] <= pos'[1]
    <3>1. CASE n = name /\ symbols[name] = NoFunction
      BY <2>3, <2>5, <2>6, <2>7, <3>1
    <3>2. CASE ~(n = name /\ symbols[name] = NoFunction)
      <4>1. symbols'[n] = symbols[n]
        BY <2>5, <3>2
      <4>2. IsFirst(symbols[n], n) /\ symbols[n] <= f
        BY <2>2, <2>8, <4>1 DEF SymbolsAreFirst, IsFunction
      <4>3. symbols[n] \in Nat
        BY <2>3, <4>2 DEF IsFirst
      <4> QED BY <2>3, <2>6, <4>1, <4>2, <4>3
    <3> QED BY <3>1, <3>2
  <2> QED BY <1>2, <2>8 DEF SymbolsAreFirst, IsFirst
<1>4. CASE ~GenFunction
  <2>1. /\ symbols' \in {symbols, NamedFormat}
        /\ pos'[1] \in Nat /\ pos[1] \in Nat /\ pos'[1] >= pos[1]
    <3>1. pos[1] \in Nat
      BY DEF GenTypeInv, CGTypeOK, OnWalk
    <3>2. CASE pos' = pos /\ symbols' = symbols
      BY <3>1, <3>2
    <3>3. CASE pos' = <<pos[1], pos[2], pos[3] + 1>> /\ symbols' = symbols
      BY <3>1, <3>3
    <3>4. CASE pos' = <<pos[1], pos[2], 1>> /\ symbols' = NamedFormat
      BY <3>1, <3>4
    <3>5. CASE pos' = NextStatement(program, pos) /\ symbols' = symbols
      BY <3>1, <3>5 DEF NextStatement
    <3>6. CASE UNCHANGED cg_vars
      BY <3>2, <3>6 DEF cg_vars
    <3>7. CASE CGNext
      BY <1>4, <3>2, <3>3, <3>4, <3>5, <3>7
      DEF CGNext, GenStart, GenEntry, GenNode, GenIntLiteral, GenFloatLiteral, GenVariable,
          GenFunctionCall, GenBinary, GenExit, GenDeclaration, GenAssignment, GenShow, GenReturn,
          GenFinish, GenThrow, EmitValue, Advance
    <3> QED BY <3>6, <3>7 DEF Next, Done, vars
  <2>2. ASSUME NEW n \in Names, IsFunction(n)', symbols'[n] # 0
        PROVE  IsFirst(symbols'[n], n) /\ symbols'[n] <= pos'[1]
    <3>0. IsFunction(n) /\ symbols'[n] = symbols[n]
      <4>1. symbols' = symbols \/ (symbols' = NamedFormat /\ n \in ModuleNames)
        BY <2>1, <2>2 DEF ModuleNames
      <4> QED BY <2>2, <4>1, FormatNamed DEF IsFunction, GenTypeInv, CGTypeOK
    <3>1. IsFirst(symbols[n], n) /\ symbols[n] <= pos[1]
      BY <2>2, <3>0 DEF SymbolsAreFirst
    <3>2. symbols[n] \in Nat
      BY <3>1 DEF IsFirst
    <3> QED BY <2>1, <3>0, <3>1, <3>2
  <2> QED BY <1>2, <2>2 DEF SymbolsAreFirst, IsFirst
<1> QED BY <1>3, <1>4

----------------------------------------------------------------------------
(* The requests a valid module may hold, and what the source must be for   *)
(* the two runs to be compared.                                            *)
SoundRequest(q, n) ==
  /\ q[n].op = "Store" /\ q[n].slot \in 1 .. n - 1 => q[n].value.type = q[q[n].slot].type
  /\ q[n].op \in Instructions => q[n].lhs.type = q[n].rhs.type
  /\ q[n].op = "Ret"  => q[n].value.type = "i32"
  /\ q[n].op = "Call" => q[n].function # 0

Sound(q) == \A n \in 1 .. Len(q) : SoundRequest(q, n)

Comparable == OnlyInts /\ NoRecursion /\ NumbersFit /\ Sound(ir)

(* A value of a narrow type has the type of its node, which is no call.    *)
Narrows(a, T) ==
  T \in {"i8", "i16"} =>
    NodeAt(program, a).kind # "FunctionCall" /\ T = LLVMType(resolved_type[a])

WidthsSoFar == \A i \in 1 .. Len(values) : Narrows(<<pos[1], pos[2], i>>, values[i].type)

(* The two runs go hand in hand, wherever they can be compared.            *)
RunsInv ==
  gen \in {"generating", "generated"} /\ Comparable =>
    /\ \A f \in 1 .. Len(program) : OutputFits(program, ir, pos, f)
    /\ InFunction => MemoryFits(program, ir, pos, values, named_values)
    /\ InFunction /\ pos[3] > 0 => WidthsSoFar

LEMMA ValidIsSound == ModuleIsValid => Sound(ir)
<1> SUFFICES ASSUME ModuleIsValid, NEW n \in 1 .. Len(ir) PROVE SoundRequest(ir, n)
  BY DEF Sound
<1> QED BY DEF ModuleIsValid, StoresMatch, Slot, Requests, SoundRequest

LEMMA ExactStays ==
  ASSUME program' = program, resolved_type' = resolved_type
  PROVE  \A a, e, number : IsExact(a, e, number)' <=> IsExact(a, e, number)
<1> TAKE a, e, number
<1>1. \A b : TypeOf(b)' = TypeOf(b)
  BY DEF TypeOf, NodeAt, StatementAt
<1>2. \A i : Numbers(TypeOf(<<a[1], a[2], i>>))' = Numbers(TypeOf(<<a[1], a[2], i>>))
  BY <1>1
<1> QED BY <1>2 DEF IsExact

LEMMA ComparableBefore ==
  ASSUME Extends, Comparable'
  PROVE  Comparable
<1>1. Len(ir) \in Nat /\ Len(ir') \in Nat /\ Len(ir') >= Len(ir)
      /\ \A n \in 1 .. Len(ir) : ir'[n] = ir[n]
  BY DEF Extends
<1>2. ASSUME NEW n \in 1 .. Len(ir) PROVE SoundRequest(ir, n)
  <2>1. n \in 1 .. Len(ir') /\ ir'[n] = ir[n] /\ n \in Nat
    BY <1>1
  <2>2. SoundRequest(ir', n)
    BY <2>1 DEF Comparable, Sound
  <2>3. \A k \in 1 .. n - 1 : ir'[k] = ir[k]
    BY <1>1, <2>1
  <2> QED BY <2>1, <2>2, <2>3 DEF SoundRequest
<1>3. program' = program /\ resolved_type' = resolved_type
  BY DEF Extends
<1>4. \A a : TypeOf(a)' = TypeOf(a) /\ NodeAt(program, a)' = NodeAt(program, a)
             /\ StatementAt(program, a)' = StatementAt(program, a)
  BY <1>3 DEF TypeOf, NodeAt, StatementAt
<1>5. OnlyInts /\ NoRecursion
  BY <1>3, <1>4 DEF Comparable, OnlyInts, NoRecursion
<1>6. \A a, e, number : IsExact(a, e, number)' <=> IsExact(a, e, number)
  BY <1>3, ExactStays
<1>7. NumbersFit
  <2>1. NumbersFit'
    BY DEF Comparable
  <2>2. program' = program
    BY <1>3
  <2> QED BY <1>6, <2>1, <2>2 DEF NumbersFit, StatementAt
<1> QED BY <1>2, <1>5, <1>7 DEF Comparable, Sound

LEMMA ComparableStays ==
  ASSUME program' = program, resolved_type' = resolved_type, ir' = ir
  PROVE  Comparable' <=> Comparable
<1>1. \A a : TypeOf(a)' = TypeOf(a) /\ NodeAt(program, a)' = NodeAt(program, a)
             /\ StatementAt(program, a)' = StatementAt(program, a)
  BY DEF TypeOf, NodeAt, StatementAt
<1>2. (OnlyInts' <=> OnlyInts) /\ (NoRecursion' <=> NoRecursion)
  BY <1>1 DEF OnlyInts, NoRecursion
<1>3. \A a, e, number : IsExact(a, e, number)' <=> IsExact(a, e, number)
  BY ExactStays
<1>4. NumbersFit' <=> NumbersFit
  BY <1>3 DEF NumbersFit, StatementAt
<1> QED BY <1>2, <1>4 DEF Comparable

----------------------------------------------------------------------------
(* A visit that emits a value.                                             *)
LEMMA RunsEmit ==
  ASSUME IsProgram(program, Names), GenTypeInv, RunsInv, AtNode(program, pos), gen = "generating",
         program' = program, resolved_type' = resolved_type, NEW value, EmitValue(value),
         ir' = ir \/ \E r : r.at[1] = pos[1] /\ ir' = Append(ir, r),
         Comparable /\ Comparable' /\ WidthsSoFar =>
           /\ Narrows(pos, value.type)
           /\ Emits(program, ir, ir', pos, values, named_values, value)
  PROVE  RunsInv'
<1>1. Extends
  BY Extending
<1>2. /\ pos[1] \in 1 .. Len(program) /\ pos[2] \in Nat \ {0} /\ pos[3] \in Nat \ {0}
      /\ pos = <<pos[1], pos[2], pos[3]>> /\ InFunction
  <2>1. OnWalk(program, pos) /\ ~AtEnd(program, pos) /\ pos[2] > 0 /\ pos[3] > 0
    BY DEF AtNode, GenTypeInv, CGTypeOK
  <2>2. pos[1] \in 1 .. Len(program) /\ pos[2] \in Nat /\ pos[3] \in Nat
    BY <2>1, PosShape
  <2> QED BY <2>1, <2>2 DEF OnWalk, InFunction
<1>3. /\ IsSequence(values) /\ Len(values) = pos[3] - 1
      /\ \A i \in 1 .. Len(values) : values[i].of[1] = "request" => values[i].of[2] \in 1 .. Len(ir)
      /\ \A n \in Names : named_values[n] \in 0 .. Len(ir)
      /\ IsSequence(ir)
  BY DEF GenTypeInv, CGTypeOK
<1>4. /\ values' = Append(values, value) /\ pos' = <<pos[1], pos[2], pos[3] + 1>>
      /\ named_values' = named_values /\ gen' = gen
  BY DEF EmitValue
<1>5. SUFFICES ASSUME Comparable'
               PROVE  /\ \A f \in 1 .. Len(program') : OutputFits(program', ir', pos', f)
                      /\ MemoryFits(program', ir', pos', values', named_values')
                      /\ WidthsSoFar'
  BY DEF RunsInv
<1>6. /\ \A f \in 1 .. Len(program) : OutputFits(program, ir, pos, f)
      /\ MemoryFits(program, ir, pos, values, named_values) /\ WidthsSoFar
      /\ Narrows(pos, value.type)
      /\ Emits(program, ir, ir', pos, values, named_values, value)
  <2>1. Comparable
    BY <1>1, <1>5, ComparableBefore
  <2>2. /\ \A f \in 1 .. Len(program) : OutputFits(program, ir, pos, f)
        /\ MemoryFits(program, ir, pos, values, named_values) /\ WidthsSoFar
    BY <1>2, <2>1 DEF RunsInv
  <2> QED BY <1>5, <2>1, <2>2
<1>7. OthersKept(ir, ir', pos[1])
  <2>1. CASE ir' = ir
    BY <2>1, OthersStay
  <2>2. CASE \E r : r.at[1] = pos[1] /\ ir' = Append(ir, r)
    BY <1>3, <2>2, OneRequest
  <2> QED BY <2>1, <2>2
<1>8. /\ \A f \in 1 .. Len(program) : OutputFits(program, ir', pos', f)
      /\ MemoryFits(program, ir', pos', values', named_values')
  <2>1. Len(ir) \in Nat /\ \A i \in 1 .. Len(ir) : ir'[i] = ir[i]
    BY <1>1 DEF Extends
  <2>2. PICK q, r, p, next, vals, slots :
          /\ q = ir /\ r = ir' /\ p = pos /\ next = pos' /\ vals = values /\ slots = named_values
    OBVIOUS
  <2>3. /\ \A f \in 1 .. Len(program) : OutputFits(program, r, next, f)
        /\ MemoryFits(program, r, next, Append(vals, value), slots)
    <3>1. p[1] \in 1 .. Len(program) /\ p[2] \in Nat \ {0} /\ p[3] \in Nat \ {0}
      BY <1>2, <2>2
    <3>2. next = <<p[1], p[2], p[3] + 1>>
      BY <1>4, <2>2
    <3>3. Len(q) \in Nat /\ \A i \in 1 .. Len(q) : r[i] = q[i]
      BY <2>1, <2>2
    <3>4. OthersKept(q, r, p[1]) /\ \A f \in 1 .. Len(program) : OutputFits(program, q, p, f)
      BY <1>6, <1>7, <2>2
    <3>5. /\ IsSequence(vals) /\ Len(vals) = p[3] - 1
          /\ \A i \in 1 .. Len(vals) : vals[i].of[1] = "request" => vals[i].of[2] \in 1 .. Len(q)
          /\ \A m \in Names : slots[m] \in 0 .. Len(q)
      BY <1>3, <2>2
    <3>6. MemoryFits(program, q, p, vals, slots) /\ Emits(program, q, r, p, vals, slots, value)
      BY <1>6, <2>2
    <3> QED BY <3>1, <3>2, <3>3, <3>4, <3>5, <3>6, EmitFits
  <2> QED BY <1>4, <2>2, <2>3
<1>9. WidthsSoFar'
  <2>1. \A a, T : Narrows(a, T)' <=> Narrows(a, T)
    BY DEF Narrows, NodeAt, StatementAt
  <2>2. /\ Len(values') = Len(values) + 1 /\ values'[Len(values) + 1] = value /\ Len(values) \in Nat
        /\ \A i \in 1 .. Len(values) : values'[i] = values[i]
    BY <1>3, <1>4, Appending
  <2>3. pos'[1] = pos[1] /\ pos'[2] = pos[2]
    BY <1>4
  <2>4. ASSUME NEW i \in 1 .. Len(values') PROVE Narrows(<<pos[1], pos[2], i>>, values'[i].type)
    <3>1. CASE i = Len(values) + 1
      <4>1. <<pos[1], pos[2], i>> = pos /\ values'[i] = value
        BY <1>2, <1>3, <2>2, <3>1
      <4> QED BY <1>6, <4>1
    <3>2. CASE i # Len(values) + 1
      <4>1. i \in 1 .. Len(values)
        BY <2>2, <2>4, <3>2
      <4> QED BY <1>6, <2>2, <4>1 DEF WidthsSoFar
    <3> QED BY <3>1, <3>2
  <2> QED BY <2>1, <2>3, <2>4 DEF WidthsSoFar
<1> QED BY <1>8, <1>9

(* The node the generator is at, in the source's run.                      *)
NumberHere == NumbersAt(program, pos[1], pos[2])[pos[3]]
ToldHere   == ToldAt(program, pos[1], pos[2])[pos[3]]
ToldBefore == ToldAt(program, pos[1], pos[2])[pos[3] - 1]

LEMMA NodeHere ==
  ASSUME IsProgram(program, Names), GenTypeInv, AtNode(program, pos)
  PROVE  /\ Node.kind \in LiteralTypes => NumberHere = Node.value
         /\ Node.kind = "Variable" =>
              NumberHere = StateAt(program, pos[1], pos[2] - 1).vars[Node.name]
         /\ Node.kind = "FunctionCall" =>
              NumberHere = Earlier(Meaning(program), pos[1])[Callee(program, Node.name)].returned
         /\ Node.kind = "Binary" =>
              NumberHere = Arithmetic(Node.op, NumbersAt(program, pos[1], pos[2])[Node.lhs],
                                      NumbersAt(program, pos[1], pos[2])[Node.rhs])
         /\ Node.kind = "FunctionCall" =>
              ToldHere = ToldBefore
                         \o Earlier(Meaning(program), pos[1])[Callee(program, Node.name)].shown
         /\ Node.kind # "FunctionCall" => ToldHere = ToldBefore
<1>1. /\ OnWalk(program, pos) /\ ~AtEnd(program, pos) /\ pos[2] > 0
      /\ IsStatement(Stmt, Names) /\ Len(Stmt.value) \in Nat
      /\ pos[3] \in 1 .. Len(Stmt.value) /\ Node = Stmt.value[pos[3]]
  BY PosShape, PosNode DEF AtNode, GenTypeInv, CGTypeOK
<1>2. PICK f, s, i, e : f = pos[1] /\ s = pos[2] /\ i = pos[3] /\ e = Stmt.value
  OBVIOUS
<1>3. e = program[f].statements[s].value /\ IsExpression(e, Names) /\ Len(e) \in Nat
  <2>1. Stmt = program[f].statements[s]
    BY <1>2, Zenon DEF Stmt, StatementAt
  <2>2. IsExpression(Stmt.value, Names) /\ Len(Stmt.value) \in Nat
    BY <1>1, Zenon DEF IsStatement
  <2> QED BY <1>2, <2>1, <2>2
<1>4. PICK numbers, told, held, before, calls :
        /\ numbers = NumbersAt(program, f, s) /\ told = ToldAt(program, f, s)
        /\ held = StateAt(program, f, s - 1).vars /\ before = StateAt(program, f, s - 1).shown
        /\ calls = Earlier(Meaning(program), f)
  OBVIOUS
<1>5. Numbered(program, e, held, calls, numbers)
  BY <1>3, <1>4, NumbersOfNodes
<1>6. Narrated(program, e, before, calls, told)
  BY <1>3, <1>4, ToldByNodes
<1>7. e[i] = Node /\ i \in 1 .. Len(e)
  BY <1>1, <1>2
<1>8. NumberHere = numbers[i] /\ ToldHere = told[i] /\ ToldBefore = told[i - 1]
  BY <1>2, <1>4 DEF NumberHere, ToldHere, ToldBefore
<1>9. /\ Node.kind \in LiteralTypes => numbers[i] = Node.value
      /\ Node.kind = "Variable" => numbers[i] = held[Node.name]
      /\ Node.kind = "FunctionCall" => numbers[i] = calls[Callee(program, Node.name)].returned
      /\ Node.kind = "Binary" =>
           numbers[i] = Arithmetic(Node.op, numbers[Node.lhs], numbers[Node.rhs])
  BY <1>5, <1>7 DEF Numbered
<1>10. /\ Node.kind = "FunctionCall" =>
            told[i] = told[i - 1] \o calls[Callee(program, Node.name)].shown
       /\ Node.kind # "FunctionCall" => told[i] = told[i - 1]
  BY <1>6, <1>7 DEF Narrated
<1> QED BY <1>2, <1>4, <1>8, <1>9, <1>10

(* A visit that shows nothing emits once its value holds the number.       *)
LEMMA QuietEmits ==
  ASSUME IsProgram(program, Names), GenTypeInv, AtNode(program, pos), Node.kind # "FunctionCall",
         NEW q, NEW value,
         \A calls, x, y :
           /\ x = FrameOf(ir, pos[1], calls) /\ y = FrameOf(q, pos[1], calls)
           /\ HoldsSlots(ir, x, named_values, StateAt(program, pos[1], pos[2] - 1).vars)
           /\ HoldsValues(x, values, NumbersAt(program, pos[1], pos[2]))
           => /\ Same(x, y, Len(ir)) /\ y.returned = x.returned /\ y.shown = x.shown
              /\ Holds(y, value, NumberHere)
  PROVE  Emits(program, ir, q, pos, values, named_values, value)
<1>1. ToldHere = ToldBefore
  BY NodeHere
<1> QED BY <1>1 DEF Emits, ToldHere, ToldBefore, NumberHere

LEMMA ThrowRuns ==
  ASSUME NEW error \in GenErrors, GenThrow(error)
  PROVE  RunsInv'
BY DEF GenThrow, GenErrors, RunsInv

LEMMA IntLiteralRuns ==
  ASSUME IsProgram(program, Names), GenTypeInv, RunsInv, gen = "generating",
         program' = program, resolved_type' = resolved_type, GenIntLiteral
  PROVE  RunsInv'
<1>1. AtNode(program, pos) /\ Node.kind = "IntLiteral"
  BY DEF GenIntLiteral
<1>2. CASE resolved_type[pos] \notin IntTypes
  BY <1>2, ThrowRuns DEF GenIntLiteral, GenErrors
<1>3. CASE resolved_type[pos] \in IntTypes
  <2>1. PICK T, value : /\ T = IntWidth[resolved_type[pos]]
                        /\ value = Constant(T, AsBits(T, Node.value))
    OBVIOUS
  <2>2. EmitValue(value) /\ ir' = ir
    BY <1>3, <2>1 DEF GenIntLiteral, ConstantType
  <2>3. value.type = T /\ value.of[1] = "constant" /\ value.of[2] = AsBits(T, Node.value)
    BY <2>1 DEF Constant
  <2>4. Narrows(pos, T)
    BY <1>1, <1>3, <2>1 DEF Narrows, Node, LLVMType, IntTypes, SignedTypes, UnsignedTypes
  <2>5. NumberHere = Node.value
    BY <1>1, NodeHere DEF LiteralTypes
  <2>6. \A x : Holds(x, value, NumberHere)
    BY <2>3, <2>5 DEF Holds, Get
  <2>7. \A x : Same(x, x, Len(ir))
    BY DEF Same
  <2>8. Emits(program, ir, ir', pos, values, named_values, value)
    BY <1>1, <2>2, <2>6, <2>7, QuietEmits
  <2> QED BY <1>1, <2>2, <2>3, <2>4, <2>8, RunsEmit
<1> QED BY <1>2, <1>3

LEMMA FloatLiteralRuns ==
  ASSUME IsProgram(program, Names), GenTypeInv, RunsInv, gen = "generating",
         program' = program, resolved_type' = resolved_type, GenFloatLiteral
  PROVE  RunsInv'
<1>1. PICK value : value = Constant("double", Node.value)
  OBVIOUS
<1>2. AtNode(program, pos) /\ Node.kind = "FloatLiteral" /\ EmitValue(value) /\ ir' = ir
  BY <1>1 DEF GenFloatLiteral
<1>3. pos \in NodeAddresses(program)
  BY <1>2, PosNode DEF GenTypeInv, CGTypeOK
<1>4. ~Comparable
  BY <1>2, <1>3 DEF Comparable, OnlyInts, Node
<1> QED BY <1>2, <1>4, RunsEmit

LEMMA VariableRuns ==
  ASSUME IsProgram(program, Names), GenTypeInv, RunsInv, LoadsMatchAllocas', gen = "generating",
         program' = program, resolved_type' = resolved_type, GenVariable
  PROVE  RunsInv'
<1>1. AtNode(program, pos) /\ Node.kind = "Variable"
  BY DEF GenVariable
<1>2. PICK slot, type, T : /\ slot = named_values[Node.name] /\ type = resolved_type[pos]
                           /\ T = LLVMType(type)
  OBVIOUS
<1>3. PICK r, value : /\ r = [at |-> pos, op |-> "Load", type |-> T, slot |-> slot]
                      /\ value = Result(T, NextRequest)
  OBVIOUS
<1>4. \/ slot = NoRequest /\ GenThrow("UnknownVariable")
      \/ type = NoType /\ GenThrow("UnresolvedType")
      \/ ~HasLLVMType(type) /\ GenThrow(NoLLVMType(type))
      \/ slot # NoRequest /\ ir' = Append(ir, r) /\ EmitValue(value)
  BY <1>2, <1>3 DEF GenVariable, Request
<1>5. CASE slot # NoRequest /\ ir' = Append(ir, r) /\ EmitValue(value)
  <2>1. /\ r.op = "Load" /\ r.slot = slot /\ r.type = T /\ r.at = pos /\ r.at[1] = pos[1]
        /\ value.type = T /\ value.of[1] = "request" /\ value.of[2] = Len(ir) + 1
    BY <1>3 DEF Result, NextRequest
  <2>2. IsSequence(ir) /\ Len(ir) \in Nat /\ Len(ir') = Len(ir) + 1 /\ ir'[Len(ir) + 1] = r
        /\ \A i \in 1 .. Len(ir) : ir'[i] = ir[i]
    BY <1>5, Appending DEF GenTypeInv
  <2>3. Node.name \in Names /\ slot \in 1 .. Len(ir)
    <3>1. Node.name \in Names
      BY <1>1, PosNode DEF GenTypeInv, CGTypeOK
    <3>2. slot \in 0 .. Len(ir)
      BY <1>2, <3>1 DEF GenTypeInv, CGTypeOK
    <3> QED BY <1>5, <2>2, <3>1, <3>2 DEF NoRequest
  <2>4. ir[slot].type = T
    <3>1. Len(ir) + 1 \in 1 .. Len(ir')
      BY <2>2
    <3>2. ir'[ir'[Len(ir) + 1].slot].type = ir'[Len(ir) + 1].type
      BY <2>1, <2>2, <3>1 DEF LoadsMatchAllocas, Requests, Slot
    <3> QED BY <2>1, <2>2, <2>3, <3>2
  <2>5. Narrows(pos, T)
    BY <1>1, <1>2 DEF Narrows, Node
  <2>6. PICK held : held = StateAt(program, pos[1], pos[2] - 1).vars
    OBVIOUS
  <2>7. NumberHere = held[Node.name]
    BY <1>1, <2>6, NodeHere
  <2>8. ASSUME NEW calls, NEW x, x = FrameOf(ir, pos[1], calls),
               NEW y, y = FrameOf(ir', pos[1], calls), HoldsSlots(ir, x, named_values, held)
        PROVE  /\ Same(x, y, Len(ir)) /\ y.returned = x.returned /\ y.shown = x.shown
               /\ Holds(y, value, NumberHere)
    <3>1. IsFrame(x, Len(ir)) /\ y = Perform(x, r, calls)
      <4>1. Runs(ir, Append(ir, r), r, r.at[1])
        BY <2>2, OwnStep
      <4>2. Runs(ir, ir', r, pos[1])
        BY <1>5, <2>1, <4>1
      <4> QED BY <2>8, <4>2 DEF Runs
    <3>2. /\ Same(x, y, Len(ir)) /\ y.returned = x.returned /\ y.shown = x.shown
          /\ y.cell[Len(ir) + 1] = x.cell[slot]
      BY <2>1, <2>2, <3>1, PerformMemory
    <3>3. x.cell[slot] = AsBits(T, NumberHere)
      <4>1. named_values[Node.name] = slot
        BY <1>2
      <4>2. x.cell[named_values[Node.name]] = AsBits(ir[named_values[Node.name]].type, held[Node.name])
        BY <1>5, <2>3, <2>8, <4>1 DEF HoldsSlots
      <4> QED BY <2>4, <2>7, <4>1, <4>2
    <3>4. Holds(y, value, NumberHere)
      BY <2>1, <3>2, <3>3 DEF Holds, Get
    <3> QED BY <3>2, <3>4
  <2>9. Emits(program, ir, ir', pos, values, named_values, value)
    BY <1>1, <2>6, <2>8, QuietEmits
  <2> QED BY <1>1, <1>5, <2>1, <2>5, <2>9, RunsEmit
<1>6. NoLLVMType(type) \in GenErrors
  BY NoLLVMTypeError
<1> QED BY <1>4, <1>5, <1>6, ThrowRuns DEF GenErrors

LEMMA WideBits == \A n : AsBits("i32", n) = n
BY NarrowTypes DEF AsBits

LEMMA CallRuns ==
  ASSUME IsProgram(program, Names), GenTypeInv, RunsInv, SymbolsAreFirst, gen = "generating",
         program' = program, resolved_type' = resolved_type, GenFunctionCall
  PROVE  RunsInv'
<1>1. AtNode(program, pos) /\ Node.kind = "FunctionCall" /\ Node = NodeAt(program, pos)
  BY DEF GenFunctionCall, Node
<1>2. PICK g, r, value, name :
        /\ name = Node.name /\ g = symbols[name]
        /\ r = [at |-> pos, op |-> "Call", function |-> g]
        /\ value = Result("i32", NextRequest)
  OBVIOUS
<1>3. \/ ~IsFunction(name) /\ GenThrow("UnknownFunction")
      \/ IsFunction(name) /\ ir' = Append(ir, r) /\ EmitValue(value)
  BY <1>2 DEF GenFunctionCall, Request, IsFunction
<1>4. CASE IsFunction(name) /\ ir' = Append(ir, r) /\ EmitValue(value)
  <2>1. /\ r.op = "Call" /\ r.function = g /\ r.at[1] = pos[1]
        /\ value.type = "i32" /\ value.of[1] = "request" /\ value.of[2] = Len(ir) + 1
    BY <1>2 DEF Result, NextRequest
  <2>2. /\ IsSequence(ir) /\ Len(ir) \in Nat /\ Len(ir') = Len(ir) + 1 /\ ir'[Len(ir) + 1] = r
    BY <1>4, Appending DEF GenTypeInv
  <2>3. pos \in NodeAddresses(program) /\ name \in Names /\ pos[1] \in Nat
    BY <1>1, <1>2, PosNode DEF GenTypeInv, CGTypeOK, OnWalk
  <2>4. Narrows(pos, "i32")
    BY DEF Narrows
  <2>5. PICK meant : meant = Meaning(program)
    OBVIOUS
  <2>6. ASSUME Comparable, Comparable'
        PROVE  /\ Callee(program, name) = g /\ g \in 1 .. pos[1] - 1
               /\ Earlier(meant, pos[1])[g] = meant[g]
    <3>1. g # 0
      <4>1. Len(ir) + 1 \in 1 .. Len(ir')
        BY <2>2
      <4>2. SoundRequest(ir', Len(ir) + 1)
        BY <2>6, <4>1 DEF Comparable, Sound
      <4> QED BY <2>1, <2>2, <4>2 DEF SoundRequest
    <3>2. IsFirst(g, name) /\ g <= pos[1]
      BY <1>2, <1>4, <2>3, <3>1 DEF SymbolsAreFirst
    <3>3. Callee(program, name) = g
      BY <3>2, FirstIsCallee
    <3>4. g # pos[1]
      BY <1>1, <1>2, <2>3, <2>6, <3>3 DEF Comparable, NoRecursion
    <3>5. g \in 1 .. pos[1] - 1
      BY <2>3, <3>2, <3>4 DEF IsFirst
    <3>6. Earlier(meant, pos[1])[g] = meant[g]
      BY <3>5 DEF Earlier
    <3> QED BY <3>3, <3>5, <3>6
  <2>7. ASSUME Comparable, Comparable'
        PROVE  Emits(program, ir, ir', pos, values, named_values, value)
    <3>1. /\ NumberHere = meant[g].returned
          /\ ToldHere = ToldBefore \o meant[g].shown
      BY <1>1, <1>2, <2>5, <2>6, <2>7, NodeHere
    <3>2. ASSUME NEW calls, NEW x, x = FrameOf(ir, pos[1], calls),
                 NEW y, y = FrameOf(ir', pos[1], calls), AgreeBefore(program, calls, pos[1]),
                 Shows(x.shown, ToldBefore)
          PROVE  /\ Same(x, y, Len(ir)) /\ y.returned = x.returned /\ Shows(y.shown, ToldHere)
                 /\ Holds(y, value, NumberHere)
      <4>1. IsFrame(x, Len(ir)) /\ y = Perform(x, r, calls)
        <5>1. Runs(ir, Append(ir, r), r, r.at[1])
          BY <2>2, OwnStep
        <5>2. Runs(ir, ir', r, pos[1])
          BY <1>4, <2>1, <5>1
        <5> QED BY <3>2, <5>2 DEF Runs
      <4>2. /\ Same(x, y, Len(ir)) /\ y.returned = x.returned
            /\ y.shown = x.shown \o calls[g].shown
            /\ y.cell[Len(ir) + 1] = calls[g].returned
        <5>1. r.op = "Call" /\ Len(ir) \in Nat
          BY <2>1, <2>2
        <5>2. AfterCall(x, Len(ir), calls[r.function], y)
          BY <4>1, <5>1, PerformCall
        <5> QED BY <2>1, <5>2 DEF AfterCall
      <4>3. Agrees(calls[g], meant[g])
        BY <2>5, <2>6, <2>7, <3>2 DEF AgreeBefore
      <4>4. Shows(calls[g].shown, meant[g].shown) /\ calls[g].returned = meant[g].returned
        BY <4>3 DEF Agrees
      <4>5. Shows(y.shown, ToldHere)
        <5>1. Shows(x.shown \o calls[g].shown, ToldBefore \o meant[g].shown)
          BY <3>2, <4>4, ShowingMore
        <5> QED BY <3>1, <4>2, <5>1
      <4>6. Holds(y, value, NumberHere)
        <5>1. Get(y, value) = y.cell[Len(ir) + 1]
          BY <2>1 DEF Get
        <5>2. AsBits(value.type, NumberHere) = NumberHere
          BY <2>1, WideBits
        <5>3. Get(y, value) = AsBits(value.type, NumberHere)
          BY <3>1, <4>2, <4>4, <5>1, <5>2
        <5> QED BY <2>1, <5>3 DEF Holds
      <4> QED BY <4>2, <4>5, <4>6
    <3> QED BY <3>2 DEF Emits, NumberHere, ToldHere, ToldBefore
  <2> QED BY <1>1, <1>4, <2>1, <2>4, <2>7, RunsEmit
<1> QED BY <1>3, <1>4, ThrowRuns DEF GenErrors

(* The numbers of the statement are the numbers of its types.              *)
LEMMA ExactHere ==
  ASSUME IsProgram(program, Names), GenTypeInv, AtNode(program, pos), Comparable,
         NEW numbers, numbers = NumbersAt(program, pos[1], pos[2])
  PROVE  /\ \A i \in 1 .. Len(Stmt.value) : numbers[i] \in Int
         /\ Node.kind = "Binary" => resolved_type[pos] \in IntTypes
         /\ Node.kind = "Binary" /\ Node.op = "ForwardSlash" =>
              /\ numbers[Node.lhs] \in Numbers(resolved_type[pos])
              /\ numbers[Node.rhs] \in Numbers(resolved_type[pos]) \ {0}
<1>1. /\ OnWalk(program, pos) /\ ~AtEnd(program, pos) /\ pos[2] > 0 /\ StmtAddress = <<pos[1], pos[2], 0>>
      /\ StmtAddress \in StatementAddresses(program) /\ StatementAt(program, StmtAddress) = Stmt
      /\ pos[3] \in 1 .. Len(Stmt.value) /\ Node = Stmt.value[pos[3]]
      /\ pos \in NodeAddresses(program) /\ pos = <<pos[1], pos[2], pos[3]>>
  BY PosShape, PosNode DEF AtNode, GenTypeInv, CGTypeOK, StmtAddress, OnWalk
<1>2. PICK f, s, i, e, a : /\ f = pos[1] /\ s = pos[2] /\ i = pos[3] /\ e = Stmt.value
                           /\ a = <<f, s, 0>>
  OBVIOUS
<1>3. a \in StatementAddresses(program) /\ a[1] = f /\ a[2] = s /\ StatementAt(program, a).value = e
  BY <1>1, <1>2
<1>4. program[f].statements[s].value = e
  BY <1>3 DEF StatementAt
<1>5. IsExact(a, e, numbers)
  <2>1. NumbersFit
    BY DEF Comparable
  <2>2. PICK calls, held : /\ calls = Earlier(Meaning(program), a[1])
                           /\ held = States(program, a[1], calls)[a[2] - 1].vars
    OBVIOUS
  <2>3. IsExact(a, e, Evaluated(program, e, held, calls))
    BY <1>3, <2>1, <2>2 DEF NumbersFit
  <2>4. calls = Earlier(Meaning(program), f) /\ held = StateAt(program, f, s - 1).vars
    BY <1>3, <2>2 DEF StateAt
  <2>5. numbers = Evaluated(program, e, held, calls)
    BY <1>2, <1>4, <2>4 DEF NumbersAt
  <2> QED BY <2>3, <2>5
<1>6. ASSUME NEW k \in 1 .. Len(e)
      PROVE  numbers[k] \in Int
  <2>1. PICK b : b = <<f, s, k>>
    OBVIOUS
  <2>2. b \in NodeAddresses(program)
    BY <1>1, <1>2, <1>6, <2>1, StmtNode
  <2>3. TypeOf(b) \in IntTypes
    BY <2>2 DEF Comparable, OnlyInts
  <2>4. numbers[k] \in Numbers(TypeOf(b))
    BY <1>3, <1>5, <1>6, <2>1 DEF IsExact
  <2> QED BY <2>3, <2>4, NumbersOfType
<1>7. ASSUME Node.kind = "Binary"
      PROVE  resolved_type[pos] \in IntTypes /\ TypeOf(pos) = resolved_type[pos]
  BY <1>1, <1>7 DEF Comparable, OnlyInts, TypeOf, Node
<1>8. ASSUME Node.kind = "Binary", Node.op = "ForwardSlash"
      PROVE  /\ numbers[Node.lhs] \in Numbers(resolved_type[pos])
             /\ numbers[Node.rhs] \in Numbers(resolved_type[pos]) \ {0}
  <2>1. PICK types : types = Numbers(TypeOf(<<a[1], a[2], i>>))
    OBVIOUS
  <2>2. e[i].kind = "Binary" /\ e[i].op = "ForwardSlash" /\ i \in 1 .. Len(e) /\ e[i] = Node
    BY <1>1, <1>2, <1>8
  <2>3. /\ numbers[e[i].lhs] \in types /\ numbers[e[i].rhs] \in types /\ numbers[e[i].rhs] # 0
    BY <1>5, <2>1, <2>2 DEF IsExact
  <2>4. <<a[1], a[2], i>> = pos
    BY <1>1, <1>2, <1>3
  <2>5. types = Numbers(resolved_type[pos])
    BY <1>7, <1>8, <2>1, <2>4
  <2> QED BY <2>2, <2>3, <2>5
<1> QED BY <1>2, <1>6, <1>7, <1>8

(* An operator of two values of one narrow type has that type.             *)
LEMMA NarrowOperator ==
  ASSUME IsProgram(program, Names), GenTypeInv, AtNode(program, pos), OperandsTree, WidthsSoFar,
         Node.kind = "Binary", Node.op \in ArithmeticOperators, resolved_type[pos] \in IntTypes,
         NEW T, values[Node.lhs].type = T, values[Node.rhs].type = T
  PROVE  Narrows(pos, T)
<1> SUFFICES ASSUME T \in {"i8", "i16"} PROVE T = LLVMType(resolved_type[pos])
  BY DEF Narrows, Node
<1>1. /\ pos \in NodeAddresses(program) /\ pos[3] \in Nat /\ Len(values) = pos[3] - 1
      /\ Node.lhs \in 1 .. (pos[3] - 2) /\ Node.rhs = pos[3] - 1 /\ Node = NodeAt(program, pos)
  BY PosNode DEF GenTypeInv, CGTypeOK, OnWalk, Node
<1>2. Node.lhs \in 1 .. Len(values) /\ Node.rhs \in 1 .. Len(values)
  BY <1>1
<1>3. HasSharingOperand(pos)
  BY <1>1 DEF OperandsTree, Arithmetical, ArithmeticOperators
<1>4. PICK o : o \in {Node.lhs, Node.rhs} /\ SharesType(pos, <<pos[1], pos[2], o>>)
  BY <1>1, <1>3 DEF HasSharingOperand
<1>5. PICK b : b = <<pos[1], pos[2], o>>
  OBVIOUS
<1>6. NodeAt(program, b).kind # "FunctionCall" /\ T = LLVMType(resolved_type[b])
  <2>1. values[o].type = T /\ o \in 1 .. Len(values)
    BY <1>2, <1>4
  <2>2. Narrows(b, T)
    BY <1>5, <2>1 DEF WidthsSoFar
  <2> QED BY <2>2 DEF Narrows
<1>7. resolved_type[b] \notin {"Int32", "Float64"}
  <2>1. LLVMType("Int32") = "i32" /\ LLVMType("Float64") = "double"
    BY DEF LLVMType, IntWidth, IntTypes, SignedTypes, UnsignedTypes
  <2> QED BY <1>6, <2>1
<1>8. resolved_type[b] = resolved_type[pos]
  BY <1>4, <1>5, <1>6, <1>7 DEF SharesType
<1> QED BY <1>6, <1>8

LEMMA BinaryRuns ==
  ASSUME IsProgram(program, Names), GenTypeInv, RunsInv, OperandsTree, gen = "generating",
         program' = program, resolved_type' = resolved_type, GenBinary
  PROVE  RunsInv'
<1>1. AtNode(program, pos) /\ Node.kind = "Binary"
  BY DEF GenBinary
<1>2. PICK type, operations, op, l, k, lhs, rhs, r, value :
        /\ type = resolved_type[pos] /\ operations = Operations(type) /\ op = Node.op
        /\ l = Node.lhs /\ k = Node.rhs /\ lhs = values[l] /\ rhs = values[k]
        /\ r = [at |-> pos, op |-> apply(operations, op), lhs |-> lhs, rhs |-> rhs]
        /\ value = Result(lhs.type, NextRequest)
  OBVIOUS
<1>3. \/ type = NoType /\ GenThrow("UnresolvedType")
      \/ operations \in GenErrors /\ GenThrow(operations)
      \/ op \notin ArithmeticOperators /\ GenThrow("UnsupportedOperation")
      \/ /\ operations \notin GenErrors /\ op \in ArithmeticOperators
         /\ ir' = Append(ir, r) /\ EmitValue(value)
  BY <1>2 DEF GenBinary, Request
<1>4. CASE /\ operations \notin GenErrors /\ op \in ArithmeticOperators
           /\ ir' = Append(ir, r) /\ EmitValue(value)
  <2>1. /\ r.op = apply(operations, op) /\ r.at[1] = pos[1] /\ r.lhs = lhs /\ r.rhs = rhs
        /\ value.type = lhs.type /\ value.of[1] = "request" /\ value.of[2] = Len(ir) + 1
    BY <1>2 DEF Result, NextRequest
  <2>2. r.op \in Instructions
    BY <1>2, <1>4, <2>1, ApplyInstruction
  <2>3. r.op \notin {"Alloca", "Store", "Load", "Call", "Print", "Ret"}
    BY <2>2 DEF Instructions
  <2>4. /\ IsSequence(ir) /\ Len(ir) \in Nat /\ Len(ir') = Len(ir) + 1 /\ ir'[Len(ir) + 1] = r
    BY <1>4, Appending DEF GenTypeInv
  <2>5. /\ l \in 1 .. Len(values) /\ k \in 1 .. Len(values)
        /\ l \in 1 .. Len(Stmt.value) /\ k \in 1 .. Len(Stmt.value)
    <3>1. /\ pos[3] \in 1 .. Len(Stmt.value) /\ pos[3] \in Nat /\ Len(values) = pos[3] - 1
          /\ Len(Stmt.value) \in Nat
          /\ Node.lhs \in 1 .. (pos[3] - 2) /\ Node.rhs = pos[3] - 1
      BY <1>1, PosNode, PosShape DEF GenTypeInv, CGTypeOK, OnWalk, AtNode
    <3>2. PICK i, v, w : i = pos[3] /\ v = Len(values) /\ w = Len(Stmt.value)
      OBVIOUS
    <3>3. i \in 1 .. w /\ i \in Nat /\ v = i - 1 /\ w \in Nat /\ l \in 1 .. (i - 2) /\ k = i - 1
      BY <1>2, <3>1, <3>2, Zenon
    <3>4. l \in 1 .. v /\ k \in 1 .. v /\ l \in 1 .. w /\ k \in 1 .. w
      BY <3>3
    <3> QED BY <3>2, <3>4, Zenon
  <2>6. PICK numbers : numbers = NumbersAt(program, pos[1], pos[2])
    OBVIOUS
  <2>7. PICK T, a, b : T = lhs.type /\ a = numbers[l] /\ b = numbers[k]
    OBVIOUS
  <2>8. NumberHere = Arithmetic(op, a, b)
    BY <1>1, <1>2, <2>6, <2>7, NodeHere
  <2>9. ASSUME Comparable, Comparable', WidthsSoFar
        PROVE  /\ Narrows(pos, T) /\ rhs.type = T
               /\ Compute(r.op, T, AsBits(T, a), AsBits(T, b)) = AsBits(T, NumberHere)
    <3>1. rhs.type = T
      <4>1. Len(ir) + 1 \in 1 .. Len(ir')
        BY <2>4
      <4>2. SoundRequest(ir', Len(ir) + 1)
        BY <2>9, <4>1 DEF Comparable, Sound
      <4> QED BY <2>1, <2>2, <2>4, <2>7, <4>2 DEF SoundRequest
    <3>2. type \in IntTypes /\ a \in Int /\ b \in Int
      BY <1>1, <1>2, <2>5, <2>6, <2>7, <2>9, ExactHere
    <3>3. op = "ForwardSlash" => a \in Numbers(type) /\ b \in Numbers(type) \ {0}
      BY <1>1, <1>2, <2>6, <2>7, <2>9, ExactHere
    <3>4. Narrows(pos, T)
      BY <1>1, <1>2, <1>4, <2>7, <2>9, <3>1, <3>2, NarrowOperator
    <3>5. T \in {"i8", "i16"} => T = LLVMType(type)
      BY <1>2, <3>4 DEF Narrows
    <3>6. Compute(apply(Operations(type), op), T, AsBits(T, a), AsBits(T, b))
            = AsBits(T, Arithmetic(op, a, b))
      BY <1>4, <3>2, <3>3, <3>5, Computing
    <3> QED BY <1>2, <2>1, <2>8, <3>1, <3>4, <3>6
  <2>10. ASSUME Comparable, Comparable', WidthsSoFar
         PROVE  Emits(program, ir, ir', pos, values, named_values, value)
    <3>1. ASSUME NEW calls, NEW x, x = FrameOf(ir, pos[1], calls),
                 NEW y, y = FrameOf(ir', pos[1], calls), HoldsValues(x, values, numbers)
          PROVE  /\ Same(x, y, Len(ir)) /\ y.returned = x.returned /\ y.shown = x.shown
                 /\ Holds(y, value, NumberHere)
      <4>1. IsFrame(x, Len(ir)) /\ y = Perform(x, r, calls)
        <5>1. Runs(ir, Append(ir, r), r, r.at[1])
          BY <2>4, OwnStep
        <5>2. Runs(ir, ir', r, pos[1])
          BY <1>4, <2>1, <5>1
        <5> QED BY <3>1, <5>2 DEF Runs
      <4>2. AfterNumber(x, Len(ir), Compute(r.op, r.lhs.type, Get(x, r.lhs), Get(x, r.rhs)), y)
        BY <2>3, <2>4, <4>1, PerformOther
      <4>3. Get(x, lhs) = AsBits(T, a) /\ Get(x, rhs) = AsBits(T, b)
        <5>1. Holds(x, lhs, a) /\ Holds(x, rhs, b)
          BY <1>2, <2>5, <2>7, <3>1 DEF HoldsValues
        <5> QED BY <2>7, <2>9, <2>10, <5>1 DEF Holds
      <4>4. Compute(r.op, r.lhs.type, Get(x, r.lhs), Get(x, r.rhs)) = AsBits(T, NumberHere)
        BY <2>1, <2>7, <2>9, <2>10, <4>3
      <4>5. AfterNumber(x, Len(ir), AsBits(T, NumberHere), y)
        BY <4>2, <4>4
      <4>6. Holds(y, value, NumberHere)
        BY <2>1, <2>7, <4>5 DEF Holds, Get, AfterNumber
      <4> QED BY <4>5, <4>6 DEF AfterNumber
    <3> QED BY <1>1, <2>6, <3>1, QuietEmits
  <2> QED BY <1>1, <1>4, <2>1, <2>7, <2>9, <2>10, RunsEmit
<1> QED BY <1>3, <1>4, ThrowRuns DEF GenErrors

----------------------------------------------------------------------------
(* The statement the generator leaves, in the source's run.                *)
NumberSaid  == NumbersAt(program, pos[1], pos[2])[Len(Stmt.value)]
StateBefore == StateAt(program, pos[1], pos[2] - 1)
StateHere   == StateAt(program, pos[1], pos[2])

LEMMA ExitHere ==
  ASSUME IsProgram(program, Names), GenTypeInv, AtExit(program, pos)
  PROVE  /\ pos[1] \in 1 .. Len(program) /\ pos[2] \in 1 .. Len(program[pos[1]].statements)
         /\ pos[3] \in Nat \ {0} /\ ~AtEnd(program, pos) /\ pos[2] > 0
         /\ pos[3] - 1 = Len(Stmt.value) /\ Len(Stmt.value) \in 1 .. Len(values)
         /\ IsStatement(Stmt, Names) /\ IsTable(StateBefore.vars)
         /\ Changes(Stmt, StateBefore, NumberSaid, ToldBefore, StateHere)
<1>1. /\ OnWalk(program, pos) /\ ~AtEnd(program, pos) /\ pos[2] > 0
      /\ pos[3] = Len(Stmt.value) + 1 /\ Len(values) = pos[3] - 1
  BY DEF AtExit, Stmt, GenTypeInv, CGTypeOK
<1>2. /\ pos[1] \in 1 .. Len(program) /\ pos[2] \in 1 .. Len(program[pos[1]].statements)
      /\ IsStatement(Stmt, Names) /\ Len(Stmt.value) \in Nat \ {0}
  BY <1>1, PosShape
<1>3. PICK f, s, i, l : f = pos[1] /\ s = pos[2] /\ i = pos[3] /\ l = Len(Stmt.value)
  OBVIOUS
<1>4. i \in Nat \ {0} /\ i - 1 = l /\ l \in 1 .. Len(values) /\ Len(values) = l
  BY <1>1, <1>2, <1>3
<1>5. /\ Len(program[f].statements) \in Nat /\ s \in 1 .. Len(program[f].statements)
      /\ Stmt = program[f].statements[s]
  BY <1>2, <1>3 DEF IsProgram, Stmt, StatementAt
<1>6. Changes(Stmt, StateAt(program, f, s - 1), NumbersAt(program, f, s)[l],
              ToldAt(program, f, s)[l], StateAt(program, f, s))
  BY <1>3, <1>5, StateAfter
<1>7. IsTable(StateAt(program, f, s - 1).vars)
  <2>1. s - 1 \in 0 .. Len(program[f].statements)
    BY <1>5
  <2> QED BY <1>5, <2>1, VariablesAt
<1>8. /\ StateBefore = StateAt(program, f, s - 1) /\ NumberSaid = NumbersAt(program, f, s)[l]
      /\ ToldBefore = ToldAt(program, f, s)[l] /\ StateHere = StateAt(program, f, s)
  BY <1>3, <1>4 DEF StateBefore, NumberSaid, ToldBefore, StateHere
<1>9. Changes(Stmt, StateBefore, NumberSaid, ToldBefore, StateHere) /\ IsTable(StateBefore.vars)
  BY <1>6, <1>7, <1>8
<1>10. pos[3] \in Nat \ {0} /\ pos[3] - 1 = Len(Stmt.value) /\ Len(Stmt.value) \in 1 .. Len(values)
  BY <1>3, <1>4, Zenon
<1> QED BY <1>1, <1>2, <1>9, <1>10, Zenon

(* A visit that ends a statement.                                          *)
LEMMA RunsLeave ==
  ASSUME IsProgram(program, Names), GenTypeInv, RunsInv, AtExit(program, pos), gen = "generating",
         Extends, Advance, OthersKept(ir, ir', pos[1]),
         Comparable /\ Comparable' =>
           Ends(program, ir, ir', pos, values, named_values, named_values')
  PROVE  RunsInv'
<1>1. /\ pos[1] \in 1 .. Len(program) /\ pos[2] \in 1 .. Len(program[pos[1]].statements)
      /\ pos[3] \in Nat \ {0} /\ ~AtEnd(program, pos) /\ pos[2] > 0
  BY ExitHere
<1>2. pos' = NextStatement(program, pos) /\ values' = values /\ gen' = gen
      /\ program' = program /\ InFunction
  BY <1>1 DEF Advance, Extends, InFunction
<1>3. SUFFICES ASSUME Comparable'
               PROVE  /\ \A f \in 1 .. Len(program') : OutputFits(program', ir', pos', f)
                      /\ InFunction' => MemoryFits(program', ir', pos', values', named_values')
                      /\ ~(pos'[3] > 0)
  BY DEF RunsInv
<1>4. Comparable
  BY <1>3, ComparableBefore
<1>5. /\ \A f \in 1 .. Len(program) : OutputFits(program, ir, pos, f)
      /\ MemoryFits(program, ir, pos, values, named_values)
      /\ Ends(program, ir, ir', pos, values, named_values, named_values')
  BY <1>2, <1>3, <1>4 DEF RunsInv
<1>6. PICK q, r, p, next, vals, slots, more :
        /\ q = ir /\ r = ir' /\ p = pos /\ next = pos' /\ vals = values /\ slots = named_values
        /\ more = named_values'
  OBVIOUS
<1>7. Len(program) \in Nat /\ \A f \in 1 .. Len(program) : Len(program[f].statements) \in Nat
  BY DEF IsProgram
<1>8. /\ p[1] \in 1 .. Len(program) /\ p[2] \in 1 .. Len(program[p[1]].statements)
      /\ p[3] \in Nat \ {0} /\ next = NextStatement(program, p)
  BY <1>1, <1>2, <1>6
<1>9. /\ OthersKept(q, r, p[1]) /\ \A f \in 1 .. Len(program) : OutputFits(program, q, p, f)
      /\ MemoryFits(program, q, p, vals, slots) /\ Ends(program, q, r, p, vals, slots, more)
  BY <1>5, <1>6
<1>10. /\ \A f \in 1 .. Len(program) : OutputFits(program, r, next, f)
       /\ next[2] > 0 => MemoryFits(program, r, next, vals, more)
  BY <1>7, <1>8, <1>9, EndFits
<1>11. ~(next[3] > 0)
  <2>1. p[2] \in 0 .. Len(program[p[1]].statements)
    BY <1>8
  <2> QED BY <1>7, <1>8, <2>1, Onward
<1>12. InFunction' => next[2] > 0
  BY <1>6 DEF InFunction
<1> QED BY <1>2, <1>6, <1>10, <1>11, <1>12

LEMMA OutputLeaves ==
  ASSUME IsProgram(program, Names), GenTypeInv, RunsInv, AtExit(program, pos), gen = "generating",
         program' = program, resolved_type' = resolved_type, Stmt.kind \in {"Show", "Return"},
         NEW r, r.at[1] = pos[1], r.value = StmtValue, Stmt.kind = "Show" => r.op = "Print",
         Stmt.kind = "Return" => r.op = "Ret",
         ir' = Append(ir, r), named_values' = named_values, Advance
  PROVE  RunsInv'
<1>1. Extends
  BY Extending
<1>2. /\ IsSequence(ir) /\ Len(ir) \in Nat /\ Len(ir') = Len(ir) + 1 /\ ir'[Len(ir) + 1] = r
      /\ \A i \in 1 .. Len(ir) : ir'[i] = ir[i]
  BY Appending DEF GenTypeInv
<1>3. OthersKept(ir, ir', pos[1])
  BY <1>2, OneRequest
<1>4. /\ Len(Stmt.value) \in 1 .. Len(values) /\ pos[3] - 1 = Len(Stmt.value)
      /\ Changes(Stmt, StateBefore, NumberSaid, ToldBefore, StateHere)
  BY ExitHere
<1>5. /\ StateHere.vars = StateBefore.vars
      /\ Stmt.kind = "Show" => /\ StateHere.shown = Append(ToldBefore, NumberSaid)
                               /\ StateHere.returned = StateBefore.returned
      /\ Stmt.kind = "Return" => StateHere.shown = ToldBefore /\ StateHere.returned = NumberSaid
  BY <1>4 DEF Changes
<1>6. PICK value, T, number : value = StmtValue /\ T = value.type /\ number = NumberSaid
  OBVIOUS
<1>7. \A n \in Names : named_values[n] \in 0 .. Len(ir)
  BY DEF GenTypeInv, CGTypeOK
<1>8. ASSUME Comparable, Comparable',
             NEW calls, NEW x, x = FrameOf(ir, pos[1], calls), NEW y, y = FrameOf(ir', pos[1], calls),
             HoldsSlots(ir, x, named_values, StateBefore.vars),
             HoldsValues(x, values, NumbersAt(program, pos[1], pos[2])),
             Shows(x.shown, ToldBefore), x.returned = StateBefore.returned
      PROVE  /\ y.returned = StateHere.returned /\ Shows(y.shown, StateHere.shown)
             /\ HoldsSlots(ir', y, named_values', StateHere.vars)
  <2>1. IsFrame(x, Len(ir)) /\ y = Perform(x, r, calls)
    <3>1. Runs(ir, Append(ir, r), r, r.at[1])
      BY <1>2, OwnStep
    <3>2. Runs(ir, ir', r, pos[1])
      BY <3>1
    <3> QED BY <1>8, <3>2 DEF Runs
  <2>2. r.op \in {"Print", "Ret"}
    OBVIOUS
  <2>3. /\ Same(x, y, Len(ir))
        /\ r.op = "Ret" => y.returned = Get(x, r.value) /\ y.shown = x.shown
        /\ r.op = "Print" => y.returned = x.returned /\ y.shown = Append(x.shown, Printed(x, r.value))
    BY <1>2, <2>1, <2>2, PerformOutput
  <2>4. Get(x, value) = AsBits(T, number)
    <3>1. Holds(x, value, number)
      BY <1>4, <1>6, <1>8 DEF HoldsValues, StmtValue, NumberSaid
    <3> QED BY <1>6, <3>1 DEF Holds
  <2>5. HoldsSlots(ir', y, named_values', StateHere.vars)
    <3>1. PICK q, t, n, slots, held :
            q = ir /\ t = ir' /\ n = Len(ir) /\ slots = named_values /\ held = StateBefore.vars
      OBVIOUS
    <3>2. /\ n \in Nat /\ \A i \in 1 .. n : t[i] = q[i]
          /\ \A m \in Names : slots[m] \in 0 .. n
      BY <1>2, <1>7, <3>1
    <3>3. Same(x, y, n) /\ HoldsSlots(q, x, slots, held)
      BY <1>8, <2>3, <3>1
    <3>4. HoldsSlots(t, y, slots, held)
      BY <3>2, <3>3, SlotsUndisturbed
    <3> QED BY <1>5, <3>1, <3>4
  <2>6. CASE Stmt.kind = "Show"
    <3>1. PICK entry : entry = Printed(x, value)
      OBVIOUS
    <3>2. entry.bits = AsBits(entry.type, number)
      BY <1>6, <2>4, <3>1 DEF Printed
    <3>3. y.shown = Append(x.shown, entry) /\ y.returned = x.returned
      BY <1>6, <2>3, <2>6, <3>1
    <3>4. Shows(y.shown, Append(ToldBefore, number))
      BY <1>8, <3>2, <3>3, ShowingOne
    <3> QED BY <1>5, <1>6, <1>8, <2>5, <2>6, <3>3, <3>4
  <2>7. CASE Stmt.kind = "Return"
    <3>1. T = "i32"
      <4>1. Len(ir) + 1 \in 1 .. Len(ir')
        BY <1>2
      <4>2. SoundRequest(ir', Len(ir) + 1)
        BY <1>8, <4>1 DEF Comparable, Sound
      <4> QED BY <1>2, <1>6, <2>7, <4>2 DEF SoundRequest
    <3>2. AsBits(T, number) = number
      BY <3>1, WideBits
    <3>3. y.returned = number /\ y.shown = x.shown
      BY <1>6, <2>3, <2>4, <2>7, <3>2
    <3>4. StateHere.shown = ToldBefore /\ StateHere.returned = number
      BY <1>5, <1>6, <2>7
    <3>5. Shows(y.shown, StateHere.shown)
      BY <1>8, <3>3, <3>4
    <3> QED BY <2>5, <3>3, <3>4, <3>5
  <2> QED BY <2>6, <2>7
<1>9. ASSUME Comparable, Comparable'
      PROVE  Ends(program, ir, ir', pos, values, named_values, named_values')
  BY <1>8, <1>9 DEF Ends, StateBefore, StateHere, ToldBefore
<1> QED BY <1>1, <1>3, <1>9, RunsLeave

LEMMA ShowRuns ==
  ASSUME IsProgram(program, Names), GenTypeInv, RunsInv, gen = "generating",
         program' = program, resolved_type' = resolved_type, GenShow \/ GenReturn
  PROVE  RunsInv'
<1>1. PICK r : r = [at |-> StmtAddress, op |-> IF Stmt.kind = "Show" THEN "Print" ELSE "Ret",
                    value |-> StmtValue]
  OBVIOUS
<1>2. /\ AtExit(program, pos) /\ Stmt.kind \in {"Show", "Return"} /\ ir' = Append(ir, r)
      /\ named_values' = named_values /\ Advance
  BY <1>1 DEF GenShow, GenReturn, Request
<1>3. /\ r.at[1] = pos[1] /\ r.value = StmtValue /\ (Stmt.kind = "Show" => r.op = "Print")
      /\ (Stmt.kind = "Return" => r.op = "Ret")
  BY <1>1 DEF StmtAddress
<1> QED BY <1>2, <1>3, OutputLeaves

(* Two names of a function have two slots.                                 *)
LEMMA SlotsDiffer ==
  ASSUME InFunction, SlotsFollow, NEW m \in Names, NEW n \in Names, m # n,
         named_values[m] # NoRequest, named_values[n] # NoRequest
  PROVE  named_values[m] # named_values[n]
<1>1. PICK d : IsSlotOf(d, m)
  BY DEF SlotsFollow
<1>2. PICK e : IsSlotOf(e, n)
  BY DEF SlotsFollow
<1>3. d # e
  BY <1>1, <1>2 DEF IsSlotOf, Declares
<1>4. <<pos[1], d, 0>> # <<pos[1], e, 0>>
  BY <1>3
<1> QED BY <1>1, <1>2, <1>4 DEF IsSlotOf

LEMMA AssignmentRuns ==
  ASSUME IsProgram(program, Names), GenTypeInv, RunsInv, CheckedTree, SlotsFollow,
         gen = "generating", program' = program, resolved_type' = resolved_type, GenAssignment
  PROVE  RunsInv'
<1>1. PICK slot, value, number, T :
        slot = named_values[Stmt.name] /\ value = StmtValue /\ number = NumberSaid /\ T = value.type
  OBVIOUS
<1>2. PICK r : r = [at |-> StmtAddress, op |-> "Store", value |-> value, slot |-> slot]
  OBVIOUS
<1>3. /\ AtExit(program, pos) /\ Stmt.kind = "Assign" /\ ir' = Append(ir, r)
      /\ named_values' = named_values /\ Advance
  BY <1>1, <1>2 DEF GenAssignment, Request
<1>4. r.at = StmtAddress /\ r.at[1] = pos[1] /\ r.op = "Store" /\ r.value = value /\ r.slot = slot
  BY <1>2 DEF StmtAddress
<1>5. Extends
  BY <1>3, Extending
<1>6. /\ IsSequence(ir) /\ Len(ir) \in Nat /\ Len(ir') = Len(ir) + 1 /\ ir'[Len(ir) + 1] = r
      /\ \A i \in 1 .. Len(ir) : ir'[i] = ir[i]
  BY <1>3, Appending DEF GenTypeInv
<1>7. OthersKept(ir, ir', pos[1])
  BY <1>3, <1>4, <1>6, OneRequest
<1>8. /\ Len(Stmt.value) \in 1 .. Len(values) /\ IsStatement(Stmt, Names)
      /\ ~AtEnd(program, pos) /\ pos[2] > 0 /\ IsTable(StateBefore.vars)
      /\ Changes(Stmt, StateBefore, NumberSaid, ToldBefore, StateHere)
  BY <1>3, ExitHere
<1>9. /\ StateHere.vars = HeldAfter(Stmt, StateBefore.vars, number)
      /\ StateHere.shown = ToldBefore /\ StateHere.returned = StateBefore.returned
  BY <1>1, <1>3, <1>8 DEF Changes
<1>10. InFunction /\ Stmt.name \in Names
  BY <1>3, <1>8 DEF InFunction, IsStatement
<1>11. \A n \in Names : named_values[n] \in 0 .. Len(ir)
  BY DEF GenTypeInv, CGTypeOK
<1>12. slot # NoRequest
  <2>1. /\ StmtAddress \in StatementAddresses(program) /\ StatementAt(program, StmtAddress) = Stmt
        /\ StmtAddress[1] = pos[1] /\ StmtAddress[2] = pos[2]
    BY <1>8, PosShape DEF GenTypeInv, CGTypeOK, StmtAddress
  <2>2. DeclaresBefore(pos[1], pos[2], Stmt.name)
    BY <1>3, <2>1 DEF CheckedTree
  <2> QED BY <1>1, <1>10, <2>2 DEF SlotsFollow
<1>13. slot \in 1 .. Len(ir)
  BY <1>1, <1>6, <1>10, <1>11, <1>12 DEF NoRequest
<1>14. ASSUME NEW m \in Names, m # Stmt.name, named_values[m] # NoRequest
       PROVE  named_values[m] \in 1 .. Len(ir) /\ named_values[m] # slot
  <2>1. named_values[m] # slot
    BY <1>1, <1>10, <1>12, <1>14, SlotsDiffer
  <2> QED BY <1>6, <1>11, <1>14, <2>1 DEF NoRequest
<1>15. ASSUME Comparable, Comparable',
              NEW calls, NEW x, x = FrameOf(ir, pos[1], calls), NEW y, y = FrameOf(ir', pos[1], calls),
              HoldsSlots(ir, x, named_values, StateBefore.vars),
              HoldsValues(x, values, NumbersAt(program, pos[1], pos[2])),
              Shows(x.shown, ToldBefore), x.returned = StateBefore.returned
       PROVE  /\ y.returned = StateHere.returned /\ Shows(y.shown, StateHere.shown)
              /\ HoldsSlots(ir', y, named_values', StateHere.vars)
  <2>1. IsFrame(x, Len(ir)) /\ y = Perform(x, r, calls)
    <3>1. Runs(ir, Append(ir, r), r, r.at[1])
      BY <1>6, OwnStep
    <3>2. Runs(ir, ir', r, pos[1])
      BY <1>3, <1>4, <3>1
    <3> QED BY <1>15, <3>2 DEF Runs
  <2>2. /\ y.shown = x.shown /\ y.returned = x.returned /\ y.cell[slot] = Get(x, value)
        /\ \A k \in 1 .. Len(ir) : k # slot => y.cell[k] = x.cell[k]
    <3>1. r.op \in {"Alloca", "Store", "Load"}
      BY <1>4
    <3>2. /\ y.shown = x.shown /\ y.returned = x.returned
          /\ r.op = "Store" =>
               /\ r.slot \in 1 .. Len(ir) => y.cell[r.slot] = Get(x, r.value)
               /\ \A k \in 1 .. Len(ir) : k # r.slot => y.cell[k] = x.cell[k]
      BY <1>6, <2>1, <3>1, PerformMemory
    <3> QED BY <1>4, <1>13, <3>2
  <2>3. Get(x, value) = AsBits(T, number)
    <3>1. Holds(x, value, number)
      BY <1>1, <1>8, <1>15 DEF HoldsValues, StmtValue, NumberSaid
    <3> QED BY <1>1, <3>1 DEF Holds
  <2>4. T = ir'[slot].type
    <3>1. Len(ir) + 1 \in 1 .. Len(ir') /\ slot \in 1 .. (Len(ir) + 1) - 1
      BY <1>6, <1>13
    <3>2. SoundRequest(ir', Len(ir) + 1)
      BY <1>15, <3>1 DEF Comparable, Sound
    <3> QED BY <1>1, <1>4, <1>6, <3>1, <3>2 DEF SoundRequest
  <2>5. HoldsSlots(ir', y, named_values', StateHere.vars)
    <3>1. PICK q, t, n, slots, more, held, after :
            /\ q = ir /\ t = ir' /\ n = Len(ir) /\ slots = named_values /\ more = named_values'
            /\ held = StateBefore.vars /\ after = StateHere.vars
      OBVIOUS
    <3>2. PICK stmt : stmt = Stmt
      OBVIOUS
    <3>3. n \in Nat /\ Begins(q, t, n)
      BY <1>6, <3>1 DEF Begins
    <3>4. /\ HoldsSlots(q, x, slots, held) /\ stmt.name \in Names /\ IsTable(held)
          /\ after = HeldAfter(stmt, held, number)
      BY <1>8, <1>9, <1>10, <1>15, <3>1, <3>2
    <3>5. OthersHeld(x, y, n, slots, more, stmt.name)
      BY <1>3, <1>11, <1>14, <2>2, <3>1, <3>2 DEF OthersHeld
    <3>6. y.cell[more[stmt.name]] = AsBits(t[more[stmt.name]].type, number)
      BY <1>1, <1>3, <2>2, <2>3, <2>4, <3>1, <3>2
    <3>7. HoldsSlots(t, y, more, after)
      BY <3>3, <3>4, <3>5, <3>6, SlotsWritten
    <3> QED BY <3>1, <3>7
  <2> QED BY <1>9, <1>15, <2>2, <2>5
<1>16. ASSUME Comparable, Comparable'
       PROVE  Ends(program, ir, ir', pos, values, named_values, named_values')
  BY <1>15, <1>16 DEF Ends, StateBefore, StateHere, ToldBefore
<1> QED BY <1>3, <1>5, <1>7, <1>16, RunsLeave

LEMMA DeclarationRuns ==
  ASSUME IsProgram(program, Names), GenTypeInv, RunsInv,
         gen = "generating", program' = program, resolved_type' = resolved_type, GenDeclaration
  PROVE  RunsInv'
<1>1. PICK type, value, number, T, alloca, store :
        /\ type = resolved_type[StmtAddress] /\ value = StmtValue /\ number = NumberSaid
        /\ T = value.type
        /\ alloca = [at |-> StmtAddress, op |-> "Alloca", type |-> SlotOfDeclaration]
        /\ store = [at |-> StmtAddress, op |-> "Store", value |-> value, slot |-> NextRequest]
  OBVIOUS
<1>2. AtExit(program, pos) /\ Stmt.kind = "Declare"
  BY DEF GenDeclaration
<1>3. \/ type = NoType /\ GenThrow("UnresolvedType")
      \/ ~HasLLVMType(type) /\ GenThrow(NoLLVMType(type))
      \/ /\ ir' = ir \o << alloca, store >> /\ Advance
         /\ named_values' = [named_values EXCEPT ![Stmt.name] = NextRequest]
  BY <1>1 DEF GenDeclaration
<1>4. NoLLVMType(type) \in GenErrors
  BY NoLLVMTypeError
<1>5. CASE /\ ir' = ir \o << alloca, store >> /\ Advance
           /\ named_values' = [named_values EXCEPT ![Stmt.name] = NextRequest]
  <2>1. /\ alloca.at[1] = pos[1] /\ alloca.op = "Alloca"
        /\ store.at[1] = pos[1] /\ store.op = "Store" /\ store.value = value
        /\ store.slot = Len(ir) + 1
    BY <1>1 DEF StmtAddress, NextRequest
  <2>2. IsSequence(ir) /\ Len(ir) \in Nat
    BY Appending DEF GenTypeInv
  <2>3. PICK half : half = Append(ir, alloca)
    OBVIOUS
  <2>4. ir' = Append(half, store)
    BY <1>5, <2>2, <2>3, AppendingTwo
  <2>5. /\ IsSequence(half) /\ Len(half) = Len(ir) + 1 /\ half[Len(ir) + 1] = alloca
        /\ \A i \in 1 .. Len(ir) : half[i] = ir[i]
    BY <2>2, <2>3, Appending
  <2>6. /\ Len(ir') = Len(half) + 1 /\ ir'[Len(half) + 1] = store
        /\ \A i \in 1 .. Len(half) : ir'[i] = half[i]
    BY <2>4, <2>5, Appending
  <2>7. /\ Len(ir') = Len(ir) + 2 /\ ir'[Len(ir) + 1] = alloca /\ ir'[Len(ir) + 2] = store
        /\ \A i \in 1 .. Len(ir) : ir'[i] = ir[i]
    BY <2>2, <2>5, <2>6
  <2>8. Extends
    BY <2>2, <2>7 DEF Extends
  <2>9. OthersKept(ir, ir', pos[1])
    <3>1. OthersKept(ir, half, pos[1])
      BY <2>1, <2>2, <2>3, OneRequest
    <3>2. OthersKept(half, ir', pos[1])
      BY <2>1, <2>4, <2>5, OneRequest
    <3> QED BY <3>1, <3>2, OthersTwice
  <2>10. /\ Len(Stmt.value) \in 1 .. Len(values) /\ IsStatement(Stmt, Names)
         /\ IsTable(StateBefore.vars)
         /\ Changes(Stmt, StateBefore, NumberSaid, ToldBefore, StateHere)
    BY <1>2, ExitHere
  <2>11. /\ StateHere.vars = HeldAfter(Stmt, StateBefore.vars, number)
         /\ StateHere.shown = ToldBefore /\ StateHere.returned = StateBefore.returned
    BY <1>1, <1>2, <2>10 DEF Changes
  <2>12. Stmt.name \in Names
    BY <1>2, <2>10 DEF IsStatement
  <2>13. /\ \A n \in Names : named_values[n] \in 0 .. Len(ir)
         /\ named_values'[Stmt.name] = Len(ir) + 1
         /\ \A n \in Names : n # Stmt.name => named_values'[n] = named_values[n]
    BY <1>5, <2>12 DEF GenTypeInv, CGTypeOK, NextRequest
  <2>14. value.of[1] = "request" => value.of[2] \in 1 .. Len(ir)
    BY <1>1, <2>10 DEF GenTypeInv, CGTypeOK, StmtValue
  <2>15. ASSUME Comparable, Comparable',
                NEW calls, NEW x, x = FrameOf(ir, pos[1], calls),
                NEW y, y = FrameOf(ir', pos[1], calls),
                HoldsSlots(ir, x, named_values, StateBefore.vars),
                HoldsValues(x, values, NumbersAt(program, pos[1], pos[2])),
                Shows(x.shown, ToldBefore), x.returned = StateBefore.returned
         PROVE  /\ y.returned = StateHere.returned /\ Shows(y.shown, StateHere.shown)
                /\ HoldsSlots(ir', y, named_values', StateHere.vars)
    <3>1. PICK h : h = FrameOf(half, pos[1], calls)
      OBVIOUS
    <3>2. IsFrame(x, Len(ir)) /\ h = Perform(x, alloca, calls)
      <4>1. Runs(ir, Append(ir, alloca), alloca, alloca.at[1])
        BY <2>2, OwnStep
      <4>2. Runs(ir, half, alloca, pos[1])
        BY <2>1, <2>3, <4>1
      <4> QED BY <2>15, <3>1, <4>2 DEF Runs
    <3>3. IsFrame(h, Len(half)) /\ y = Perform(h, store, calls)
      <4>1. Runs(half, Append(half, store), store, store.at[1])
        BY <2>5, OwnStep
      <4>2. Runs(half, ir', store, pos[1])
        BY <2>1, <2>4, <4>1
      <4> QED BY <2>15, <3>1, <4>2 DEF Runs
    <3>4. h.shown = x.shown /\ h.returned = x.returned /\ Same(x, h, Len(ir))
      BY <2>1, <2>2, <3>2, PerformMemory
    <3>5. /\ y.shown = h.shown /\ y.returned = h.returned
          /\ y.cell[Len(ir) + 1] = Get(h, value)
          /\ \A k \in 1 .. Len(ir) : y.cell[k] = h.cell[k]
      <4>1. store.op \in {"Alloca", "Store", "Load"} /\ Len(half) \in Nat
        BY <2>1, <2>2, <2>5
      <4>2. /\ y.shown = h.shown /\ y.returned = h.returned
            /\ store.op = "Store" =>
                 /\ store.slot \in 1 .. Len(half) => y.cell[store.slot] = Get(h, store.value)
                 /\ \A k \in 1 .. Len(half) : k # store.slot => y.cell[k] = h.cell[k]
        BY <3>3, <4>1, PerformMemory
      <4>3. Len(ir) + 1 \in 1 .. Len(half) /\ \A k \in 1 .. Len(ir) : k \in 1 .. Len(half) /\ k # Len(ir) + 1
        BY <2>2, <2>5
      <4> QED BY <2>1, <4>2, <4>3
    <3>6. Get(h, value) = AsBits(T, number)
      <4>1. Holds(x, value, number)
        BY <1>1, <2>10, <2>15 DEF HoldsValues, StmtValue, NumberSaid
      <4>2. Holds(h, value, number)
        BY <2>2, <2>14, <3>4, <4>1, ValueKept
      <4> QED BY <1>1, <4>2 DEF Holds
    <3>7. T = ir'[Len(ir) + 1].type
      <4>1. Len(ir) + 2 \in 1 .. Len(ir') /\ Len(ir) + 1 \in 1 .. (Len(ir) + 2) - 1
        BY <2>2, <2>7
      <4>2. SoundRequest(ir', Len(ir) + 2)
        BY <2>15, <4>1 DEF Comparable, Sound
      <4> QED BY <1>1, <2>1, <2>7, <4>1, <4>2 DEF SoundRequest
    <3>8. HoldsSlots(ir', y, named_values', StateHere.vars)
      <4>1. PICK q, t, n, slots, more, held, after :
              /\ q = ir /\ t = ir' /\ n = Len(ir) /\ slots = named_values /\ more = named_values'
              /\ held = StateBefore.vars /\ after = StateHere.vars
        OBVIOUS
      <4>2. PICK stmt : stmt = Stmt
        OBVIOUS
      <4>3. n \in Nat /\ Begins(q, t, n)
        BY <2>2, <2>7, <4>1 DEF Begins
      <4>4. /\ HoldsSlots(q, x, slots, held) /\ stmt.name \in Names /\ IsTable(held)
            /\ after = HeldAfter(stmt, held, number)
        BY <2>10, <2>11, <2>12, <2>15, <4>1, <4>2
      <4>5. OthersHeld(x, y, n, slots, more, stmt.name)
        <5>1. ASSUME NEW m \in Names, m # stmt.name
              PROVE  /\ more[m] = slots[m] /\ slots[m] \in 0 .. n
                     /\ (slots[m] # NoRequest => y.cell[slots[m]] = x.cell[slots[m]])
          <6>1. more[m] = slots[m] /\ slots[m] \in 0 .. n /\ n \in Nat
            BY <2>13, <4>1, <4>2, <4>3, <5>1
          <6>2. slots[m] # NoRequest => slots[m] \in 1 .. n
            BY <6>1 DEF NoRequest
          <6> QED BY <3>4, <3>5, <4>1, <6>1, <6>2 DEF Same
        <5> QED BY <5>1 DEF OthersHeld
      <4>6. y.cell[more[stmt.name]] = AsBits(t[more[stmt.name]].type, number)
        BY <2>13, <3>5, <3>6, <3>7, <4>1, <4>2
      <4>7. HoldsSlots(t, y, more, after)
        BY <4>3, <4>4, <4>5, <4>6, SlotsWritten
      <4> QED BY <4>1, <4>7
    <3> QED BY <2>11, <2>15, <3>4, <3>5, <3>8
  <2>16. ASSUME Comparable, Comparable'
         PROVE  Ends(program, ir, ir', pos, values, named_values, named_values')
    BY <2>15, <2>16 DEF Ends, StateBefore, StateHere, ToldBefore
  <2> QED BY <1>2, <1>5, <2>8, <2>9, <2>16, RunsLeave
<1> QED BY <1>3, <1>4, <1>5, ThrowRuns DEF GenErrors

(* Steps that make no request: the two runs stand where they stood.        *)
LEMMA OutputStays ==
  ASSUME NEW prog, NEW q, NEW p, NEW next, NEW f, OutputFits(prog, q, p, f),
         StatementsRun(prog, next, f) = StatementsRun(prog, p, f), Told(prog, next, f) = Told(prog, p, f)
  PROVE  OutputFits(prog, q, next, f)
BY DEF OutputFits

LEMMA FunctionRuns ==
  ASSUME IsProgram(program, Names), GenTypeInv, RunsInv, gen = "generating",
         program' = program, resolved_type' = resolved_type, GenFunction
  PROVE  RunsInv'
<1>1. /\ AtFunction(program, pos) /\ pos' = NextStatement(program, pos) /\ ir' = ir /\ gen' = gen
      /\ named_values' = [n \in Names |-> NoRequest]
  BY DEF GenFunction
<1>2. /\ OnWalk(program, pos) /\ pos[2] = 0 /\ pos[3] = 0 /\ ~AtEnd(program, pos)
  BY <1>1 DEF AtFunction, GenTypeInv, CGTypeOK
<1>3. Len(program) \in Nat /\ \A f \in 1 .. Len(program) : Len(program[f].statements) \in Nat
  BY DEF IsProgram
<1>4. pos[1] \in 1 .. Len(program)
  BY <1>2, <1>3 DEF OnWalk, AtEnd
<1>5. SUFFICES ASSUME Comparable'
               PROVE  /\ \A f \in 1 .. Len(program) : OutputFits(program, ir, pos', f)
                      /\ MemoryFits(program, ir, pos', values', named_values')
                      /\ ~(pos'[3] > 0)
  BY <1>1 DEF RunsInv
<1>6. \A f \in 1 .. Len(program) : OutputFits(program, ir, pos, f)
  BY <1>1, <1>5, ComparableStays DEF RunsInv
<1>7. PICK p, next : p = pos /\ next = pos'
  OBVIOUS
<1>8. p[1] \in 1 .. Len(program) /\ p[2] = 0 /\ p[2] \in 0 .. Len(program[p[1]].statements)
      /\ next = NextStatement(program, p)
  BY <1>1, <1>2, <1>3, <1>4, <1>7
<1>9. /\ next[3] = 0
      /\ StatementsRun(program, next, p[1]) = p[2]
      /\ \A f \in 1 .. Len(program) : f # p[1] =>
           StatementsRun(program, next, f) = StatementsRun(program, p, f)
      /\ \A f : Told(program, next, f) = StateAt(program, f, StatementsRun(program, next, f)).shown
  BY <1>3, <1>8, Onward
<1>10. ASSUME NEW f \in 1 .. Len(program) PROVE OutputFits(program, ir, next, f)
  <2>1. StatementsRun(program, next, f) = StatementsRun(program, p, f)
    <3>1. CASE f = p[1]
      BY <1>3, <1>8, <1>9, <3>1 DEF StatementsRun
    <3> QED BY <1>9, <3>1
  <2>2. Told(program, p, f) = StateAt(program, f, StatementsRun(program, p, f)).shown
    BY <1>8 DEF Told
  <2>3. Told(program, next, f) = Told(program, p, f)
    BY <1>9, <2>1, <2>2
  <2>4. OutputFits(program, ir, p, f)
    BY <1>6, <1>7
  <2> QED BY <2>1, <2>3, <2>4, OutputStays
<1>11. MemoryFits(program, ir, next, values', named_values')
  <2>1. \A x, held : HoldsSlots(ir, x, named_values', held)
    BY <1>1 DEF HoldsSlots
  <2>2. ~(next[3] > 0)
    BY <1>9
  <2> QED BY <2>1, <2>2 DEF MemoryFits
<1>12. ~(next[3] > 0)
  BY <1>9
<1> QED BY <1>7, <1>10, <1>11, <1>12

LEMMA EntryRuns ==
  ASSUME IsProgram(program, Names), GenTypeInv, RunsInv, gen = "generating",
         program' = program, resolved_type' = resolved_type, GenEntry
  PROVE  RunsInv'
<1>1. \/ GenThrow("DeclaredTwice") \/ GenThrow("NonexistentVariable")
      \/ pos' = <<pos[1], pos[2], 1>> /\ values' = << >>
         /\ UNCHANGED << named_values, ir, gen >>
  BY DEF GenEntry
<1>2. CASE /\ pos' = <<pos[1], pos[2], 1>> /\ values' = << >>
           /\ UNCHANGED << named_values, ir, gen >>
  <2>1. /\ OnWalk(program, pos) /\ ~AtEnd(program, pos) /\ pos[2] > 0 /\ pos[3] = 0
    BY DEF GenEntry, AtEntry, GenTypeInv, CGTypeOK
  <2>2. /\ pos[1] \in 1 .. Len(program) /\ pos[2] \in 1 .. Len(program[pos[1]].statements)
        /\ Len(Stmt.value) \in Nat /\ InFunction
    BY <2>1, PosShape DEF InFunction
  <2>3. SUFFICES ASSUME Comparable'
                 PROVE  /\ \A f \in 1 .. Len(program) : OutputFits(program, ir, pos', f)
                        /\ MemoryFits(program, ir, pos', values', named_values)
                        /\ WidthsSoFar'
    BY <1>2 DEF RunsInv
  <2>4. /\ \A f \in 1 .. Len(program) : OutputFits(program, ir, pos, f)
        /\ MemoryFits(program, ir, pos, values, named_values)
    BY <1>2, <2>2, <2>3, ComparableStays DEF RunsInv
  <2>5. PICK p, next, f : p = pos /\ next = pos' /\ f = pos[1]
    OBVIOUS
  <2>6. /\ p[1] = f /\ p[2] > 0 /\ p[3] = 0 /\ ~(p[3] > 0)
        /\ next[1] = f /\ next[2] = p[2] /\ next[3] = 1 /\ next[3] > 0 /\ next[3] - 1 = 0
    BY <1>2, <2>1, <2>5
  <2>7. \A g : StatementsRun(program, next, g) = StatementsRun(program, p, g)
    BY <2>6 DEF StatementsRun
  <2>8. \A g : Told(program, next, g) = Told(program, p, g)
    <3>1. Stmt = program[f].statements[p[2]]
      BY <2>5, Zenon DEF Stmt, StatementAt
    <3>2. ToldAt(program, f, p[2])[0] = StateAt(program, f, p[2] - 1).shown
      <4>1. Len(program[f].statements[p[2]].value) \in Nat
        BY <2>2, <3>1
      <4>2. PICK s : s = p[2]
        OBVIOUS
      <4>3. PICK e, before, calls, told :
              /\ e = program[f].statements[s].value /\ before = StateAt(program, f, s - 1).shown
              /\ calls = Earlier(Meaning(program), f) /\ told = ToldAt(program, f, s)
        OBVIOUS
      <4>4. Narrated(program, e, before, calls, told)
        BY <4>1, <4>2, <4>3, ToldByNodes
      <4>5. told[0] = before
        BY <4>4, Zenon DEF Narrated
      <4> QED BY <4>2, <4>3, <4>5
    <3>3. ~(f < p[1])
      BY <2>2, <2>5
    <3>4. StatementsRun(program, p, f) = p[2] - 1
      BY <2>6, <3>3 DEF StatementsRun
    <3>5. Told(program, next, f) = ToldAt(program, f, p[2])[0]
      BY <2>6 DEF Told
    <3>6. Told(program, p, f) = StateAt(program, f, p[2] - 1).shown
      BY <2>6, <3>4 DEF Told
    <3>7. ASSUME NEW g, g # f PROVE Told(program, next, g) = Told(program, p, g)
      BY <2>6, <2>7, <3>7 DEF Told
    <3> QED BY <3>2, <3>5, <3>6, <3>7
  <2>9. \A g \in 1 .. Len(program) : OutputFits(program, ir, next, g)
    BY <2>4, <2>5, <2>7, <2>8, OutputStays
  <2>10. Len(values') = 0
    BY <1>2
  <2>11. MemoryFits(program, ir, next, values', named_values)
    <3>1. \A x, numbers : HoldsValues(x, values', numbers)
      BY <2>10 DEF HoldsValues
    <3> QED BY <2>4, <2>5, <2>6, <3>1 DEF MemoryFits
  <2>12. WidthsSoFar'
    BY <2>10 DEF WidthsSoFar
  <2> QED BY <2>5, <2>9, <2>11, <2>12
<1> QED BY <1>1, <1>2, ThrowRuns DEF GenErrors

LEMMA StartRuns ==
  ASSUME IsProgram(program, Names), GenInv, gen = "waiting", Len(ir) = 0, GenStart,
         program' = program
  PROVE  RunsInv'
<1>1. pos = <<1, 0, 0>> /\ pos' = pos /\ ir' = ir
  BY DEF GenInv, RunsOnChecked, FirstAddress, GenStart
<1>2. PICK p : p = pos /\ p[1] = 1 /\ p[2] = 0 /\ p[3] = 0
  BY <1>1
<1>3. ASSUME NEW f \in 1 .. Len(program) PROVE OutputFits(program, ir, p, f)
  <2>1. f \in Nat /\ ~(f < p[1]) /\ Len(program[f].statements) \in Nat
    BY <1>2 DEF IsProgram
  <2>2. StatementsRun(program, p, f) = 0
    BY <1>2, <2>1 DEF StatementsRun
  <2>3. Told(program, p, f) = StateAt(program, f, 0).shown
    BY <1>2, <2>2 DEF Told
  <2>4. StateAt(program, f, 0).shown = << >> /\ StateAt(program, f, 0).returned = 0
    BY <2>1, StateBegun DEF Begun
  <2>5. \A calls : FrameOf(ir, f, calls) = NewFrame
    BY FrameSteps DEF FrameOf
  <2>6. NewFrame.shown = << >> /\ NewFrame.returned = 0
    BY DEF NewFrame
  <2> QED BY <2>2, <2>3, <2>4, <2>5, <2>6, NothingShown DEF OutputFits
<1>4. ~InFunction'
  BY <1>1 DEF InFunction
<1> QED BY <1>1, <1>2, <1>3, <1>4 DEF RunsInv

LEMMA StayRuns ==
  ASSUME RunsInv, UNCHANGED << program, resolved_type, pos, values, named_values, ir >>,
         gen' = gen \/ GenFinish
  PROVE  RunsInv'
<1>1. gen' \in {"generating", "generated"} => gen \in {"generating", "generated"}
  BY DEF GenFinish
<1>2. Comparable' <=> Comparable
  BY ComparableStays
<1>3. InFunction' => InFunction
  BY DEF GenFinish, InFunction
<1>4. WidthsSoFar' <=> WidthsSoFar
  BY DEF WidthsSoFar, Narrows, NodeAt, StatementAt
<1>5. SUFFICES ASSUME gen' \in {"generating", "generated"}, Comparable'
               PROVE  /\ \A f \in 1 .. Len(program') : OutputFits(program', ir', pos', f)
                      /\ InFunction' => MemoryFits(program', ir', pos', values', named_values')
                      /\ InFunction' /\ pos'[3] > 0 => WidthsSoFar'
  BY DEF RunsInv
<1>6. /\ \A f \in 1 .. Len(program) : OutputFits(program, ir, pos, f)
      /\ InFunction => MemoryFits(program, ir, pos, values, named_values)
      /\ InFunction /\ pos[3] > 0 => WidthsSoFar
  BY <1>1, <1>2, <1>5 DEF RunsInv
<1> QED BY <1>3, <1>4, <1>6

LEMMA RunsInit == Init => RunsInv
BY DEF Init, CGInit, RunsInv

LEMMA RunsNext ==
  ASSUME TCTypeOK, LiteralInv, UsesInv, AnnotatedInv, OperandsInv, GenTypeInv, GenInv,
         LoadsMatchAllocas', BlocksInv, SymbolsAreFirst, RunsInv, [Next \/ Done]_vars
  PROVE  RunsInv'
<1>1. IsProgram(program, Names)
  BY ProgramsAssumption DEF TCTypeOK
<1>2. CASE TCNext /\ UNCHANGED cg_vars
  <2>1. status = "checking"
    BY <1>2 DEF TCNext, EnterFunction, EnterStatement, VisitNode, VisitLiteral, VisitVariable,
                VisitFunctionCall, VisitBinary, ExitStatement, Declaring, Assigning, Showing,
                Returning, FinishCheck
  <2>2. gen = "waiting" /\ gen' = gen
    BY <1>2, <2>1 DEF GenInv, RunsOnChecked, cg_vars
  <2> QED BY <2>2 DEF RunsInv
<1>3. CASE UNCHANGED vars \/ Done
  <2>1. UNCHANGED << program, resolved_type, gen, pos, ir, values, named_values >>
    BY <1>3 DEF vars, tc_vars, cg_vars, Done
  <2> QED BY <2>1, StayRuns
<1>4. CASE GenStart /\ UNCHANGED tc_vars
  <2>1. gen = "waiting" /\ Len(ir) = 0 /\ program' = program
    BY <1>4 DEF GenStart, BlocksInv, tc_vars
  <2> QED BY <1>1, <1>4, <2>1, StartRuns
<1>5. CASE (CGNext /\ ~GenStart) /\ UNCHANGED tc_vars
  <2>1. gen = "generating"
    BY <1>5 DEF CGNext, GenFunction, GenEntry, GenNode, GenIntLiteral, GenFloatLiteral,
                GenVariable, GenFunctionCall, GenBinary, GenExit, GenDeclaration,
                GenAssignment, GenShow, GenReturn, GenFinish
  <2>2. status = "checked" /\ program' = program /\ resolved_type' = resolved_type
    BY <1>5, <2>1 DEF GenInv, RunsOnChecked, tc_vars
  <2>3. CheckedTree /\ OperandsTree /\ SlotsFollow
    BY <2>2, CheckerLeaves, CheckerOperands DEF GenInv
  <2>4. CASE GenFinish
    <3>1. UNCHANGED << pos, ir, values, named_values >>
      BY <2>4 DEF GenFinish
    <3> QED BY <2>2, <2>4, <3>1, StayRuns
  <2>5. CASE GenFunction
    BY <1>1, <2>1, <2>2, <2>5, FunctionRuns
  <2>6. CASE GenEntry
    BY <1>1, <2>1, <2>2, <2>6, EntryRuns
  <2>7. CASE GenIntLiteral
    BY <1>1, <2>1, <2>2, <2>7, IntLiteralRuns
  <2>8. CASE GenFloatLiteral
    BY <1>1, <2>1, <2>2, <2>8, FloatLiteralRuns
  <2>9. CASE GenVariable
    BY <1>1, <2>1, <2>2, <2>9, VariableRuns
  <2>10. CASE GenFunctionCall
    BY <1>1, <2>1, <2>2, <2>10, CallRuns
  <2>11. CASE GenBinary
    BY <1>1, <2>1, <2>2, <2>3, <2>11, BinaryRuns
  <2>12. CASE GenDeclaration
    BY <1>1, <2>1, <2>2, <2>12, DeclarationRuns
  <2>13. CASE GenAssignment
    BY <1>1, <2>1, <2>2, <2>3, <2>13, AssignmentRuns
  <2>14. CASE GenShow \/ GenReturn
    BY <1>1, <2>1, <2>2, <2>14, ShowRuns
  <2> QED
    BY <1>5, <2>4, <2>5, <2>6, <2>7, <2>8, <2>9, <2>10, <2>11, <2>12, <2>13, <2>14
    DEF CGNext, GenNode, GenExit
<1> QED BY <1>2, <1>3, <1>4, <1>5 DEF Next

----------------------------------------------------------------------------
(* Once everything is generated, every function does what it means.        *)
LEMMA RunsAtTheEnd ==
  ASSUME TCTypeOK, GenTypeInv, RulesInv, RunsInv
  PROVE  RunsAsWritten
<1> SUFFICES ASSUME gen = "generated", ModuleIsValid, OnlyInts, NoRecursion, NumbersFit,
                    NEW f \in 1 .. Len(program)
             PROVE  DoesAs(Executed(ir, Len(program))[f], Meaning(program)[f])
  BY DEF RunsAsWritten
<1>1. IsProgram(program, Names) /\ AtEnd(program, pos) /\ OnWalk(program, pos)
  BY ProgramsAssumption DEF TCTypeOK, RulesInv, GenTypeInv, CGTypeOK
<1>2. Len(program) \in Nat /\ pos[1] \in Nat /\ pos[1] > Len(program)
  BY <1>1 DEF IsProgram, AtEnd, OnWalk
<1>3. Comparable
  BY ValidIsSound DEF Comparable
<1>4. PICK run, meant, p : run = Executed(ir, Len(program)) /\ meant = Meaning(program) /\ p = pos
  OBVIOUS
<1> DEFINE T == { i \in 1 .. Len(program) : Agrees(run[i], meant[i]) }
<1>5. ASSUME NEW i \in 1 .. Len(program), \A j \in 1 .. i - 1 : j \in T
      PROVE  i \in T
  <2>1. OutputFits(program, ir, p, i)
    BY <1>3, <1>4 DEF RunsInv
  <2>2. i < p[1] /\ i # p[1]
    BY <1>2, <1>4
  <2>3. StatementsRun(program, p, i) = Len(program[i].statements)
    BY <2>2 DEF StatementsRun
  <2>4. Told(program, p, i) = StateAt(program, i, Len(program[i].statements)).shown
    BY <2>2, <2>3 DEF Told
  <2>5. PICK calls : calls = Earlier(run, i)
    OBVIOUS
  <2>6. run[i] = FrameOf(ir, i, calls)
    BY <1>2, <1>4, <2>5, ExecutedSteps
  <2>7. meant[i] = StateAt(program, i, Len(program[i].statements))
    BY <1>2, <1>4, MeantLast
  <2>8. AgreeBefore(program, calls, i)
    <3>1. \A g \in 1 .. i - 1 : calls[g] = run[g]
      BY <2>5 DEF Earlier
    <3>2. \A g \in 1 .. i - 1 : Agrees(run[g], meant[g])
      BY <1>5
    <3> QED BY <1>4, <3>1, <3>2 DEF AgreeBefore
  <2>9. Agrees(run[i], meant[i])
    BY <2>1, <2>3, <2>4, <2>6, <2>7, <2>8 DEF OutputFits, Agrees
  <2> QED BY <2>9
<1>6. f \in T
  <2>1. \A i \in 1 .. Len(program) : (\A j \in 1 .. i - 1 : j \in T) => i \in T
    BY <1>5
  <2> HIDE DEF T
  <2>2. 1 .. Len(program) \subseteq T
    BY <1>2, <2>1, Induction
  <2> QED BY <2>2
<1> QED BY <1>4, <1>6 DEF Agrees, Shows, DoesAs

(* Whatever the programs are: where the module is one LLVM gives a meaning *)
(* to, no function calls itself and the numbers of the source stay within  *)
(* their types, every function the generator leaves shows and returns what *)
(* the source says.                                                        *)
THEOREM CompiledAsWritten == Spec => []RunsAsWritten
<1>1. Init => OperandsInv
  BY OperandsInit DEF Init
<1>2. TCTypeOK /\ FreshInv /\ OperandsInv /\ [Next \/ Done]_vars => OperandsInv'
  BY CheckerStep, OperandsNext
<1>3. TCTypeOK /\ GenTypeInv /\ GenInv /\ BlocksInv /\ [Next \/ Done]_vars => BlocksInv'
  BY BlocksNext
<1>4. TCTypeOK /\ GenTypeInv /\ RulesInv /\ SymbolsAreFirst /\ [Next \/ Done]_vars
      => SymbolsAreFirst'
  BY SymbolsNext
<1>5. GenInv => LoadsMatchAllocas
  BY DEF GenInv
<1>6. /\ TCTypeOK /\ LiteralInv /\ UsesInv /\ AnnotatedInv /\ OperandsInv /\ GenTypeInv /\ GenInv
      /\ LoadsMatchAllocas' /\ BlocksInv /\ SymbolsAreFirst /\ RunsInv /\ [Next \/ Done]_vars
      => RunsInv'
  BY RunsNext
<1>7. TCTypeOK /\ GenTypeInv /\ RulesInv /\ RunsInv => RunsAsWritten
  BY RunsAtTheEnd
<1> QED
  BY <1>1, <1>2, <1>3, <1>4, <1>5, <1>6, <1>7, BlocksInit, SymbolsInit, RunsInit,
     CompilationInvariant, RequestsInvariant, PTL
  DEF Spec
============================================================================
