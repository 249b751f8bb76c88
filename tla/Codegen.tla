------------------------------ MODULE Codegen ------------------------------
(***************************************************************************)
(* CodegenVisitor (src/codegen/code_generation_visitor.cxx) and the        *)
(* TypeOperations it builds (src/codegen/operation_map.cxx), run on the    *)
(* tree the type checker annotated: the second half of compile()           *)
(* (src/frontend.cxx).  A throw of the checker ends the compilation.       *)
(*                                                                         *)
(* LLVM is external.  Of its builder the model keeps what is asked of it:  *)
(* `ir' is the sequence of Create... calls with their operands, each the   *)
(* result of an earlier request or a constant.  (The builder folds         *)
(* requests on constants, which changes no result.)  LLVM does not reject  *)
(* an ill-typed request in a release build and the verifier is never run,  *)
(* so none is refused here.                                                *)
(***************************************************************************)
EXTENDS TypeCheck

(* parse_int_expression reads a literal with std::stoi.                    *)
ASSUME LiteralsAssumption ==
  \A p \in Programs : \A a \in NodeAddresses(p) :
    NodeAt(p, a).kind = "IntLiteral" => NodeAt(p, a).value \in 0 .. 2147483647

VARIABLES
  pos,            \* the address of the next visit
  values,         \* the values emitted in this statement
  named_values,   \* CodegenVisitor::named_values: the request of the alloca
  symbols,        \* the symbol table of llvm_module: what each name stands for
  ir,             \* the requests made of llvm_builder
  gen             \* "waiting", "generating", "generated", or the error

cg_vars == << pos, values, named_values, symbols, ir, gen >>
vars    == << tc_vars, cg_vars >>

IntWidth == [t \in IntTypes |->
  CASE t \in {"Int8",  "UInt8"}  -> "i8"
    [] t \in {"Int16", "UInt16"} -> "i16"
    [] t \in {"Int32", "UInt32"} -> "i32"
    [] t \in {"Int64", "UInt64"} -> "i64"]

(* get_llvm_type, where it returns, and why it does not elsewhere: a throw *)
(* or, for a byte that is no TypeId, running off the end of the function.  *)
HasLLVMType(type) == type \in IntTypes \cup FloatTypes \cup {"Bool"}

LLVMType(type) ==
  CASE type = "Bool"     -> "i1"
    [] type \in IntTypes -> IntWidth[type]
    [] type = "Float32"  -> "float"
    [] type = "Float64"  -> "double"

LLVMTypes == {"i1", "i8", "i16", "i32", "i64", "float", "double"}

NoLLVMType(type) ==
  CASE type \in LiteralTypes              -> "LiteralSurvived"
    [] type \in {"String", "UserDefined"} -> "NotImplemented"
    [] OTHER                              -> "FellOffSwitch"

(* An llvm::Value: what computes it, and its type.                         *)
Constant(type, bits) == [type |-> type, of |-> <<"constant", bits>>]
Result(type, n)      == [type |-> type, of |-> <<"request", n>>]

(* The null pointer a map of named_values answers with.                    *)
NoRequest == 0

(* build_type_operations: the operations a type has.                       *)
Operations(type) ==
  CASE type \in SignedTypes   -> "signed"
    [] type \in UnsignedTypes -> "unsigned"
    [] type \in FloatTypes    -> "float"
    [] type \in LiteralTypes  -> "LiteralSurvived"
    [] type \in {"Bool", "String", "UserDefined"} -> "NotImplemented"
    [] OTHER                  -> "FellOffSwitch"

(* apply() of IntOperations and FloatOperations on the operators of a      *)
(* tree: the request it makes.                                             *)
Instructions == { "Add", "Sub", "Mul", "SDiv", "UDiv", "FAdd", "FSub", "FMul", "FDiv" }

(* Faulty: the sign of the operands is ignored.                            *)
apply_unsigned(operations, op) ==
  CASE op = "Plus"         -> IF operations = "float" THEN "FAdd" ELSE "Add"
    [] op = "Minus"        -> IF operations = "float" THEN "FSub" ELSE "Sub"
    [] op = "Asterisk"     -> IF operations = "float" THEN "FMul" ELSE "Mul"
    [] op = "ForwardSlash" -> IF operations = "float" THEN "FDiv" ELSE "UDiv"

apply(operations, op) ==
  CASE op = "Plus"         -> IF operations = "float" THEN "FAdd" ELSE "Add"
    [] op = "Minus"        -> IF operations = "float" THEN "FSub" ELSE "Sub"
    [] op = "Asterisk"     -> IF operations = "float" THEN "FMul" ELSE "Mul"
    [] op = "ForwardSlash" -> CASE operations = "signed"   -> "SDiv"
                                [] operations = "unsigned" -> "UDiv"
                                [] operations = "float"    -> "FDiv"

(* What a name of llvm_module stands for: 0 is the printf the constructor  *)
(* declares, a positive number a function of the program.  The strings     *)
(* that are printed are globals in the same table, and getFunction answers *)
(* null for a name that is one of them.                                    *)
NoFunction   == -1
FormatString == -2

ModuleNames == Names \cup {"printf", "fmt"}

GenErrors == { "DeclaredTwice", "NonexistentVariable", "UnknownVariable",
               "UnresolvedType", "NotImplemented", "LiteralSurvived",
               "NonIntegerLiteral", "UnsupportedOperation",
               "UnknownFunction", "FellOffSwitch" }

CGInit ==
  /\ pos = FirstAddress
  /\ values = << >>
  /\ named_values = [n \in Names |-> NoRequest]
  /\ symbols = [n \in ModuleNames |-> IF n = "printf" THEN 0 ELSE NoFunction]
  /\ ir = << >>
  /\ gen = "waiting"

----------------------------------------------------------------------------
GenThrow(error) ==
  /\ gen' = error
  /\ UNCHANGED << pos, values, named_values, symbols, ir >>

Stmt          == StatementAt(program, pos)
Node          == NodeAt(program, pos)
StmtAddress   == <<pos[1], pos[2], 0>>
StmtValue     == values[Len(Stmt.value)]

Request(r)  == ir' = Append(ir, r)
NextRequest == Len(ir) + 1

(* emit(): the node's visit is over and left an LLVM value.                *)
EmitValue(value) ==
  /\ values' = Append(values, value)
  /\ pos' = <<pos[1], pos[2], pos[3] + 1>>
  /\ UNCHANGED << named_values, symbols, gen >>

Advance ==
  /\ pos' = NextStatement(program, pos)
  /\ UNCHANGED << values, symbols, gen >>

----------------------------------------------------------------------------
(* compile() hands the checked tree over.                                  *)
GenStart ==
  /\ gen = "waiting"
  /\ status = "checked"
  /\ gen' = "generating"
  /\ UNCHANGED << pos, values, named_values, symbols, ir >>

(* Faulty: the module does not learn the function's name.                  *)
GenFunctionUnnamed ==
  /\ gen = "generating"
  /\ AtFunction(program, pos)
  /\ named_values' = [n \in Names |-> NoRequest]
  /\ pos' = NextStatement(program, pos)
  /\ UNCHANGED << values, symbols, ir, gen >>

(* visit(FunctionDeclaration&): Function::Create renames a function whose  *)
(* name is taken, so a name keeps its first function.                      *)
GenFunction ==
  /\ gen = "generating"
  /\ AtFunction(program, pos)
  /\ LET name == program[pos[1]].name
     IN  symbols' = IF symbols[name] = NoFunction
                    THEN [symbols EXCEPT ![name] = pos[1]] ELSE symbols
  /\ named_values' = [n \in Names |-> NoRequest]
  /\ pos' = NextStatement(program, pos)
  /\ UNCHANGED << values, ir, gen >>

(* CreateGlobalStringPtr("%d\n", "fmt"): the first string to be made takes *)
(* the name unless a function has it; the others are renamed.              *)
NamedFormat ==
  IF Stmt.kind = "Show" /\ symbols["fmt"] = NoFunction
  THEN [symbols EXCEPT !["fmt"] = FormatString] ELSE symbols

(* Faulty: the values of the previous statement are not dropped.           *)
GenEntryKeepingValues ==
  /\ gen = "generating"
  /\ AtEntry(program, pos)
  /\ pos' = <<pos[1], pos[2], 1>>
  /\ symbols' = NamedFormat
  /\ UNCHANGED << values, named_values, ir, gen >>

(* What a statement does before its value is emitted: the lookups, and the *)
(* string a show prints with.                                              *)
GenEntry ==
  /\ gen = "generating"
  /\ AtEntry(program, pos)
  /\ IF Stmt.kind = "Declare" /\ named_values[Stmt.name] # NoRequest
     THEN GenThrow("DeclaredTwice")
     ELSE IF Stmt.kind = "Assign" /\ named_values[Stmt.name] = NoRequest
     THEN GenThrow("NonexistentVariable")
     ELSE /\ pos' = <<pos[1], pos[2], 1>>
          /\ values' = << >>
          /\ symbols' = NamedFormat
          /\ UNCHANGED << named_values, ir, gen >>

----------------------------------------------------------------------------
(* Faulty: every int constant is an i32.                                   *)
ConstantTypeFixed(type) == "i32"

(* The width of an int constant, by its annotation.                        *)
ConstantType(type) == IntWidth[type]

(* APInt(num_bits, value): the bits that fit.  A literal is below 2^31, so *)
(* only the narrow types lose some; theirs are kept as a number from 0.    *)
Narrow == [type \in {"i8", "i16"} |-> IF type = "i8" THEN 256 ELSE 65536]

AsBits(type, number) ==
  IF type \in DOMAIN Narrow THEN number % Narrow[type] ELSE number

(* An int constant takes its width from its annotation ...                 *)
GenIntLiteral ==
  /\ gen = "generating"
  /\ AtNode(program, pos)
  /\ Node.kind = "IntLiteral"
  /\ IF resolved_type[pos] \notin IntTypes
     THEN GenThrow("NonIntegerLiteral")
     ELSE LET type == ConstantType(resolved_type[pos])
          IN  EmitValue(Constant(type, AsBits(type, Node.value))) /\ UNCHANGED ir

(* ... and a float constant does not: APFloat(double) is a double.         *)
GenFloatLiteral ==
  /\ gen = "generating"
  /\ AtNode(program, pos)
  /\ Node.kind = "FloatLiteral"
  /\ EmitValue(Constant("double", Node.value))
  /\ UNCHANGED ir

GenVariable ==
  /\ gen = "generating"
  /\ AtNode(program, pos)
  /\ Node.kind = "Variable"
  /\ LET slot == named_values[Node.name]
         type == resolved_type[pos]
     IN  IF slot = NoRequest THEN GenThrow("UnknownVariable")
         ELSE IF type = NoType THEN GenThrow("UnresolvedType")
         ELSE IF ~HasLLVMType(type) THEN GenThrow(NoLLVMType(type))
         ELSE /\ Request([at |-> pos, op |-> "Load", type |-> LLVMType(type), slot |-> slot])
              /\ EmitValue(Result(LLVMType(type), NextRequest))

(* getFunction finds only what was created so far; every function the      *)
(* program declares returns i32, and so does printf.                       *)
GenFunctionCall ==
  /\ gen = "generating"
  /\ AtNode(program, pos)
  /\ Node.kind = "FunctionCall"
  /\ IF symbols[Node.name] \in {NoFunction, FormatString}
     THEN GenThrow("UnknownFunction")
     ELSE /\ Request([at |-> pos, op |-> "Call", function |-> symbols[Node.name]])
          /\ EmitValue(Result("i32", NextRequest))

(* Faulty: the operands change places.                                     *)
GenBinarySwapped ==
  /\ gen = "generating"
  /\ AtNode(program, pos)
  /\ Node.kind = "Binary"
  /\ LET type == resolved_type[pos]
         operations == Operations(type)
         lhs  == values[Node.lhs]
         rhs  == values[Node.rhs]
     IN  IF type = NoType THEN GenThrow("UnresolvedType")
         ELSE IF operations \in GenErrors THEN GenThrow(operations)
         ELSE IF Node.op \notin ArithmeticOperators THEN GenThrow("UnsupportedOperation")
         ELSE /\ Request([at |-> pos, op |-> apply(operations, Node.op),
                          lhs |-> rhs, rhs |-> lhs])
              /\ EmitValue(Result(lhs.type, NextRequest))

(* The operations come from the annotation of the node, the operands from  *)
(* what was emitted for the subtrees.  LLVM gives the result the type of   *)
(* the left operand.                                                       *)
GenBinary ==
  /\ gen = "generating"
  /\ AtNode(program, pos)
  /\ Node.kind = "Binary"
  /\ LET type == resolved_type[pos]
         operations == Operations(type)
         lhs  == values[Node.lhs]
         rhs  == values[Node.rhs]
     IN  IF type = NoType THEN GenThrow("UnresolvedType")
         ELSE IF operations \in GenErrors THEN GenThrow(operations)
         ELSE IF Node.op \notin ArithmeticOperators THEN GenThrow("UnsupportedOperation")
         ELSE /\ Request([at |-> pos, op |-> apply(operations, Node.op),
                          lhs |-> lhs, rhs |-> rhs])
              /\ EmitValue(Result(lhs.type, NextRequest))

----------------------------------------------------------------------------
(* Faulty: the alloca takes the type of the value.                         *)
SlotOfValue == StmtValue.type

(* The type of the alloca of a declared variable.                          *)
SlotOfDeclaration == LLVMType(resolved_type[StmtAddress])

GenDeclaration ==
  /\ gen = "generating"
  /\ AtExit(program, pos)
  /\ Stmt.kind = "Declare"
  /\ LET type == resolved_type[StmtAddress]
     IN  IF type = NoType THEN GenThrow("UnresolvedType")
         ELSE IF ~HasLLVMType(type) THEN GenThrow(NoLLVMType(type))
         ELSE /\ ir' = ir \o
                   << [at |-> StmtAddress, op |-> "Alloca", type |-> SlotOfDeclaration],
                      [at |-> StmtAddress, op |-> "Store", value |-> StmtValue,
                       slot |-> NextRequest] >>
              /\ named_values' = [named_values EXCEPT ![Stmt.name] = NextRequest]
              /\ Advance

GenAssignment ==
  /\ gen = "generating"
  /\ AtExit(program, pos)
  /\ Stmt.kind = "Assign"
  /\ Request([at |-> StmtAddress, op |-> "Store", value |-> StmtValue,
              slot |-> named_values[Stmt.name]])
  /\ UNCHANGED named_values
  /\ Advance

GenShow ==
  /\ gen = "generating"
  /\ AtExit(program, pos)
  /\ Stmt.kind = "Show"
  /\ Request([at |-> StmtAddress, op |-> "Print", value |-> StmtValue])
  /\ UNCHANGED named_values
  /\ Advance

(* Faulty: every return is followed by the implicit one.                   *)
GenReturnAgain ==
  /\ gen = "generating"
  /\ AtExit(program, pos)
  /\ Stmt.kind = "Return"
  /\ LET ret == [at |-> StmtAddress, op |-> "Ret", value |-> StmtValue]
     IN  ir' = ir \o << ret, ret >>
  /\ UNCHANGED named_values
  /\ Advance

GenReturn ==
  /\ gen = "generating"
  /\ AtExit(program, pos)
  /\ Stmt.kind = "Return"
  /\ Request([at |-> StmtAddress, op |-> "Ret", value |-> StmtValue])
  /\ UNCHANGED named_values
  /\ Advance

GenFinish ==
  /\ gen = "generating"
  /\ AtEnd(program, pos)
  /\ gen' = "generated"
  /\ UNCHANGED << pos, values, named_values, symbols, ir >>

----------------------------------------------------------------------------
GenNode == GenIntLiteral \/ GenFloatLiteral \/ GenVariable \/ GenFunctionCall \/ GenBinary
GenExit == GenDeclaration \/ GenAssignment \/ GenShow \/ GenReturn
CGNext  == GenStart \/ GenFunction \/ GenEntry \/ GenNode \/ GenExit \/ GenFinish

Finished == status \in Errors \/ gen \in GenErrors \cup {"generated"}

Init == TCInit /\ CGInit

Next ==
  \/ TCNext /\ UNCHANGED cg_vars
  \/ CGNext /\ UNCHANGED tc_vars

Done == Finished /\ UNCHANGED vars

(* compile() runs the passes one after the other without waiting.          *)
Spec == Init /\ [][Next \/ Done]_vars /\ WF_vars(Next)
============================================================================
