--------------------------- MODULE CodegenRules ---------------------------
(***************************************************************************)
(* What the annotated tree promises the code generator, and what the       *)
(* requests made of LLVM must satisfy.  LLVM's verifier would check the    *)
(* latter; the compiler never runs it, so they rest on the checker alone.  *)
(***************************************************************************)
EXTENDS Codegen, TypeRules

Requests(ops)  == { n \in 1 .. Len(ir) : ir[n].op \in ops }

(* Type invariant of the generator's state.                                *)
CGTypeOK ==
  /\ OnWalk(program, pos)
  /\ AtNode(program, pos) \/ AtExit(program, pos) => Len(values) = pos[3] - 1
  /\ \A i \in 1 .. Len(values) :
       /\ values[i].type \in LLVMTypes
       /\ values[i].of[1] = "request" => values[i].of[2] \in 1 .. Len(ir)
  /\ named_values \in [Names -> 0 .. Len(ir)]
  /\ symbols \in [ModuleNames -> 0 .. Len(program) \cup {NoFunction, FormatString}]
  /\ gen \in {"waiting", "generating", "generated"} \cup GenErrors

(* Two symbol tables, the checker's and the generator's, agree at every    *)
(* use: a load reads an alloca of the same function with the type it was   *)
(* created with.                                                           *)
Slot(n) == ir[ir[n].slot]

LoadsMatchAllocas ==
  \A n \in Requests({"Load"}) :
    /\ Slot(n).op = "Alloca"
    /\ Slot(n).type = ir[n].type
    /\ Slot(n).at[1] = ir[n].at[1]

----------------------------------------------------------------------------
(* Why a checked program may still be refused.                             *)

DeclaredBefore(a) ==
  LET stmt == StatementAt(program, a)
  IN  stmt.kind = "Declare" /\ \E d \in 1 .. (a[2] - 1) : Declares(a[1], d, stmt.name)

IsComparison(a) == NodeAt(program, a).kind = "Binary" /\ NodeAt(program, a).op = "Equals"

(* A call of a function that neither precedes nor is the one it is in.     *)
IsForwardCall(a) ==
  /\ NodeAt(program, a).kind = "FunctionCall"
  /\ NodeAt(program, a).name # "printf"
  /\ \A f \in 1 .. a[1] : program[f].name # NodeAt(program, a).name

(* A call of a function fmt that a show of an earlier function left        *)
(* without its name: the string it prints with has it.                     *)
NameTakenByShow(a) ==
  /\ NodeAt(program, a).kind = "FunctionCall"
  /\ NodeAt(program, a).name = "fmt"
  /\ \E b \in StatementAddresses(program) :
       /\ StatementAt(program, b).kind = "Show" /\ b[1] < a[1]
       /\ \A f \in 1 .. b[1] : program[f].name # "fmt"

(* A call for which getFunction finds nothing.                             *)
IsUnfoundCall(a) == IsForwardCall(a) \/ NameTakenByShow(a)

(* A call whose stale type decided the type of the statement.              *)
HasCall(a) == \E i \in 1 .. Len(StatementAt(program, a).value) :
                StatementAt(program, a).value[i].kind = "FunctionCall"

(* One that was let through as Bool has an LLVM type, so that its variable *)
(* is refused only where it is an operand.                                 *)
CallSoFar(a) == \E s \in 1 .. a[2] : HasCall(<<a[1], s, 0>>)

MixesLiterals(a) ==
  {"IntLiteral", "FloatLiteral"} \subseteq
    { StatementAt(program, a).value[i].kind : i \in 1 .. Len(StatementAt(program, a).value) }

(* The throws by which the generator guards itself against the checker: on *)
(* whatever program the checker accepts it reaches none of those for a     *)
(* literal type, an unannotated node, a name it has no alloca for and an   *)
(* operator without an operation, and the one for an int literal of no int *)
(* type (code_generation_visitor.cxx:156) only in a statement that mixes   *)
(* literals of both classes or calls a function.                           *)
NoInternalError ==
  /\ gen \notin { "LiteralSurvived", "UnresolvedType", "UnknownVariable",
                  "NonexistentVariable", "UnsupportedOperation" }
  /\ gen = "NonIntegerLiteral" => MixesLiterals(pos) \/ HasCall(pos)

(* Otherwise the generator refuses a checked program exactly for what the  *)
(* checker leaves to it: a second declaration of a name, a comparison, a   *)
(* call of a function that comes later or whose name a format string took, *)
(* or a type that a call let through; and it generates only programs       *)
(* without the first three.                                                *)
GenerationFollowsSource ==
  /\ gen = "DeclaredTwice"     => DeclaredBefore(pos)
  /\ gen = "UnknownFunction"   => IsUnfoundCall(pos)
  /\ gen = "NotImplemented"    => (AtNode(program, pos) /\ IsComparison(pos)) \/ CallSoFar(pos)
  /\ gen = "FellOffSwitch"     => HasCall(pos)
  /\ gen = "generated" =>
       /\ \A a \in StatementAddresses(program) : ~DeclaredBefore(a)
       /\ \A a \in NodeAddresses(program) : ~IsComparison(a) /\ ~IsUnfoundCall(a)

----------------------------------------------------------------------------
(* Programs whose requests are well typed.  The annotation of a literal is *)
(* ignored by GenFloatLiteral, and two literal operands are settled to     *)
(* Int32 or Float64 before the context of their node is known.             *)

Annotations(prog) ==
  { StatementAt(prog, a).annotation : a \in
      { b \in StatementAddresses(prog) : StatementAt(prog, b).kind = "Declare" } }

HasConstantArithmetic(prog) ==
  \E a \in NodeAddresses(prog) :
    /\ NodeAt(prog, a).kind = "Binary"
    /\ LET e == StatementAt(prog, a).value
       IN  {e[e[a[3]].lhs].kind, e[e[a[3]].rhs].kind} \subseteq LiteralTypes

KeepsWidths(prog) ==
  /\ IsPlain(prog)
  /\ "Float32" \notin Annotations(prog)
  /\ HasConstantArithmetic(prog) =>
       Annotations(prog) \subseteq {NoType, "Int32", "Float64", "Bool"}

StoresMatch   == \A n \in Requests({"Store"}) : ir[n].value.type = Slot(n).type
OperandsMatchRequests ==
  \A n \in Requests(Instructions) :
    LET a == ir[n].at
        RequestFor(i) == apply(Operations(resolved_type[<<a[1], a[2], i>>]), NodeAt(program, a).op)
    IN  /\ ir[n].lhs.type = ir[n].rhs.type
        /\ ir[n].op = RequestFor(NodeAt(program, a).lhs)
        /\ ir[n].op = RequestFor(NodeAt(program, a).rhs)

(* A program that only has values of type Int32.                           *)
OnlyInt32(prog) ==
  /\ Annotations(prog) \subseteq {NoType, "Int32"}
  /\ \A a \in NodeAddresses(prog) : NodeAt(prog, a).kind # "FloatLiteral"

(* For the programs above, every store writes a value of the slot's type,  *)
(* and every operation has two operands of one type and is the one, signed,*)
(* unsigned or float, that both operands were declared for.  What "%d"     *)
(* prints and what a function returns is an int when every type is Int32.  *)
RequestsWellTyped ==
  KeepsWidths(program) =>
    /\ StoresMatch
    /\ OperandsMatchRequests
    /\ OnlyInt32(program) =>
         \A n \in Requests({"Print", "Ret"}) : ir[n].value.type = "i32"

----------------------------------------------------------------------------
(* What LLVM's verifier would ask of the module: types that agree, one     *)
(* terminator in a block and at its end, arguments for printf.             *)
RequestsOf(f) == { n \in 1 .. Len(ir) : ir[n].at[1] = f }

BlocksEnd ==
  \A f \in 1 .. Len(program) :
    \E n \in RequestsOf(f) : \A m \in RequestsOf(f) : m <= n /\ (ir[m].op = "Ret" <=> m = n)

ModuleIsValid ==
  /\ StoresMatch /\ LoadsMatchAllocas /\ BlocksEnd
  /\ \A n \in Requests(Instructions) : ir[n].lhs.type = ir[n].rhs.type
  /\ \A n \in Requests({"Ret"}) : ir[n].value.type = "i32"
  /\ \A n \in Requests({"Call"}) : ir[n].function # 0

(* A function whose statements return once, as the last thing they do.     *)
ReturnsAtEnd(f) ==
  LET stmts == program[f].statements
  IN  Len(stmts) > 0 /\ \A s \in 1 .. Len(stmts) : stmts[s].kind = "Return" <=> s = Len(stmts)

ReturnsInt(f) ==
  \A s \in 1 .. Len(program[f].statements) :
    program[f].statements[s].kind = "Return" => resolved_type[<<f, s, 0>>] = "Int32"

(* The generator adds no terminator and drops nothing behind one: a block  *)
(* ends as LLVM demands exactly where the source returns once, at the end. *)
(* A program without the known gaps that does so is a valid module.        *)
BlocksFollowReturns ==
  gen = "generated" =>
    /\ BlocksEnd <=> \A f \in 1 .. Len(program) : ReturnsAtEnd(f)
    /\ BlocksEnd /\ KeepsWidths(program) /\ (\A f \in 1 .. Len(program) : ReturnsInt(f))
          => ModuleIsValid

(* A compilation ends: every pass returns or throws.                       *)
CompilationTerminates == <>Finished

----------------------------------------------------------------------------
(* What README.md:53-55 says of the type checker, "infer types and         *)
(* validate that there's no misuse", asked of the requests: no store       *)
(* writes a value of another type than its slot.                           *)
NoMisuse == StoresMatch

(* README.md:108: a function returns int, "main implictly returns int".    *)
ReturnsInt32 == \A n \in Requests({"Ret"}) : ir[n].value.type = "i32"

(* "Got a non integer type inside int literal codegen." guards the         *)
(* generator (code_generation_visitor.cxx:156); the checker is to have     *)
(* settled an int literal on an int type, or to have rejected it.          *)
IntLiteralsAreInts == gen # "NonIntegerLiteral"
============================================================================
