----------------------------- MODULE MCPrinter -----------------------------
EXTENDS PrinterRules, MCPrograms

Leaves == {One, Half, X, CallF}

(* Values of up to two operators, nested to either side.                   *)
Pool == Leaves \cup Simple(Leaves, {"Plus", "Equals"})
               \cup Nested({One, X, CallF}, {"Asterisk"})

(* README.md:38-46, and a program of no functions.                         *)
ReadmeProgram ==
  << Function("main", << Declare(VarX, NoType, Join("Plus", One, Leaf(IntLiteral(2)))),
                         Show(X), Return(X) >>) >>

(* A declaration with or without an annotation, then every statement; or   *)
(* a function, perhaps an empty one, before main.                          *)
StatementsAndFunctions ==
  TwoStatements(Declarations(VarX, {NoType, "Int64"}, {One, CallF}),
                Declarations(VarY, {NoType, "Int64"}, Pool) \cup Assignments(VarX, Pool)
                  \cup Shows(Pool) \cup Returns(Pool))
  \cup { << Function(FunF, b), Function("main", << Return(CallF) >>) >> :
           b \in {<< >>, << Return(One) >>, << Show(CallF), Return(One) >>} }
  \cup { << >>, ReadmeProgram }

AllPrograms == StatementsAndFunctions

(* The byte may be no enumerator or happen to be one; the name is empty.   *)
MCInitialResults == {Indeterminate, "Int32"}
=============================================================================
