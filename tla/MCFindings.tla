----------------------------- MODULE MCFindings -----------------------------
(***************************************************************************)
(* Programs, most of them from the repository's examples, on which the     *)
(* code and what the repository says of it part.                           *)
(***************************************************************************)
EXTENDS CodegenRules, MCPrograms

MCInitialResults == {"Int32"}

Main(statements) == << Function("main", statements) >>

(* set x = 1, as the message of code_generation_visitor.cxx:86 advises.    *)
SetProgram == { Main(<< Declare(VarX, NoType, One), Assign(VarX, One), Return(X) >>) }

(* x = f() after a Float64 was visited.                                    *)
CallProgram ==
  { << Function(FunF, << Return(One) >>),
       Function("main", << Declare(VarX, "Float64", Half), Declare(VarY, NoType, CallF),
                           Return(One) >>) >> }

(* x: Float64 = 1 + 2.5                                                    *)
MixedProgram ==
  { Main(<< Declare(VarX, "Float64", Join("Plus", One, Half)), Return(One) >>) }

(* examples/literal_coersion.b: an Int16 is declared, set and returned.    *)
ReturnProgram ==
  { Main(<< Declare(VarX, "Int16", One), Assign(VarX, Join("Plus", X, One)), Return(X) >>) }
=============================================================================
