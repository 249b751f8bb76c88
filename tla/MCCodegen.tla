----------------------------- MODULE MCCodegen -----------------------------
EXTENDS Execution, MCPrograms

Leaves   == {One, Half, X, CallF}
CallMain == Leaf(FunctionCall("main"))

(* A declaration of x of every class of type, then any statement.          *)
OneFunction ==
  LET pool  == Leaves \cup Simple(Leaves, {"ForwardSlash", "Equals"})
                      \cup Nested({One, Half, X}, {"ForwardSlash"})
      first == Declarations(VarX, {NoType, "Int64", "UInt8", "Bool"},
                            {One, CallMain, Join("Plus", One, One)})
               \cup Declarations(VarX, {NoType, "Float32", "String"}, {Half, CallMain})
  IN  TwoStatements(first,
        Declarations(VarY, {NoType, "UInt8", "Bool"}, pool) \cup
        Declarations(VarX, {"Int64"}, {One, X}) \cup
        Assignments(VarX, pool) \cup Shows(pool) \cup Returns(pool))

(* A callee named f, or not, before a main that calls f, and calls of      *)
(* printf, which the generator declares itself.                            *)
TwoFunctions ==
  LET printf == Leaf(FunctionCall("printf"))
      ends   == { << Return(One) >>, << >>,
                  << Declare(VarX, "Int16", One), Return(X) >>,
                  << Return(CallF) >> }
      calls  == { << Declare(VarY, NoType, v), Return(Leaf(Variable(VarY))) >> :
                    v \in {CallF, printf, Join("Plus", CallF, One)} }
      names  == {FunF, "main", "printf"}
  IN  { << Function(a, p), Function(b, q) >> :
          a \in names, b \in names, p \in ends \cup calls, q \in ends \cup calls }

(* A function fmt before, between and after functions that show, and calls *)
(* of it, one of them in a show.                                           *)
FormatNames ==
  LET CallFmt == Leaf(FunctionCall("fmt"))
      bodies  == { << Return(One) >>, << Show(One), Return(One) >>,
                   << Show(CallFmt), Return(One) >>, << Return(CallFmt) >>,
                   << Show(One), Return(CallFmt) >> }
      names   == {FunF, "fmt"}
  IN  { << Function(a, p), Function(b, q), Function("main", r) >> :
          a \in names, b \in names, p \in bodies, q \in bodies, r \in bodies }

(* Numbers that a narrow type can and cannot hold, in divisions and        *)
(* differences whose sign and order matter; the value is kept in y, set    *)
(* into x and shown.                                                       *)
Two   == Leaf(IntLiteral(2))
Y     == Leaf(Variable(VarY))

Calculations ==
  LET operators == {"Minus", "ForwardSlash"}
      starts == Declarations(VarX, {NoType, "Int8", "UInt8", "UInt16"},
                             { Leaf(IntLiteral(n)) : n \in {7, 100, 200, 300} })
      parts  == {X, Two}
      sums   == Simple(parts, operators \cup {"Asterisk"}) \cup Nested(parts, operators)
  IN  { << Function("main", << start, Declare(VarY, NoType, v), Assign(VarX, Join("Minus", Y, X)),
                               Show(X), Show(Join("ForwardSlash", X, Two)), Return(One) >>) >> :
          start \in starts, v \in sums }

(* Callees that print, called in an order that shows.                      *)
Callers ==
  LET f == << Declare(VarX, NoType, Two), Show(X), Return(One) >>
      g == << Declare(VarX, NoType, CallF), Show(X), Return(Join("Plus", X, Two)) >>
      CallG == Leaf(FunctionCall("g"))
      calls == {CallF, CallG, X, Two}
  IN  { << Function(FunF, f), Function("g", g),
           Function("main", << Declare(VarX, "Int32", Two), Declare(VarY, NoType, e),
                               Show(Y), Return(CallG) >>) >> :
          e \in Simple(calls, {"Minus"}) \cup Nested({CallF, CallG}, {"Minus", "ForwardSlash"}) }

(* Numbers whose type is not the one their instruction was chosen for: two *)
(* literals settle before their context is known, and a call leaves the    *)
(* annotation of its node to what was visited before.                      *)
Stale ==
  LET minus == Join("Minus", One, Two)
      sums  == Simple({CallF, X, minus, Two}, {"Plus", "ForwardSlash"})
  IN  { << Function(FunF, << Return(Two) >>),
           Function("main", << Declare(VarX, annotation, value), Show(X), Show(sum), Return(One) >>) >> :
          annotation \in {NoType, "Int8", "UInt16", "UInt32"}, sum \in sums,
          value \in {Two, minus, Join("ForwardSlash", minus, Two)} }

AllPrograms ==
  OneFunction \cup TwoFunctions \cup FormatNames \cup Calculations \cup Callers \cup Stale
MCInitialResults == {"Int32", "String", Indeterminate}
============================================================================
