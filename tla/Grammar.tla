------------------------------ MODULE Grammar ------------------------------
(***************************************************************************)
(* The language of B2, stated on whole stretches of tokens rather than     *)
(* token by token: an expression is split at the operator that binds least *)
(* and stands furthest right outside parentheses, a function is any way to *)
(* cut its body into statements.                                           *)
(***************************************************************************)
EXTENDS Parser, FiniteSets

Types(t, i, j) == [n \in 1 .. (j - i + 1) |-> t[i + n - 1].type]

(* Parentheses open before token k of the stretch that starts at i.        *)
Depth(t, i, k) ==
  Cardinality({ n \in i .. k - 1 : t[n].type = "LParen" })
  - Cardinality({ n \in i .. k - 1 : t[n].type = "RParen" })

Splits(t, i, j) ==
  { k \in i + 1 .. j - 1 : t[k].type \in BinaryOperators /\ Depth(t, i, k) = 0 }

Splitter(t, i, j) ==
  CHOOSE k \in Splits(t, i, j) :
    \A other \in Splits(t, i, j) :
      \/ precedence(t[k].type) < precedence(t[other].type)
      \/ precedence(t[k].type) = precedence(t[other].type) /\ other <= k

(* The tree of tokens i to j, or none.  A name alone is a variable, known   *)
(* or not: parse_identifier_expression (parser.cxx:64-78) cannot tell.     *)
(* The test ThrowsOnUnknownExpression (tests/parser_test.cxx:325)          *)
(* expects an error of x = fafewafefdddf, and passes as it asserts nothing *)
(* when there is none.                                                     *)
NoTree == << >>

Trees(t) ==
  LET Tree[s \in (1 .. Len(t)) \X (1 .. Len(t))] ==
        LET i == s[1]
            j == s[2]
            k == Splitter(t, i, j)
            lhs == Tree[i, k - 1]
            rhs == Tree[k + 1, j]
        IN  CASE i > j -> NoTree
              [] i = j -> IF t[i].type \in LiteralTypes /\ t[i].value = "InRange"
                          THEN << [kind |-> t[i].type, value |-> t[i].value] >>
                          ELSE IF t[i].type = "Identifier" THEN << Variable(t[i].value) >>
                          ELSE NoTree
              [] i < j /\ Types(t, i, j) = << "Identifier", "LParen", "RParen" >> ->
                   << FunctionCall(t[i].value) >>
              [] i < j /\ Splits(t, i, j) # {} ->
                   IF NoTree \in {lhs, rhs} THEN NoTree ELSE Join(t[k].type, lhs, rhs)
              [] OTHER -> IF t[i].type = "LParen" /\ t[j].type = "RParen" /\ i + 1 < j
                          THEN Tree[i + 1, j - 1] ELSE NoTree
  IN  Tree

(* The statements tokens i to j can be: none or one.                       *)
StatementsOf(t, i, j) ==
  LET ValueFrom(n) == IF i + n <= j THEN Trees(t)[i + n, j] ELSE NoTree
      Starts(types) == i + Len(types) <= j /\ Types(t, i, i + Len(types) - 1) = types
      candidates ==
        (IF Starts(<< "Identifier", "Assignment" >>)
           THEN { Declare(t[i].value, NoType, ValueFrom(2)) } ELSE {}) \cup
        (IF Starts(<< "Identifier", "Colon", "Identifier", "Assignment" >>)
            /\ t[i + 2].value \in BuiltinTypes
           THEN { Declare(t[i].value, t[i + 2].value, ValueFrom(4)) } ELSE {}) \cup
        (IF Starts(<< "Set", "Identifier", "Assignment" >>)
           THEN { Assign(t[i + 1].value, ValueFrom(3)) } ELSE {}) \cup
        (IF Starts(<< "Show" >>)   THEN { Show(ValueFrom(1)) } ELSE {}) \cup
        (IF Starts(<< "Return" >>) THEN { Return(ValueFrom(1)) } ELSE {})
  IN  { stmt \in candidates : stmt.value # NoTree }

(* All ways to read tokens i to j as a sequence of parts.                  *)
Cuts(PartsOf(_, _), j) ==
  LET Cut[i \in 1 .. j + 1] ==
        IF i = j + 1 THEN { << >> }
        ELSE UNION { UNION { { << part >> \o rest : rest \in Cut[k + 1] } :
                               part \in PartsOf(i, k) } : k \in i .. j }
  IN  Cut

FunctionsOf(t, i, j) ==
  LET Stmts(a, b) == StatementsOf(t, a, b)
  IN  IF /\ i + 4 <= j
         /\ Types(t, i, i + 3) = << "Function", "Identifier", "LParen", "RParen" >>
         /\ t[j].type = "End"
      THEN { Function(t[i + 1].value, body) : body \in Cuts(Stmts, j - 1)[i + 4] }
      ELSE {}

Programs(t) ==
  LET Funcs(a, b) == FunctionsOf(t, a, b)
  IN  Cuts(Funcs, Len(t) - 1)[1]

----------------------------------------------------------------------------
(* The parser decides the language: it accepts exactly the streams that    *)
(* can be read as a program, in that case in one way only, and its tree is *)
(* that reading: operators bind by precedence and, among equals, to the    *)
(* left; parentheses and the missing terminators of statements leave no    *)
(* choice.                                                                 *)
ParserFollowsGrammar ==
  /\ status = "parsed"  => Programs(tokens) = { functions }
  /\ status \in Errors  => Programs(tokens) = {}

============================================================================
