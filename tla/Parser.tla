------------------------------- MODULE Parser -------------------------------
(***************************************************************************)
(* Parser (src/parser.cxx): recursive descent over the tokens, precedence  *)
(* climbing for expressions.  The calls that nest, parse_expression within *)
(* itself and within parentheses, are frames of `stack' (the innermost     *)
(* first); `mode' says where the innermost call stands.  A step runs from  *)
(* one such place to the next, through all the consume()s on its way.      *)
(***************************************************************************)
EXTENDS Ast

CONSTANTS
  Names,    \* the values of Identifier tokens
  Inputs    \* the token streams

Operators == BinaryOperators \cup
  {"NotEquals", "LessThan", "GreaterThan", "LessThanEquals", "GreaterThanEquals"}

(* The keywords no statement or expression begins with or contains.        *)
Unused == {"And", "Or", "If", "Else", "Not"}

TokenTypes == Operators \cup LiteralTypes \cup Unused \cup
  {"Function", "End", "Set", "Show", "Return", "Identifier", "StringLiteral",
   "LParen", "RParen", "Assignment", "Colon", "EndOfFile"}

Token(type, value) == [type |-> type, value |-> value]
Keyword(type)      == Token(type, "")
EndOfFile          == Keyword("EndOfFile")

(* What tokenise() returns: EndOfFile comes last, and only there.  A       *)
(* number is kept as whether std::stoi or std::stod has a value for it, so *)
(* that a literal's value is "InRange" here.                               *)
IsTokenStream(t) ==
  /\ Len(t) \in Nat \ {0}
  /\ \A i \in 1 .. Len(t) :
       /\ t[i].type \in TokenTypes
       /\ t[i].type = "EndOfFile" <=> i = Len(t)
       /\ t[i].type = "Identifier" => t[i].value \in Names
       /\ t[i].type \in LiteralTypes => t[i].value \in {"InRange", "OutOfRange"}

ASSUME InputsAssumption == \A t \in Inputs : IsTokenStream(t)

VARIABLES
  tokens,     \* never changes
  index,      \* Parser::index
  mode,       \* "top", "body", "primary" or "loop"
  min,        \* min_precedence of the innermost parse_expression
  stack,      \* the calls waiting for an operand or for ')'
  value,      \* the expression the innermost call has so far
  statement,  \* the statement whose value is being parsed
  functions,  \* the program so far, its last function perhaps unfinished
  status      \* "parsing", "parsed", or the error thrown

vars == << tokens, index, mode, min, stack, value, statement, functions, status >>

Errors == { "Expected", "UnknownType", "UnexpectedStatement",
            "UnexpectedPrimary", "OutOfRange" }

Init ==
  /\ tokens \in Inputs
  /\ index = 0
  /\ mode = "top"
  /\ min = 0
  /\ stack = << >>
  /\ value = << >>
  /\ statement = Show(<< >>)
  /\ functions = << >>
  /\ status = "parsing"

----------------------------------------------------------------------------
(* higher number == binds tighter                                          *)
precedence(type) ==
  CASE type = "Equals"                       -> 1
    [] type \in {"Plus", "Minus"}            -> 2
    [] type \in {"Asterisk", "ForwardSlash"} -> 3
    [] OTHER                                 -> 0

(* peek() after n more tokens: never beyond the last.                      *)
Ahead(n) == tokens[IF index + n < Len(tokens) THEN index + n + 1 ELSE Len(tokens)]
peek     == Ahead(0)

Matches(types) == \A n \in 1 .. Len(types) : Ahead(n - 1).type = types[n]

At(m) == status = "parsing" /\ mode = m

Throw(error) ==
  /\ status' = error
  /\ UNCHANGED << tokens, index, mode, min, stack, value, statement, functions >>

Advance(n) == index' = index + n /\ UNCHANGED << tokens, status >>

----------------------------------------------------------------------------
(* parse_top_level and parse_function_declaration                          *)
EndOfProgram ==
  /\ At("top")
  /\ peek.type = "EndOfFile"
  /\ status' = "parsed"
  /\ UNCHANGED << tokens, index, mode, min, stack, value, statement, functions >>

BeginFunction ==
  /\ At("top")
  /\ peek.type # "EndOfFile"
  /\ IF Matches(<< "Function", "Identifier", "LParen", "RParen" >>)
     THEN /\ Advance(4)
          /\ functions' = Append(functions, Function(Ahead(1).value, << >>))
          /\ mode' = "body"
          /\ UNCHANGED << min, stack, value, statement >>
     ELSE Throw("Expected")

EndFunction ==
  /\ At("body")
  /\ peek.type = "End"
  /\ Advance(1)
  /\ mode' = "top"
  /\ UNCHANGED << min, stack, value, statement, functions >>

----------------------------------------------------------------------------
(* The statements, up to parse_expression(0) for their value.              *)
BeginValue(stmt, n) ==
  /\ Advance(n)
  /\ statement' = stmt
  /\ mode' = "primary"
  /\ min' = 0
  /\ UNCHANGED << stack, value, functions >>

(* Faulty: a name that is no builtin type is let through.                  *)
BeginDeclarationUnchecked ==
  /\ At("body")
  /\ peek.type = "Identifier"
  /\ IF Matches(<< "Identifier", "Assignment" >>)
     THEN BeginValue(Declare(peek.value, NoType, << >>), 2)
     ELSE IF Matches(<< "Identifier", "Colon", "Identifier", "Assignment" >>)
     THEN BeginValue(Declare(peek.value, Ahead(2).value, << >>), 4)
     ELSE Throw("Expected")

BeginDeclaration ==
  /\ At("body")
  /\ peek.type = "Identifier"
  /\ IF Matches(<< "Identifier", "Assignment" >>)
     THEN BeginValue(Declare(peek.value, NoType, << >>), 2)
     ELSE IF ~Matches(<< "Identifier", "Colon", "Identifier" >>) THEN Throw("Expected")
     ELSE IF Ahead(2).value \notin BuiltinTypes THEN Throw("UnknownType")
     ELSE IF Ahead(3).type # "Assignment" THEN Throw("Expected")
     ELSE BeginValue(Declare(peek.value, Ahead(2).value, << >>), 4)

BeginAssignment ==
  /\ At("body")
  /\ peek.type = "Set"
  /\ IF Matches(<< "Set", "Identifier", "Assignment" >>)
     THEN BeginValue(Assign(Ahead(1).value, << >>), 3)
     ELSE Throw("Expected")

BeginShow   == At("body") /\ peek.type = "Show" /\ BeginValue(Show(<< >>), 1)
BeginReturn == At("body") /\ peek.type = "Return" /\ BeginValue(Return(<< >>), 1)

RefuseStatement ==
  /\ At("body")
  /\ peek.type \notin {"End", "Identifier", "Set", "Show", "Return"}
  /\ Throw("UnexpectedStatement")

----------------------------------------------------------------------------
(* parse_primary_expression                                                *)
TakePrimary(node, n) ==
  /\ Advance(n)
  /\ value' = << node >>
  /\ mode' = "loop"
  /\ UNCHANGED << min, stack, statement, functions >>

TakeLiteral ==
  /\ At("primary")
  /\ peek.type \in LiteralTypes
  /\ IF peek.value = "OutOfRange" THEN Throw("OutOfRange")
     ELSE TakePrimary([kind |-> peek.type, value |-> peek.value], 1)

TakeIdentifier ==
  /\ At("primary")
  /\ peek.type = "Identifier"
  /\ IF Ahead(1).type # "LParen" THEN TakePrimary(Variable(peek.value), 1)
     ELSE IF Ahead(2).type = "RParen" THEN TakePrimary(FunctionCall(peek.value), 3)
     ELSE Throw("Expected")

(* Faulty: the parenthesis is not consumed.                                *)
OpenParenthesisAgain ==
  /\ At("primary")
  /\ peek.type = "LParen"
  /\ stack' = << [op |-> "LParen", lhs |-> << >>, min |-> min] >> \o stack
  /\ min' = 0
  /\ UNCHANGED << tokens, index, status, mode, value, statement, functions >>

OpenParenthesis ==
  /\ At("primary")
  /\ peek.type = "LParen"
  /\ Advance(1)
  /\ stack' = << [op |-> "LParen", lhs |-> << >>, min |-> min] >> \o stack
  /\ min' = 0
  /\ UNCHANGED << mode, value, statement, functions >>

RefusePrimary ==
  /\ At("primary")
  /\ peek.type \notin LiteralTypes \cup {"Identifier", "LParen"}
  /\ Throw("UnexpectedPrimary")

----------------------------------------------------------------------------
(* The loop of parse_expression, and its return to the call around it.     *)

(* Faulty: an operator of the same precedence is taken, too.               *)
ContinuesLoosely == precedence(peek.type) >= min /\ precedence(peek.type) > 0

Continues == precedence(peek.type) > min

TakeOperator ==
  /\ At("loop")
  /\ Continues
  /\ Advance(1)
  /\ stack' = << [op |-> peek.type, lhs |-> value, min |-> min] >> \o stack
  /\ min' = precedence(peek.type)
  /\ mode' = "primary"
  /\ UNCHANGED << value, statement, functions >>

(* parse_expression returns to the one that read the operator ...          *)

FinishOperand ==
  /\ At("loop")
  /\ ~Continues
  /\ stack # << >>
  /\ Head(stack).op # "LParen"
  /\ value' = Join(Head(stack).op, Head(stack).lhs, value)
  /\ min' = Head(stack).min
  /\ stack' = Tail(stack)
  /\ UNCHANGED << tokens, index, status, mode, statement, functions >>

(* ... or to parse_paren_expression ...                                    *)
(* Faulty: what stands where the parenthesis should be is skipped.         *)
CloseParenthesisUnchecked ==
  /\ At("loop")
  /\ ~Continues
  /\ stack # << >>
  /\ Head(stack).op = "LParen"
  /\ Advance(1)
  /\ min' = Head(stack).min
  /\ stack' = Tail(stack)
  /\ UNCHANGED << mode, value, statement, functions >>

CloseParenthesis ==
  /\ At("loop")
  /\ ~Continues
  /\ stack # << >>
  /\ Head(stack).op = "LParen"
  /\ IF peek.type # "RParen" THEN Throw("Expected")
     ELSE /\ Advance(1)
          /\ min' = Head(stack).min
          /\ stack' = Tail(stack)
          /\ UNCHANGED << mode, value, statement, functions >>

(* ... or to the statement, which is then complete.                        *)
FinishStatement ==
  /\ At("loop")
  /\ ~Continues
  /\ stack = << >>
  /\ functions' = [functions EXCEPT ![Len(functions)].statements =
                     Append(@, [statement EXCEPT !.value = value])]
  /\ mode' = "body"
  /\ UNCHANGED << tokens, index, status, min, stack, value, statement >>

----------------------------------------------------------------------------
parse_statement == \/ BeginDeclaration \/ BeginAssignment \/ BeginShow \/ BeginReturn
                   \/ RefuseStatement
parse_primary_expression == TakeLiteral \/ TakeIdentifier \/ OpenParenthesis \/ RefusePrimary
parse_expression == TakeOperator \/ FinishOperand \/ CloseParenthesis \/ FinishStatement

Next == \/ EndOfProgram \/ BeginFunction \/ EndFunction
        \/ parse_statement \/ parse_primary_expression \/ parse_expression

Done == status # "parsing" /\ UNCHANGED vars

(* parse_top_level is a plain call: it runs until it returns or throws.    *)
Spec == Init /\ [][Next \/ Done]_vars /\ WF_vars(Next)

----------------------------------------------------------------------------
(* Type invariant.  The parser never advances over EndOfFile.              *)
TypeOK ==
  /\ IsTokenStream(tokens)
  /\ index \in 0 .. Len(tokens) - 1
  /\ mode \in {"top", "body", "primary", "loop"}
  /\ min \in 0 .. 3
  /\ mode \in {"top", "body"} => stack = << >>
  /\ \A n \in 1 .. Len(stack) : stack[n].op \in BinaryOperators \cup {"LParen"}
  /\ mode # "top" => functions # << >>
  /\ status \in {"parsing", "parsed"} \cup Errors

(* Every tree the parser returns is one the visitors can walk: each node   *)
(* has one owner, comes after its operands, and the operand moved in last  *)
(* directly precedes it.  This is what the type checker and the code       *)
(* generator are specified over.                                           *)
ParsesToProgram == status = "parsed" => IsProgram(functions, Names)

(* Every step consumes tokens or returns from a call, so the parser ends,  *)
(* its recursion is no deeper than the tokens it has read, and no loop can *)
(* turn at EndOfFile, which peek() answers for ever.                       *)
Progress == 4 * (Len(tokens) - index) + Len(stack)
              + (IF mode = "loop" THEN 1 ELSE 0) + (IF status = "parsing" THEN 1 ELSE 0)

EveryStepProgresses == [][Progress' < Progress]_vars

----------------------------------------------------------------------------
(* Why the trees are well formed: every expression a call holds, waiting   *)
(* or finished, is one, and a statement is kept only with such a value.    *)
Nodes == [kind : LiteralTypes, value : {"InRange"}]
         \cup [kind : {"Variable", "FunctionCall"}, name : Names]
         \cup [kind : {"Binary"}, op : BinaryOperators, lhs : Nat, rhs : Nat]

Expressions == { e \in Seq(Nodes) : IsExpression(e, Names) }

Frames == [op : {"LParen"}, lhs : {<< >>}, min : 0 .. 3]
          \cup [op : BinaryOperators, lhs : Expressions, min : 0 .. 3]

StatementsOn(values) ==
  [kind : {"Declare"}, name : Names, annotation : BuiltinTypes \cup {NoType}, value : values]
  \cup [kind : {"Assign"}, name : Names, value : values]
  \cup [kind : {"Show", "Return"}, value : values]

Declarations == [name : Names, statements : Seq(StatementsOn(Expressions))]

ParserInv ==
  /\ IsTokenStream(tokens)
  /\ index \in 0 .. Len(tokens) - 1
  /\ mode \in {"top", "body", "primary", "loop"}
  /\ min \in 0 .. 3
  /\ stack \in Seq(Frames)
  /\ mode \in {"top", "body"} => stack = << >>
  /\ mode = "loop" => value \in Expressions
  /\ mode \in {"primary", "loop"} => statement \in StatementsOn({<< >>})
  /\ functions \in Seq(Declarations)
  /\ mode # "top" => functions # << >>
  /\ status \in {"parsing", "parsed"} \cup Errors
=============================================================================
