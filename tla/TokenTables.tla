---------------------------- MODULE TokenTables ----------------------------
(***************************************************************************)
(* The tables of include/token_type.h.  A key is its place in the order    *)
(* the table is sorted by: an enumerator's in its enumeration, a string's  *)
(* among the strings of the table.  `sorted' lists the keys in that order, *)
(* `given' the entries in the order of the source.                         *)
(***************************************************************************)
EXTENDS Integers, Sequences

PlaceIn(sorted, k) == CHOOSE i \in 1 .. Len(sorted) : sorted[i] = k

Table(sorted, given) ==
  [i \in 1 .. Len(given) |-> [key |-> PlaceIn(sorted, given[i][1]), value |-> given[i][2]]]

TokenType ==
  << "Plus", "Minus", "Asterisk", "ForwardSlash", "FloatLiteral", "IntLiteral",
     "StringLiteral", "Identifier", "LParen", "RParen", "Assignment", "Colon",
     "LessThan", "GreaterThan", "LessThanEquals", "GreaterThanEquals", "Equals",
     "NotEquals", "Set", "Show", "Function", "End", "Return", "And", "Or", "If",
     "Else", "Not", "EndOfFile" >>

TokenNames ==
  << <<"Plus", "Plus">>, <<"Minus", "Minus">>, <<"Asterisk", "Asterisk">>,
     <<"ForwardSlash", "ForwardSlash">>, <<"FloatLiteral", "FloatLiteral">>,
     <<"IntLiteral", "IntLiteral">>, <<"StringLiteral", "StringLiteral">>,
     <<"Identifier", "Identifier">>, <<"LParen", "LParen">>, <<"RParen", "RParen">>,
     <<"Assignment", "Assignment">>, <<"Colon", "Colon">>, <<"LessThan", "LessThan">>,
     <<"GreaterThan", "GreaterThan">>, <<"LessThanEquals", "LessThanEquals">>,
     <<"GreaterThanEquals", "GreaterThanEquals">>, <<"Equals", "Equals">>,
     <<"NotEquals", "NotEquals">>, <<"Set", "Set">>, <<"Show", "Show">>,
     <<"Function", "Function">>, <<"End", "End">>, <<"Return", "Return">>, <<"And", "And">>,
     <<"Or", "Or">>, <<"If", "If">>, <<"Else", "Else">>, <<"Not", "Not">>,
     <<"EndOfFile", "EndOfFile">> >>

(* Faulty: one of the keywords is forgotten.                               *)
TOKEN_TYPE_STRWithoutNot == Table(TokenType, SelectSeq(TokenNames, LAMBDA e : e[1] # "Not"))

TOKEN_TYPE_STR == Table(TokenType, TokenNames)

KEYWORDS ==
  Table(<<"and", "else", "end", "func", "if", "not", "or", "return", "set", "show">>,
        << <<"set", "Set">>, <<"show", "Show">>, <<"func", "Function">>, <<"end", "End">>,
           <<"return", "Return">>, <<"and", "And">>, <<"or", "Or">>, <<"if", "If">>,
           <<"else", "Else">>, <<"not", "Not">> >>)

SYMBOLS ==
  Table(<<"!=", "(", ")", "*", "+", "-", "/", ":", "<", "<=", "=", "==", ">", ">=">>,
        << <<"+", "Plus">>, <<"-", "Minus">>, <<"*", "Asterisk">>, <<"/", "ForwardSlash">>,
           <<"(", "LParen">>, <<")", "RParen">>, <<"=", "Assignment">>, <<":", "Colon">>,
           <<"<", "LessThan">>, <<">", "GreaterThan">>, <<"<=", "LessThanEquals">>,
           <<">=", "GreaterThanEquals">>, <<"==", "Equals">>, <<"!=", "NotEquals">> >>)
============================================================================
