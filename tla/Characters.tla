----------------------------- MODULE Characters -----------------------------
(***************************************************************************)
(* Characters, as far as the lexer tells them apart, and the two tables it *)
(* looks words up in (src/lexer.cxx:9-32, include/token_type.h).  A file   *)
(* is a sequence of characters, a word a part of it.                       *)
(***************************************************************************)
EXTENDS Integers, Sequences

CONSTANTS
  Letters,    \* what std::isalpha accepts, and '_'
  Digits,     \* what std::isdigit accepts
  Spaces,     \* what std::isspace accepts, Newline excepted
  Strangers,  \* bytes with no place in B2, such as '@' or those of "\u0444"
  KEYWORDS    \* the keywords, as a function from words to token types

ASSUME KeywordsAssumption ==
  \A w \in DOMAIN KEYWORDS :
    KEYWORDS[w] \in {"Set", "Show", "Function", "End", "Return", "And", "Or", "If", "Else", "Not"}

Newline == "\n"
Quote   == "\""
Point   == "."
NUL     == "NUL"   \* the byte 0, and what current() returns past the end

SymbolChars ==
  {"+", "-", "*", "/", "(", ")", "=", ":", "<", ">", "{", "}", "!"}

ASSUME CharactersAssumption ==
  LET Classes == << Letters, Digits, Spaces, Strangers,
                    SymbolChars \cup {Newline, Quote, Point, NUL} >>
  IN  \A i, j \in 1 .. 5 : i # j => Classes[i] \cap Classes[j] = {}

IsDigit(c)          == c \in Digits
IsSpace(c)          == c \in Spaces \cup {Newline}
is_identifier_char(c) == c \in Letters \cup Digits \cup {"-"}
is_symbol_char(c)   == c \in SymbolChars

(* SYMBOLS.  '{', '}' and '!' may occur in a symbol but are none.          *)
SYMBOLS ==
  [w \in { <<"+">>, <<"-">>, <<"*">>, <<"/">>, <<"(">>, <<")">>, <<"=">>, <<":">>,
           <<"<">>, <<">">>, <<"<", "=">>, <<">", "=">>, <<"=", "=">>, <<"!", "=">> } |->
     CASE w = <<"+">> -> "Plus"            [] w = <<"-">> -> "Minus"
       [] w = <<"*">> -> "Asterisk"        [] w = <<"/">> -> "ForwardSlash"
       [] w = <<"(">> -> "LParen"          [] w = <<")">> -> "RParen"
       [] w = <<"=">> -> "Assignment"      [] w = <<":">> -> "Colon"
       [] w = <<"<">> -> "LessThan"        [] w = <<">">> -> "GreaterThan"
       [] w = <<"<", "=">> -> "LessThanEquals"
       [] w = <<">", "=">> -> "GreaterThanEquals"
       [] w = <<"=", "=">> -> "Equals"     [] w = <<"!", "=">> -> "NotEquals"]

Token(type, value) == [type |-> type, value |-> value]
EndOfFile == Token("EndOfFile", << >>)

WordToken(word) ==
  Token(IF word \in DOMAIN KEYWORDS THEN KEYWORDS[word] ELSE "Identifier", word)
=============================================================================
