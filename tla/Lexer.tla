------------------------------- MODULE Lexer -------------------------------
(***************************************************************************)
(* Lexer (src/lexer.cxx): one pass over the characters of a file.  A step  *)
(* is one decision or one turn of a loop, that is at most one advance().   *)
(* `mode' says which parse_ function runs; between two tokens next_token   *)
(* skips white space and picks the next.                                   *)
(***************************************************************************)
EXTENDS Characters, FiniteSets

CONSTANT Inputs      \* the files

ASSUME InputsAssumption == \A file \in Inputs : Len(file) \in Nat

VARIABLES
  data,              \* the file; never changes
  index,             \* the number of characters consumed
  current_location,  \* line and column of data[index]
  token_location,    \* where the token being read began
  mode,              \* the function that runs
  start,             \* its local `start'
  tokens,            \* tokenise()'s result so far, each with its location
  outcome            \* "lexing", "done", or the error thrown

vars == << data, index, current_location, token_location, mode, start, tokens, outcome >>

Modes == {"next_token", "symbol", "number", "fraction", "string", "identifier"}

Location(line, column) == [line |-> line, column |-> column]
FirstLocation == Location(1, 0)

Init ==
  /\ data \in Inputs
  /\ index = 0
  /\ current_location = FirstLocation
  /\ token_location = FirstLocation
  /\ mode = "next_token"
  /\ start = 0
  /\ tokens = << >>
  /\ outcome = "lexing"

current == IF index < Len(data) THEN data[index + 1] ELSE NUL
peek    == IF index + 1 < Len(data) THEN data[index + 2] ELSE NUL

----------------------------------------------------------------------------
(* Faulty: a newline is a column like any other.                           *)
advanceOnOneLine ==
  /\ index' = index + 1
  /\ current_location' = [current_location EXCEPT !.column = @ + 1]
  /\ UNCHANGED data

advance ==
  /\ index' = index + 1
  /\ current_location' =
       IF current = Newline
       THEN Location(current_location.line + 1, 1)
       ELSE [current_location EXCEPT !.column = @ + 1]
  /\ UNCHANGED data

Stay == UNCHANGED << data, index, current_location >>

Throw(error) ==
  /\ outcome' = error
  /\ Stay
  /\ UNCHANGED << token_location, mode, start, tokens >>

Enter(m, from) ==
  /\ mode' = m
  /\ start' = from
  /\ token_location' = current_location
  /\ UNCHANGED << tokens, outcome >>

Consume ==
  /\ advance
  /\ UNCHANGED << token_location, mode, start, tokens, outcome >>

Located(token, location) == [token |-> token, location |-> location]

(* The token is complete: tokenise() stores it and asks for the next.      *)
Deliver(token) ==
  /\ tokens' = Append(tokens, Located(token, token_location'))
  /\ mode' = "next_token"
  /\ UNCHANGED << start, outcome >>

(* An EndOfFile token ends tokenise()'s loop.                              *)
DeliverEnd ==
  /\ tokens' = Append(tokens, Located(EndOfFile, token_location'))
  /\ outcome' = "done"
  /\ UNCHANGED << mode, start >>

(* data.substr(start, last - start)                                        *)
Word(last) == SubSeq(data, start + 1, last)

----------------------------------------------------------------------------
(* next_token                                                              *)
InNextToken == outcome = "lexing" /\ mode = "next_token"
AtEndOfInput == current = NUL

(* Faulty: the loop over white space does not advance.                     *)
SkipWithoutAdvance == InNextToken /\ index < Len(data) /\ IsSpace(current) /\ UNCHANGED vars

Skip == InNextToken /\ index < Len(data) /\ IsSpace(current) /\ Consume

ReachEnd ==
  /\ InNextToken
  /\ AtEndOfInput
  /\ Stay
  /\ UNCHANGED token_location
  /\ DeliverEnd

(* Faulty: `start' is one too far.                                         *)
EnterStringLate ==
  /\ InNextToken
  /\ current = Quote
  /\ advance
  /\ Enter("string", index + 2)

EnterString ==
  /\ InNextToken
  /\ current = Quote
  /\ advance
  /\ Enter("string", index + 1)

(* A parenthesis is a token of its own when a symbol starts with it.       *)
TakeParenthesis ==
  /\ InNextToken
  /\ current \in {"(", ")"}
  /\ token_location' = current_location
  /\ advance
  /\ Deliver(Token(SYMBOLS[<<current>>], <<current>>))

EnterSymbol ==
  /\ InNextToken
  /\ is_symbol_char(current)
  /\ current \notin {"(", ")"}
  /\ Stay
  /\ Enter("symbol", index)

EnterNumber ==
  /\ InNextToken
  /\ IsDigit(current)
  /\ Stay
  /\ Enter("number", index)

EnterIdentifier ==
  /\ InNextToken
  /\ is_identifier_char(current)
  /\ ~is_symbol_char(current)
  /\ ~IsDigit(current)
  /\ Stay
  /\ Enter("identifier", index)

(* Any other character is consumed and answered with EndOfFile.            *)
MeetStranger ==
  /\ InNextToken
  /\ ~AtEndOfInput
  /\ ~IsSpace(current)
  /\ current # Quote
  /\ ~is_symbol_char(current)
  /\ ~is_identifier_char(current)
  /\ token_location' = current_location
  /\ advance
  /\ DeliverEnd

----------------------------------------------------------------------------
(* The loops of the parse_ functions and what follows them.                *)
Parsing(m) == outcome = "lexing" /\ mode = m

ReadDigit == (Parsing("number") \/ Parsing("fraction")) /\ IsDigit(current) /\ Consume

(* Faulty: a point need not be followed by a digit.                        *)
ReadPointAlone ==
  /\ Parsing("number")
  /\ current = Point
  /\ advance
  /\ mode' = "fraction"
  /\ UNCHANGED << token_location, start, tokens, outcome >>

ReadPoint ==
  /\ Parsing("number")
  /\ current = Point
  /\ IsDigit(peek)
  /\ advance
  /\ mode' = "fraction"
  /\ UNCHANGED << token_location, start, tokens, outcome >>

EndNumber ==
  /\ \/ Parsing("number") /\ ~(current = Point /\ IsDigit(peek))
     \/ Parsing("fraction")
  /\ ~IsDigit(current)
  /\ Stay
  /\ UNCHANGED token_location
  /\ Deliver(Token(IF mode = "number" THEN "IntLiteral" ELSE "FloatLiteral", Word(index)))

ReadCharacter ==
  Parsing("string") /\ current \notin {Quote, NUL} /\ Consume

(* The substr comes after the advance over the closing quote.              *)
EndString ==
  /\ Parsing("string")
  /\ current = Quote
  /\ advance
  /\ UNCHANGED token_location
  /\ Deliver(Token("StringLiteral", Word(index + 1)))

Unterminated == Parsing("string") /\ current = NUL /\ Throw("UnterminatedString")

ReadIdentifier == Parsing("identifier") /\ is_identifier_char(current) /\ Consume

EndIdentifier ==
  /\ Parsing("identifier")
  /\ ~is_identifier_char(current)
  /\ Stay
  /\ UNCHANGED token_location
  /\ Deliver(WordToken(Word(index)))

ReadSymbol == Parsing("symbol") /\ is_symbol_char(current) /\ Consume

EndSymbol ==
  /\ Parsing("symbol")
  /\ ~is_symbol_char(current)
  /\ IF Word(index) \in DOMAIN SYMBOLS
     THEN /\ Stay
          /\ UNCHANGED token_location
          /\ Deliver(Token(SYMBOLS[Word(index)], Word(index)))
     ELSE Throw("UnknownToken")

----------------------------------------------------------------------------
next_token == \/ Skip \/ ReachEnd \/ EnterString \/ TakeParenthesis \/ EnterSymbol
              \/ EnterNumber \/ EnterIdentifier \/ MeetStranger
parse_number         == ReadDigit \/ ReadPoint \/ EndNumber
parse_string_literal == ReadCharacter \/ EndString \/ Unterminated
parse_identifier     == ReadIdentifier \/ EndIdentifier
parse_symbol         == ReadSymbol \/ EndSymbol

Next == next_token \/ parse_number \/ parse_string_literal \/ parse_identifier \/ parse_symbol

Done == outcome # "lexing" /\ UNCHANGED vars

(* tokenise() is a plain call: it runs until it returns or throws.         *)
Spec == Init /\ [][Next \/ Done]_vars /\ WF_vars(Next)

----------------------------------------------------------------------------
(* Type invariant: the lexer stays inside the file and a loop's `start'    *)
(* never runs ahead of `index', so every substr is in range.               *)
TypeOK ==
  /\ data \in Inputs
  /\ index \in 0 .. Len(data)
  /\ start \in 0 .. index
  /\ current_location \in [line : Nat \ {0}, column : Nat]
  /\ token_location \in [line : Nat \ {0}, column : Nat]
  /\ mode \in Modes
  /\ outcome \in {"lexing", "done", "UnknownToken", "UnterminatedString"}

(* The location of the character after the first i, counted from the text. *)
(* Columns count from 1 after a newline, but from 0 on the first line,     *)
(* where SourceLocation starts (include/source_location.h:8).              *)
Lines(i)  == { n \in 1 .. i : data[n] = Newline }
Column(i) == Cardinality({ n \in 1 .. i : \A k \in n .. i : data[k] # Newline })

LocationAt(i) ==
  Location(1 + Cardinality(Lines(i)), Column(i) + IF Lines(i) = {} THEN 0 ELSE 1)

(* The text of a token starts here, one further for a string literal,      *)
(* whose value leaves its opening quote out.                               *)
ReadsAt(token, i) ==
  LET first == i + IF token.type = "StringLiteral" THEN 2 ELSE 1
      last  == first + Len(token.value) - 1
  IN  last <= Len(data) /\ SubSeq(data, first, last) = token.value

(* Locations are exact: the current one is that of the next character,     *)
(* across the newlines of skipped space and of string literals, and every  *)
(* token but the last carries the location where its text can be read.     *)
LocationsExact ==
  /\ current_location = LocationAt(index)
  /\ \A n \in 1 .. Len(tokens) :
       tokens[n].token # EndOfFile =>
         \E i \in 0 .. index - 1 :
           LocationAt(i) = tokens[n].location /\ ReadsAt(tokens[n].token, i)

(* The test named SkipsInvalidUnicodeTest (tests/lexer_test.cxx:82) says   *)
(* of an invalid character that it is skipped: what follows it is read.    *)
SkipsInvalid == outcome = "done" => index = Len(data)

(* The lexer returns or throws on every file.                              *)
LexerTerminates == <>(outcome # "lexing")

(* The lexer cuts the file into the longest lexemes: it implements the     *)
(* token stream.  In the middle of a token the stream is where it began.   *)
TokenBegin ==
  CASE mode = "next_token" -> index
    [] mode = "string"     -> start - 1
    [] OTHER               -> start

Stream ==
  INSTANCE TokenStream WITH
    index  <- TokenBegin,
    tokens <- [n \in 1 .. Len(tokens) |-> tokens[n].token]

ImplementsTokenStream == Stream!Spec
=============================================================================
