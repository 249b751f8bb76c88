----------------------------- MODULE LexerProofs -----------------------------
(***************************************************************************)
(* Proofs about the lexer, for every alphabet, keyword table and file.     *)
(***************************************************************************)
EXTENDS Lexer, DataLemmas, FiniteSetTheorems

----------------------------------------------------------------------------
(* The lexer stays inside the file.                                        *)

LEMMA InsideFile ==
  ASSUME TypeOK, current # NUL
  PROVE  index + 1 \in 0 .. Len(data)
BY InputsAssumption DEF TypeOK, current

(* No character class holds the NUL that current() returns past the end.   *)
LEMMA NoClassHoldsNUL ==
  ~IsDigit(NUL) /\ ~IsSpace(NUL) /\ ~is_identifier_char(NUL) /\ ~is_symbol_char(NUL)
<1> DEFINE Rest == SymbolChars \cup {Newline, Quote, Point, NUL}
           Classes == << Letters, Digits, Spaces, Strangers, Rest >>
<1>1. \A i, j \in 1 .. 5 : i # j => Classes[i] \cap Classes[j] = {}
  BY CharactersAssumption
<1>2. NUL \notin Letters /\ NUL \notin Digits /\ NUL \notin Spaces
  <2>1. Classes[1] \cap Classes[5] = {} /\ Classes[2] \cap Classes[5] = {}
        /\ Classes[3] \cap Classes[5] = {}
    BY <1>1
  <2> QED BY <2>1
<1> QED
  BY <1>2 DEF IsDigit, IsSpace, is_identifier_char, is_symbol_char, SymbolChars, NUL, Newline

LEMMA AdvanceType ==
  ASSUME TypeOK, advance, current # NUL
  PROVE  /\ data' \in Inputs /\ index' \in 0 .. Len(data') /\ index' = index + 1
         /\ Len(data) \in Nat
         /\ current_location' \in [line : Nat \ {0}, column : Nat]
BY InsideFile, InputsAssumption DEF TypeOK, advance, Location

LEMMA TypeInit == Init => TypeOK
BY InputsAssumption DEF Init, TypeOK, FirstLocation, Location, Modes

LEMMA TypeNext == TypeOK /\ [Next \/ Done]_vars => TypeOK'
<1> SUFFICES ASSUME TypeOK, [Next \/ Done]_vars PROVE TypeOK'
  OBVIOUS
<1>1. CASE UNCHANGED vars \/ Done
  BY <1>1 DEF TypeOK, vars, Done
<1>2. CASE next_token
  <2>1. CASE Skip
    <3>1. current # NUL
      BY <2>1, NoClassHoldsNUL DEF Skip
    <3> QED BY <2>1, <3>1, AdvanceType DEF Skip, Consume, TypeOK
  <2>2. CASE ReachEnd
    BY <2>2 DEF ReachEnd, Stay, DeliverEnd, TypeOK
  <2>3. CASE EnterString
    <3>1. current # NUL
      BY <2>3 DEF EnterString, Quote, NUL
    <3> QED BY <2>3, <3>1, AdvanceType DEF EnterString, Enter, TypeOK, Modes
  <2>4. CASE TakeParenthesis
    <3>1. current # NUL
      BY <2>4 DEF TakeParenthesis, NUL
    <3> QED BY <2>4, <3>1, AdvanceType DEF TakeParenthesis, Deliver, TypeOK, Modes
  <2>5. CASE EnterSymbol \/ EnterNumber \/ EnterIdentifier
    BY <2>5, InputsAssumption
       DEF EnterSymbol, EnterNumber, EnterIdentifier, Stay, Enter, TypeOK, Modes
  <2>6. CASE MeetStranger
    <3>1. current # NUL
      BY <2>6 DEF MeetStranger, AtEndOfInput
    <3> QED BY <2>6, <3>1, AdvanceType DEF MeetStranger, DeliverEnd, TypeOK
  <2> QED BY <1>2, <2>1, <2>2, <2>3, <2>4, <2>5, <2>6 DEF next_token
<1>3. CASE parse_number
  <2>1. CASE ReadDigit
    <3>1. current # NUL
      BY <2>1, NoClassHoldsNUL DEF ReadDigit
    <3> QED BY <2>1, <3>1, AdvanceType DEF ReadDigit, Consume, TypeOK
  <2>2. CASE ReadPoint
    <3>1. current # NUL
      BY <2>2 DEF ReadPoint, Point, NUL
    <3> QED BY <2>2, <3>1, AdvanceType DEF ReadPoint, TypeOK, Modes
  <2>3. CASE EndNumber
    BY <2>3 DEF EndNumber, Stay, Deliver, TypeOK, Modes
  <2> QED BY <1>3, <2>1, <2>2, <2>3 DEF parse_number
<1>4. CASE parse_string_literal
  <2>1. CASE ReadCharacter
    <3>1. current # NUL
      BY <2>1 DEF ReadCharacter
    <3> QED BY <2>1, <3>1, AdvanceType DEF ReadCharacter, Consume, TypeOK
  <2>2. CASE EndString
    <3>1. current # NUL
      BY <2>2 DEF EndString, Quote, NUL
    <3> QED BY <2>2, <3>1, AdvanceType DEF EndString, Deliver, TypeOK, Modes
  <2>3. CASE Unterminated
    BY <2>3 DEF Unterminated, Throw, Stay, TypeOK
  <2> QED BY <1>4, <2>1, <2>2, <2>3 DEF parse_string_literal
<1>5. CASE parse_identifier
  <2>1. CASE ReadIdentifier
    <3>1. current # NUL
      BY <2>1, NoClassHoldsNUL DEF ReadIdentifier
    <3> QED BY <2>1, <3>1, AdvanceType DEF ReadIdentifier, Consume, TypeOK
  <2>2. CASE EndIdentifier
    BY <2>2 DEF EndIdentifier, Stay, Deliver, TypeOK, Modes
  <2> QED BY <1>5, <2>1, <2>2 DEF parse_identifier
<1>6. CASE parse_symbol
  <2>1. CASE ReadSymbol
    <3>1. current # NUL
      BY <2>1, NoClassHoldsNUL DEF ReadSymbol
    <3> QED BY <2>1, <3>1, AdvanceType DEF ReadSymbol, Consume, TypeOK
  <2>2. CASE EndSymbol
    BY <2>2 DEF EndSymbol, Stay, Deliver, Throw, TypeOK, Modes
  <2> QED BY <1>6, <2>1, <2>2 DEF parse_symbol
<1> QED BY <1>1, <1>2, <1>3, <1>4, <1>5, <1>6 DEF Next

(* Whatever the file, `index' stays inside it and no substr starts behind  *)
(* its end.                                                                *)
THEOREM LexerTypeCorrect == Spec => []TypeOK
BY TypeInit, TypeNext, PTL DEF Spec

----------------------------------------------------------------------------
(* Locations, counted from the text.                                       *)

LEMMA FinitePart ==
  ASSUME NEW i \in Nat, NEW S, S \subseteq 1 .. i
  PROVE  IsFiniteSet(S) /\ Cardinality(S) \in Nat
<1>1. IsFiniteSet(1 .. i)
  BY FS_Interval
<1> QED BY <1>1, FS_Subset, FS_CardinalityType

LEMMA OneMore ==
  ASSUME NEW i \in Nat, NEW S, S \subseteq 1 .. i
  PROVE  Cardinality(S \cup {i + 1}) = Cardinality(S) + 1
<1>1. IsFiniteSet(S)
  BY FinitePart
<1>2. i + 1 \notin S
  OBVIOUS
<1> QED BY <1>1, <1>2, FS_AddElement

(* The characters of the line that are before the character at i.          *)
LineSoFar(i) == { n \in 1 .. i : \A k \in n .. i : data[k] # Newline }

LEMMA LocationAtStart == LocationAt(0) = FirstLocation
<1>1. Lines(0) = {} /\ LineSoFar(0) = {}
  BY DEF Lines, LineSoFar
<1>2. Cardinality(Lines(0)) = 0 /\ Column(0) = 0
  BY <1>1, FS_EmptySet DEF Column, LineSoFar
<1> QED BY <1>1, <1>2 DEF LocationAt, FirstLocation

LEMMA LocationAtNext ==
  ASSUME NEW i \in Nat
  PROVE  LocationAt(i + 1) = IF data[i + 1] = Newline
                             THEN Location(LocationAt(i).line + 1, 1)
                             ELSE [LocationAt(i) EXCEPT !.column = @ + 1]
<1>1. Lines(i) \subseteq 1 .. i /\ LineSoFar(i) \subseteq 1 .. i
  BY DEF Lines, LineSoFar
<1>2. Cardinality(Lines(i)) \in Nat /\ Cardinality(LineSoFar(i)) \in Nat
  BY <1>1, FinitePart
<1>3. Column(i) = Cardinality(LineSoFar(i)) /\ Column(i + 1) = Cardinality(LineSoFar(i + 1))
  BY DEF Column, LineSoFar
<1>4. CASE data[i + 1] = Newline
  <2>1. Lines(i + 1) = Lines(i) \cup {i + 1}
    BY <1>4 DEF Lines
  <2>2. LineSoFar(i + 1) = {}
    BY <1>4 DEF LineSoFar
  <2>3. Cardinality(Lines(i + 1)) = Cardinality(Lines(i)) + 1 /\ Cardinality(LineSoFar(i + 1)) = 0
    BY <1>1, <2>1, <2>2, OneMore, FS_EmptySet
  <2>4. Lines(i + 1) # {}
    BY <2>1
  <2> QED BY <1>2, <1>3, <1>4, <2>3, <2>4 DEF LocationAt, Location
<1>5. CASE data[i + 1] # Newline
  <2>1. Lines(i + 1) = Lines(i)
    BY <1>5 DEF Lines
  <2>2. LineSoFar(i + 1) = LineSoFar(i) \cup {i + 1}
    <3>1. ASSUME NEW n \in 1 .. i
          PROVE  n \in LineSoFar(i + 1) <=> n \in LineSoFar(i)
      BY <1>5 DEF LineSoFar
    <3>2. i + 1 \in LineSoFar(i + 1)
      BY <1>5 DEF LineSoFar
    <3>3. LineSoFar(i + 1) \subseteq 1 .. i \cup {i + 1}
      BY DEF LineSoFar
    <3> QED BY <1>1, <3>1, <3>2, <3>3
  <2>3. Cardinality(LineSoFar(i + 1)) = Cardinality(LineSoFar(i)) + 1
    BY <1>1, <2>2, OneMore
  <2>4. Column(i + 1) = Column(i) + 1 /\ Column(i) \in Nat
    BY <1>2, <1>3, <2>3
  <2> DEFINE offset == IF Lines(i) = {} THEN 0 ELSE 1
  <2>5. Column(i + 1) + offset = Column(i) + offset + 1
    BY <2>4
  <2> QED BY <1>5, <2>1, <2>5 DEF LocationAt, Location
<1> QED BY <1>4, <1>5

(* What has been read stays where it was.                                  *)
LEMMA SameFile ==
  ASSUME data' = data
  PROVE  /\ \A i : LocationAt(i)' = LocationAt(i)
         /\ \A token, i : ReadsAt(token, i)' = ReadsAt(token, i)
BY DEF LocationAt, Location, Lines, Column, ReadsAt

LEMMA AdvanceLocation ==
  ASSUME TypeOK, advance, current # NUL, current_location = LocationAt(index)
  PROVE  current_location' = LocationAt(index)'
<1>1. PICK i \in Nat : i = index
  BY InsideFile DEF TypeOK
<1>2. LocationAt(i + 1) = IF data[i + 1] = Newline
                          THEN Location(LocationAt(i).line + 1, 1)
                          ELSE [LocationAt(i) EXCEPT !.column = @ + 1]
  BY <1>1, LocationAtNext
<1>3. current = data[i + 1] /\ index' = i + 1 /\ data' = data
  BY <1>1 DEF advance, current
<1>4. current_location' = LocationAt(i + 1)
  BY <1>1, <1>2, <1>3 DEF advance
<1>5. LocationAt(index)' = LocationAt(i + 1)'
  BY <1>3
<1>6. LocationAt(i + 1)' = LocationAt(i + 1)
  BY <1>3, SameFile
<1> QED BY <1>4, <1>5, <1>6

----------------------------------------------------------------------------
(* Strengthening: between two tokens only the current location matters;    *)
(* inside one its location is that of its first character, which the loop  *)
(* has consumed or is certain to.                                          *)
LocatedAt(token, location, last) ==
  \E i \in 0 .. last - 1 : LocationAt(i) = location /\ ReadsAt(token, i)

TokensLocated ==
  /\ IsSequence(tokens)
  /\ \A n \in 1 .. Len(tokens) :
       tokens[n].token # EndOfFile => LocatedAt(tokens[n].token, tokens[n].location, index)

TokenBegun ==
  mode # "next_token" => TokenBegin \in Nat /\ token_location = LocationAt(TokenBegin)

FirstCharacter ==
  /\ mode = "symbol" => start < index \/ is_symbol_char(current)
  /\ mode = "number" => start < index \/ IsDigit(current)
  /\ mode = "fraction" => start < index
  /\ mode = "string" => start >= 1
  /\ mode = "identifier" => start < index \/ is_identifier_char(current)

LocationInv ==
  /\ current_location = LocationAt(index)
  /\ TokensLocated
  /\ outcome = "lexing" => TokenBegun /\ FirstCharacter

LEMMA TokensKept ==
  ASSUME TypeOK, TokensLocated, data' = data, NEW last \in Nat, index' = last, index <= last,
         tokens' = tokens
  PROVE  TokensLocated'
<1>1. ASSUME NEW token, NEW location, LocatedAt(token, location, index)
      PROVE  LocatedAt(token, location, index)'
  <2>1. PICK i \in 0 .. index - 1 : LocationAt(i) = location /\ ReadsAt(token, i)
    BY <1>1 DEF LocatedAt
  <2>2. i \in 0 .. last - 1
    BY <2>1 DEF TypeOK
  <2>3. LocationAt(i)' = location /\ ReadsAt(token, i)'
    BY <2>1, SameFile
  <2> QED BY <2>2, <2>3 DEF LocatedAt
<1>2. \A n \in 1 .. Len(tokens) :
        tokens[n].token # EndOfFile => LocatedAt(tokens[n].token, tokens[n].location, index)'
  BY <1>1 DEF TokensLocated
<1> QED BY <1>2 DEF TokensLocated

LEMMA TokenAdded ==
  ASSUME TypeOK, TokensLocated, data' = data, NEW last \in Nat, index' = last, index <= last,
         NEW token, NEW location, tokens' = Append(tokens, Located(token, location)),
         token # EndOfFile => LocatedAt(token, location, last)
  PROVE  TokensLocated'
<1>1. ASSUME NEW t, NEW l, NEW m, m = index \/ m = last, LocatedAt(t, l, m)
      PROVE  LocatedAt(t, l, index)'
  <2>1. PICK i \in 0 .. m - 1 : LocationAt(i) = l /\ ReadsAt(t, i)
    BY <1>1 DEF LocatedAt
  <2>2. i \in 0 .. last - 1
    BY <1>1, <2>1 DEF TypeOK
  <2>3. LocationAt(i)' = l /\ ReadsAt(t, i)'
    BY <2>1, SameFile
  <2> QED BY <2>2, <2>3 DEF LocatedAt
<1>2. PICK s : s = tokens
  OBVIOUS
<1>3. IsSequence(s)
  BY <1>2 DEF TokensLocated
<1> DEFINE e == Located(token, location)
           r == Append(s, e)
<1>4. /\ IsSequence(r) /\ Len(s) \in Nat /\ Len(r) = Len(s) + 1 /\ r[Len(s) + 1] = e
      /\ \A n \in 1 .. Len(s) : r[n] = s[n]
  BY <1>3, Appending
<1>5. e.token = token /\ e.location = location
  BY DEF Located
<1> HIDE DEF e, r
<1>6. tokens' = r
  BY <1>2 DEF r, e
<1>7. ASSUME NEW n \in 1 .. Len(r), r[n].token # EndOfFile
      PROVE  LocatedAt(r[n].token, r[n].location, index)'
  <2>1. CASE n \in 1 .. Len(s)
    <3>1. r[n] = tokens[n] /\ LocatedAt(tokens[n].token, tokens[n].location, index)
      BY <1>2, <1>4, <1>7, <2>1 DEF TokensLocated
    <3> QED BY <1>1, <3>1
  <2>2. CASE n = Len(s) + 1
    <3>1. r[n] = e /\ LocatedAt(token, location, last)
      BY <1>4, <1>5, <1>7, <2>2
    <3> QED BY <1>1, <1>5, <3>1
  <2> QED BY <1>4, <2>1, <2>2
<1> QED BY <1>4, <1>6, <1>7 DEF TokensLocated

(* One more character of space or of a token.                              *)
LEMMA Consuming ==
  ASSUME TypeOK, LocationInv, outcome = "lexing", Consume, current # NUL
  PROVE  LocationInv'
<1>1. /\ index' = index + 1 /\ index \in Nat /\ data' = data
      /\ UNCHANGED << token_location, mode, start, tokens, outcome >>
      /\ advance /\ start \in 0 .. index
  BY InsideFile DEF Consume, advance, TypeOK
<1>2. current_location' = LocationAt(index)'
  BY <1>1, AdvanceLocation DEF LocationInv
<1>3. TokensLocated'
  <2>1. PICK last \in Nat : last = index + 1
    BY <1>1
  <2> QED BY <1>1, <2>1, TokensKept DEF LocationInv
<1>4. TokenBegun'
  <2>1. PICK tb : tb = TokenBegin
    OBVIOUS
  <2>2. TokenBegun
    BY DEF LocationInv
  <2>3. mode # "next_token" => TokenBegin' = tb
    BY <1>1, <2>1 DEF TokenBegin
  <2>4. LocationAt(tb)' = LocationAt(tb)
    BY <1>1, SameFile
  <2> QED BY <1>1, <2>1, <2>2, <2>3, <2>4 DEF TokenBegun
<1>5. FirstCharacter'
  <2>1. start' < index'
    BY <1>1
  <2> QED BY <1>1, <2>1 DEF LocationInv, FirstCharacter
<1> QED BY <1>2, <1>3, <1>4, <1>5 DEF LocationInv

(* A function starts where its token does, or behind its quote.            *)
LEMMA Entering ==
  ASSUME TypeOK, LocationInv, NEW m \in Modes \ {"next_token", "string", "fraction"},
         Stay, Enter(m, index),
         \/ m = "symbol" /\ is_symbol_char(current)
         \/ m = "number" /\ IsDigit(current)
         \/ m = "identifier" /\ is_identifier_char(current)
  PROVE  LocationInv'
<1>1. /\ UNCHANGED << data, index, current_location, tokens, outcome >> /\ index \in Nat
      /\ mode' = m /\ start' = index /\ token_location' = current_location
  BY DEF Stay, Enter, TypeOK
<1>2. LocationAt(index)' = LocationAt(index) /\ current' = current
  BY <1>1 DEF current, LocationAt, Location, Lines, Column
<1>3. TokensLocated'
  <2>1. PICK last \in Nat : last = index
    BY <1>1
  <2> QED BY <1>1, <2>1, TokensKept DEF LocationInv
<1>4. TokenBegun'
  <2>1. TokenBegin' = index'
    BY <1>1 DEF TokenBegin, Modes
  <2> QED BY <1>1, <1>2, <2>1 DEF TokenBegun, LocationInv
<1>5. FirstCharacter'
  BY <1>1, <1>2 DEF FirstCharacter, Modes
<1> QED BY <1>1, <1>2, <1>3, <1>4, <1>5 DEF LocationInv

LEMMA EnteringString ==
  ASSUME TypeOK, LocationInv, EnterString
  PROVE  LocationInv'
<1>1. current # NUL
  BY DEF EnterString, Quote, NUL
<1>2. /\ advance /\ data' = data /\ index' = index + 1 /\ index \in Nat
      /\ mode' = "string" /\ start' = index + 1 /\ token_location' = current_location
      /\ tokens' = tokens
  BY DEF EnterString, Enter, advance, TypeOK
<1>3. current_location' = LocationAt(index)'
  BY <1>1, <1>2, AdvanceLocation DEF LocationInv
<1>4. TokensLocated'
  <2>1. PICK last \in Nat : last = index + 1
    BY <1>2
  <2> QED BY <1>2, <2>1, TokensKept DEF LocationInv
<1>5. TokenBegun'
  <2>1. PICK tb \in Nat : tb = index
    BY <1>2
  <2>2. TokenBegin' = tb
    BY <1>2, <2>1 DEF TokenBegin
  <2>3. LocationAt(tb)' = LocationAt(tb)
    BY <1>2, SameFile
  <2>4. token_location' = LocationAt(tb)
    BY <1>2, <2>1 DEF LocationInv
  <2> QED BY <2>2, <2>3, <2>4 DEF TokenBegun
<1>6. FirstCharacter'
  BY <1>2 DEF FirstCharacter
<1> QED BY <1>3, <1>4, <1>5, <1>6 DEF LocationInv

----------------------------------------------------------------------------
(* Tokens.                                                                 *)

(* The word from `first' up to `last' can be read where it was.            *)
LEMMA WordLocated ==
  ASSUME NEW first \in Nat, NEW last \in Nat, first < last, last <= Len(data),
         Len(data) \in Nat, NEW type, type # "StringLiteral"
  PROVE  LocatedAt(Token(type, SubSeq(data, first + 1, last)), LocationAt(first), last)
<1> DEFINE token == Token(type, SubSeq(data, first + 1, last))
<1>1. PICK d : d = data
  OBVIOUS
<1>2. Len(SubSeq(d, first + 1, last)) = last - first
  <2>1. first + 1 \in Nat /\ first + 1 <= last + 1 /\ last - (first + 1) + 1 = last - first
    OBVIOUS
  <2> QED BY <2>1, Part
<1>3. token.type = type /\ token.value = SubSeq(d, first + 1, last)
  BY <1>1 DEF Token
<1>4. first + 1 + Len(token.value) - 1 = last
  <2> HIDE DEF token
  <2>1. Len(token.value) = last - first
    BY <1>2, <1>3
  <2> QED BY <2>1
<1>5. ReadsAt(token, first)
  <2> HIDE DEF token
  <2> QED BY <1>1, <1>3, <1>4 DEF ReadsAt
<1>6. first \in 0 .. last - 1
  OBVIOUS
<1> QED BY <1>5, <1>6 DEF LocatedAt

(* A string literal's value begins behind its quote.                       *)
LEMMA StringLocated ==
  ASSUME NEW first \in Nat \ {0}, NEW last \in Nat, first < last, last <= Len(data),
         Len(data) \in Nat
  PROVE  LocatedAt(Token("StringLiteral", SubSeq(data, first + 1, last)),
                   LocationAt(first - 1), last)
<1> DEFINE token == Token("StringLiteral", SubSeq(data, first + 1, last))
<1>1. PICK d : d = data
  OBVIOUS
<1>2. Len(SubSeq(d, first + 1, last)) = last - first
  <2>1. first + 1 \in Nat /\ first + 1 <= last + 1 /\ last - (first + 1) + 1 = last - first
    OBVIOUS
  <2> QED BY <2>1, Part
<1>3. token.type = "StringLiteral" /\ token.value = SubSeq(d, first + 1, last)
  BY <1>1 DEF Token
<1>4. first - 1 + 2 = first + 1 /\ first - 1 + 2 + Len(token.value) - 1 = last
  <2> HIDE DEF token
  <2>1. Len(token.value) = last - first
    BY <1>2, <1>3
  <2> QED BY <2>1
<1>5. ReadsAt(token, first - 1)
  <2> HIDE DEF token
  <2> QED BY <1>1, <1>3, <1>4 DEF ReadsAt
<1>6. first - 1 \in 0 .. last - 1
  OBVIOUS
<1> QED BY <1>5, <1>6 DEF LocatedAt

(* No word of letters or symbols is a string literal.                      *)
LEMMA SymbolTypes == \A w \in DOMAIN SYMBOLS : SYMBOLS[w] # "StringLiteral"
BY DEF SYMBOLS

LEMMA WordTypes == \A w : WordToken(w).type # "StringLiteral" /\ WordToken(w).value = w
BY KeywordsAssumption DEF WordToken, Token

LEMMA Delivering ==
  ASSUME TypeOK, LocationInv, NEW token, Deliver(token), data' = data,
         NEW last \in Nat, index' = last, index <= last,
         current_location' = LocationAt(index)',
         NEW location, token_location' = location, LocatedAt(token, location, last)
  PROVE  LocationInv'
<1>1. tokens' = Append(tokens, Located(token, location)) /\ mode' = "next_token"
  BY DEF Deliver
<1>2. TokensLocated'
  BY <1>1, TokenAdded DEF LocationInv
<1>3. TokenBegun' /\ FirstCharacter'
  BY <1>1 DEF TokenBegun, FirstCharacter
<1> QED BY <1>2, <1>3 DEF LocationInv

(* The end of a loop that stops before the character it does not want.     *)
LEMMA WordEnds ==
  ASSUME TypeOK, LocationInv, outcome = "lexing", NEW type, type # "StringLiteral",
         mode \in {"symbol", "number", "fraction", "identifier"}, start < index,
         Stay, UNCHANGED token_location,
         NEW token, token = Token(type, Word(index)), Deliver(token)
  PROVE  LocationInv'
<1>1. PICK first, last \in Nat : first = start /\ last = index
  BY DEF TypeOK
<1>2. first < last /\ last <= Len(data) /\ Len(data) \in Nat /\ first \in Nat
  BY <1>1, InputsAssumption DEF TypeOK
<1>3. LocatedAt(Token(type, SubSeq(data, first + 1, last)), LocationAt(first), last)
  BY <1>1, <1>2, WordLocated
<1>4. TokenBegin = first
  BY <1>1 DEF TokenBegin
<1>5. token_location = LocationAt(first)
  BY <1>4 DEF LocationInv, TokenBegun
<1>6. PICK location : location = token_location
  OBVIOUS
<1>7. LocatedAt(token, location, last)
  BY <1>1, <1>3, <1>5, <1>6 DEF Word
<1>8. UNCHANGED << data, index, current_location >>
  BY DEF Stay
<1>9. current_location' = LocationAt(index)'
  <2>1. LocationAt(index)' = LocationAt(index)
    BY <1>8 DEF LocationAt, Location, Lines, Column
  <2> QED BY <1>8, <2>1 DEF LocationInv
<1> QED BY <1>1, <1>6, <1>7, <1>8, <1>9, Delivering

(* The last token, EndOfFile, has no place of its own.                     *)
LEMMA Ending ==
  ASSUME TypeOK, LocationInv, DeliverEnd, data' = data,
         NEW last \in Nat, index' = last, index <= last,
         current_location' = LocationAt(index)'
  PROVE  LocationInv'
<1>1. PICK location : location = token_location'
  OBVIOUS
<1>2. tokens' = Append(tokens, Located(EndOfFile, location)) /\ outcome' = "done"
  BY <1>1 DEF DeliverEnd
<1>3. TokensLocated'
  BY <1>2, TokenAdded DEF LocationInv
<1> QED BY <1>2, <1>3 DEF LocationInv

(* A step that reads nothing keeps what is known.                          *)
LEMMA Staying ==
  ASSUME TypeOK, LocationInv, Stay
  PROVE  current_location' = LocationAt(index)' /\ data' = data /\ index' = index
<1>1. UNCHANGED << data, index, current_location >>
  BY DEF Stay
<1>2. LocationAt(index)' = LocationAt(index)
  BY <1>1 DEF LocationAt, Location, Lines, Column
<1> QED BY <1>1, <1>2 DEF LocationInv

----------------------------------------------------------------------------
LEMMA LocationInit == Init => LocationInv
<1> SUFFICES ASSUME Init PROVE LocationInv
  OBVIOUS
<1>1. tokens = << >> /\ IsSequence(<< >>)
  <2>1. << >> \in Seq({})
    OBVIOUS
  <2> QED BY <2>1 DEF Init, IsSequence
<1>2. current_location = LocationAt(index)
  BY LocationAtStart DEF Init
<1>3. TokensLocated
  BY <1>1 DEF TokensLocated
<1>4. TokenBegun /\ FirstCharacter
  BY DEF Init, TokenBegun, FirstCharacter
<1> QED BY <1>2, <1>3, <1>4 DEF LocationInv

LEMMA NextTokenLocation ==
  ASSUME TypeOK, LocationInv, next_token
  PROVE  LocationInv'
<1>1. CASE Skip
  BY <1>1, NoClassHoldsNUL, Consuming DEF Skip, InNextToken
<1>2. CASE ReachEnd
  <2>1. PICK last \in Nat : last = index
    BY DEF TypeOK
  <2> QED BY <1>2, <2>1, Staying, Ending DEF ReachEnd
<1>3. CASE EnterString
  BY <1>3, EnteringString
<1>4. CASE TakeParenthesis
  <2>1. current # NUL /\ current \in {"(", ")"} /\ advance /\ token_location' = current_location
    BY <1>4 DEF TakeParenthesis, NUL
  <2>2. PICK first \in Nat : first = index
    BY DEF TypeOK
  <2>3. /\ index' = first + 1 /\ data' = data /\ first + 1 <= Len(data) /\ Len(data) \in Nat
        /\ current = data[first + 1]
    BY <2>1, <2>2, InsideFile, InputsAssumption DEF advance, TypeOK, current
  <2>4. current_location' = LocationAt(index)'
    BY <2>1, AdvanceLocation DEF LocationInv
  <2>5. PICK d, c : d = data /\ c = current
    OBVIOUS
  <2>6. SubSeq(d, first + 1, first + 1) = << d[first + 1] >>
    BY Part
  <2>7. PICK type : type = SYMBOLS[<< c >>]
    OBVIOUS
  <2>8. type # "StringLiteral"
    <3>1. << c >> \in DOMAIN SYMBOLS
      BY <2>1, <2>5 DEF SYMBOLS
    <3> QED BY <2>7, <3>1, SymbolTypes
  <2> DEFINE token == Token(type, << c >>)
  <2>9. LocatedAt(token, LocationAt(first), first + 1)
    <3>1. LocatedAt(Token(type, SubSeq(data, first + 1, first + 1)), LocationAt(first), first + 1)
      BY <2>3, <2>8, WordLocated
    <3>2. SubSeq(data, first + 1, first + 1) = << c >>
      BY <2>3, <2>5, <2>6
    <3> QED BY <3>1, <3>2
  <2>10. Deliver(token)
    BY <1>4, <2>5, <2>7 DEF TakeParenthesis
  <2>11. PICK location : location = LocationAt(first)
    OBVIOUS
  <2>12. token_location' = location /\ LocatedAt(token, location, first + 1)
    BY <2>1, <2>2, <2>9, <2>11 DEF LocationInv
  <2>13. index <= first + 1 /\ first + 1 \in Nat
    BY <2>2
  <2> HIDE DEF token
  <2> QED BY <2>3, <2>4, <2>10, <2>12, <2>13, Delivering
<1>5. CASE EnterSymbol
  BY <1>5, Entering DEF EnterSymbol, Modes
<1>6. CASE EnterNumber
  BY <1>6, Entering DEF EnterNumber, Modes
<1>7. CASE EnterIdentifier
  BY <1>7, Entering DEF EnterIdentifier, Modes
<1>8. CASE MeetStranger
  <2>1. current # NUL /\ advance /\ DeliverEnd
    BY <1>8 DEF MeetStranger, AtEndOfInput
  <2>2. PICK last \in Nat : last = index + 1
    BY DEF TypeOK
  <2>3. index' = last /\ index <= last /\ data' = data
    BY <2>1, <2>2 DEF advance, TypeOK
  <2>4. current_location' = LocationAt(index)'
    BY <2>1, AdvanceLocation DEF LocationInv
  <2> QED BY <2>1, <2>3, <2>4, Ending
<1> QED BY <1>1, <1>2, <1>3, <1>4, <1>5, <1>6, <1>7, <1>8 DEF next_token

LEMMA ParseNumberLocation ==
  ASSUME TypeOK, LocationInv, parse_number
  PROVE  LocationInv'
<1>1. CASE ReadDigit
  BY <1>1, NoClassHoldsNUL, Consuming DEF ReadDigit, Parsing
<1>2. CASE ReadPoint
  <2>1. /\ advance /\ current # NUL /\ mode = "number" /\ mode' = "fraction"
        /\ outcome = "lexing" /\ UNCHANGED << token_location, start, tokens >>
    BY <1>2 DEF ReadPoint, Parsing, Point, NUL
  <2>2. index' = index + 1 /\ index \in Nat /\ data' = data /\ start \in 0 .. index
    BY <2>1 DEF advance, TypeOK
  <2>3. current_location' = LocationAt(index)'
    BY <2>1, AdvanceLocation DEF LocationInv
  <2>4. TokensLocated'
    <3>1. PICK last \in Nat : last = index + 1
      BY <2>2
    <3> QED BY <2>1, <2>2, <3>1, TokensKept DEF LocationInv
  <2>5. TokenBegun'
    <3>1. PICK tb : tb = start
      OBVIOUS
    <3>2. TokenBegin = tb /\ TokenBegin' = tb
      BY <2>1, <3>1 DEF TokenBegin
    <3>3. LocationAt(tb)' = LocationAt(tb)
      BY <2>2, SameFile
    <3> QED BY <2>1, <3>2, <3>3 DEF TokenBegun, LocationInv
  <2>6. FirstCharacter'
    BY <2>1, <2>2 DEF FirstCharacter
  <2> QED BY <2>3, <2>4, <2>5, <2>6 DEF LocationInv
<1>3. CASE EndNumber
  <2>1. outcome = "lexing" /\ mode \in {"number", "fraction"} /\ start < index
    BY <1>3 DEF EndNumber, Parsing, LocationInv, FirstCharacter
  <2>2. PICK type : type = IF mode = "number" THEN "IntLiteral" ELSE "FloatLiteral"
    OBVIOUS
  <2>3. PICK token : token = Token(type, Word(index))
    OBVIOUS
  <2>4. Deliver(token) /\ Stay /\ UNCHANGED token_location
    BY <1>3, <2>2, <2>3 DEF EndNumber
  <2>5. type # "StringLiteral"
    BY <2>2
  <2> QED BY <2>1, <2>3, <2>4, <2>5, WordEnds
<1> QED BY <1>1, <1>2, <1>3 DEF parse_number

LEMMA ParseStringLocation ==
  ASSUME TypeOK, LocationInv, parse_string_literal
  PROVE  LocationInv'
<1>1. CASE ReadCharacter
  BY <1>1, Consuming DEF ReadCharacter, Parsing
<1>2. CASE EndString
  <2>1. /\ outcome = "lexing" /\ mode = "string" /\ current # NUL /\ advance /\ start >= 1
        /\ UNCHANGED token_location
    BY <1>2 DEF EndString, Parsing, LocationInv, FirstCharacter, Quote, NUL
  <2>2. PICK first \in Nat \ {0}, last \in Nat : first = start /\ last = index + 1
    BY <2>1 DEF TypeOK
  <2>3. /\ index' = last /\ index <= last /\ data' = data /\ last <= Len(data)
        /\ Len(data) \in Nat /\ first < last
    BY <2>1, <2>2, InsideFile, InputsAssumption DEF advance, TypeOK
  <2>4. current_location' = LocationAt(index)'
    BY <2>1, AdvanceLocation DEF LocationInv
  <2>5. LocatedAt(Token("StringLiteral", SubSeq(data, first + 1, last)),
                  LocationAt(first - 1), last)
    BY <2>3, StringLocated
  <2>6. PICK token, location :
          token = Token("StringLiteral", Word(index + 1)) /\ location = token_location
    OBVIOUS
  <2>7. Deliver(token)
    BY <1>2, <2>6 DEF EndString
  <2>8. location = LocationAt(first - 1)
    <3>1. TokenBegin = first - 1
      BY <2>1, <2>2 DEF TokenBegin
    <3> QED BY <2>1, <2>6, <3>1 DEF LocationInv, TokenBegun
  <2>9. LocatedAt(token, location, last)
    BY <2>2, <2>5, <2>6, <2>8 DEF Word
  <2> QED BY <2>1, <2>3, <2>4, <2>6, <2>7, <2>9, Delivering
<1>3. CASE Unterminated
  <2>1. Stay /\ tokens' = tokens /\ outcome' # "lexing"
    BY <1>3 DEF Unterminated, Throw
  <2>2. PICK last \in Nat : last = index
    BY DEF TypeOK
  <2>3. TokensLocated'
    BY <2>1, <2>2, Staying, TokensKept DEF LocationInv
  <2> QED BY <2>1, <2>3, Staying DEF LocationInv
<1> QED BY <1>1, <1>2, <1>3 DEF parse_string_literal

LEMMA ParseIdentifierLocation ==
  ASSUME TypeOK, LocationInv, parse_identifier
  PROVE  LocationInv'
<1>1. CASE ReadIdentifier
  BY <1>1, NoClassHoldsNUL, Consuming DEF ReadIdentifier, Parsing
<1>2. CASE EndIdentifier
  <2>1. outcome = "lexing" /\ mode = "identifier" /\ start < index
    BY <1>2 DEF EndIdentifier, Parsing, LocationInv, FirstCharacter
  <2>2. PICK w : w = Word(index)
    OBVIOUS
  <2>3. PICK type : type = WordToken(w).type
    OBVIOUS
  <2>4. WordToken(w) = Token(type, w) /\ type # "StringLiteral"
    BY <2>3, WordTypes DEF WordToken, Token
  <2>5. Deliver(Token(type, w)) /\ Stay /\ UNCHANGED token_location
    BY <1>2, <2>2, <2>4 DEF EndIdentifier
  <2>6. PICK token : token = Token(type, w)
    OBVIOUS
  <2> QED BY <2>1, <2>2, <2>4, <2>5, <2>6, WordEnds
<1> QED BY <1>1, <1>2 DEF parse_identifier

LEMMA ParseSymbolLocation ==
  ASSUME TypeOK, LocationInv, parse_symbol
  PROVE  LocationInv'
<1>1. CASE ReadSymbol
  BY <1>1, NoClassHoldsNUL, Consuming DEF ReadSymbol, Parsing
<1>2. CASE EndSymbol
  <2>1. outcome = "lexing" /\ mode = "symbol" /\ start < index
    BY <1>2 DEF EndSymbol, Parsing, LocationInv, FirstCharacter
  <2>2. CASE Word(index) \in DOMAIN SYMBOLS
    <3>1. PICK w, type : w = Word(index) /\ type = SYMBOLS[w]
      OBVIOUS
    <3>2. type # "StringLiteral"
      BY <2>2, <3>1, SymbolTypes
    <3>3. PICK token : token = Token(type, Word(index))
      OBVIOUS
    <3>4. Deliver(token) /\ Stay /\ UNCHANGED token_location
      BY <1>2, <2>2, <3>1, <3>3 DEF EndSymbol
    <3> QED BY <2>1, <3>2, <3>3, <3>4, WordEnds
  <2>3. CASE Word(index) \notin DOMAIN SYMBOLS
    <3>1. Stay /\ tokens' = tokens /\ outcome' # "lexing"
      BY <1>2, <2>3 DEF EndSymbol, Throw
    <3>2. PICK last \in Nat : last = index
      BY DEF TypeOK
    <3>3. TokensLocated'
      BY <3>1, <3>2, Staying, TokensKept DEF LocationInv
    <3> QED BY <3>1, <3>3, Staying DEF LocationInv
  <2> QED BY <2>2, <2>3
<1> QED BY <1>1, <1>2 DEF parse_symbol

LEMMA LocationNext == TypeOK /\ LocationInv /\ [Next \/ Done]_vars => LocationInv'
<1> SUFFICES ASSUME TypeOK, LocationInv, [Next \/ Done]_vars PROVE LocationInv'
  OBVIOUS
<1>1. CASE UNCHANGED vars \/ Done
  <2>1. UNCHANGED vars
    BY <1>1 DEF Done
  <2>2. Stay /\ UNCHANGED << token_location, mode, start, tokens, outcome >>
    BY <2>1 DEF vars, Stay
  <2>3. PICK tb : tb = TokenBegin
    OBVIOUS
  <2>4. TokensLocated'
    <3>1. PICK last \in Nat : last = index
      BY DEF TypeOK
    <3> QED BY <2>2, <3>1, Staying, TokensKept DEF LocationInv
  <2>5. TokenBegin' = tb /\ current' = current
    BY <2>1, <2>3 DEF vars, TokenBegin, current
  <2>6. LocationAt(tb)' = LocationAt(tb)
    BY <2>2, Staying, SameFile
  <2>7. (outcome = "lexing" => TokenBegun)'
    BY <2>2, <2>3, <2>5, <2>6 DEF TokenBegun, LocationInv
  <2>8. (outcome = "lexing" => FirstCharacter)'
    BY <2>2, <2>5, Staying DEF FirstCharacter, LocationInv
  <2> QED BY <2>2, <2>4, <2>7, <2>8, Staying DEF LocationInv
<1>2. CASE Next
  BY <1>2, NextTokenLocation, ParseNumberLocation, ParseStringLocation,
     ParseIdentifierLocation, ParseSymbolLocation DEF Next
<1> QED BY <1>1, <1>2

(* Every token carries the location where its text can be read, and        *)
(* current_location that of the next character, whatever the file.         *)
THEOREM LocationsFollow == Spec => []LocationsExact
<1>1. TypeOK /\ LocationInv => LocationsExact
  BY DEF LocationInv, TokensLocated, LocatedAt, LocationsExact
<1>2. Init => TypeOK /\ LocationInv
  BY TypeInit, LocationInit
<1>3. TypeOK /\ LocationInv /\ [Next \/ Done]_vars => TypeOK' /\ LocationInv'
  BY TypeNext, LocationNext
<1> QED BY <1>1, <1>2, <1>3, PTL DEF Spec

----------------------------------------------------------------------------
(* The lexer implements the token stream.  Lexemes are defined on words;   *)
(* here they are described where they stand in the file, behind the first  *)
(* b characters and up to the e-th.                                        *)

LEMMA WordCharacters ==
  ASSUME NEW d, NEW b \in Nat, NEW e \in Nat, b <= e
  PROVE  /\ Len(SubSeq(d, b + 1, e)) = e - b
         /\ \A i \in 1 .. e - b : SubSeq(d, b + 1, e)[i] = d[b + i]
<1> DEFINE S == { d[i] : i \in b + 1 .. e }
<1>1. \A i \in b + 1 .. e : d[i] \in S
  OBVIOUS
<1> HIDE DEF S
<1>2. /\ SubSeq(d, b + 1, e) \in Seq(S)
      /\ Len(SubSeq(d, b + 1, e)) = IF b + 1 <= e THEN e - (b + 1) + 1 ELSE 0
      /\ \A i \in 1 .. e - (b + 1) + 1 : SubSeq(d, b + 1, e)[i] = d[b + 1 + i - 1]
  BY <1>1, SubSeqProperties
<1> QED BY <1>2

DigitsFrom(d, b, e)      == \A k \in b + 1 .. e : IsDigit(d[k])
IdentifierFrom(d, b, e)  == \A k \in b + 1 .. e : is_identifier_char(d[k])
SymbolFrom(d, b, e)      == \A k \in b + 1 .. e : is_symbol_char(d[k])
TextFrom(d, b, e)        == \A k \in b + 1 .. e : d[k] \notin {Quote, NUL}

(* Whether all of a stretch passes a test, in the word and in the file.    *)
LEMMA Stretches ==
  ASSUME NEW d, NEW b \in Nat, NEW e \in Nat, b <= e, NEW w, w = SubSeq(d, b + 1, e)
  PROVE  /\ Stream!All(w, Stream!IsDigit) <=> DigitsFrom(d, b, e)
         /\ Stream!All(w, Stream!is_identifier_char) <=> IdentifierFrom(d, b, e)
         /\ Stream!All(w, Stream!is_symbol_char) <=> SymbolFrom(d, b, e)
<1>1. Len(w) = e - b /\ \A i \in 1 .. e - b : w[i] = d[b + i]
  BY WordCharacters
<1>0. \A i \in 1 .. e - b : b + i \in b + 1 .. e
  OBVIOUS
<1>2. \A k \in b + 1 .. e : k - b \in 1 .. e - b /\ w[k - b] = d[k]
  <2>1. \A k \in b + 1 .. e : k - b \in 1 .. e - b /\ b + (k - b) = k
    OBVIOUS
  <2> QED BY <1>1, <2>1
<1>3. Stream!All(w, Stream!IsDigit) <=> DigitsFrom(d, b, e)
  <2>1. ASSUME Stream!All(w, Stream!IsDigit), NEW k \in b + 1 .. e PROVE IsDigit(d[k])
    BY <1>1, <1>2, <2>1 DEF Stream!All, Stream!IsDigit, IsDigit
  <2>2. ASSUME DigitsFrom(d, b, e), NEW i \in 1 .. e - b PROVE Stream!IsDigit(w[i])
    BY <1>0, <1>1, <2>2 DEF DigitsFrom, Stream!IsDigit, IsDigit
  <2> QED BY <1>1, <2>1, <2>2 DEF Stream!All, DigitsFrom
<1>4. Stream!All(w, Stream!is_identifier_char) <=> IdentifierFrom(d, b, e)
  <2>1. ASSUME Stream!All(w, Stream!is_identifier_char), NEW k \in b + 1 .. e
        PROVE  is_identifier_char(d[k])
    BY <1>1, <1>2, <2>1 DEF Stream!All, Stream!is_identifier_char, is_identifier_char
  <2>2. ASSUME IdentifierFrom(d, b, e), NEW i \in 1 .. e - b
        PROVE  Stream!is_identifier_char(w[i])
    BY <1>0, <1>1, <2>2 DEF IdentifierFrom, Stream!is_identifier_char, is_identifier_char
  <2> QED BY <1>1, <2>1, <2>2 DEF Stream!All, IdentifierFrom
<1>5. Stream!All(w, Stream!is_symbol_char) <=> SymbolFrom(d, b, e)
  <2>1. ASSUME Stream!All(w, Stream!is_symbol_char), NEW k \in b + 1 .. e
        PROVE  is_symbol_char(d[k])
    BY <1>1, <1>2, <2>1
       DEF Stream!All, Stream!is_symbol_char, is_symbol_char, Stream!SymbolChars, SymbolChars
  <2>2. ASSUME SymbolFrom(d, b, e), NEW i \in 1 .. e - b
        PROVE  Stream!is_symbol_char(w[i])
    BY <1>0, <1>1, <2>2
       DEF SymbolFrom, Stream!is_symbol_char, is_symbol_char, Stream!SymbolChars, SymbolChars
  <2> QED BY <1>1, <2>1, <2>2 DEF Stream!All, SymbolFrom
<1> QED BY <1>3, <1>4, <1>5

(* A float's point is the character behind the first p.                    *)
PointAt(d, b, p) == d[p + 1] = Point /\ DigitsFrom(d, b, p)
FloatAt(d, b, e) == \E p \in b + 1 .. e - 2 : PointAt(d, b, p) /\ DigitsFrom(d, p + 1, e)
NameAt(d, b, e)  == d[b + 1] \in Letters /\ IdentifierFrom(d, b, e)
QuotedAt(d, b, e) ==
  e >= b + 2 /\ d[b + 1] = Quote /\ d[e] = Quote /\ TextFrom(d, b + 1, e - 1)
OperatorAt(d, b, e) ==
  SymbolFrom(d, b, e) /\ (d[b + 1] \in {"(", ")"} => e = b + 1)

LEMMA FloatWord ==
  ASSUME NEW d, NEW b \in Nat, NEW e \in Nat, b < e, NEW w, w = SubSeq(d, b + 1, e)
  PROVE  Stream!IsFloat(w) <=> FloatAt(d, b, e)
<1>a. b <= e
  OBVIOUS
<1>1. Len(w) = e - b /\ \A i \in 1 .. e - b : w[i] = d[b + i]
  BY <1>a, WordCharacters
<1>2. ASSUME NEW i \in 2 .. e - b - 1
      PROVE  /\ Stream!IsInt(SubSeq(w, 1, i - 1)) <=> DigitsFrom(d, b, b + i - 1)
             /\ Stream!IsInt(SubSeq(w, i + 1, e - b)) <=> DigitsFrom(d, b + i, e)
  <2>1. PICK u, v : u = SubSeq(w, 1, i - 1) /\ v = SubSeq(w, i + 1, e - b)
    OBVIOUS
  <2>2. /\ Len(u) = i - 1 /\ \A j \in 1 .. i - 1 : u[j] = w[j]
    <3>1. 0 \in Nat /\ i - 1 \in Nat /\ 0 <= i - 1 /\ 0 + 1 = 1
      OBVIOUS
    <3>2. Len(SubSeq(w, 0 + 1, i - 1)) = i - 1 - 0
          /\ \A j \in 1 .. i - 1 - 0 : SubSeq(w, 0 + 1, i - 1)[j] = w[0 + j]
      BY <3>1, WordCharacters
    <3> QED BY <2>1, <3>1, <3>2
  <2>3. Len(v) = e - b - i /\ \A j \in 1 .. e - b - i : v[j] = w[i + j]
    <3>1. i \in Nat /\ e - b \in Nat /\ i <= e - b
      OBVIOUS
    <3> QED BY <2>1, <3>1, WordCharacters
  <2>4. u # << >> /\ v # << >>
    BY <2>2, <2>3
  <2>5. \A j \in 1 .. i - 1 : u[j] = d[b + j]
    BY <1>1, <2>2
  <2>6. \A j \in 1 .. e - b - i : v[j] = d[b + i + j]
    BY <1>1, <2>3
  <2>7. Stream!IsInt(u) <=> DigitsFrom(d, b, b + i - 1)
    <3>1. ASSUME Stream!IsInt(u), NEW k \in b + 1 .. b + i - 1 PROVE IsDigit(d[k])
      <4>1. k - b \in 1 .. i - 1 /\ b + (k - b) = k
        OBVIOUS
      <4> QED BY <2>2, <2>5, <3>1, <4>1 DEF Stream!IsInt, Stream!All, Stream!IsDigit, IsDigit
    <3>2. ASSUME DigitsFrom(d, b, b + i - 1), NEW j \in 1 .. i - 1 PROVE Stream!IsDigit(u[j])
      <4>1. b + j \in b + 1 .. b + i - 1
        OBVIOUS
      <4> QED BY <4>1, <2>5, <3>2 DEF DigitsFrom, Stream!IsDigit, IsDigit
    <3> QED BY <2>2, <2>4, <3>1, <3>2 DEF Stream!IsInt, Stream!All, DigitsFrom
  <2>8. Stream!IsInt(v) <=> DigitsFrom(d, b + i, e)
    <3>1. ASSUME Stream!IsInt(v), NEW k \in b + i + 1 .. e PROVE IsDigit(d[k])
      <4>1. k - b - i \in 1 .. e - b - i /\ b + i + (k - b - i) = k
        OBVIOUS
      <4> QED BY <2>3, <2>6, <3>1, <4>1 DEF Stream!IsInt, Stream!All, Stream!IsDigit, IsDigit
    <3>2. ASSUME DigitsFrom(d, b + i, e), NEW j \in 1 .. e - b - i PROVE Stream!IsDigit(v[j])
      <4>1. b + i + j \in b + i + 1 .. e
        OBVIOUS
      <4> QED BY <4>1, <2>6, <3>2 DEF DigitsFrom, Stream!IsDigit, IsDigit
    <3> QED BY <2>3, <2>4, <3>1, <3>2 DEF Stream!IsInt, Stream!All, DigitsFrom
  <2> QED BY <2>1, <2>7, <2>8
<1>3. ASSUME Stream!IsFloat(w) PROVE FloatAt(d, b, e)
  <2>1. PICK i \in 2 .. e - b - 1 :
          /\ w[i] = Point
          /\ Stream!IsInt(SubSeq(w, 1, i - 1))
          /\ Stream!IsInt(SubSeq(w, i + 1, e - b))
    BY <1>1, <1>3 DEF Stream!IsFloat, Stream!Point, Point
  <2>2. PICK p \in b + 1 .. e - 2 : p = b + i - 1
    OBVIOUS
  <2>3. d[p + 1] = Point /\ DigitsFrom(d, b, p) /\ DigitsFrom(d, p + 1, e)
    <3>1. i \in 1 .. e - b /\ b + i = p + 1 /\ b + i - 1 = p
      BY <2>2
    <3> QED BY <1>1, <1>2, <2>1, <3>1
  <2> QED BY <2>3 DEF FloatAt, PointAt
<1>4. ASSUME FloatAt(d, b, e) PROVE Stream!IsFloat(w)
  <2>1. PICK p \in b + 1 .. e - 2 :
          d[p + 1] = Point /\ DigitsFrom(d, b, p) /\ DigitsFrom(d, p + 1, e)
    BY <1>4 DEF FloatAt, PointAt
  <2>2. PICK i \in 2 .. e - b - 1 : i = p - b + 1
    OBVIOUS
  <2>3. i \in 1 .. e - b /\ b + i = p + 1 /\ b + i - 1 = p
    BY <2>2
  <2>4. w[i] = Point /\ Stream!IsInt(SubSeq(w, 1, i - 1)) /\ Stream!IsInt(SubSeq(w, i + 1, e - b))
    BY <1>1, <1>2, <2>1, <2>3
  <2> QED BY <1>1, <2>4 DEF Stream!IsFloat, Stream!Point, Point
<1> QED BY <1>3, <1>4

(* The lexemes of the file.                                                *)
LEMMA LexemeWord ==
  ASSUME NEW d, NEW b \in Nat, NEW e \in Nat, b < e, NEW w, w = SubSeq(d, b + 1, e)
  PROVE  /\ Len(w) = e - b /\ w[1] = d[b + 1]
         /\ Stream!IsInt(w) <=> DigitsFrom(d, b, e)
         /\ Stream!IsFloat(w) <=> FloatAt(d, b, e)
         /\ Stream!IsName(w) <=> NameAt(d, b, e)
         /\ Stream!IsQuoted(w) <=> QuotedAt(d, b, e)
         /\ Stream!IsOperator(w) <=> OperatorAt(d, b, e)
<1>a. b <= e
  OBVIOUS
<1>1. Len(w) = e - b /\ \A i \in 1 .. e - b : w[i] = d[b + i]
  BY <1>a, WordCharacters
<1>2. w # << >> /\ w[1] = d[b + 1] /\ w[Len(w)] = d[e]
  <2>1. 1 \in 1 .. e - b /\ e - b \in 1 .. e - b /\ b + (e - b) = e
    OBVIOUS
  <2>2. w[1] = d[b + 1] /\ w[e - b] = d[e]
    BY <1>1, <2>1
  <2>3. w # << >>
    <3>1. Len(w) # 0
      BY <1>1
    <3> QED BY <3>1
  <2> QED BY <1>1, <2>2, <2>3
<1>b. /\ Stream!All(w, Stream!IsDigit) <=> DigitsFrom(d, b, e)
      /\ Stream!All(w, Stream!is_identifier_char) <=> IdentifierFrom(d, b, e)
      /\ Stream!All(w, Stream!is_symbol_char) <=> SymbolFrom(d, b, e)
  BY <1>a, Stretches
<1>3. Stream!IsInt(w) <=> DigitsFrom(d, b, e)
  BY <1>2, <1>b DEF Stream!IsInt
<1>4. Stream!IsName(w) <=> NameAt(d, b, e)
  BY <1>2, <1>b DEF Stream!IsName, NameAt
<1>5. Stream!IsQuoted(w) <=> QuotedAt(d, b, e)
  <2>1. ASSUME NEW i \in 2 .. e - b - 1 PROVE b + i \in b + 1 + 1 .. e - 1 /\ w[i] = d[b + i]
    BY <1>1
  <2>2. ASSUME NEW k \in b + 1 + 1 .. e - 1 PROVE k - b \in 2 .. e - b - 1 /\ w[k - b] = d[k]
    <3>1. k - b \in 2 .. e - b - 1 /\ k - b \in 1 .. e - b /\ b + (k - b) = k
      OBVIOUS
    <3> QED BY <1>1, <3>1
  <2>3. (\A i \in 2 .. e - b - 1 : w[i] \notin {Quote, NUL}) <=> TextFrom(d, b + 1, e - 1)
    BY <2>1, <2>2 DEF TextFrom
  <2>4. Len(w) >= 2 <=> e >= b + 2
    BY <1>1
  <2> QED BY <1>1, <1>2, <2>3, <2>4
          DEF Stream!IsQuoted, QuotedAt, Stream!Quote, Quote, Stream!NUL, NUL
<1>6. Stream!IsOperator(w) <=> OperatorAt(d, b, e)
  <2>1. Len(w) = 1 <=> e = b + 1
    BY <1>1
  <2> QED BY <1>2, <1>b, <2>1 DEF Stream!IsOperator, OperatorAt
<1>7. Stream!IsFloat(w) <=> FloatAt(d, b, e)
  BY FloatWord
<1> QED BY <1>1, <1>2, <1>3, <1>4, <1>5, <1>6, <1>7

(* No character is of two of the kinds that start a lexeme.                *)
LEMMA KindsApart ==
  ASSUME NEW c
  PROVE  /\ IsDigit(c) => /\ c \notin Letters /\ ~is_symbol_char(c) /\ ~IsSpace(c)
                          /\ c # Quote /\ c # Point /\ c # NUL
         /\ c \in Letters => ~is_symbol_char(c) /\ ~IsSpace(c) /\ c # Quote /\ c # NUL
         /\ is_symbol_char(c) => ~IsSpace(c) /\ c # Quote /\ c # Point /\ c # NUL
         /\ ~IsSpace(Quote)
<1> DEFINE Rest == SymbolChars \cup {Newline, Quote, Point, NUL}
           Classes == << Letters, Digits, Spaces, Strangers, Rest >>
<1>1. \A i, j \in 1 .. 5 : i # j => Classes[i] \cap Classes[j] = {}
  BY CharactersAssumption
<1>2. /\ Letters \cap Digits = {} /\ Letters \cap Spaces = {} /\ Letters \cap Rest = {}
      /\ Digits \cap Spaces = {} /\ Digits \cap Rest = {} /\ Spaces \cap Rest = {}
  <2>1. /\ Classes[1] \cap Classes[2] = {} /\ Classes[1] \cap Classes[3] = {}
        /\ Classes[1] \cap Classes[5] = {} /\ Classes[2] \cap Classes[3] = {}
        /\ Classes[2] \cap Classes[5] = {} /\ Classes[3] \cap Classes[5] = {}
    BY <1>1
  <2> QED BY <2>1
<1>3. SymbolChars \cap {Newline, Quote, Point, NUL} = {} /\ Quote # Newline
  BY DEF SymbolChars, Newline, Quote, Point, NUL
<1> QED
  BY <1>2, <1>3 DEF IsDigit, IsSpace, is_symbol_char

LexemeAt(d, b, e) ==
  DigitsFrom(d, b, e) \/ FloatAt(d, b, e) \/ NameAt(d, b, e) \/ QuotedAt(d, b, e)
    \/ OperatorAt(d, b, e)

(* The first character decides which lexemes may begin with it.            *)
LEMMA StartOfLexeme ==
  ASSUME NEW d, NEW b \in Nat, NEW e \in Nat, b < e
  PROVE  /\ DigitsFrom(d, b, e) \/ FloatAt(d, b, e) => IsDigit(d[b + 1])
         /\ NameAt(d, b, e) => d[b + 1] \in Letters
         /\ QuotedAt(d, b, e) => d[b + 1] = Quote
         /\ OperatorAt(d, b, e) => is_symbol_char(d[b + 1])
<1>1. b + 1 \in b + 1 .. e
  OBVIOUS
<1>2. FloatAt(d, b, e) => IsDigit(d[b + 1])
  <2> SUFFICES ASSUME FloatAt(d, b, e) PROVE IsDigit(d[b + 1])
    OBVIOUS
  <2>1. PICK p \in b + 1 .. e - 2 : DigitsFrom(d, b, p)
    BY DEF FloatAt, PointAt
  <2>2. b + 1 \in b + 1 .. p
    OBVIOUS
  <2> QED BY <2>1, <2>2 DEF DigitsFrom
<1>3. DigitsFrom(d, b, e) => IsDigit(d[b + 1])
  BY <1>1 DEF DigitsFrom
<1>4. NameAt(d, b, e) => d[b + 1] \in Letters
  BY DEF NameAt
<1>5. QuotedAt(d, b, e) => d[b + 1] = Quote
  BY DEF QuotedAt
<1>6. OperatorAt(d, b, e) => is_symbol_char(d[b + 1])
  BY <1>1 DEF OperatorAt, SymbolFrom
<1> QED BY <1>2, <1>3, <1>4, <1>5, <1>6

LEMMA KindOfLexeme ==
  ASSUME NEW d, NEW b \in Nat, NEW e \in Nat, b < e, LexemeAt(d, b, e)
  PROVE  /\ IsDigit(d[b + 1]) => DigitsFrom(d, b, e) \/ FloatAt(d, b, e)
         /\ d[b + 1] \in Letters => NameAt(d, b, e)
         /\ d[b + 1] = Quote => QuotedAt(d, b, e)
         /\ is_symbol_char(d[b + 1]) => OperatorAt(d, b, e)
         /\ \/ IsDigit(d[b + 1]) \/ d[b + 1] \in Letters \/ d[b + 1] = Quote
            \/ is_symbol_char(d[b + 1])
<1>1. PICK c : c = d[b + 1]
  OBVIOUS
<1>2. /\ IsDigit(c) => c \notin Letters /\ ~is_symbol_char(c) /\ c # Quote
      /\ c \in Letters => ~is_symbol_char(c) /\ c # Quote
      /\ is_symbol_char(c) => c # Quote
  BY KindsApart
<1>3. /\ DigitsFrom(d, b, e) \/ FloatAt(d, b, e) => IsDigit(c)
      /\ NameAt(d, b, e) => c \in Letters
      /\ QuotedAt(d, b, e) => c = Quote
      /\ OperatorAt(d, b, e) => is_symbol_char(c)
  BY <1>1, StartOfLexeme
<1> QED BY <1>1, <1>2, <1>3 DEF LexemeAt

(* e ends the longest lexeme of d behind the first b characters.           *)
EndsAt(d, b, e) ==
  /\ e \in b + 1 .. Len(d)
  /\ LexemeAt(d, b, e)
  /\ \A other \in b + 1 .. Len(d) : LexemeAt(d, b, other) => other <= e

(* Where each loop stops, the longest lexeme ends.                         *)
LEMMA IntEnds ==
  ASSUME NEW d, Len(d) \in Nat, NEW b \in Nat, NEW e \in b + 1 .. Len(d), DigitsFrom(d, b, e),
         e < Len(d) => ~IsDigit(d[e + 1]),
         e + 1 < Len(d) => ~(d[e + 1] = Point /\ IsDigit(d[e + 2]))
  PROVE  EndsAt(d, b, e) /\ ~FloatAt(d, b, e)
<1>1. \A k \in b + 1 .. e : d[k] # Point
  BY KindsApart DEF DigitsFrom
<1>2. ~FloatAt(d, b, e)
  <2> SUFFICES ASSUME FloatAt(d, b, e) PROVE FALSE
    OBVIOUS
  <2>1. PICK p \in b + 1 .. e - 2 : d[p + 1] = Point
    BY DEF FloatAt, PointAt
  <2>2. p + 1 \in b + 1 .. e
    OBVIOUS
  <2> QED BY <1>1, <2>1, <2>2
<1>3. ASSUME NEW o \in b + 1 .. Len(d), LexemeAt(d, b, o), e < o PROVE FALSE
  <2>1. o \in Nat /\ b < o /\ e < Len(d) /\ b + 1 \in b + 1 .. e /\ e + 1 \in b + 1 .. o
    BY <1>3
  <2>2. ~IsDigit(d[e + 1])
    BY <2>1
  <2>3. IsDigit(d[b + 1])
    BY <2>1 DEF DigitsFrom
  <2>4. DigitsFrom(d, b, o) \/ FloatAt(d, b, o)
    BY <1>3, <2>1, <2>3, KindOfLexeme
  <2>5. ~DigitsFrom(d, b, o)
    BY <2>1, <2>2 DEF DigitsFrom
  <2>6. PICK p \in b + 1 .. o - 2 : PointAt(d, b, p) /\ DigitsFrom(d, p + 1, o)
    BY <2>4, <2>5 DEF FloatAt
  <2>7. ~(p + 1 <= e)
    <3>1. p + 1 <= e => p + 1 \in b + 1 .. e
      BY <2>1
    <3> QED BY <1>1, <2>6, <3>1 DEF PointAt
  <2>8. ~(e + 1 <= p)
    <3>1. e + 1 <= p => e + 1 \in b + 1 .. p
      BY <2>1
    <3> QED BY <2>2, <2>6, <3>1 DEF PointAt, DigitsFrom
  <2>9. p = e
    BY <2>7, <2>8
  <2>10. e + 1 < Len(d) /\ e + 2 \in p + 1 + 1 .. o
    BY <2>9
  <2> QED BY <2>6, <2>9, <2>10 DEF PointAt, DigitsFrom
<1>4. \A o \in b + 1 .. Len(d) : LexemeAt(d, b, o) => o <= e
  BY <1>3
<1> QED BY <1>2, <1>4 DEF EndsAt, LexemeAt

LEMMA FloatEnds ==
  ASSUME NEW d, Len(d) \in Nat, NEW b \in Nat, NEW e \in b + 1 .. Len(d), FloatAt(d, b, e),
         e < Len(d) => ~IsDigit(d[e + 1])
  PROVE  EndsAt(d, b, e) /\ ~DigitsFrom(d, b, e)
<1>1. PICK p \in b + 1 .. e - 2 :
        d[p + 1] = Point /\ DigitsFrom(d, b, p) /\ DigitsFrom(d, p + 1, e)
  BY DEF FloatAt, PointAt
<1>2. ~IsDigit(d[p + 1])
  BY <1>1, KindsApart
<1>3. ~DigitsFrom(d, b, e)
  <2>1. p + 1 \in b + 1 .. e
    OBVIOUS
  <2> QED BY <1>2, <2>1 DEF DigitsFrom
<1>4. ASSUME NEW o \in b + 1 .. Len(d), LexemeAt(d, b, o), e < o PROVE FALSE
  <2>1. o \in Nat /\ b < o /\ e < Len(d) /\ b + 1 \in b + 1 .. p /\ p + 1 \in b + 1 .. o
    BY <1>4
  <2>2. ~IsDigit(d[e + 1])
    BY <2>1
  <2>3. IsDigit(d[b + 1])
    BY <1>1, <2>1 DEF DigitsFrom
  <2>4. DigitsFrom(d, b, o) \/ FloatAt(d, b, o)
    BY <1>4, <2>1, <2>3, KindOfLexeme
  <2>5. ~DigitsFrom(d, b, o)
    BY <1>2, <2>1 DEF DigitsFrom
  <2>6. PICK q \in b + 1 .. o - 2 :
          d[q + 1] = Point /\ DigitsFrom(d, b, q) /\ DigitsFrom(d, q + 1, o)
    BY <2>4, <2>5 DEF FloatAt, PointAt
  <2>7. ~(q < p)
    <3>1. q < p => q + 1 \in b + 1 .. p
      OBVIOUS
    <3> QED BY <1>1, <2>6, <3>1, KindsApart DEF DigitsFrom
  <2>8. ~(p < q)
    <3>1. p < q => p + 1 \in b + 1 .. q
      OBVIOUS
    <3> QED BY <1>2, <2>6, <3>1 DEF DigitsFrom
  <2>9. p = q
    BY <2>7, <2>8
  <2>10. e + 1 \in q + 1 + 1 .. o
    BY <1>4, <2>9
  <2> QED BY <2>2, <2>6, <2>10 DEF DigitsFrom
<1>5. \A o \in b + 1 .. Len(d) : LexemeAt(d, b, o) => o <= e
  BY <1>4
<1> QED BY <1>3, <1>5 DEF EndsAt, LexemeAt

LEMMA NameEnds ==
  ASSUME NEW d, Len(d) \in Nat, NEW b \in Nat, NEW e \in b + 1 .. Len(d), NameAt(d, b, e),
         e < Len(d) => ~is_identifier_char(d[e + 1])
  PROVE  EndsAt(d, b, e)
<1>1. ASSUME NEW o \in b + 1 .. Len(d), LexemeAt(d, b, o), e < o PROVE FALSE
  <2>1. o \in Nat /\ b < o /\ e < Len(d) /\ e + 1 \in b + 1 .. o
    BY <1>1
  <2>2. NameAt(d, b, o)
    BY <1>1, <2>1, KindOfLexeme DEF NameAt
  <2> QED BY <2>1, <2>2 DEF NameAt, IdentifierFrom
<1>2. \A o \in b + 1 .. Len(d) : LexemeAt(d, b, o) => o <= e
  BY <1>1
<1> QED BY <1>2 DEF EndsAt, LexemeAt

LEMMA OperatorEnds ==
  ASSUME NEW d, Len(d) \in Nat, NEW b \in Nat, NEW e \in b + 1 .. Len(d), OperatorAt(d, b, e),
         \/ d[b + 1] \in {"(", ")"}
         \/ e < Len(d) => ~is_symbol_char(d[e + 1])
  PROVE  EndsAt(d, b, e)
<1>0. is_symbol_char(d[b + 1])
  <2>1. b + 1 \in b + 1 .. e
    OBVIOUS
  <2> QED BY <2>1 DEF OperatorAt, SymbolFrom
<1>1. ASSUME NEW o \in b + 1 .. Len(d), LexemeAt(d, b, o), e < o PROVE FALSE
  <2>1. o \in Nat /\ b < o /\ e < Len(d) /\ e + 1 \in b + 1 .. o /\ o # b + 1
    BY <1>1
  <2>2. OperatorAt(d, b, o)
    BY <1>0, <1>1, <2>1, KindOfLexeme
  <2> QED BY <2>1, <2>2 DEF OperatorAt, SymbolFrom
<1>2. \A o \in b + 1 .. Len(d) : LexemeAt(d, b, o) => o <= e
  BY <1>1
<1> QED BY <1>2 DEF EndsAt, LexemeAt

LEMMA QuotedEnds ==
  ASSUME NEW d, Len(d) \in Nat, NEW b \in Nat, NEW e \in b + 1 .. Len(d), QuotedAt(d, b, e)
  PROVE  EndsAt(d, b, e)
<1>1. ASSUME NEW o \in b + 1 .. Len(d), LexemeAt(d, b, o), e < o PROVE FALSE
  <2>1. o \in Nat /\ b < o
    BY <1>1
  <2>2. QuotedAt(d, b, o)
    BY <1>1, <2>1, KindOfLexeme DEF QuotedAt
  <2>3. e \in b + 1 + 1 .. o - 1
    BY <1>1 DEF QuotedAt
  <2> QED BY <2>2, <2>3 DEF QuotedAt, TextFrom
<1>2. \A o \in b + 1 .. Len(d) : LexemeAt(d, b, o) => o <= e
  BY <1>1
<1> QED BY <1>2 DEF EndsAt, LexemeAt

(* A string that meets the end of the file, or a NUL, first has no end.    *)
LEMMA NoStringEnds ==
  ASSUME NEW d, Len(d) \in Nat, NEW b \in Nat, NEW i \in b + 1 .. Len(d), d[b + 1] = Quote,
         TextFrom(d, b + 1, i), i < Len(d) => d[i + 1] = NUL
  PROVE  \A e \in b + 1 .. Len(d) : ~LexemeAt(d, b, e)
<1> SUFFICES ASSUME NEW e \in b + 1 .. Len(d), LexemeAt(d, b, e) PROVE FALSE
  OBVIOUS
<1>1. e \in Nat /\ b < e
  OBVIOUS
<1>2. QuotedAt(d, b, e)
  BY <1>1, KindOfLexeme
<1>3. e >= b + 2 /\ d[e] = Quote /\ TextFrom(d, b + 1, e - 1)
  BY <1>2 DEF QuotedAt
<1>4. ~(e <= i)
  <2>1. e <= i => e \in b + 1 + 1 .. i
    BY <1>3
  <2> QED BY <1>3, <2>1 DEF TextFrom
<1>5. i < Len(d) /\ d[i + 1] = NUL
  BY <1>4
<1>6. e # i + 1
  BY <1>3, <1>5 DEF Quote, NUL
<1>7. i + 1 \in b + 1 + 1 .. e - 1
  BY <1>4, <1>6
<1> QED BY <1>3, <1>5, <1>7 DEF TextFrom

LEMMA NothingStarts ==
  ASSUME NEW d, NEW b \in Nat, Len(d) \in Nat, ~IsDigit(d[b + 1]), d[b + 1] \notin Letters,
         d[b + 1] # Quote, ~is_symbol_char(d[b + 1])
  PROVE  \A e \in b + 1 .. Len(d) : ~LexemeAt(d, b, e)
<1> SUFFICES ASSUME NEW e \in b + 1 .. Len(d), LexemeAt(d, b, e) PROVE FALSE
  OBVIOUS
<1>1. e \in Nat /\ b < e
  OBVIOUS
<1> QED BY <1>1, KindOfLexeme

----------------------------------------------------------------------------
(* Strengthening: what has been read of a token.  A point is consumed only *)
(* in front of a digit.                                                    *)
TokenScanned(m, d, b, i) ==
  /\ m = "symbol" => /\ b < Len(d) /\ is_symbol_char(d[b + 1]) /\ d[b + 1] \notin {"(", ")"}
                     /\ SymbolFrom(d, b, i)
  /\ m = "number" => b < Len(d) /\ IsDigit(d[b + 1]) /\ DigitsFrom(d, b, i)
  /\ m = "fraction" => \E p \in b + 1 .. i - 1 :
                         /\ PointAt(d, b, p) /\ DigitsFrom(d, p + 1, i)
                         /\ p + 1 < Len(d) /\ IsDigit(d[p + 2])
  /\ m = "identifier" => b < Len(d) /\ d[b + 1] \in Letters /\ IdentifierFrom(d, b, i)
  /\ m = "string" => b >= 1 /\ d[b] = Quote /\ TextFrom(d, b, i)

Scanned == outcome = "lexing" => TokenScanned(mode, data, start, index)

LEMMA ScanOn ==
  ASSUME NEW m, NEW d, NEW b \in Nat, NEW i \in Nat, b <= i, TokenScanned(m, d, b, i),
         m = "symbol" => is_symbol_char(d[i + 1]),
         m \in {"number", "fraction"} => IsDigit(d[i + 1]),
         m = "identifier" => is_identifier_char(d[i + 1]),
         m = "string" => d[i + 1] \notin {Quote, NUL}
  PROVE  TokenScanned(m, d, b, i + 1)
<1>1. \A k \in b + 1 .. i + 1 : k \in b + 1 .. i \/ k = i + 1
  OBVIOUS
<1>2. m = "symbol" => SymbolFrom(d, b, i + 1)
  BY <1>1 DEF TokenScanned, SymbolFrom
<1>3. m = "number" => DigitsFrom(d, b, i + 1)
  BY <1>1 DEF TokenScanned, DigitsFrom
<1>4. m = "identifier" => IdentifierFrom(d, b, i + 1)
  BY <1>1 DEF TokenScanned, IdentifierFrom
<1>5. m = "string" => TextFrom(d, b, i + 1)
  BY <1>1 DEF TokenScanned, TextFrom
<1>6. ASSUME m = "fraction"
      PROVE  \E p \in b + 1 .. i + 1 - 1 :
               /\ PointAt(d, b, p) /\ DigitsFrom(d, p + 1, i + 1)
               /\ p + 1 < Len(d) /\ IsDigit(d[p + 2])
  <2>1. PICK p \in b + 1 .. i - 1 :
               /\ PointAt(d, b, p) /\ DigitsFrom(d, p + 1, i)
               /\ p + 1 < Len(d) /\ IsDigit(d[p + 2])
    BY <1>6 DEF TokenScanned
  <2>2. \A k \in p + 1 + 1 .. i + 1 : k \in p + 1 + 1 .. i \/ k = i + 1
    OBVIOUS
  <2>3. DigitsFrom(d, p + 1, i + 1)
    BY <1>6, <2>1, <2>2 DEF DigitsFrom
  <2>4. p \in b + 1 .. i + 1 - 1
    OBVIOUS
  <2> QED BY <2>1, <2>3, <2>4
<1> QED BY <1>2, <1>3, <1>4, <1>5, <1>6 DEF TokenScanned

LEMMA NothingScanned ==
  ASSUME NEW d, NEW b, NEW i
  PROVE  TokenScanned("next_token", d, b, i)
BY DEF TokenScanned

LEMMA ScanConsumes ==
  ASSUME TypeOK, Scanned, outcome = "lexing", Consume, current # NUL,
         mode = "symbol" => is_symbol_char(current),
         mode \in {"number", "fraction"} => IsDigit(current),
         mode = "identifier" => is_identifier_char(current),
         mode = "string" => current \notin {Quote, NUL}
  PROVE  Scanned'
<1>1. PICK m, d : m = mode /\ d = data
  OBVIOUS
<1>2. PICK b \in Nat, i \in Nat : b = start /\ i = index /\ b <= i
  BY DEF TypeOK
<1>3. current = d[i + 1]
  BY <1>1, <1>2 DEF current
<1>4. TokenScanned(m, d, b, i + 1)
  <2>1. TokenScanned(m, d, b, i)
    BY <1>1, <1>2 DEF Scanned
  <2>2. /\ m = "symbol" => is_symbol_char(d[i + 1])
        /\ m \in {"number", "fraction"} => IsDigit(d[i + 1])
        /\ m = "identifier" => is_identifier_char(d[i + 1])
        /\ m = "string" => d[i + 1] \notin {Quote, NUL}
    BY <1>1, <1>3
  <2> QED BY <1>2, <2>1, <2>2, ScanOn
<1>5. mode' = m /\ data' = d /\ start' = b /\ index' = i + 1
  BY <1>1, <1>2 DEF Consume, advance
<1> QED BY <1>4, <1>5 DEF Scanned

LEMMA ScanDelivers ==
  ASSUME NEW token, Deliver(token)
  PROVE  Scanned'
<1>1. mode' = "next_token"
  BY DEF Deliver
<1> QED BY <1>1, NothingScanned DEF Scanned

LEMMA ScanNext == TypeOK /\ Scanned /\ [Next \/ Done]_vars => Scanned'
<1> SUFFICES ASSUME TypeOK, Scanned, [Next \/ Done]_vars PROVE Scanned'
  OBVIOUS
<1>1. CASE UNCHANGED vars \/ Done
  <2>1. UNCHANGED << mode, data, start, index, outcome >>
    BY <1>1 DEF vars, Done
  <2> QED BY <2>1 DEF Scanned
<1>2. ASSUME outcome' # "lexing" PROVE Scanned'
  BY <1>2 DEF Scanned
<1>3. CASE next_token
  <2>1. CASE Skip
    BY <2>1, NoClassHoldsNUL, ScanConsumes DEF Skip, InNextToken
  <2>2. CASE ReachEnd
    BY <1>2, <2>2 DEF ReachEnd, DeliverEnd
  <2>3. CASE EnterString
    <3>1. PICK i \in Nat, d \in {data} : i = index /\ d = data
      BY DEF TypeOK
    <3>2. /\ d[i + 1] = Quote
          /\ mode' = "string" /\ data' = d /\ start' = i + 1 /\ index' = i + 1
      BY <2>3, <3>1 DEF EnterString, Enter, advance, current, Quote, NUL
    <3>3. TextFrom(d, i + 1, i + 1)
      BY DEF TextFrom
    <3>4. TokenScanned("string", d, i + 1, i + 1)
      BY <3>2, <3>3 DEF TokenScanned
    <3> QED BY <3>2, <3>4 DEF Scanned
  <2>4. CASE TakeParenthesis
    BY <2>4, ScanDelivers DEF TakeParenthesis
  <2>5. ASSUME EnterSymbol \/ EnterNumber \/ EnterIdentifier PROVE Scanned'
    <3>1. PICK i \in Nat, d \in {data} : i = index /\ d = data
      BY DEF TypeOK
    <3>2. data' = d /\ start' = i /\ index' = i
      BY <2>5, <3>1 DEF EnterSymbol, EnterNumber, EnterIdentifier, Enter, Stay
    <3>3. current # NUL
      BY <2>5, NoClassHoldsNUL DEF EnterSymbol, EnterNumber, EnterIdentifier
    <3>4. i < Len(d) /\ current = d[i + 1]
      BY <3>1, <3>3 DEF current
    <3>5. DigitsFrom(d, i, i) /\ SymbolFrom(d, i, i) /\ IdentifierFrom(d, i, i)
      BY DEF DigitsFrom, SymbolFrom, IdentifierFrom
    <3>6. CASE EnterSymbol
      <4>1. mode' = "symbol" /\ is_symbol_char(d[i + 1]) /\ d[i + 1] \notin {"(", ")"}
        BY <3>4, <3>6 DEF EnterSymbol, Enter
      <4>2. TokenScanned("symbol", d, i, i)
        BY <3>4, <3>5, <4>1 DEF TokenScanned
      <4> QED BY <3>2, <4>1, <4>2 DEF Scanned
    <3>7. CASE EnterNumber
      <4>1. mode' = "number" /\ IsDigit(d[i + 1])
        BY <3>4, <3>7 DEF EnterNumber, Enter
      <4>2. TokenScanned("number", d, i, i)
        BY <3>4, <3>5, <4>1 DEF TokenScanned
      <4> QED BY <3>2, <4>1, <4>2 DEF Scanned
    <3>8. CASE EnterIdentifier
      <4>1. mode' = "identifier" /\ d[i + 1] \in Letters
        <5>1. is_symbol_char("-")
          BY DEF is_symbol_char, SymbolChars
        <5> QED BY <3>4, <3>8, <5>1 DEF EnterIdentifier, Enter, is_identifier_char, IsDigit
      <4>2. TokenScanned("identifier", d, i, i)
        BY <3>4, <3>5, <4>1 DEF TokenScanned
      <4> QED BY <3>2, <4>1, <4>2 DEF Scanned
    <3> QED BY <2>5, <3>6, <3>7, <3>8
  <2>6. CASE MeetStranger
    BY <1>2, <2>6 DEF MeetStranger, DeliverEnd
  <2> QED BY <1>3, <2>1, <2>2, <2>3, <2>4, <2>5, <2>6 DEF next_token
<1>4. CASE parse_number
  <2>1. CASE ReadDigit
    <3>1. IsDigit(current) /\ Consume /\ outcome = "lexing" /\ mode \in {"number", "fraction"}
      BY <2>1 DEF ReadDigit, Parsing
    <3> QED BY <3>1, NoClassHoldsNUL, ScanConsumes
  <2>2. CASE ReadPoint
    <3>1. PICK b \in Nat, i \in Nat, d \in {data} : b = start /\ i = index /\ d = data /\ b <= i
      BY DEF TypeOK
    <3>2. /\ i + 1 < Len(d) /\ d[i + 1] = Point /\ IsDigit(d[i + 2])
          /\ data' = d /\ start' = b /\ index' = i + 1 /\ mode' = "fraction"
      BY <2>2, <3>1, NoClassHoldsNUL DEF ReadPoint, advance, current, peek, Point, NUL
    <3>3. b < Len(d) /\ IsDigit(d[b + 1]) /\ DigitsFrom(d, b, i)
      BY <2>2, <3>1 DEF ReadPoint, Parsing, Scanned, TokenScanned
    <3>4. i # b
      BY <3>2, <3>3, KindsApart
    <3>5. i \in b + 1 .. (i + 1) - 1
      BY <3>1, <3>4
    <3>6. PointAt(d, b, i) /\ DigitsFrom(d, i + 1, i + 1)
      BY <3>2, <3>3 DEF PointAt, DigitsFrom
    <3>7. TokenScanned("fraction", d, b, i + 1)
      BY <3>2, <3>5, <3>6 DEF TokenScanned
    <3> QED BY <3>2, <3>7 DEF Scanned
  <2>3. CASE EndNumber
    BY <2>3, ScanDelivers DEF EndNumber
  <2> QED BY <1>4, <2>1, <2>2, <2>3 DEF parse_number
<1>5. CASE parse_string_literal
  <2>1. CASE ReadCharacter
    BY <2>1, ScanConsumes DEF ReadCharacter, Parsing
  <2>2. CASE EndString
    BY <2>2, ScanDelivers DEF EndString
  <2>3. CASE Unterminated
    BY <1>2, <2>3 DEF Unterminated, Throw
  <2> QED BY <1>5, <2>1, <2>2, <2>3 DEF parse_string_literal
<1>6. CASE parse_identifier
  <2>1. CASE ReadIdentifier
    BY <2>1, NoClassHoldsNUL, ScanConsumes DEF ReadIdentifier, Parsing
  <2>2. CASE EndIdentifier
    BY <2>2, ScanDelivers DEF EndIdentifier
  <2> QED BY <1>6, <2>1, <2>2 DEF parse_identifier
<1>7. CASE parse_symbol
  <2>1. CASE ReadSymbol
    BY <2>1, NoClassHoldsNUL, ScanConsumes DEF ReadSymbol, Parsing
  <2>2. CASE EndSymbol
    <3>1. CASE Word(index) \in DOMAIN SYMBOLS
      BY <2>2, <3>1, ScanDelivers DEF EndSymbol
    <3>2. CASE Word(index) \notin DOMAIN SYMBOLS
      BY <1>2, <2>2, <3>2 DEF EndSymbol, Throw
    <3> QED BY <3>1, <3>2
  <2> QED BY <1>7, <2>1, <2>2 DEF parse_symbol
<1> QED BY <1>1, <1>3, <1>4, <1>5, <1>6, <1>7 DEF Next

LEMMA ScanInit == Init => Scanned
BY NothingScanned DEF Init, Scanned

----------------------------------------------------------------------------
(* The stream's view of a step.                                            *)

(* A word is of the one kind its first character allows.                   *)
LEMMA KindsOfWords ==
  ASSUME NEW d, NEW b \in Nat, NEW e \in Nat, b < e, NEW w, w = SubSeq(d, b + 1, e)
  PROVE  /\ Stream!IsInt(w) \/ Stream!IsFloat(w) =>
              ~Stream!IsName(w) /\ ~Stream!IsQuoted(w) /\ ~Stream!IsOperator(w)
         /\ Stream!IsName(w) => /\ ~Stream!IsInt(w) /\ ~Stream!IsFloat(w)
                                /\ ~Stream!IsQuoted(w) /\ ~Stream!IsOperator(w)
         /\ Stream!IsQuoted(w) => /\ ~Stream!IsInt(w) /\ ~Stream!IsFloat(w)
                                  /\ ~Stream!IsName(w) /\ ~Stream!IsOperator(w)
         /\ Stream!IsOperator(w) => /\ ~Stream!IsInt(w) /\ ~Stream!IsFloat(w)
                                    /\ ~Stream!IsName(w) /\ ~Stream!IsQuoted(w)
<1>1. PICK c : c = d[b + 1]
  OBVIOUS
<1>2. /\ IsDigit(c) => c \notin Letters /\ ~is_symbol_char(c) /\ c # Quote
      /\ c \in Letters => ~is_symbol_char(c) /\ c # Quote
      /\ is_symbol_char(c) => c # Quote
  BY KindsApart
<1>3. /\ DigitsFrom(d, b, e) \/ FloatAt(d, b, e) => IsDigit(c)
      /\ NameAt(d, b, e) => c \in Letters
      /\ QuotedAt(d, b, e) => c = Quote
      /\ OperatorAt(d, b, e) => is_symbol_char(c)
  BY <1>1, StartOfLexeme
<1>4. /\ Stream!IsInt(w) <=> DigitsFrom(d, b, e)
      /\ Stream!IsFloat(w) <=> FloatAt(d, b, e)
      /\ Stream!IsName(w) <=> NameAt(d, b, e)
      /\ Stream!IsQuoted(w) <=> QuotedAt(d, b, e)
      /\ Stream!IsOperator(w) <=> OperatorAt(d, b, e)
  BY LexemeWord
<1> QED BY <1>2, <1>3, <1>4

LEMMA LexemesOfStream ==
  ASSUME NEW d, NEW b \in Nat, Len(d) \in Nat, NEW e \in b + 1 .. Len(d)
  PROVE  Stream!IsLexeme(SubSeq(d, b + 1, e)) <=> LexemeAt(d, b, e)
<1>1. e \in Nat /\ b < e
  OBVIOUS
<1>2. PICK w : w = SubSeq(d, b + 1, e)
  OBVIOUS
<1>3. /\ Stream!IsInt(w) <=> DigitsFrom(d, b, e)
      /\ Stream!IsFloat(w) <=> FloatAt(d, b, e)
      /\ Stream!IsName(w) <=> NameAt(d, b, e)
      /\ Stream!IsQuoted(w) <=> QuotedAt(d, b, e)
      /\ Stream!IsOperator(w) <=> OperatorAt(d, b, e)
  BY <1>1, <1>2, LexemeWord
<1> QED BY <1>2, <1>3 DEF Stream!IsLexeme, LexemeAt

LEMMA EndsOfStream ==
  ASSUME TypeOK, NEW b \in Nat, b = TokenBegin
  PROVE  /\ Len(data) \in Nat
         /\ Stream!LexemeEnds = { e \in b + 1 .. Len(data) : LexemeAt(data, b, e) }
<1>1. Len(data) \in Nat
  BY InputsAssumption DEF TypeOK
<1>2. PICK d : d = data
  OBVIOUS
<1>3. Stream!LexemeEnds = { e \in b + 1 .. Len(d) : Stream!IsLexeme(SubSeq(d, b + 1, e)) }
  BY <1>2 DEF Stream!LexemeEnds
<1>4. \A e \in b + 1 .. Len(d) : Stream!IsLexeme(SubSeq(d, b + 1, e)) <=> LexemeAt(d, b, e)
  BY <1>1, <1>2, LexemesOfStream
<1> QED BY <1>1, <1>2, <1>3, <1>4

LEMMA LongestOfStream ==
  ASSUME TypeOK, NEW b \in Nat, b = TokenBegin, NEW e, EndsAt(data, b, e)
  PROVE  Stream!LexemeEnds # {} /\ Stream!Longest(Stream!LexemeEnds) = e
<1>1. PICK ends : ends = Stream!LexemeEnds
  OBVIOUS
<1>2. e \in ends /\ e \in Int /\ ends \subseteq Int /\ \A o \in ends : o <= e
  <2>1. Len(data) \in Nat /\ ends = { o \in b + 1 .. Len(data) : LexemeAt(data, b, o) }
    BY <1>1, EndsOfStream
  <2> QED BY <2>1 DEF EndsAt
<1>3. Stream!Longest(ends) = e
  <2>1. \A o \in ends : (\A other \in ends : other <= o) => o = e
    BY <1>2
  <2> QED BY <1>2, <2>1 DEF Stream!Longest
<1> QED BY <1>1, <1>2, <1>3

(* A lexeme starts with neither space nor NUL.                             *)
LEMMA TextOfStream ==
  ASSUME TypeOK, outcome = "lexing", NEW b \in Nat, b = TokenBegin, b < Len(data),
         ~IsSpace(data[b + 1]), data[b + 1] # NUL
  PROVE  Stream!AtText /\ ~Stream!AtEnd
<1>1. Len(data) \in Nat
  BY InputsAssumption DEF TypeOK
<1>2. ~(b >= Len(data))
  BY <1>1
<1> QED
  BY <1>1, <1>2 DEF Stream!AtText, Stream!AtEnd, Stream!IsSpace, IsSpace, Stream!NUL, NUL,
                    Stream!Newline, Newline

LEMMA TextOfLexeme ==
  ASSUME NEW d, NEW b \in Nat, NEW e \in Nat, b < e, LexemeAt(d, b, e)
  PROVE  ~IsSpace(d[b + 1]) /\ d[b + 1] # NUL
<1>1. PICK c : c = d[b + 1]
  OBVIOUS
<1>2. IsDigit(c) \/ c \in Letters \/ c = Quote \/ is_symbol_char(c)
  BY <1>1, KindOfLexeme
<1>3. Quote # NUL
  BY DEF Quote, NUL
<1> QED BY <1>1, <1>2, <1>3, KindsApart

(* The stream's tokens are the lexer's without their locations.            *)
WithoutLocations(s) == [n \in 1 .. Len(s) |-> s[n].token]

LEMMA AppendWithoutLocation ==
  ASSUME NEW s, IsSequence(s), NEW token, NEW location
  PROVE  WithoutLocations(Append(s, Located(token, location)))
           = Append(WithoutLocations(s), token)
<1> DEFINE e == Located(token, location)
           r == Append(s, e)
           u == WithoutLocations(s)
<1>1. /\ Len(s) \in Nat /\ Len(r) = Len(s) + 1 /\ r[Len(s) + 1] = e
      /\ \A n \in 1 .. Len(s) : r[n] = s[n]
  BY Appending
<1>2. e.token = token
  BY DEF Located
<1>3. IsSequence(u) /\ Len(u) = Len(s) /\ \A n \in 1 .. Len(s) : u[n] = s[n].token
  <2> DEFINE S == { s[n].token : n \in 1 .. Len(s) }
  <2>1. u \in [1 .. Len(s) -> S]
    BY DEF WithoutLocations
  <2> HIDE DEF S
  <2>2. u \in Seq(S) /\ Len(u) = Len(s)
    BY <1>1, <2>1
  <2> QED BY <2>2 DEF IsSequence, WithoutLocations
<1>4. PICK v : v = Append(u, token)
  OBVIOUS
<1>5. /\ IsSequence(v) /\ Len(v) = Len(s) + 1 /\ v[Len(s) + 1] = token
      /\ \A n \in 1 .. Len(s) : v[n] = u[n]
  BY <1>3, <1>4, Appending
<1>6. PICK x : x = WithoutLocations(r)
  OBVIOUS
<1> HIDE DEF e, r, u
<1>7. x = [n \in 1 .. Len(s) + 1 |-> r[n].token]
  BY <1>1, <1>6 DEF WithoutLocations
<1>8. \A n \in 1 .. Len(s) + 1 : x[n] = v[n]
  <2> TAKE n \in 1 .. Len(s) + 1
  <2>1. x[n] = r[n].token
    BY <1>7
  <2>2. CASE n = Len(s) + 1
    BY <1>1, <1>2, <1>5, <2>1, <2>2
  <2>3. CASE n \in 1 .. Len(s)
    <3>1. r[n] = s[n] /\ v[n] = u[n] /\ u[n] = s[n].token
      BY <1>1, <1>3, <1>5, <2>3
    <3> QED BY <2>1, <3>1
  <2> QED BY <1>1, <2>2, <2>3
<1>9. v = [n \in 1 .. Len(s) + 1 |-> v[n]]
  BY <1>5 DEF IsSequence
<1>10. x = v
  BY <1>7, <1>8, <1>9
<1> QED BY <1>4, <1>6, <1>10 DEF e, r, u

LEMMA StreamStutters ==
  ASSUME NEW b, TokenBegin = b, TokenBegin' = b, data' = data, tokens' = tokens,
         outcome' = outcome
  PROVE  UNCHANGED Stream!vars
BY DEF Stream!vars

LEMMA TailOfWord ==
  ASSUME NEW d, NEW b \in Nat, NEW e \in Nat, b + 1 <= e
  PROVE  Tail(SubSeq(d, b + 1, e)) = SubSeq(d, b + 2, e)
<1>1. PICK w, v : w = SubSeq(d, b + 1, e) /\ v = SubSeq(d, b + 2, e)
  OBVIOUS
<1> DEFINE S == { d[i] : i \in b + 1 .. e }
<1>2. /\ \A i \in b + 1 .. e : d[i] \in S
      /\ \A i \in b + 2 .. e : d[i] \in S
  OBVIOUS
<1> HIDE DEF S
<1>3. w \in Seq(S) /\ Len(w) = e - b /\ \A i \in 1 .. e - b : w[i] = d[b + i]
  <2>1. /\ SubSeq(d, b + 1, e) \in Seq(S)
        /\ Len(SubSeq(d, b + 1, e)) = IF b + 1 <= e THEN e - (b + 1) + 1 ELSE 0
        /\ \A i \in 1 .. e - (b + 1) + 1 : SubSeq(d, b + 1, e)[i] = d[b + 1 + i - 1]
    BY <1>2, SubSeqProperties
  <2> QED BY <1>1, <2>1
<1>4. v \in Seq(S) /\ Len(v) = e - b - 1 /\ \A i \in 1 .. e - b - 1 : v[i] = d[b + 1 + i]
  <2>1. /\ SubSeq(d, b + 2, e) \in Seq(S)
        /\ Len(SubSeq(d, b + 2, e)) = IF b + 2 <= e THEN e - (b + 2) + 1 ELSE 0
        /\ \A i \in 1 .. e - (b + 2) + 1 : SubSeq(d, b + 2, e)[i] = d[b + 2 + i - 1]
    BY <1>2, SubSeqProperties
  <2> QED BY <1>1, <2>1
<1>5. PICK t : t = Tail(w)
  OBVIOUS
<1>6. t \in Seq(S) /\ Len(t) = e - b - 1 /\ \A i \in 1 .. e - b - 1 : t[i] = w[i + 1]
  BY <1>3, <1>5
<1>7. \A i \in 1 .. e - b - 1 : t[i] = v[i]
  <2> TAKE i \in 1 .. e - b - 1
  <2>1. i + 1 \in 1 .. e - b /\ b + (i + 1) = b + 1 + i
    OBVIOUS
  <2> QED BY <1>3, <1>4, <1>6, <2>1
<1>8. t = v
  BY <1>4, <1>6, <1>7
<1> QED BY <1>1, <1>5, <1>8

(* A delivered word that is the longest lexeme is the stream's next token. *)
LEMMA TakesToken ==
  ASSUME TypeOK, IsSequence(tokens), outcome = "lexing", NEW b \in Nat, b = TokenBegin,
         NEW e, EndsAt(data, b, e), NEW token, token = Stream!TokenOf(SubSeq(data, b + 1, e)),
         \/ ~Stream!IsOperator(SubSeq(data, b + 1, e))
         \/ SubSeq(data, b + 1, e) \in DOMAIN SYMBOLS,
         Deliver(token), index' = e, data' = data
  PROVE  Stream!Next
<1>1. PICK d, w, s, t : /\ d = data /\ w = SubSeq(d, b + 1, e)
                        /\ s = WithoutLocations(tokens) /\ t = WithoutLocations(tokens')
  OBVIOUS
<1>2. Len(d) \in Nat /\ e \in b + 1 .. Len(d) /\ LexemeAt(d, b, e)
  BY <1>1, InputsAssumption DEF TypeOK, EndsAt
<1>3. e \in Nat /\ b < e /\ b <= e /\ b < Len(d)
  BY <1>2
<1>4. Len(w) = e - b
  BY <1>1, <1>3, WordCharacters
<1>5. Stream!AtText
  <2>1. ~IsSpace(d[b + 1]) /\ d[b + 1] # NUL
    BY <1>2, <1>3, TextOfLexeme
  <2> QED BY <1>1, <1>3, <2>1, TextOfStream
<1>6. Stream!LexemeEnds # {} /\ Stream!Longest(Stream!LexemeEnds) = e
  BY LongestOfStream
<1>7. TokenBegin' = b + Len(w)
  <2>1. TokenBegin' = e
    BY DEF TokenBegin, Deliver
  <2> QED BY <1>3, <1>4, <2>1
<1>8. t = Append(s, token)
  <2>1. PICK location : location = token_location'
    OBVIOUS
  <2>2. tokens' = Append(tokens, Located(token, location))
    BY <2>1 DEF Deliver
  <2>3. PICK u : u = tokens /\ IsSequence(u)
    OBVIOUS
  <2> QED BY <1>1, <2>2, <2>3, AppendWithoutLocation
<1>9. ~(Stream!IsOperator(w) /\ w \notin DOMAIN Stream!SYMBOLS)
  BY <1>1 DEF SYMBOLS, Stream!SYMBOLS
<1>10. Stream!Take
  <2>1. outcome' = outcome
    BY DEF Deliver
  <2> QED
    BY <1>1, <1>5, <1>6, <1>7, <1>8, <1>9, <2>1 DEF Stream!Take, WithoutLocations
<1> QED BY <1>10 DEF Stream!Next

(* The token of each kind of word.                                         *)
LEMMA TokenOfNumber ==
  ASSUME NEW d, NEW b \in Nat, NEW e \in Nat, b < e, NEW w, w = SubSeq(d, b + 1, e)
  PROVE  /\ DigitsFrom(d, b, e) /\ ~FloatAt(d, b, e) =>
              Stream!TokenOf(w) = Token("IntLiteral", w) /\ ~Stream!IsOperator(w)
         /\ FloatAt(d, b, e) /\ ~DigitsFrom(d, b, e) =>
              Stream!TokenOf(w) = Token("FloatLiteral", w) /\ ~Stream!IsOperator(w)
<1>1. (Stream!IsInt(w) <=> DigitsFrom(d, b, e)) /\ (Stream!IsFloat(w) <=> FloatAt(d, b, e))
  BY LexemeWord
<1>2. /\ Stream!Token("IntLiteral", w) = Token("IntLiteral", w)
      /\ Stream!Token("FloatLiteral", w) = Token("FloatLiteral", w)
  BY DEF Stream!Token, Token
<1>3. Stream!IsInt(w) \/ Stream!IsFloat(w) =>
        ~Stream!IsName(w) /\ ~Stream!IsQuoted(w) /\ ~Stream!IsOperator(w)
  BY KindsOfWords
<1> QED BY <1>1, <1>2, <1>3 DEF Stream!TokenOf

LEMMA TokenOfName ==
  ASSUME NEW d, NEW b \in Nat, NEW e \in Nat, b < e, NEW w, w = SubSeq(d, b + 1, e),
         NameAt(d, b, e)
  PROVE  Stream!TokenOf(w) = WordToken(w) /\ ~Stream!IsOperator(w)
<1>1. Stream!IsName(w)
  BY LexemeWord
<1>2. Stream!WordToken(w) = WordToken(w)
  BY DEF Stream!WordToken, WordToken, Stream!Token, Token
<1>3. /\ ~Stream!IsInt(w) /\ ~Stream!IsFloat(w)
      /\ ~Stream!IsQuoted(w) /\ ~Stream!IsOperator(w)
  BY <1>1, KindsOfWords
<1> QED BY <1>1, <1>2, <1>3 DEF Stream!TokenOf

LEMMA TokenOfString ==
  ASSUME NEW d, NEW b \in Nat, NEW e \in Nat, b < e, NEW w, w = SubSeq(d, b + 1, e),
         QuotedAt(d, b, e)
  PROVE  /\ Stream!TokenOf(w) = Token("StringLiteral", SubSeq(d, b + 2, e))
         /\ ~Stream!IsOperator(w)
<1>1. Stream!IsQuoted(w)
  BY LexemeWord
<1>2. PICK t : t = Tail(w)
  OBVIOUS
<1>3. Stream!Token("StringLiteral", Tail(w)) = Token("StringLiteral", t)
  BY <1>2 DEF Stream!Token, Token
<1>4. /\ ~Stream!IsInt(w) /\ ~Stream!IsFloat(w)
      /\ ~Stream!IsName(w) /\ ~Stream!IsOperator(w)
  BY <1>1, KindsOfWords
<1>5. Stream!TokenOf(w) = Token("StringLiteral", t)
  BY <1>1, <1>3, <1>4 DEF Stream!TokenOf
<1>6. t = SubSeq(d, b + 2, e)
  <2>1. b + 1 <= e
    OBVIOUS
  <2> QED BY <1>2, <2>1, TailOfWord
<1> QED BY <1>4, <1>5, <1>6

LEMMA TokenOfOperator ==
  ASSUME NEW d, NEW b \in Nat, NEW e \in Nat, b < e, NEW w, w = SubSeq(d, b + 1, e),
         OperatorAt(d, b, e)
  PROVE  Stream!TokenOf(w) = Token(SYMBOLS[w], w) /\ Stream!IsOperator(w)
<1>1. Stream!IsOperator(w)
  BY LexemeWord
<1>2. Stream!Token(Stream!SYMBOLS[w], w) = Token(SYMBOLS[w], w)
  BY DEF Stream!SYMBOLS, SYMBOLS, Stream!Token, Token
<1>3. /\ ~Stream!IsInt(w) /\ ~Stream!IsFloat(w)
      /\ ~Stream!IsName(w) /\ ~Stream!IsQuoted(w)
  BY <1>1, KindsOfWords
<1> QED BY <1>1, <1>2, <1>3 DEF Stream!TokenOf

(* Entering a token, and reading on in it, leave the stream where it was.  *)
LEMMA ReadingStutters ==
  ASSUME Scanned,
         \/ Consume /\ outcome = "lexing" /\ mode # "next_token"
         \/ EnterString \/ EnterSymbol \/ EnterNumber \/ EnterIdentifier
         \/ ReadPoint, TypeOK
  PROVE  UNCHANGED Stream!vars
<1>1. CASE Consume /\ outcome = "lexing" /\ mode # "next_token"
  <2>1. PICK b : b = TokenBegin
    OBVIOUS
  <2>2. TokenBegin' = b /\ UNCHANGED << data, tokens, outcome >>
    BY <1>1, <2>1 DEF Consume, advance, TokenBegin
  <2> QED BY <2>1, <2>2, StreamStutters
<1>2. CASE EnterString
  <2>1. PICK b \in Nat : b = index
    BY DEF TypeOK
  <2>2. TokenBegin = b
    BY <1>2, <2>1 DEF EnterString, InNextToken, TokenBegin
  <2>3. TokenBegin' = b /\ UNCHANGED << data, tokens, outcome >>
    BY <1>2, <2>1 DEF EnterString, Enter, advance, TokenBegin
  <2> QED BY <2>2, <2>3, StreamStutters
<1>3. CASE EnterSymbol \/ EnterNumber \/ EnterIdentifier
  <2>1. PICK b : b = index
    OBVIOUS
  <2>2. TokenBegin = b
    BY <1>3, <2>1 DEF EnterSymbol, EnterNumber, EnterIdentifier, InNextToken, TokenBegin
  <2>3. TokenBegin' = b /\ UNCHANGED << data, tokens, outcome >>
    BY <1>3, <2>1 DEF EnterSymbol, EnterNumber, EnterIdentifier, Enter, Stay, TokenBegin
  <2> QED BY <2>2, <2>3, StreamStutters
<1>4. CASE ReadPoint
  <2>1. PICK b : b = start
    OBVIOUS
  <2>2. TokenBegin = b /\ TokenBegin' = b /\ UNCHANGED << data, tokens, outcome >>
    BY <1>4, <2>1 DEF ReadPoint, Parsing, advance, TokenBegin
  <2> QED BY <2>2, StreamStutters
<1> QED BY <1>1, <1>2, <1>3, <1>4

LEMMA SpaceOfStream ==
  ASSUME TypeOK, Skip
  PROVE  Stream!SkipSpace
<1>1. PICK b \in Nat : b = index
  BY DEF TypeOK
<1>2. Len(data) \in Nat /\ b < Len(data) /\ current = data[b + 1] /\ IsSpace(current)
  BY <1>1, InputsAssumption DEF TypeOK, Skip, current
<1>3. data[b + 1] # NUL
  BY <1>2, NoClassHoldsNUL
<1>4. TokenBegin = b /\ TokenBegin' = b + 1 /\ outcome = "lexing"
      /\ UNCHANGED << data, tokens, outcome >>
  BY <1>1 DEF Skip, InNextToken, Consume, advance, TokenBegin
<1>5. ~Stream!AtEnd
  <2>1. ~(b >= Len(data))
    BY <1>2
  <2> QED BY <1>3, <1>4, <2>1 DEF Stream!AtEnd, Stream!NUL, NUL
<1>6. Stream!IsSpace(data[TokenBegin + 1])
  BY <1>2, <1>4 DEF Stream!IsSpace, IsSpace, Stream!Newline, Newline
<1> QED BY <1>4, <1>5, <1>6 DEF Stream!SkipSpace

LEMMA AppendEnd ==
  ASSUME IsSequence(tokens), DeliverEnd
  PROVE  WithoutLocations(tokens') = Append(WithoutLocations(tokens), Stream!EndOfFile)
<1>1. PICK u, location : u = tokens /\ IsSequence(u) /\ location = token_location'
  OBVIOUS
<1>2. tokens' = Append(u, Located(EndOfFile, location))
  BY <1>1 DEF DeliverEnd
<1>3. Stream!EndOfFile = EndOfFile
  BY DEF Stream!EndOfFile, EndOfFile, Stream!Token, Token
<1> QED BY <1>1, <1>2, <1>3, AppendWithoutLocation

LEMMA EndOfStream ==
  ASSUME TypeOK, IsSequence(tokens), ReachEnd
  PROVE  Stream!ReachEnd
<1>1. PICK b \in Nat : b = index
  BY DEF TypeOK
<1>2. Len(data) \in Nat /\ current = NUL
  BY InputsAssumption DEF TypeOK, ReachEnd, AtEndOfInput
<1>3. TokenBegin = b /\ TokenBegin' = b /\ outcome = "lexing" /\ outcome' = "done" /\ data' = data
  BY <1>1 DEF ReachEnd, InNextToken, Stay, DeliverEnd, TokenBegin
<1>4. Stream!AtEnd
  BY <1>1, <1>2, <1>3 DEF Stream!AtEnd, Stream!NUL, NUL, current
<1>5. WithoutLocations(tokens') = Append(WithoutLocations(tokens), Stream!EndOfFile)
  BY AppendEnd DEF ReachEnd
<1>6. Stream!Finish
  BY <1>3, <1>5 DEF Stream!Finish, WithoutLocations
<1> QED BY <1>3, <1>4, <1>6 DEF Stream!ReachEnd

LEMMA StrangerOfStream ==
  ASSUME TypeOK, IsSequence(tokens), MeetStranger
  PROVE  Stream!MeetStranger
<1>1. PICK b \in Nat, d \in {data} : b = index /\ d = data
  BY DEF TypeOK
<1>2. /\ current # NUL /\ ~IsSpace(current) /\ current # Quote
      /\ ~is_symbol_char(current) /\ ~is_identifier_char(current)
  BY DEF MeetStranger, AtEndOfInput
<1>3. Len(d) \in Nat /\ b < Len(d) /\ current = d[b + 1]
  BY <1>1, <1>2, InputsAssumption DEF TypeOK, current
<1>4. /\ TokenBegin = b /\ TokenBegin' = b + 1
      /\ outcome = "lexing" /\ outcome' = "done" /\ data' = data
  BY <1>1 DEF MeetStranger, InNextToken, advance, DeliverEnd, TokenBegin
<1>5. Stream!AtText
  BY <1>1, <1>2, <1>3, <1>4, TextOfStream
<1>6. Stream!LexemeEnds = {}
  <2>1. ~IsDigit(d[b + 1]) /\ d[b + 1] \notin Letters
    BY <1>2, <1>3 DEF is_identifier_char, IsDigit
  <2>2. \A e \in b + 1 .. Len(d) : ~LexemeAt(d, b, e)
    BY <1>2, <1>3, <2>1, NothingStarts
  <2> QED BY <1>1, <1>4, <2>2, EndsOfStream
<1>7. WithoutLocations(tokens') = Append(WithoutLocations(tokens), Stream!EndOfFile)
  BY AppendEnd DEF MeetStranger
<1>8. Stream!Finish
  BY <1>4, <1>7 DEF Stream!Finish, WithoutLocations
<1>9. data[TokenBegin + 1] # Stream!Quote
  BY <1>1, <1>2, <1>3, <1>4 DEF Stream!Quote, Quote
<1> QED BY <1>4, <1>5, <1>6, <1>8, <1>9 DEF Stream!MeetStranger

LEMMA ParenthesisOfStream ==
  ASSUME TypeOK, IsSequence(tokens), TakeParenthesis
  PROVE  Stream!Next
<1>1. PICK b \in Nat, d \in {data}, c \in {current} : b = index /\ d = data /\ c = current
  BY DEF TypeOK
<1>2. c \in {"(", ")"} /\ c # NUL /\ Deliver(Token(SYMBOLS[<< c >>], << c >>))
  BY <1>1 DEF TakeParenthesis, NUL
<1>3. Len(d) \in Nat /\ b < Len(d) /\ c = d[b + 1]
  BY <1>1, <1>2, InputsAssumption DEF TypeOK, current
<1>4. TokenBegin = b /\ index' = b + 1 /\ outcome = "lexing" /\ data' = data
  BY <1>1 DEF TakeParenthesis, InNextToken, advance, TokenBegin
<1>5. PICK e \in Nat : e = b + 1
  OBVIOUS
<1>6. e \in b + 1 .. Len(d) /\ b < e
  BY <1>3, <1>5
<1>7. OperatorAt(d, b, e)
  <2>1. is_symbol_char(c)
    BY <1>2 DEF is_symbol_char, SymbolChars
  <2> QED BY <1>3, <1>5, <2>1 DEF OperatorAt, SymbolFrom
<1>8. EndsAt(d, b, e)
  BY <1>2, <1>3, <1>6, <1>7, OperatorEnds
<1>9. SubSeq(d, b + 1, e) = << c >>
  BY <1>3, <1>5, Part
<1>10. Stream!TokenOf(SubSeq(d, b + 1, e)) = Token(SYMBOLS[<< c >>], << c >>)
  <2>1. PICK w : w = SubSeq(d, b + 1, e)
    OBVIOUS
  <2>2. Stream!TokenOf(w) = Token(SYMBOLS[w], w)
    BY <1>6, <1>7, <2>1, TokenOfOperator
  <2> QED BY <1>9, <2>1, <2>2
<1>11. SubSeq(d, b + 1, e) \in DOMAIN SYMBOLS
  BY <1>2, <1>9 DEF SYMBOLS
<1> QED BY <1>1, <1>2, <1>4, <1>5, <1>8, <1>10, <1>11, TakesToken

LEMMA NumberOfStream ==
  ASSUME TypeOK, LocationInv, Scanned, EndNumber
  PROVE  Stream!Next
<1>1. PICK b \in Nat, e \in Nat, d \in {data} : b = start /\ e = index /\ d = data
  BY DEF TypeOK
<1>w. PICK w : w = SubSeq(d, b + 1, e)
  OBVIOUS
<1>2. /\ Len(d) \in Nat /\ e <= Len(d) /\ outcome = "lexing"
      /\ mode \in {"number", "fraction"} /\ ~IsDigit(current)
  BY <1>1, InputsAssumption DEF TypeOK, EndNumber, Parsing
<1>3. /\ TokenBegin = b /\ index' = e /\ data' = data /\ IsSequence(tokens)
      /\ b < e
  BY <1>1, <1>2 DEF EndNumber, Stay, TokenBegin, LocationInv, TokensLocated, FirstCharacter
<1>b. b < e
  BY <1>3
<1>4. e \in b + 1 .. Len(d)
  BY <1>2, <1>3
<1>5. e < Len(d) => ~IsDigit(d[e + 1])
  BY <1>1, <1>2 DEF current
<1>6. PICK token : token = Token(IF mode = "number" THEN "IntLiteral" ELSE "FloatLiteral", w)
  OBVIOUS
<1>7. Deliver(token)
  BY <1>1, <1>w, <1>6 DEF EndNumber, Word
<1>8. CASE mode = "number"
  <2>1. DigitsFrom(d, b, e)
    BY <1>1, <1>2, <1>8 DEF Scanned, TokenScanned
  <2>2. e + 1 < Len(d) => ~(d[e + 1] = Point /\ IsDigit(d[e + 2]))
    <3>1. ~(current = Point /\ IsDigit(peek))
      BY <1>8 DEF EndNumber, Parsing
    <3>2. e + 1 < Len(d) => current = d[e + 1] /\ peek = d[e + 2]
      BY <1>1, <1>2 DEF current, peek
    <3> QED BY <3>1, <3>2
  <2>3. EndsAt(d, b, e) /\ ~FloatAt(d, b, e)
    BY <1>2, <1>4, <1>5, <2>1, <2>2, IntEnds
  <2>4. Stream!TokenOf(w) = token /\ ~Stream!IsOperator(w)
    <3>1. Stream!TokenOf(w) = Token("IntLiteral", w) /\ ~Stream!IsOperator(w)
      BY <1>w, <1>b, <2>1, <2>3, TokenOfNumber
    <3> QED BY <1>6, <1>8, <3>1
  <2> QED BY <1>1, <1>w, <1>2, <1>3, <1>7, <2>3, <2>4, TakesToken
<1>9. CASE mode = "fraction"
  <2>1. PICK p \in b + 1 .. e - 1 : /\ PointAt(d, b, p) /\ DigitsFrom(d, p + 1, e)
                                    /\ p + 1 < Len(d) /\ IsDigit(d[p + 2])
    BY <1>1, <1>2, <1>9 DEF Scanned, TokenScanned
  <2>2. e # p + 1
    <3>1. e = p + 1 => e < Len(d) /\ d[e + 1] = d[p + 2]
      BY <2>1
    <3> QED BY <1>5, <2>1, <3>1
  <2>3. FloatAt(d, b, e)
    <3>1. p \in b + 1 .. e - 2
      BY <2>2
    <3> QED BY <2>1, <3>1 DEF FloatAt
  <2>4. EndsAt(d, b, e) /\ ~DigitsFrom(d, b, e)
    BY <1>2, <1>4, <1>5, <2>3, FloatEnds
  <2>5. Stream!TokenOf(w) = token /\ ~Stream!IsOperator(w)
    <3>1. Stream!TokenOf(w) = Token("FloatLiteral", w) /\ ~Stream!IsOperator(w)
      BY <1>w, <1>b, <2>3, <2>4, TokenOfNumber
    <3> QED BY <1>6, <1>9, <3>1
  <2> QED BY <1>1, <1>w, <1>2, <1>3, <1>7, <2>4, <2>5, TakesToken
<1> QED BY <1>2, <1>8, <1>9

LEMMA NameOfStream ==
  ASSUME TypeOK, LocationInv, Scanned, EndIdentifier
  PROVE  Stream!Next
<1>1. PICK b \in Nat, e \in Nat, d \in {data} : b = start /\ e = index /\ d = data
  BY DEF TypeOK
<1>w. PICK w : w = SubSeq(d, b + 1, e)
  OBVIOUS
<1>2. /\ Len(d) \in Nat /\ e <= Len(d) /\ outcome = "lexing"
      /\ mode = "identifier" /\ ~is_identifier_char(current)
  BY <1>1, InputsAssumption DEF TypeOK, EndIdentifier, Parsing
<1>3. /\ TokenBegin = b /\ index' = e /\ data' = data /\ IsSequence(tokens)
      /\ b < e
  BY <1>1, <1>2 DEF EndIdentifier, Stay, TokenBegin, LocationInv, TokensLocated, FirstCharacter
<1>b. b < e
  BY <1>3
<1>4. e \in b + 1 .. Len(d)
  BY <1>2, <1>3
<1>5. e < Len(d) => ~is_identifier_char(d[e + 1])
  BY <1>1, <1>2 DEF current
<1>6. NameAt(d, b, e)
  BY <1>1, <1>2 DEF Scanned, TokenScanned, NameAt
<1>7. EndsAt(d, b, e)
  BY <1>2, <1>4, <1>5, <1>6, NameEnds
<1>8. Stream!TokenOf(w) = WordToken(w) /\ ~Stream!IsOperator(w)
  BY <1>w, <1>b, <1>6, TokenOfName
<1>9. PICK token : token = WordToken(w)
  OBVIOUS
<1>10. Deliver(token)
  BY <1>1, <1>w, <1>9 DEF EndIdentifier, Word
<1> QED BY <1>1, <1>w, <1>2, <1>3, <1>7, <1>8, <1>9, <1>10, TakesToken

LEMMA StringOfStream ==
  ASSUME TypeOK, LocationInv, Scanned, EndString
  PROVE  Stream!Next
<1>1. PICK i \in Nat, s \in Nat, d \in {data} : s = start /\ i = index /\ d = data /\ s <= i
  BY DEF TypeOK
<1>2. /\ Len(d) \in Nat /\ outcome = "lexing" /\ mode = "string"
      /\ current = Quote /\ current # NUL
  BY <1>1, InputsAssumption DEF TypeOK, EndString, Parsing, Quote, NUL
<1>3. i < Len(d) /\ d[i + 1] = Quote
  BY <1>1, <1>2 DEF current
<1>4. s >= 1 /\ d[s] = Quote /\ TextFrom(d, s, i)
  BY <1>1, <1>2 DEF Scanned, TokenScanned
<1>5. PICK b \in Nat, e \in Nat : b = s - 1 /\ e = i + 1
  BY <1>4
<1>w. PICK w : w = SubSeq(d, b + 1, e)
  OBVIOUS
<1>b. b < e
  BY <1>1, <1>4, <1>5
<1>6. /\ TokenBegin = b /\ index' = e /\ data' = data /\ IsSequence(tokens)
  BY <1>1, <1>2, <1>5 DEF EndString, advance, TokenBegin, LocationInv, TokensLocated
<1>7. e \in b + 1 .. Len(d) /\ b < e /\ e >= b + 2 /\ s = b + 1 /\ i = e - 1 /\ b + 2 = s + 1
  BY <1>1, <1>3, <1>4, <1>5
<1>8. QuotedAt(d, b, e)
  BY <1>3, <1>4, <1>5, <1>7 DEF QuotedAt
<1>9. EndsAt(d, b, e)
  BY <1>2, <1>7, <1>8, QuotedEnds
<1>10. Stream!TokenOf(w) = Token("StringLiteral", SubSeq(d, s + 1, e)) /\ ~Stream!IsOperator(w)
  <2>1. Stream!TokenOf(w) = Token("StringLiteral", SubSeq(d, b + 2, e)) /\ ~Stream!IsOperator(w)
    BY <1>w, <1>b, <1>8, TokenOfString
  <2> QED BY <1>7, <2>1
<1>12. PICK token : token = Token("StringLiteral", SubSeq(d, s + 1, e))
  OBVIOUS
<1>13. Deliver(token)
  BY <1>1, <1>5, <1>12 DEF EndString, Word
<1> QED BY <1>1, <1>w, <1>2, <1>5, <1>6, <1>9, <1>10, <1>12, <1>13, TakesToken

LEMMA RefusalOfStream ==
  ASSUME TypeOK, Scanned, Unterminated
  PROVE  Stream!RefuseString
<1>1. PICK i \in Nat, s \in Nat, d \in {data} :
        s = start /\ i = index /\ d = data /\ s <= i /\ i <= Len(d)
  BY DEF TypeOK
<1>2. Len(d) \in Nat /\ outcome = "lexing" /\ mode = "string" /\ current = NUL
  BY <1>1, InputsAssumption DEF TypeOK, Unterminated, Parsing
<1>3. i < Len(d) => d[i + 1] = NUL
  BY <1>1, <1>2 DEF current
<1>4. s >= 1 /\ d[s] = Quote /\ TextFrom(d, s, i)
  BY <1>1, <1>2 DEF Scanned, TokenScanned
<1>5. PICK b \in Nat : b = s - 1
  BY <1>4
<1>6. b + 1 = s /\ b < Len(d) /\ i \in b + 1 .. Len(d)
  BY <1>1, <1>2, <1>4, <1>5
<1>7. /\ TokenBegin = b /\ TokenBegin' = b /\ UNCHANGED << data, tokens >>
      /\ outcome' = "UnterminatedString"
  BY <1>1, <1>2, <1>5 DEF Unterminated, Throw, Stay, TokenBegin
<1>8. \A e \in b + 1 .. Len(d) : ~LexemeAt(d, b, e)
  BY <1>2, <1>3, <1>4, <1>6, NoStringEnds
<1>9. Stream!LexemeEnds = {}
  BY <1>1, <1>7, <1>8, EndsOfStream
<1>10. Stream!AtText
  <2>1. d[b + 1] = Quote /\ d[b + 1] # NUL /\ ~IsSpace(d[b + 1])
    BY <1>4, <1>6, KindsApart DEF Quote, NUL
  <2> QED BY <1>1, <1>2, <1>6, <1>7, <2>1, TextOfStream
<1>11. data[TokenBegin + 1] = Stream!Quote
  BY <1>1, <1>4, <1>6, <1>7 DEF Stream!Quote, Quote
<1> QED BY <1>7, <1>9, <1>10, <1>11 DEF Stream!RefuseString

LEMMA SymbolOfStream ==
  ASSUME TypeOK, LocationInv, Scanned, EndSymbol
  PROVE  Stream!Next
<1>1. PICK b \in Nat, e \in Nat, d \in {data} : b = start /\ e = index /\ d = data
  BY DEF TypeOK
<1>w. PICK w : w = SubSeq(d, b + 1, e)
  OBVIOUS
<1>2. /\ Len(d) \in Nat /\ e <= Len(d) /\ outcome = "lexing"
      /\ mode = "symbol" /\ ~is_symbol_char(current)
  BY <1>1, InputsAssumption DEF TypeOK, EndSymbol, Parsing
<1>3. TokenBegin = b /\ IsSequence(tokens) /\ b < e /\ Word(index) = w
  BY <1>1, <1>w, <1>2 DEF TokenBegin, LocationInv, TokensLocated, FirstCharacter, Word
<1>b. b < e
  BY <1>3
<1>4. e \in b + 1 .. Len(d)
  BY <1>2, <1>3
<1>5. e < Len(d) => ~is_symbol_char(d[e + 1])
  BY <1>1, <1>2 DEF current
<1>6. OperatorAt(d, b, e)
  BY <1>1, <1>2 DEF Scanned, TokenScanned, OperatorAt
<1>7. EndsAt(d, b, e)
  BY <1>2, <1>4, <1>5, <1>6, OperatorEnds
<1>8. Stream!TokenOf(w) = Token(SYMBOLS[w], w) /\ Stream!IsOperator(w)
  BY <1>w, <1>b, <1>6, TokenOfOperator
<1>9. CASE w \in DOMAIN SYMBOLS
  <2>1. PICK token : token = Token(SYMBOLS[w], w)
    OBVIOUS
  <2>2. Deliver(token) /\ index' = e /\ data' = data
    BY <1>1, <1>3, <1>9, <2>1 DEF EndSymbol, Stay
  <2> QED BY <1>1, <1>w, <1>2, <1>3, <1>7, <1>8, <1>9, <2>1, <2>2, TakesToken
<1>10. CASE w \notin DOMAIN SYMBOLS
  <2>1. Throw("UnknownToken")
    BY <1>3, <1>10 DEF EndSymbol
  <2>2. TokenBegin' = b /\ UNCHANGED << data, tokens >> /\ outcome' = "UnknownToken"
    BY <1>3, <2>1 DEF Throw, Stay, TokenBegin
  <2>3. Stream!LexemeEnds # {} /\ Stream!Longest(Stream!LexemeEnds) = e
    BY <1>1, <1>3, <1>7, LongestOfStream
  <2>4. Stream!AtText
    <3>1. LexemeAt(d, b, e) /\ b < Len(d)
      BY <1>2, <1>3, <1>6 DEF LexemeAt
    <3>2. ~IsSpace(d[b + 1]) /\ d[b + 1] # NUL
      BY <1>3, <3>1, TextOfLexeme
    <3> QED BY <1>1, <1>2, <1>3, <3>1, <3>2, TextOfStream
  <2>5. w \notin DOMAIN Stream!SYMBOLS
    BY <1>10 DEF SYMBOLS, Stream!SYMBOLS
  <2>6. Stream!Take
    BY <1>1, <1>w, <1>3, <1>8, <2>2, <2>3, <2>4, <2>5 DEF Stream!Take
  <2> QED BY <2>6 DEF Stream!Next
<1> QED BY <1>9, <1>10

LEMMA StreamInit == Init => Stream!Init
<1> SUFFICES ASSUME Init PROVE Stream!Init
  OBVIOUS
<1>1. TokenBegin = 0
  BY DEF Init, TokenBegin
<1>2. [n \in 1 .. Len(tokens) |-> tokens[n].token] = << >>
  BY DEF Init
<1> QED BY <1>1, <1>2 DEF Init, Stream!Init

LEMMA StreamNext ==
  TypeOK /\ LocationInv /\ Scanned /\ [Next \/ Done]_vars => [Stream!Next]_(Stream!vars)
<1> SUFFICES ASSUME TypeOK, LocationInv, Scanned, [Next \/ Done]_vars
             PROVE  Stream!Next \/ UNCHANGED Stream!vars
  OBVIOUS
<1>0. IsSequence(tokens)
  BY DEF LocationInv, TokensLocated
<1>1. CASE UNCHANGED vars \/ Done
  <2>1. PICK b : b = TokenBegin
    OBVIOUS
  <2>2. TokenBegin' = b /\ UNCHANGED << data, tokens, outcome >>
    BY <1>1, <2>1 DEF vars, Done, TokenBegin
  <2> QED BY <2>1, <2>2, StreamStutters
<1>2. CASE next_token
  <2>1. CASE EnterString \/ EnterSymbol \/ EnterNumber \/ EnterIdentifier
    BY <2>1, ReadingStutters
  <2>2. CASE Skip
    BY <2>2, SpaceOfStream DEF Stream!Next
  <2>3. CASE ReachEnd
    BY <1>0, <2>3, EndOfStream DEF Stream!Next
  <2>4. CASE MeetStranger
    BY <1>0, <2>4, StrangerOfStream DEF Stream!Next
  <2>5. CASE TakeParenthesis
    BY <1>0, <2>5, ParenthesisOfStream
  <2> QED BY <1>2, <2>1, <2>2, <2>3, <2>4, <2>5 DEF next_token
<1>3. CASE ReadDigit \/ ReadCharacter \/ ReadIdentifier \/ ReadSymbol
  <2>1. Consume /\ outcome = "lexing" /\ mode # "next_token"
    BY <1>3 DEF ReadDigit, ReadCharacter, ReadIdentifier, ReadSymbol, Parsing
  <2> QED BY <2>1, ReadingStutters
<1>4. CASE ReadPoint
  BY <1>4, ReadingStutters
<1>5. CASE Unterminated
  BY <1>5, RefusalOfStream DEF Stream!Next
<1>6. CASE EndNumber \/ EndString \/ EndIdentifier \/ EndSymbol
  BY <1>6, NumberOfStream, StringOfStream, NameOfStream, SymbolOfStream
<1> QED BY <1>1, <1>2, <1>3, <1>4, <1>5, <1>6
        DEF Next, parse_number, parse_string_literal, parse_identifier, parse_symbol

(* Whatever the file, every step of the lexer is a step of the stream of   *)
(* longest lexemes or leaves it as it was: ImplementsTokenStream without   *)
(* the stream's fairness.                                                  *)
THEOREM LexerCutsLongest == Spec => Stream!Init /\ [][Stream!Next]_(Stream!vars)
<1>1. Init => TypeOK /\ LocationInv /\ Scanned
  BY TypeInit, LocationInit, ScanInit
<1>2. TypeOK /\ LocationInv /\ Scanned /\ [Next \/ Done]_vars
        => TypeOK' /\ LocationInv' /\ Scanned'
  BY TypeNext, LocationNext, ScanNext
<1> QED BY <1>1, <1>2, StreamInit, StreamNext, PTL DEF Spec
=============================================================================
