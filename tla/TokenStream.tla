---------------------------- MODULE TokenStream ----------------------------
(***************************************************************************)
(* What the lexer promises, one token per step: the file is cut into       *)
(* lexemes, each the longest that starts where the last one ended, white   *)
(* space between them dropped; a character that starts no lexeme ends the  *)
(* stream.  Which strings are lexemes is stated on whole words.            *)
(***************************************************************************)
EXTENDS Characters

CONSTANT Inputs

VARIABLES data, index, tokens, outcome

vars == << data, index, tokens, outcome >>

Init ==
  /\ data \in Inputs
  /\ index = 0
  /\ tokens = << >>
  /\ outcome = "lexing"

----------------------------------------------------------------------------
All(w, Test(_)) == \A i \in 1 .. Len(w) : Test(w[i])

IsInt(w)   == w # << >> /\ All(w, IsDigit)
IsFloat(w) == \E i \in 2 .. Len(w) - 1 :
                /\ w[i] = Point
                /\ IsInt(SubSeq(w, 1, i - 1))
                /\ IsInt(SubSeq(w, i + 1, Len(w)))
IsName(w)  == /\ w # << >>
              /\ w[1] \in Letters
              /\ All(w, is_identifier_char)
IsQuoted(w) == /\ Len(w) >= 2
               /\ w[1] = Quote /\ w[Len(w)] = Quote
               /\ \A i \in 2 .. Len(w) - 1 : w[i] \notin {Quote, NUL}
IsOperator(w) == /\ w # << >>
                 /\ All(w, is_symbol_char)
                 /\ w[1] \in {"(", ")"} => Len(w) = 1

IsLexeme(w) == IsInt(w) \/ IsFloat(w) \/ IsName(w) \/ IsQuoted(w) \/ IsOperator(w)

(* A string literal keeps its closing quote.                               *)
TokenOf(w) ==
  CASE IsInt(w)      -> Token("IntLiteral", w)
    [] IsFloat(w)    -> Token("FloatLiteral", w)
    [] IsName(w)     -> WordToken(w)
    [] IsQuoted(w)   -> Token("StringLiteral", Tail(w))
    [] IsOperator(w) -> Token(SYMBOLS[w], w)

(* The ends of the lexemes that begin at `index', and the longest of them. *)
LexemeEnds == { e \in (index + 1) .. Len(data) : IsLexeme(SubSeq(data, index + 1, e)) }

Longest(ends) == CHOOSE e \in ends : \A other \in ends : other <= e

----------------------------------------------------------------------------
AtEnd == index >= Len(data) \/ data[index + 1] = NUL

SkipSpace ==
  /\ outcome = "lexing"
  /\ ~AtEnd
  /\ IsSpace(data[index + 1])
  /\ index' = index + 1
  /\ UNCHANGED << data, tokens, outcome >>

AtText == outcome = "lexing" /\ ~AtEnd /\ ~IsSpace(data[index + 1])

(* A lexeme becomes a token, unless it is a run of symbol characters that  *)
(* is no symbol.                                                           *)
Take ==
  /\ AtText
  /\ LET ends == LexemeEnds
         word == SubSeq(data, index + 1, Longest(ends))
     IN  /\ ends # {}
         /\ IF IsOperator(word) /\ word \notin DOMAIN SYMBOLS
            THEN outcome' = "UnknownToken" /\ UNCHANGED << index, tokens >>
            ELSE /\ tokens' = Append(tokens, TokenOf(word))
                 /\ index' = index + Len(word)
                 /\ UNCHANGED outcome
  /\ UNCHANGED data

RefuseString ==
  /\ AtText
  /\ data[index + 1] = Quote
  /\ LexemeEnds = {}
  /\ outcome' = "UnterminatedString"
  /\ UNCHANGED << data, index, tokens >>

Finish ==
  /\ tokens' = Append(tokens, EndOfFile)
  /\ outcome' = "done"
  /\ UNCHANGED data

ReachEnd == outcome = "lexing" /\ AtEnd /\ UNCHANGED index /\ Finish

MeetStranger ==
  /\ AtText
  /\ data[index + 1] # Quote
  /\ LexemeEnds = {}
  /\ index' = index + 1
  /\ Finish

Next == SkipSpace \/ Take \/ RefuseString \/ ReachEnd \/ MeetStranger

Spec == Init /\ [][Next]_vars /\ WF_vars(Next)
=============================================================================
