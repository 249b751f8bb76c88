------------------------------ MODULE MCLexer ------------------------------
EXTENDS Lexer, TLC

MCLetters   == {"i", "f"}
MCDigits    == {"1"}
MCSpaces    == {" "}
MCStrangers == {"@"}
MCKEYWORDS  == <<"i", "f">> :> "If"

(* Every file of at most n of these characters.                            *)
Files(alphabet, n) == UNION { [1 .. k -> alphabet] : k \in 0 .. n }

(* Words, numbers and strings; symbols.                                    *)
ShortFiles ==
  Files({"i", "f", "1", Point, "-", " ", Newline, Quote, "@"}, 4) \cup
  Files({"=", "<", "!", "(", ")", "-", "1", NUL}, 4)

MCInputs     == ShortFiles
MCTextInputs == Files({"i", "1", "@", " "}, 3)
=============================================================================
