------------------------------ MODULE MCParser ------------------------------
EXTENDS Grammar

LOCAL INSTANCE SequencesExt

MCNames == {"x", "y", "f", "Int64"}

Words(alphabet, n) == UNION { [1 .. k -> alphabet] : k \in 0 .. n }

Ident(name) == Token("Identifier", name)
Number      == Token("IntLiteral", "InRange")
Fraction    == Token("FloatLiteral", "OutOfRange")
Open        == Keyword("LParen")
Close       == Keyword("RParen")

Wrap(body) == << Keyword("Function"), Ident("f"), Open, Close >> \o body \o << Keyword("End") >>
Stream(t)  == Append(t, EndOfFile)

(* show of every short word over the tokens of expressions.                *)
ShortValues == Words({Number, Ident("x"), Open, Close, Keyword("Plus"), Keyword("Asterisk")}, 5)

(* Four operators of every precedence, some operands parenthesised.        *)
Chains ==
  LET Ops == { Keyword(op) : op \in {"Equals", "Minus", "ForwardSlash"} }
      x == << Ident("x") >>
      call == << Ident("f"), Open, Close >>
      Plain(a, b, c, d) == x \o <<a>> \o call \o <<b>> \o <<Number, c>> \o x \o <<d>> \o x
      Inner(a, b, c, d) == x \o <<a, Open>> \o call \o <<b, Number, Close, c>> \o x \o <<d>> \o x
      Outer(a, b, c, d) == <<Open, Open>> \o x \o <<a, Number, Close, b>> \o x
                             \o <<c, Number, Close, d>> \o x
  IN  UNION { { Plain(a, b, c, d), Inner(a, b, c, d), Outer(a, b, c, d) } :
                a \in Ops, b \in Ops, c \in Ops, d \in Ops }

(* Every short body, and what is no program at all.                        *)
Bodies == Words({Ident("x"), Ident("Int64"), Number, Fraction, Keyword("Set"), Keyword("Show"),
                 Keyword("Return"), Keyword("Assignment"), Keyword("Colon")}, 4)

TwoStatements ==
  LET heads == { << Ident("x"), Keyword("Assignment") >>, << Keyword("Show") >>,
                 << Keyword("Return") >>, << Keyword("Set"), Ident("x"), Keyword("Assignment") >>,
                 << Ident("x"), Keyword("Colon"), Ident("Int64"), Keyword("Assignment") >>,
                 << Ident("x"), Keyword("Colon"), Ident("f"), Keyword("Assignment") >> }
      values == { << Number >>, << Ident("f") >>, << Ident("f"), Open, Close >>,
                  << Open, Ident("x"), Close >> }
  IN  { a \o v \o b \o w : a \in heads, v \in values, b \in heads, w \in values }

Fragments == Words({Keyword("Function"), Ident("f"), Open, Close, Keyword("End")}, 5)

(* A file that stops anywhere.                                             *)
Beginnings == LET whole == Wrap(<< Ident("x"), Keyword("Colon"), Ident("Int64"), Keyword("Assignment"),
                                 Ident("f"), Open, Close, Keyword("Plus"), Open, Number, Close >>)
                         \o Wrap(<< >>)
            IN  { SubSeq(whole, 1, n) : n \in 0 .. Len(whole) }

(* A program with every statement, and any token in the place of any of    *)
(* its tokens or put between two: the operators without a precedence and   *)
(* the keywords without a meaning among them.                              *)
Example == Wrap(<< Ident("x"), Keyword("Colon"), Ident("Int64"), Keyword("Assignment"), Number,
                   Keyword("Set"), Ident("x"), Keyword("Assignment"), Ident("x"), Keyword("Plus"),
                   Open, Number, Keyword("Equals"), Ident("x"), Close,
                   Keyword("Show"), Ident("f"), Open, Close, Keyword("Return"), Number >>)

AnyToken ==
  { Keyword(type) : type \in TokenTypes \ ({"Identifier", "EndOfFile"} \cup LiteralTypes) }
  \cup { Ident("y"), Number, Token("FloatLiteral", "InRange") }

Mutations ==
  { ReplaceAt(Example, n, token) : n \in 1 .. Len(Example), token \in AnyToken }
  \cup { InsertAt(Example, n, token) : n \in 1 .. Len(Example) + 1, token \in AnyToken }

Streams ==
  { Stream(Wrap(<< Keyword("Show") >> \o e)) : e \in ShortValues \cup Chains }
  \cup { Stream(Wrap(b)) : b \in Bodies \cup TwoStatements }
  \cup { Stream(t) : t \in Fragments \cup Beginnings \cup Mutations }

MCInputs == Streams
=============================================================================
