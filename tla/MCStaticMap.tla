---------------------------- MODULE MCStaticMap ----------------------------
(***************************************************************************)
(* Tables of up to four entries with keys 1, 3, 5, 7 in every order and    *)
(* with every repetition, and the three tables of the lexer and the        *)
(* printer; the keys sought lie on, between, before and behind theirs.     *)
(***************************************************************************)
EXTENDS StaticMap, TokenTables, SequencesExt

MCSought == 0 .. 30

(* The n-th entry has the value n: an answer tells which entry it is from. *)
SmallTables ==
  { [i \in 1 .. Len(keys) |-> [key |-> keys[i], value |-> i]] :
      keys \in BoundedSeq({1, 3, 5, 7}, 4) }

MCInitializers == SmallTables \cup {TOKEN_TYPE_STR, KEYWORDS, SYMBOLS}

(* Every enumerator of TokenType is answered with its own name:            *)
(* token_type_to_str() (token_type.h:106) dereferences the answer unread,  *)
(* and nothing but this table says which enumerators there are.            *)
EveryTypeIsNamed ==
  [][items = TOKEN_TYPE_STR /\ phase = "searching" /\ phase' = "ready" =>
       \A i \in 1 .. Len(TokenType) : key = i => answer' = Found(TokenType[i])]_vars
============================================================================
