--------------------------- MODULE PrinterProofs ---------------------------
(***************************************************************************)
(* Proofs about the pretty printer, for every program the checker accepts. *)
(***************************************************************************)
EXTENDS PrinterRules, TypeCheckProofs, DataLemmas, FiniteSetTheorems

----------------------------------------------------------------------------
(* Counting.                                                               *)

(* The places of C are those of A, and those of B moved behind the m-th.   *)
PlacesJoined(A, m, B, n, C) ==
  /\ m \in Nat /\ n \in Nat
  /\ A \subseteq 1 .. m /\ B \subseteq 1 .. n /\ C \subseteq 1 .. m + n
  /\ \A i \in 1 .. m : i \in C <=> i \in A
  /\ \A j \in 1 .. n : m + j \in C <=> j \in B

LEMMA PlacesAdd ==
  ASSUME NEW m, NEW n, NEW A, NEW B, NEW C, PlacesJoined(A, m, B, n, C)
  PROVE  /\ Cardinality(A) \in Nat /\ Cardinality(B) \in Nat
         /\ Cardinality(C) = Cardinality(A) + Cardinality(B)
<1> DEFINE D == { i \in C : i > m }
           move == [j \in B |-> m + j]
<1> USE DEF PlacesJoined
<1>1. IsFiniteSet(A) /\ IsFiniteSet(B) /\ Cardinality(A) \in Nat /\ Cardinality(B) \in Nat
  <2>1. IsFiniteSet(1 .. m) /\ IsFiniteSet(1 .. n)
    BY FS_Interval
  <2> QED BY <2>1, FS_Subset, FS_CardinalityType
<1>2. ExistsBijection(B, D)
  <2>1. \A j \in B : m + j \in D
    OBVIOUS
  <2>2. move \in [B -> D] /\ \A j \in B : move[j] = m + j
    BY <2>1
  <2>3. \A i, j \in B : move[i] = move[j] => i = j
    BY <2>2
  <2>4. \A d \in D : \E j \in B : move[j] = d
    <3> TAKE d \in D
    <3>1. d - m \in 1 .. n /\ m + (d - m) = d
      OBVIOUS
    <3>2. d - m \in B
      BY <3>1
    <3>3. move[d - m] = d
      BY <2>2, <3>1, <3>2
    <3> QED BY <3>2, <3>3
  <2> HIDE DEF D, move
  <2>5. move \in Bijection(B, D)
    BY <2>2, <2>3, <2>4 DEF Bijection, Injection, IsInjective, Surjection
  <2> QED BY <2>5 DEF ExistsBijection
<1>3. IsFiniteSet(D) /\ Cardinality(D) = Cardinality(B)
  BY <1>1, <1>2, FS_Bijection
<1>4. C = A \cup D /\ A \cap D = {}
  <2>1. ASSUME NEW i \in C PROVE i \in A \cup D
    <3>1. i \in 1 .. m \/ i > m
      OBVIOUS
    <3> QED BY <3>1
  <2>2. ASSUME NEW i \in A PROVE i \in C /\ i \notin D
    <3>1. i \in 1 .. m /\ ~(i > m)
      OBVIOUS
    <3> QED BY <3>1
  <2>3. D \subseteq C
    OBVIOUS
  <2> HIDE DEF D
  <2> QED BY <2>1, <2>2, <2>3
<1> HIDE DEF D, move
<1>5. Cardinality(A \cap D) = 0
  BY <1>4, FS_EmptySet
<1>6. Cardinality(A \cup D) = Cardinality(A) + Cardinality(D) - Cardinality(A \cap D)
  BY <1>1, <1>3, FS_Union
<1> QED BY <1>1, <1>3, <1>4, <1>5, <1>6

PieceCount(text, piece) == Cardinality({ i \in 1 .. Len(text) : text[i].piece = piece })
ClosersIn(stack) == Cardinality({ i \in 1 .. Len(stack) : stack[i].call = "close_node" })

LEMMA PiecesAdd ==
  ASSUME NEW s, IsSequence(s), NEW t, IsSequence(t), NEW piece
  PROVE  /\ PieceCount(s, piece) \in Nat /\ PieceCount(t, piece) \in Nat
         /\ PieceCount(s \o t, piece) = PieceCount(s, piece) + PieceCount(t, piece)
<1> DEFINE P(u) == { i \in 1 .. Len(u) : u[i].piece = piece }
<1>0. PICK v : v = s \o t
  OBVIOUS
<1>1. PICK m \in Nat, n \in Nat : m = Len(s) /\ n = Len(t)
  BY Concatenating
<1>2. /\ Len(v) = m + n
      /\ \A i \in 1 .. m : v[i] = s[i]
      /\ \A j \in 1 .. n : v[m + j] = t[j]
  BY <1>0, <1>1, Concatenating
<1>3. PICK A, B, C : A = P(s) /\ B = P(t) /\ C = P(v)
  OBVIOUS
<1>4. A \subseteq 1 .. m /\ B \subseteq 1 .. n /\ C \subseteq 1 .. m + n
  BY <1>0, <1>1, <1>2, <1>3
<1>5. \A i \in 1 .. m : i \in C <=> i \in A
  BY <1>0, <1>1, <1>2, <1>3
<1>6. ASSUME NEW j \in 1 .. n PROVE m + j \in C <=> j \in B
  <2>1. m + j \in 1 .. m + n
    OBVIOUS
  <2> QED BY <1>0, <1>1, <1>2, <1>3, <2>1
<1>7. /\ Cardinality(A) \in Nat /\ Cardinality(B) \in Nat
      /\ Cardinality(C) = Cardinality(A) + Cardinality(B)
  <2>1. \A j \in 1 .. n : m + j \in C <=> j \in B
    BY <1>6
  <2>2. m \in Nat /\ n \in Nat
    BY <1>0, <1>1
  <2>3. PlacesJoined(A, m, B, n, C)
    BY <1>4, <1>5, <2>1, <2>2 DEF PlacesJoined
  <2> QED BY <2>3, PlacesAdd
<1> QED BY <1>0, <1>1, <1>3, <1>7 DEF PieceCount

LEMMA ClosersAdd ==
  ASSUME NEW s, IsSequence(s), NEW t, IsSequence(t)
  PROVE  /\ ClosersIn(s) \in Nat /\ ClosersIn(t) \in Nat
         /\ ClosersIn(s \o t) = ClosersIn(s) + ClosersIn(t)
<1> DEFINE P(u) == { i \in 1 .. Len(u) : u[i].call = "close_node" }
<1>0. PICK v : v = s \o t
  OBVIOUS
<1>1. PICK m \in Nat, n \in Nat : m = Len(s) /\ n = Len(t)
  BY Concatenating
<1>2. /\ Len(v) = m + n
      /\ \A i \in 1 .. m : v[i] = s[i]
      /\ \A j \in 1 .. n : v[m + j] = t[j]
  BY <1>0, <1>1, Concatenating
<1>3. PICK A, B, C : A = P(s) /\ B = P(t) /\ C = P(v)
  OBVIOUS
<1>4. A \subseteq 1 .. m /\ B \subseteq 1 .. n /\ C \subseteq 1 .. m + n
  BY <1>0, <1>1, <1>2, <1>3
<1>5. \A i \in 1 .. m : i \in C <=> i \in A
  BY <1>0, <1>1, <1>2, <1>3
<1>6. ASSUME NEW j \in 1 .. n PROVE m + j \in C <=> j \in B
  <2>1. m + j \in 1 .. m + n
    OBVIOUS
  <2> QED BY <1>0, <1>1, <1>2, <1>3, <2>1
<1>7. /\ Cardinality(A) \in Nat /\ Cardinality(B) \in Nat
      /\ Cardinality(C) = Cardinality(A) + Cardinality(B)
  <2>1. \A j \in 1 .. n : m + j \in C <=> j \in B
    BY <1>6
  <2>2. m \in Nat /\ n \in Nat
    BY <1>0, <1>1
  <2>3. PlacesJoined(A, m, B, n, C)
    BY <1>4, <1>5, <2>1, <2>2 DEF PlacesJoined
  <2> QED BY <2>3, PlacesAdd
<1> QED BY <1>0, <1>1, <1>3, <1>7 DEF ClosersIn

(* Sequences without the counted thing, and with it alone.                 *)
LEMMA NoPiece ==
  ASSUME NEW t, NEW piece, \A i \in 1 .. Len(t) : t[i].piece # piece
  PROVE  PieceCount(t, piece) = 0
<1>1. { i \in 1 .. Len(t) : t[i].piece = piece } = {}
  OBVIOUS
<1> QED BY <1>1, FS_EmptySet DEF PieceCount

LEMMA OnePiece ==
  ASSUME NEW t, NEW piece, NEW k \in 1 .. Len(t), t[k].piece = piece,
         \A i \in 1 .. Len(t) : i # k => t[i].piece # piece
  PROVE  PieceCount(t, piece) = 1
<1>1. { i \in 1 .. Len(t) : t[i].piece = piece } = {k}
  OBVIOUS
<1> QED BY <1>1, FS_Singleton DEF PieceCount

LEMMA NoCloser ==
  ASSUME NEW t, \A i \in 1 .. Len(t) : t[i].call # "close_node"
  PROVE  ClosersIn(t) = 0
<1>1. { i \in 1 .. Len(t) : t[i].call = "close_node" } = {}
  OBVIOUS
<1> QED BY <1>1, FS_EmptySet DEF ClosersIn

LEMMA OneCall ==
  ASSUME NEW call
  PROVE  /\ IsSequence(<< call >>) /\ Len(<< call >>) = 1 /\ << call >>[1] = call
         /\ ClosersIn(<< call >>) = IF call.call = "close_node" THEN 1 ELSE 0
<1>1. PICK t : t = << call >>
  OBVIOUS
<1>2. t \in Seq({call}) /\ Len(t) = 1 /\ t[1] = call
  BY <1>1
<1>3. CASE call.call = "close_node"
  <2>1. { i \in 1 .. Len(t) : t[i].call = "close_node" } = {1}
    BY <1>2, <1>3
  <2> QED BY <1>1, <1>2, <1>3, <2>1, FS_Singleton DEF ClosersIn, IsSequence
<1>4. CASE call.call # "close_node"
  <2>1. \A i \in 1 .. Len(t) : t[i].call # "close_node"
    BY <1>2, <1>4
  <2>2. ClosersIn(t) = 0
    BY <2>1, NoCloser
  <2>3. IsSequence(t)
    BY <1>2 DEF IsSequence
  <2> QED BY <1>1, <1>2, <1>4, <2>2, <2>3
<1> QED BY <1>3, <1>4

----------------------------------------------------------------------------
(* The layout of a text.                                                   *)

LEMMA NestingCounts ==
  ASSUME NEW text
  PROVE  Nesting(text) = PieceCount(text, "open") - PieceCount(text, "close")
BY DEF Nesting, PieceCount

LinesShowNesting(text) ==
  \A i \in 1 .. Len(text) : text[i].piece = "line" =>
    /\ text[i].indent = 4 * Nesting(SubSeq(text, 1, i - 1))
    /\ text[i].indent > 0

LEMMA PrefixKept ==
  ASSUME NEW s, IsSequence(s), NEW t, IsSequence(t), NEW n \in 0 .. Len(s)
  PROVE  SubSeq(s \o t, 1, n) = SubSeq(s, 1, n)
<1>1. PICK S, T : s \in Seq(S) /\ t \in Seq(T)
  BY DEF IsSequence
<1>2. \A i \in 1 .. n : s[i] \in S
  BY <1>1
<1>3. \A i \in 1 .. n : (s \o t)[i] = s[i]
  BY Concatenating
<1>4. PICK u, v : u = SubSeq(s \o t, 1, n) /\ v = SubSeq(s, 1, n)
  OBVIOUS
<1>5. \A i \in 1 .. n : (s \o t)[i] \in S
  BY <1>2, <1>3
<1>6. /\ u \in Seq(S) /\ Len(u) = n
      /\ \A i \in 1 .. n : u[i] = (s \o t)[i]
  <2>1. n \in Nat /\ n - 1 + 1 = n
    BY <1>1
  <2>2. /\ SubSeq(s \o t, 1, n) \in Seq(S)
        /\ Len(SubSeq(s \o t, 1, n)) = IF 1 <= n THEN n - 1 + 1 ELSE 0
        /\ \A i \in 1 .. n - 1 + 1 : SubSeq(s \o t, 1, n)[i] = (s \o t)[1 + i - 1]
    BY <1>5, <2>1, SubSeqProperties
  <2> QED BY <1>4, <2>1, <2>2
<1>7. /\ v \in Seq(S) /\ Len(v) = n
      /\ \A i \in 1 .. n : v[i] = s[i]
  <2>1. n \in Nat /\ n - 1 + 1 = n
    BY <1>1
  <2>2. /\ SubSeq(s, 1, n) \in Seq(S)
        /\ Len(SubSeq(s, 1, n)) = IF 1 <= n THEN n - 1 + 1 ELSE 0
        /\ \A i \in 1 .. n - 1 + 1 : SubSeq(s, 1, n)[i] = s[1 + i - 1]
    BY <1>2, <2>1, SubSeqProperties
  <2> QED BY <1>4, <2>1, <2>2
<1>8. u = v
  BY <1>3, <1>6, <1>7, SeqEqual
<1> QED BY <1>4, <1>8

LEMMA WholePrefix ==
  ASSUME NEW s, IsSequence(s)
  PROVE  SubSeq(s, 1, Len(s)) = s
BY DEF IsSequence

(* At most the first of the pieces added is a line, indented as it should. *)
LEMMA LinesAdd ==
  ASSUME NEW s, IsSequence(s), NEW t, IsSequence(t), LinesShowNesting(s),
         \A j \in 1 .. Len(t) : t[j].piece = "line" =>
           j = 1 /\ t[1].indent = 4 * Nesting(s) /\ t[1].indent > 0
  PROVE  LinesShowNesting(s \o t)
<1>0. PICK v : v = s \o t
  OBVIOUS
<1>1. PICK m \in Nat, n \in Nat : m = Len(s) /\ n = Len(t)
  BY Concatenating
<1>2. /\ Len(v) = m + n
      /\ \A i \in 1 .. m : v[i] = s[i]
      /\ \A j \in 1 .. n : v[m + j] = t[j]
  BY <1>0, <1>1, Concatenating
<1>3. ASSUME NEW i \in 1 .. m + n, v[i].piece = "line"
      PROVE  v[i].indent = 4 * Nesting(SubSeq(v, 1, i - 1)) /\ v[i].indent > 0
  <2>1. CASE i \in 1 .. m
    <3>1. i - 1 \in 0 .. Len(s)
      BY <1>0, <1>1, <2>1
    <3>2. SubSeq(v, 1, i - 1) = SubSeq(s, 1, i - 1)
      BY <1>0, <1>1, <3>1, PrefixKept
    <3>3. v[i] = s[i]
      BY <1>2, <2>1
    <3> QED BY <1>0, <1>1, <1>3, <2>1, <3>2, <3>3 DEF LinesShowNesting
  <2>2. CASE i \notin 1 .. m
    <3>1. i - m \in 1 .. n /\ m + (i - m) = i
      BY <2>2
    <3>2. v[i] = t[i - m]
      BY <1>2, <3>1
    <3>3. i - m = 1 /\ t[1].indent = 4 * Nesting(s) /\ t[1].indent > 0
      BY <1>0, <1>1, <1>3, <3>1, <3>2
    <3>4. i - 1 = m /\ m \in 0 .. Len(s)
      BY <1>0, <1>1, <3>3
    <3>5. SubSeq(v, 1, m) = s
      BY <1>0, <1>1, <3>4, PrefixKept, WholePrefix
    <3> QED BY <3>2, <3>3, <3>4, <3>5
  <2> QED BY <2>1, <2>2
<1> QED BY <1>0, <1>1, <1>2, <1>3 DEF LinesShowNesting

(* What a piece can be stays so when texts are joined.                     *)
Pieces(text) == \A i \in 1 .. Len(text) : text[i].piece \in {"line", "open", "value", "close"}

LEMMA PiecesJoined ==
  ASSUME NEW s, IsSequence(s), NEW t, IsSequence(t), Pieces(s), Pieces(t)
  PROVE  Pieces(s \o t)
<1>0. PICK v : v = s \o t
  OBVIOUS
<1>1. PICK m \in Nat, n \in Nat : m = Len(s) /\ n = Len(t)
  BY Concatenating
<1>2. /\ Len(v) = m + n
      /\ \A i \in 1 .. m : v[i] = s[i]
      /\ \A j \in 1 .. n : v[m + j] = t[j]
  BY <1>0, <1>1, Concatenating
<1>3. ASSUME NEW i \in 1 .. m + n PROVE v[i].piece \in {"line", "open", "value", "close"}
  <2>1. CASE i \in 1 .. m
    BY <1>0, <1>1, <1>2, <2>1 DEF Pieces
  <2>2. CASE i \notin 1 .. m
    <3>1. i - m \in 1 .. n /\ m + (i - m) = i
      BY <2>2
    <3>2. v[i] = t[i - m]
      BY <1>2, <3>1
    <3> QED BY <1>0, <1>1, <3>1, <3>2 DEF Pieces
  <2> QED BY <2>1, <2>2
<1> QED BY <1>0, <1>1, <1>2, <1>3 DEF Pieces

(* What add_node writes.                                                   *)
LEMMA NodePieces ==
  ASSUME NEW name, depth \in Nat
  PROVE  /\ IsSequence(add_node(name)) /\ Pieces(add_node(name))
         /\ PieceCount(add_node(name), "open") = 1
         /\ PieceCount(add_node(name), "close") = 0
         /\ \A j \in 1 .. Len(add_node(name)) : add_node(name)[j].piece = "line" =>
              j = 1 /\ add_node(name)[1].indent = 4 * depth /\ add_node(name)[1].indent > 0
<1>1. PICK t, line, open : t = add_node(name) /\ line = Line(4 * depth) /\ open = Open(name)
  OBVIOUS
<1>2. line.piece = "line" /\ line.indent = 4 * depth /\ open.piece = "open"
  BY <1>1 DEF Line, Open
<1>3. CASE depth = 0
  <2>1. t = << >> \o << open >>
    BY <1>1, <1>3 DEF add_node
  <2>2. t \in Seq({open}) /\ Len(t) = 1 /\ t[1] = open
    BY <2>1
  <2>3. PieceCount(t, "open") = 1
    <3>1. 1 \in 1 .. Len(t) /\ \A i \in 1 .. Len(t) : i # 1 => t[i].piece # "open"
      BY <2>2
    <3> QED BY <1>2, <2>2, <3>1, OnePiece
  <2>4. PieceCount(t, "close") = 0
    <3>1. \A i \in 1 .. Len(t) : t[i].piece # "close"
      BY <1>2, <2>2
    <3> QED BY <3>1, NoPiece
  <2>5. \A j \in 1 .. Len(t) : t[j].piece # "line"
    BY <1>2, <2>2
  <2>6. IsSequence(t) /\ Pieces(t)
    BY <1>2, <2>2 DEF IsSequence, Pieces
  <2> QED BY <1>1, <2>3, <2>4, <2>5, <2>6
<1>4. CASE depth # 0
  <2>1. t = << line >> \o << open >>
    BY <1>1, <1>4 DEF add_node
  <2>2. t \in Seq({line, open}) /\ Len(t) = 2 /\ t[1] = line /\ t[2] = open
    BY <2>1
  <2>3. PieceCount(t, "open") = 1
    <3>1. 2 \in 1 .. Len(t) /\ \A i \in 1 .. Len(t) : i # 2 => t[i].piece # "open"
      BY <1>2, <2>2
    <3> QED BY <1>2, <2>2, <3>1, OnePiece
  <2>4. PieceCount(t, "close") = 0
    <3>1. \A i \in 1 .. Len(t) : t[i].piece # "close"
      BY <1>2, <2>2
    <3> QED BY <3>1, NoPiece
  <2>5. \A j \in 1 .. Len(t) : t[j].piece = "line" => j = 1
    BY <1>2, <2>2
  <2>6. t[1].indent = 4 * depth /\ t[1].indent > 0
    BY <1>2, <1>4, <2>2
  <2>7. IsSequence(t) /\ Pieces(t)
    BY <1>2, <2>2 DEF IsSequence, Pieces
  <2> QED BY <1>1, <2>3, <2>4, <2>5, <2>6, <2>7
<1> QED BY <1>3, <1>4

(* What follows the name of a node.                                        *)
LEMMA WrittenPieces ==
  ASSUME NEW values, Len(values) \in Nat
  PROVE  /\ IsSequence(Written(values)) /\ Pieces(Written(values))
         /\ PieceCount(Written(values), "open") = 0
         /\ PieceCount(Written(values), "close") = 0
         /\ \A j \in 1 .. Len(Written(values)) : Written(values)[j].piece # "line"
<1>0. PICK n \in Nat : n = Len(values)
  OBVIOUS
<1>1. PICK t : t = Written(values)
  OBVIOUS
<1> DEFINE S == { Value(values[i]) : i \in 1 .. n }
<1>2. t \in Seq(S) /\ Len(t) = n
  BY <1>0, <1>1 DEF Written
<1>3. \A i \in 1 .. n : t[i].piece = "value"
  BY <1>0, <1>1 DEF Written, Value
<1>4. IsSequence(t)
  BY <1>2 DEF IsSequence
<1>5. Pieces(t)
  BY <1>2, <1>3 DEF Pieces
<1>6. /\ \A i \in 1 .. Len(t) : t[i].piece # "open"
      /\ \A i \in 1 .. Len(t) : t[i].piece # "close"
      /\ \A i \in 1 .. Len(t) : t[i].piece # "line"
  BY <1>2, <1>3
<1> HIDE DEF S
<1> QED BY <1>0, <1>1, <1>4, <1>5, <1>6, NoPiece

----------------------------------------------------------------------------
(* What a visit goes on to do.                                             *)

Todo(prog)     == [call : Calls \ {"close_node"}, of : PrintAddresses(prog)]
AllCalls(prog) == [call : Calls, of : PrintAddresses(prog)]

LEMMA TodoNoCloser ==
  ASSUME NEW prog, NEW t \in Seq(Todo(prog))
  PROVE  IsSequence(t) /\ ClosersIn(t) = 0 /\ t \in Seq(AllCalls(prog))
<1>1. \A i \in 1 .. Len(t) : t[i] \in Todo(prog)
  OBVIOUS
<1>2. \A i \in 1 .. Len(t) : t[i].call # "close_node" /\ t[i] \in AllCalls(prog)
  BY <1>1 DEF Todo, AllCalls
<1>3. ClosersIn(t) = 0
  BY <1>2, NoCloser
<1>4. t \in [1 .. Len(t) -> AllCalls(prog)] /\ Len(t) \in Nat
  BY <1>2
<1>5. t \in Seq(AllCalls(prog))
  BY <1>4
<1> QED BY <1>3, <1>5 DEF IsSequence

LEMMA CallTodo ==
  ASSUME NEW prog, NEW a \in PrintAddresses(prog)
  PROVE  Visit(a) \in Todo(prog) /\ PrintType(a) \in Todo(prog) /\ VisitType(a) \in Todo(prog)
BY DEF Visit, PrintType, VisitType, Todo, Calls

LEMMA ProgramCalls ==
  ASSUME IsProgram(program, Names)
  PROVE  VisitCalls(Root) \in Seq(Todo(program))
<1>1. PICK n \in Nat : n = Len(program)
  BY DEF IsProgram
<1>2. \A f \in 1 .. n : <<f, 0, 0>> \in PrintAddresses(program)
  BY <1>1 DEF PrintAddresses, Addresses, FunctionAddresses
<1>3. ASSUME NEW f \in 1 .. n PROVE Visit(<<f, 0, 0>>) \in Todo(program)
  <2>1. PICK a : a = <<f, 0, 0>>
    OBVIOUS
  <2>2. a \in PrintAddresses(program)
    BY <1>2, <2>1
  <2>3. Visit(a) \in Todo(program)
    BY <2>2, CallTodo
  <2> QED BY <2>1, <2>3
<1>4. [f \in 1 .. n |-> Visit(<<f, 0, 0>>)] \in Seq(Todo(program))
  BY <1>3
<1> QED BY <1>1, <1>4 DEF VisitCalls

LEMMA FunctionCalls ==
  ASSUME IsProgram(program, Names), NEW a \in FunctionAddresses(program)
  PROVE  VisitCalls(a) \in Seq(Todo(program))
<1>1. PICK f \in 1 .. Len(program) : a = <<f, 0, 0>>
  BY DEF FunctionAddresses
<1>2. PICK n \in Nat : n = Len(program[f].statements)
  BY <1>1 DEF IsProgram
<1>3. a # Root /\ a[1] = f /\ a[2] = 0
  <2>1. f # 0
    BY <1>1 DEF IsProgram
  <2> QED BY <1>1, <2>1 DEF Root
<1>4. PrintType(a) \in Todo(program)
  BY CallTodo DEF PrintAddresses, Addresses
<1>5. \A s \in 1 .. n : <<f, s, 0>> \in PrintAddresses(program)
  BY <1>1, <1>2, StatementAddress DEF PrintAddresses
<1>6. \A s \in 1 .. n : Visit(<<f, s, 0>>) \in Todo(program)
  BY <1>5, CallTodo
<1>7. [s \in 1 .. n |-> Visit(<<f, s, 0>>)] \in Seq(Todo(program))
  BY <1>6
<1>8. VisitCalls(a) = << PrintType(a) >> \o [s \in 1 .. n |-> Visit(<<f, s, 0>>)]
  BY <1>2, <1>3 DEF VisitCalls
<1>9. << PrintType(a) >> \in Seq(Todo(program))
  BY <1>4
<1> QED BY <1>7, <1>8, <1>9

LEMMA StatementVisits ==
  ASSUME IsProgram(program, Names), NEW a \in StatementAddresses(program)
  PROVE  VisitCalls(a) \in Seq(Todo(program))
<1>1. PICK f \in 1 .. Len(program) : \E s \in 1 .. Len(program[f].statements) : a = <<f, s, 0>>
  BY DEF StatementAddresses
<1>2. PICK s \in 1 .. Len(program[f].statements) : a = <<f, s, 0>>
  BY <1>1
<1>3. a # Root /\ a[1] = f /\ a[2] = s /\ a[3] = 0 /\ s # 0
  <2>1. f # 0 /\ s # 0
    BY <1>1, <1>2 DEF IsProgram
  <2> QED BY <1>2, <2>1 DEF Root
<1>4. IsStatement(program[f].statements[s], Names)
  BY <1>1, <1>2 DEF IsProgram
<1>5. Len(program[f].statements[s].value) \in Nat \ {0}
  BY <1>4 DEF IsStatement, IsExpression
<1>6. RootOf(a) \in PrintAddresses(program)
  <2>1. RootOf(a) = <<f, s, Len(program[f].statements[s].value)>>
    BY <1>3 DEF RootOf, StatementAt
  <2>2. PICK e \in Nat : e = Len(program[f].statements[s].value) /\ e # 0
    BY <1>5
  <2>3. e \in 1 .. Len(program[f].statements[s].value)
    BY <2>2
  <2> QED BY <1>1, <1>2, <2>1, <2>2, <2>3, NodeAddress DEF PrintAddresses
<1>7. a \in PrintAddresses(program)
  BY DEF PrintAddresses, Addresses
<1>8. PICK declare, visit, annotation :
        /\ declare = << PrintType(a) >> /\ visit = << Visit(RootOf(a)) >>
        /\ annotation = << VisitType(a) >>
  OBVIOUS
<1>9. /\ declare \in Seq(Todo(program)) /\ visit \in Seq(Todo(program))
      /\ annotation \in Seq(Todo(program)) /\ << >> \in Seq(Todo(program))
  BY <1>6, <1>7, <1>8, CallTodo
<1>10. PICK before, after :
         /\ before \in {<< >>, declare} /\ after \in {<< >>, annotation}
         /\ StatementCalls(a) = before \o visit \o after
  BY <1>8 DEF StatementCalls
<1>11. StatementCalls(a) \in Seq(Todo(program))
  <2>1. before \in Seq(Todo(program)) /\ after \in Seq(Todo(program))
    BY <1>9, <1>10
  <2>2. before \o visit \in Seq(Todo(program))
    BY <1>9, <2>1
  <2>3. before \o visit \o after \in Seq(Todo(program))
    BY <2>1, <2>2
  <2> QED BY <1>10, <2>3
<1> QED BY <1>3, <1>11 DEF VisitCalls

LEMMA ExpressionVisits ==
  ASSUME IsProgram(program, Names), NEW a \in NodeAddresses(program)
  PROVE  VisitCalls(a) \in Seq(Todo(program))
<1>1. /\ a[1] \in 1 .. Len(program) /\ Len(program) \in Nat
      /\ a[2] \in 1 .. Len(program[a[1]].statements)
      /\ Len(program[a[1]].statements) \in Nat
      /\ a[3] \in 1 .. Len(StatementAt(program, a).value)
      /\ Len(StatementAt(program, a).value) \in Nat
      /\ a \in Addresses(program)
  BY NodeAddressParts
<1>2. PICK f, s, e : f = a[1] /\ s = a[2] /\ e = a[3]
  OBVIOUS
<1>3. f \in 1 .. Len(program) /\ s \in 1 .. Len(program[f].statements)
      /\ e \in 1 .. Len(program[f].statements[s].value)
  BY <1>1, <1>2 DEF StatementAt
<1>4. a # Root /\ s # 0 /\ e > 0
  BY <1>1, <1>2 DEF Root
<1>5. IsExpression(program[f].statements[s].value, Names)
  BY <1>3 DEF IsProgram, IsStatement
<1>6. PICK node : node = program[f].statements[s].value[e]
  OBVIOUS
<1>7. NodeAt(program, a) = node
  BY <1>2, <1>6 DEF NodeAt, StatementAt
<1>8. PrintType(a) \in Todo(program)
  BY <1>1, CallTodo DEF PrintAddresses
<1>9. ASSUME node.kind = "Binary"
      PROVE  /\ Visit(<<f, s, node.lhs>>) \in Todo(program)
             /\ Visit(<<f, s, node.rhs>>) \in Todo(program)
  <2>1. PICK n \in Nat : n = Len(program[f].statements[s].value)
    BY <1>1, <1>2 DEF StatementAt
  <2>2. e \in 1 .. n /\ node.lhs \in 1 .. (e - 2) /\ node.rhs = e - 1
    BY <1>3, <1>5, <1>6, <1>9, <2>1 DEF IsExpression
  <2>3. node.lhs \in 1 .. n /\ node.rhs \in 1 .. n
    BY <2>2
  <2>4. <<f, s, node.lhs>> \in PrintAddresses(program) /\ <<f, s, node.rhs>> \in PrintAddresses(program)
    BY <1>3, <2>1, <2>3, NodeAddress DEF PrintAddresses
  <2> QED BY <2>4, CallTodo
<1>10. ExpressionCalls(a) \in Seq(Todo(program))
  <2>1. << PrintType(a) >> \in Seq(Todo(program))
    BY <1>8
  <2>2. CASE node.kind = "Binary"
    <3>1. ExpressionCalls(a) = << PrintType(a) >> \o << Visit(<<f, s, node.lhs>>),
                                                       Visit(<<f, s, node.rhs>>) >>
      BY <1>2, <1>7, <2>2 DEF ExpressionCalls
    <3>2. << Visit(<<f, s, node.lhs>>), Visit(<<f, s, node.rhs>>) >> \in Seq(Todo(program))
      BY <1>9, <2>2
    <3> QED BY <2>1, <3>1, <3>2
  <2>3. CASE node.kind # "Binary"
    <3>1. ExpressionCalls(a) = << PrintType(a) >> \o << >>
      BY <1>7, <2>3 DEF ExpressionCalls
    <3> QED BY <2>1, <3>1
  <2> QED BY <2>2, <2>3
<1> QED BY <1>2, <1>4, <1>10 DEF VisitCalls

LEMMA VisitTodo ==
  ASSUME IsProgram(program, Names), NEW a \in PrintAddresses(program)
  PROVE  VisitCalls(a) \in Seq(Todo(program))
BY ProgramCalls, FunctionCalls, StatementVisits, ExpressionVisits DEF PrintAddresses, Addresses

LEMMA ValuesLength ==
  ASSUME NEW a
  PROVE  Len(Values(a)) \in Nat
<1>1. ASSUME NEW x PROVE Len(Label(x)) \in Nat
  BY DEF Label
<1> QED BY <1>1 DEF Values

----------------------------------------------------------------------------
(* The invariant: what is printed and what is left to do fit each other.   *)

PrinterInv ==
  /\ program \in Programs
  /\ calls \in Seq(AllCalls(program))
  /\ IsSequence(output) /\ Pieces(output)
  /\ depth \in Nat
  /\ depth = PieceCount(output, "open") - PieceCount(output, "close")
  /\ depth = ClosersIn(calls)
  /\ LinesShowNesting(output)
  /\ printing \in {"waiting", "printing", "printed"}
  /\ printing # "printing" => calls = << >>

LEMMA EmptyStack == ClosersIn(<< >>) = 0
<1>1. PICK t : t = << >>
  OBVIOUS
<1>2. Len(t) = 0
  BY <1>1
<1>3. \A i \in 1 .. Len(t) : t[i].call # "close_node"
  BY <1>2
<1> QED BY <1>1, <1>3, NoCloser

LEMMA EmptyText ==
  /\ IsSequence(<< >>) /\ Pieces(<< >>) /\ LinesShowNesting(<< >>)
  /\ PieceCount(<< >>, "open") = 0 /\ PieceCount(<< >>, "close") = 0
<1>1. PICK t : t = << >>
  OBVIOUS
<1>2. Len(t) = 0 /\ t \in Seq({})
  BY <1>1
<1>3. /\ \A i \in 1 .. Len(t) : t[i].piece # "open"
      /\ \A i \in 1 .. Len(t) : t[i].piece # "close"
  BY <1>2
<1>4. PieceCount(t, "open") = 0 /\ PieceCount(t, "close") = 0
  BY <1>3, NoPiece
<1>5. IsSequence(t) /\ Pieces(t) /\ LinesShowNesting(t)
  BY <1>2 DEF IsSequence, Pieces, LinesShowNesting
<1> QED BY <1>1, <1>4, <1>5

LEMMA PrinterStart == Init => PrinterInv
<1> SUFFICES ASSUME Init PROVE PrinterInv
  OBVIOUS
<1>1. calls = << >> /\ output = << >> /\ depth = 0 /\ printing = "waiting" /\ program \in Programs
  BY DEF Init, TNInit, TCInit
<1>2. calls \in Seq(AllCalls(program))
  BY <1>1
<1> QED BY <1>1, <1>2, EmptyStack, EmptyText DEF PrinterInv

(* The call on top of the stack, and the rest of it.                       *)
LEMMA TopOfStack ==
  ASSUME PrinterInv, calls # << >>
  PROVE  /\ Head(calls).of \in PrintAddresses(program)
         /\ Tail(calls) \in Seq(AllCalls(program)) /\ IsSequence(Tail(calls))
         /\ ClosersIn(Tail(calls)) \in Nat
         /\ depth = ClosersIn(Tail(calls)) + IF Head(calls).call = "close_node" THEN 1 ELSE 0
<1>1. PICK c, t : c = Head(calls) /\ t = Tail(calls)
  OBVIOUS
<1>2. calls \in Seq(AllCalls(program)) /\ IsSequence(calls)
  BY DEF PrinterInv, IsSequence
<1>3. c \in AllCalls(program) /\ t \in Seq(AllCalls(program))
  BY <1>1, <1>2
<1>4. IsSequence(t) /\ calls = << c >> \o t
  BY <1>1, <1>2, HeadAndTail
<1>5. /\ IsSequence(<< c >>)
      /\ ClosersIn(<< c >>) = IF c.call = "close_node" THEN 1 ELSE 0
  BY OneCall
<1>6. PICK u : u = << c >>
  OBVIOUS
<1>7. ClosersIn(t) \in Nat /\ ClosersIn(calls) = ClosersIn(u) + ClosersIn(t)
  BY <1>4, <1>5, <1>6, ClosersAdd
<1>8. depth = (IF c.call = "close_node" THEN 1 ELSE 0) + ClosersIn(t)
  BY <1>5, <1>6, <1>7 DEF PrinterInv
<1>9. c.of \in PrintAddresses(program)
  BY <1>3 DEF AllCalls
<1>10. depth = ClosersIn(t) + IF c.call = "close_node" THEN 1 ELSE 0
  BY <1>7, <1>8
<1>11. ClosersIn(t) \in Nat /\ IsSequence(t)
  BY <1>4, <1>7
<1> QED BY <1>1, <1>3, <1>9, <1>10, <1>11

(* A node begins where a call that is no Closer was on top.                *)
LEMMA BeginKeeps ==
  ASSUME PrinterInv, calls # << >>, printing = "printing", Head(calls).call # "close_node",
         NEW name, NEW values, Len(values) \in Nat, NEW rest \in Seq(Todo(program)),
         Begin(name, values, rest)
  PROVE  PrinterInv'
<1>1. /\ program' = program /\ printing' = printing /\ depth' = depth + 1
      /\ output' = (output \o add_node(name)) \o Written(values)
      /\ calls' = (rest \o << Closer(Callee) >>) \o Tail(calls)
  BY DEF Begin, chk_vars, tc_vars, tn_vars
<1>2. PICK text, node, written : text = output /\ node = add_node(name) /\ written = Written(values)
  OBVIOUS
<1>3. /\ IsSequence(node) /\ Pieces(node)
      /\ PieceCount(node, "open") = 1 /\ PieceCount(node, "close") = 0
      /\ \A j \in 1 .. Len(node) : node[j].piece = "line" =>
           j = 1 /\ node[1].indent = 4 * depth /\ node[1].indent > 0
  BY <1>2, NodePieces DEF PrinterInv
<1>4. /\ IsSequence(written) /\ Pieces(written)
      /\ PieceCount(written, "open") = 0 /\ PieceCount(written, "close") = 0
      /\ \A j \in 1 .. Len(written) : written[j].piece # "line"
  BY <1>2, WrittenPieces
<1>5. /\ IsSequence(text) /\ Pieces(text) /\ LinesShowNesting(text)
      /\ depth = PieceCount(text, "open") - PieceCount(text, "close")
      /\ depth = Nesting(text)
  BY <1>2, NestingCounts DEF PrinterInv
<1>6. PICK half : half = text \o node
  OBVIOUS
<1>7. IsSequence(half) /\ Pieces(half)
  BY <1>3, <1>5, <1>6, Concatenating, PiecesJoined
<1>8. LinesShowNesting(half)
  <2>1. \A j \in 1 .. Len(node) : node[j].piece = "line" =>
          j = 1 /\ node[1].indent = 4 * Nesting(text) /\ node[1].indent > 0
    BY <1>3, <1>5
  <2> QED BY <1>3, <1>5, <1>6, <2>1, LinesAdd
<1>9. PICK whole : whole = half \o written
  OBVIOUS
<1>10. IsSequence(whole) /\ Pieces(whole)
  BY <1>4, <1>7, <1>9, Concatenating, PiecesJoined
<1>11. LinesShowNesting(whole)
  BY <1>4, <1>7, <1>8, <1>9, LinesAdd
<1>12. /\ PieceCount(text, "open") \in Nat /\ PieceCount(text, "close") \in Nat
       /\ PieceCount(half, "open") = PieceCount(text, "open") + 1
       /\ PieceCount(half, "close") = PieceCount(text, "close")
  <2>1. /\ PieceCount(text, "open") \in Nat
        /\ PieceCount(half, "open") = PieceCount(text, "open") + PieceCount(node, "open")
    BY <1>3, <1>5, <1>6, PiecesAdd
  <2>2. /\ PieceCount(text, "close") \in Nat
        /\ PieceCount(half, "close") = PieceCount(text, "close") + PieceCount(node, "close")
    BY <1>3, <1>5, <1>6, PiecesAdd
  <2> QED BY <1>3, <2>1, <2>2
<1>13. /\ PieceCount(whole, "open") = PieceCount(half, "open")
       /\ PieceCount(whole, "close") = PieceCount(half, "close")
  <2>1. PieceCount(whole, "open") = PieceCount(half, "open") + PieceCount(written, "open")
    BY <1>4, <1>7, <1>9, PiecesAdd
  <2>2. PieceCount(whole, "close") = PieceCount(half, "close") + PieceCount(written, "close")
    BY <1>4, <1>7, <1>9, PiecesAdd
  <2> QED BY <1>4, <1>12, <2>1, <2>2
<1>14. depth + 1 = PieceCount(whole, "open") - PieceCount(whole, "close") /\ depth + 1 \in Nat
  <2>1. depth \in Nat
    BY DEF PrinterInv
  <2>2. PICK m \in Nat, k \in Nat : m = PieceCount(text, "open") /\ k = PieceCount(text, "close")
    BY <1>12
  <2>3. depth = m - k
    BY <1>5, <2>2
  <2>4. PieceCount(whole, "open") = m + 1 /\ PieceCount(whole, "close") = k
    BY <1>12, <1>13, <2>2
  <2> QED BY <2>1, <2>3, <2>4
<1>15. output' = whole
  BY <1>1, <1>2, <1>6, <1>9
<1>16. calls' \in Seq(AllCalls(program)) /\ ClosersIn(calls') = depth + 1
  <2>1. PICK closer, tail : closer = << Closer(Callee) >> /\ tail = Tail(calls)
    OBVIOUS
  <2>2. /\ tail \in Seq(AllCalls(program)) /\ IsSequence(tail)
        /\ ClosersIn(tail) \in Nat /\ depth = ClosersIn(tail)
    BY <2>1, TopOfStack
  <2>3. Closer(Callee) \in AllCalls(program) /\ Closer(Callee).call = "close_node"
    BY TopOfStack DEF Closer, Callee, AllCalls, Calls
  <2>4. closer \in Seq(AllCalls(program)) /\ IsSequence(closer) /\ ClosersIn(closer) = 1
    <3>1. closer \in Seq(AllCalls(program))
      BY <2>1, <2>3
    <3>2. PICK call : call = Closer(Callee)
      OBVIOUS
    <3>3. closer = << call >> /\ call.call = "close_node"
      BY <2>1, <2>3, <3>2
    <3> QED BY <3>1, <3>3, OneCall
  <2>5. rest \in Seq(AllCalls(program)) /\ IsSequence(rest) /\ ClosersIn(rest) = 0
    BY TodoNoCloser
  <2>6. PICK first : first = rest \o closer
    OBVIOUS
  <2>7. first \in Seq(AllCalls(program))
    BY <2>4, <2>5, <2>6
  <2>8. IsSequence(first) /\ ClosersIn(first) = 1
    BY <2>4, <2>5, <2>6, Concatenating, ClosersAdd
  <2>9. PICK stack : stack = first \o tail
    OBVIOUS
  <2>10. stack \in Seq(AllCalls(program))
    BY <2>2, <2>7, <2>9
  <2>11. ClosersIn(stack) = ClosersIn(first) + ClosersIn(tail)
    BY <2>2, <2>8, <2>9, ClosersAdd
  <2>12. calls' = stack
    BY <1>1, <2>1, <2>6, <2>9
  <2>13. ClosersIn(stack) = depth + 1
    BY <2>2, <2>8, <2>11
  <2> QED BY <2>10, <2>12, <2>13
<1> QED BY <1>1, <1>10, <1>11, <1>14, <1>15, <1>16 DEF PrinterInv

LEMMA CloseKeeps ==
  ASSUME PrinterInv, CloseNode
  PROVE  PrinterInv'
<1>1. /\ program' = program /\ printing' = printing /\ depth' = depth - 1
      /\ output' = Append(output, ClosingParen) /\ calls' = Tail(calls)
      /\ calls # << >> /\ printing = "printing" /\ Head(calls).call = "close_node"
  BY DEF CloseNode, Calling, chk_vars, tc_vars, tn_vars
<1>2. /\ Tail(calls) \in Seq(AllCalls(program)) /\ ClosersIn(Tail(calls)) \in Nat
      /\ depth = ClosersIn(Tail(calls)) + 1
  BY <1>1, TopOfStack
<1>3. PICK text, paren, pieces : text = output /\ paren = ClosingParen /\ pieces = << paren >>
  OBVIOUS
<1>4. /\ IsSequence(text) /\ Pieces(text) /\ LinesShowNesting(text)
      /\ depth = PieceCount(text, "open") - PieceCount(text, "close")
  BY <1>3 DEF PrinterInv
<1>5. pieces \in Seq({paren}) /\ Len(pieces) = 1 /\ pieces[1] = paren /\ paren.piece = "close"
  BY <1>3 DEF ClosingParen
<1>6. IsSequence(pieces) /\ Pieces(pieces)
  BY <1>5 DEF IsSequence, Pieces
<1>7. PieceCount(pieces, "open") = 0
  <2>1. \A i \in 1 .. Len(pieces) : pieces[i].piece # "open"
    BY <1>5
  <2> QED BY <2>1, NoPiece
<1>8. PieceCount(pieces, "close") = 1
  <2>1. 1 \in 1 .. Len(pieces) /\ \A i \in 1 .. Len(pieces) : i # 1 => pieces[i].piece # "close"
    BY <1>5
  <2> QED BY <1>5, <2>1, OnePiece
<1>9. PICK whole : whole = text \o pieces
  OBVIOUS
<1>10. output' = whole
  <2>1. PICK S : text \in Seq(S)
    BY <1>4 DEF IsSequence
  <2>2. Append(text, paren) = text \o << paren >>
    BY <2>1
  <2> QED BY <1>1, <1>3, <1>9, <2>2
<1>11. IsSequence(whole) /\ Pieces(whole)
  BY <1>4, <1>6, <1>9, Concatenating, PiecesJoined
<1>12. LinesShowNesting(whole)
  <2>1. \A j \in 1 .. Len(pieces) : pieces[j].piece # "line"
    BY <1>5
  <2> QED BY <1>4, <1>6, <1>9, <2>1, LinesAdd
<1>13. /\ PieceCount(text, "open") \in Nat
       /\ PieceCount(whole, "open") = PieceCount(text, "open") + PieceCount(pieces, "open")
  BY <1>4, <1>6, <1>9, PiecesAdd
<1>14. /\ PieceCount(text, "close") \in Nat
       /\ PieceCount(whole, "close") = PieceCount(text, "close") + PieceCount(pieces, "close")
  BY <1>4, <1>6, <1>9, PiecesAdd
<1>15. depth - 1 = PieceCount(whole, "open") - PieceCount(whole, "close") /\ depth - 1 \in Nat
  <2>1. PICK m \in Nat, k \in Nat : m = PieceCount(text, "open") /\ k = PieceCount(text, "close")
    BY <1>13, <1>14
  <2>2. depth = m - k
    BY <1>4, <2>1
  <2>3. PieceCount(whole, "open") = m /\ PieceCount(whole, "close") = k + 1
    BY <1>7, <1>8, <1>13, <1>14, <2>1
  <2>4. PICK d \in Nat : d = ClosersIn(Tail(calls)) /\ depth = d + 1
    BY <1>2
  <2> QED BY <2>2, <2>3, <2>4
<1>16. depth - 1 = ClosersIn(Tail(calls))
  BY <1>2
<1> QED BY <1>1, <1>2, <1>10, <1>11, <1>12, <1>15, <1>16 DEF PrinterInv

(* What is done to the names comes with a step of the checker.             *)
LEMMA NamedSteps ==
  ASSUME NamedNext
  PROVE  TCNext
<1>1. NameLiteral \/ NameVariable \/ NameCall \/ NameBinary => VisitNode
  BY DEF NameLiteral, NameVariable, NameCall, NameBinary, VisitNode
<1>2. NameDeclaration \/ NameAssignment \/ NameReturn => ExitStatement
  BY DEF NameDeclaration, NameAssignment, NameReturn, ExitStatement
<1>3. NameFunction => EnterFunction
  BY DEF NameFunction
<1>4. NameEntry => EnterStatement
  BY DEF NameEntry
<1>5. NameNothing => ExitStatement \/ FinishCheck
  BY DEF NameNothing, ExitStatement
<1> QED BY <1>1, <1>2, <1>3, <1>4, <1>5 DEF NamedNext, TCNext

LEMMA PrinterStep == PrinterInv /\ [Next \/ Done]_vars => PrinterInv'
<1> SUFFICES ASSUME PrinterInv, [Next \/ Done]_vars PROVE PrinterInv'
  OBVIOUS
<1>0. IsProgram(program, Names)
  BY ProgramsAssumption DEF PrinterInv
<1>1. CASE NamedNext /\ UNCHANGED pr_vars
  <2>1. program' = program
    BY <1>1, NamedSteps, ProgramFixed
  <2>2. calls' = calls /\ depth' = depth /\ output' = output /\ printing' = printing
    BY <1>1 DEF pr_vars
  <2> QED BY <2>1, <2>2 DEF PrinterInv
<1>2. CASE StartPrinting
  <2>1. /\ program' = program /\ depth' = depth /\ output' = output /\ printing' = "printing"
        /\ calls' = << Visit(Root) >> /\ calls = << >>
    BY <1>2 DEF StartPrinting, chk_vars, tc_vars, tn_vars, PrinterInv
  <2>2. PICK call : call = Visit(Root)
    OBVIOUS
  <2>3. call \in AllCalls(program) /\ call.call # "close_node"
    BY <2>2 DEF Visit, AllCalls, Calls, PrintAddresses
  <2>4. << call >> \in Seq(AllCalls(program)) /\ ClosersIn(<< call >>) = 0
    BY <2>3, OneCall
  <2>5. depth = 0
    BY <2>1, EmptyStack DEF PrinterInv
  <2> QED BY <2>1, <2>2, <2>4, <2>5 DEF PrinterInv
<1>3. CASE PrintNode
  <2>1. PICK name, values, rest :
          name = Name(Callee) /\ values = Values(Callee) /\ rest = VisitCalls(Callee)
    OBVIOUS
  <2>2. calls # << >> /\ printing = "printing" /\ Head(calls).call # "close_node"
    BY <1>3 DEF PrintNode, Calling
  <2>3. Callee \in PrintAddresses(program)
    BY <2>2, TopOfStack DEF Callee
  <2>4. rest \in Seq(Todo(program))
    BY <1>0, <2>1, <2>3, VisitTodo
  <2>5. Len(values) \in Nat
    BY <2>1, ValuesLength
  <2>6. Begin(name, values, rest)
    BY <1>3, <2>1 DEF PrintNode
  <2> QED BY <2>2, <2>4, <2>5, <2>6, BeginKeeps
<1>4. CASE PrintTypeExpression
  <2>1. PICK value : value = StatementAt(program, Callee).annotation
    OBVIOUS
  <2>2. calls # << >> /\ printing = "printing" /\ Head(calls).call # "close_node"
    BY <1>4 DEF PrintTypeExpression, Calling
  <2>3. Begin("TypeExpression", << value >>, << >>)
    BY <1>4, <2>1 DEF PrintTypeExpression
  <2>4. Len(<< value >>) \in Nat /\ << >> \in Seq(Todo(program))
    OBVIOUS
  <2> QED BY <2>2, <2>3, <2>4, BeginKeeps
<1>5. CASE PrintResolvedType
  <2>1. calls # << >> /\ printing = "printing" /\ Head(calls).call # "close_node"
    BY <1>5 DEF PrintResolvedType, Calling
  <2>2. CASE resolved_type[Callee] = NoType
    <3>1. /\ program' = program /\ depth' = depth /\ output' = output /\ printing' = printing
          /\ calls' = Tail(calls)
      BY <1>5, <2>2 DEF PrintResolvedType, chk_vars, tc_vars, tn_vars
    <3>2. Tail(calls) \in Seq(AllCalls(program)) /\ depth = ClosersIn(Tail(calls))
      BY <2>1, TopOfStack
    <3> QED BY <2>1, <3>1, <3>2 DEF PrinterInv
  <2>3. CASE resolved_type[Callee] # NoType
    <3>1. PICK value : value = identifiers[Callee]
      OBVIOUS
    <3>2. Begin("ResolvedType", << value >>, << >>)
      BY <1>5, <2>3, <3>1 DEF PrintResolvedType
    <3>3. Len(<< value >>) \in Nat /\ << >> \in Seq(Todo(program))
      OBVIOUS
    <3> QED BY <2>1, <3>2, <3>3, BeginKeeps
  <2> QED BY <2>2, <2>3
<1>6. CASE CloseNode
  BY <1>6, CloseKeeps
<1>7. CASE FinishPrinting
  <2>1. /\ program' = program /\ depth' = depth /\ output' = output /\ calls' = calls
        /\ printing' = "printed" /\ calls = << >>
    BY <1>7 DEF FinishPrinting, chk_vars, tc_vars, tn_vars
  <2> QED BY <2>1 DEF PrinterInv
<1>8. CASE Done \/ UNCHANGED vars
  <2>1. /\ program' = program /\ depth' = depth /\ output' = output /\ calls' = calls
        /\ printing' = printing
    BY <1>8 DEF Done, vars, chk_vars, tc_vars, tn_vars, pr_vars
  <2> QED BY <2>1 DEF PrinterInv
<1> QED BY <1>1, <1>2, <1>3, <1>4, <1>5, <1>6, <1>7, <1>8 DEF Next, PrintNext

LEMMA PrinterAlways == Spec => []PrinterInv
<1>1. PrinterInv /\ [Next \/ Done]_vars => PrinterInv'
  BY PrinterStep
<1> QED BY <1>1, PrinterStart, PTL DEF Spec

(* The stack holds calls on nodes of the tree, and the text its pieces,    *)
(* whatever the program.                                                   *)
THEOREM PrinterTypeCorrect == Spec => []TypeOK
<1>1. PrinterInv => TypeOK
  <2> SUFFICES ASSUME PrinterInv PROVE TypeOK
    OBVIOUS
  <2>1. \A i \in 1 .. Len(calls) : calls[i] \in AllCalls(program)
    BY DEF PrinterInv
  <2>2. \A i \in 1 .. Len(calls) :
          calls[i].call \in Calls /\ calls[i].of \in PrintAddresses(program)
    BY <2>1 DEF AllCalls
  <2>3. \A i \in 1 .. Len(output) : output[i].piece \in {"line", "open", "value", "close"}
    BY DEF PrinterInv, Pieces
  <2> QED BY <2>2, <2>3 DEF PrinterInv, TypeOK
<1> QED BY <1>1, PrinterAlways, PTL

(* In the text of any program every line is indented by four for each node *)
(* open around it, and every node that began is closed exactly once: the   *)
(* depth counts the Closers still to run, and is zero at the end.          *)
THEOREM LayoutFollows == Spec => []LayoutShowsNesting
<1>1. PrinterInv => LayoutShowsNesting
  <2> SUFFICES ASSUME PrinterInv PROVE LayoutShowsNesting
    OBVIOUS
  <2>1. depth = Nesting(output)
    BY NestingCounts DEF PrinterInv
  <2>2. depth = Cardinality({ i \in 1 .. Len(calls) : calls[i].call = "close_node" })
    BY DEF PrinterInv, ClosersIn
  <2>3. \A i \in 1 .. Len(output) : output[i].piece = "line" =>
          /\ output[i].indent = 4 * Nesting(SubSeq(output, 1, i - 1))
          /\ output[i].indent > 0
    BY DEF PrinterInv, LinesShowNesting
  <2>4. printing = "printed" => depth = 0
    BY EmptyStack DEF PrinterInv
  <2> QED BY <2>1, <2>2, <2>3, <2>4 DEF LayoutShowsNesting
<1> QED BY <1>1, PrinterAlways, PTL

----------------------------------------------------------------------------
(* Reading the text back.  The nodes below a node are visited one after    *)
(* the other up to it; First is where that begins.                         *)
Owned(e, k, i) == \E o \in k + 1 .. i : IsOperand(e, k, o)

Spans(e, s, i)   == \A k \in s .. i - 1 : Owned(e, k, i)
Begins(e, s, i) == s \in 1 .. i /\ Spans(e, s, i) /\ (s > 1 => ~Owned(e, s - 1, i))

First(e, i) == CHOOSE s : Begins(e, s, i)

LEMMA FirstIs ==
  ASSUME NEW e, NEW i \in Nat \ {0}, NEW s, Begins(e, s, i)
  PROVE  First(e, i) = s
<1>1. PICK f : f = First(e, i)
  OBVIOUS
<1>2. Begins(e, f, i)
  BY <1>1 DEF First
<1>3. f \in 1 .. i /\ s \in 1 .. i
  BY <1>2 DEF Begins
<1>4. ~(f < s)
  <2> SUFFICES ASSUME f < s PROVE FALSE
    OBVIOUS
  <2>1. s - 1 \in f .. i - 1 /\ s > 1
    BY <1>3
  <2> QED BY <1>2, <2>1 DEF Begins, Spans
<1>5. ~(s < f)
  <2> SUFFICES ASSUME s < f PROVE FALSE
    OBVIOUS
  <2>1. f - 1 \in s .. i - 1 /\ f > 1
    BY <1>3
  <2> QED BY <1>2, <2>1 DEF Begins, Spans
<1> QED BY <1>1, <1>3, <1>4, <1>5

LEMMA FirstBegins ==
  ASSUME NEW e, NEW i \in Nat \ {0}
  PROVE  Begins(e, First(e, i), i)
<1> DEFINE T == { s \in 1 .. i : Spans(e, s, i) }
<1>1. i \in T
  BY DEF Spans
<1>2. T \subseteq Nat /\ T # {}
  BY <1>1
<1>3. PICK s \in T : \A t \in T : s <= t
  BY <1>2, Smallest
<1>4. s \in 1 .. i /\ Spans(e, s, i)
  OBVIOUS
<1>5. ASSUME s > 1, Owned(e, s - 1, i) PROVE FALSE
  <2>1. s - 1 \in 1 .. i
    BY <1>4, <1>5
  <2>2. ASSUME NEW k \in s - 1 .. i - 1 PROVE Owned(e, k, i)
    <3>1. CASE k = s - 1
      BY <1>5, <3>1
    <3>2. CASE k # s - 1
      <4>1. k \in s .. i - 1
        BY <1>4, <3>2
      <4> QED BY <1>4, <4>1 DEF Spans
    <3> QED BY <3>1, <3>2
  <2>3. s - 1 \in T
    BY <2>1, <2>2 DEF Spans
  <2>4. s <= s - 1
    BY <1>3, <2>3
  <2> QED BY <1>4, <2>4
<1>6. Begins(e, s, i)
  BY <1>4, <1>5 DEF Begins
<1>7. \E t : Begins(e, t, i)
  BY <1>6
<1> QED BY <1>7, Zenon DEF First

(* Every node has one owner.                                               *)
LEMMA OneOwner ==
  ASSUME NEW e, IsExpression(e, Names), NEW k \in 1 .. Len(e),
         NEW o \in 1 .. Len(e), IsOperand(e, k, o), NEW p \in 1 .. Len(e), IsOperand(e, k, p)
  PROVE  o = p /\ k < o
<1>1. Len(e) \in Nat \ {0}
  BY DEF IsExpression
<1>2. e[o].kind = "Binary" /\ k \in {e[o].lhs, e[o].rhs}
  BY DEF IsOperand
<1>3. e[o].lhs \in 1 .. o - 2 /\ e[o].rhs = o - 1
  BY <1>2 DEF IsExpression
<1>4. k < o /\ k < Len(e)
  <2>1. PICK n \in Nat : n = Len(e) /\ o \in 1 .. n
    BY <1>1
  <2>2. k < o
    <3>1. CASE k = e[o].lhs
      BY <1>3, <2>1, <3>1
    <3>2. CASE k = e[o].rhs
      BY <1>3, <2>1, <3>2
    <3> QED BY <1>2, <3>1, <3>2
  <2> QED BY <2>1, <2>2
<1>5. \E j \in (k + 1) .. Len(e) : \A h \in 1 .. Len(e) : IsOperand(e, k, h) => h = j
  BY <1>4 DEF IsExpression
<1> QED BY <1>4, <1>5

LEMMA LeafFirst ==
  ASSUME NEW e, IsExpression(e, Names), NEW i \in 1 .. Len(e), e[i].kind # "Binary"
  PROVE  First(e, i) = i
<1>1. Len(e) \in Nat \ {0} /\ i \in Nat \ {0}
  BY DEF IsExpression
<1>2. ~Owned(e, i - 1, i)
  <2> SUFFICES ASSUME Owned(e, i - 1, i) PROVE FALSE
    OBVIOUS
  <2>1. PICK o \in i - 1 + 1 .. i : IsOperand(e, i - 1, o)
    BY DEF Owned
  <2>2. o = i
    BY <1>1, <2>1
  <2> QED BY <2>1, <2>2 DEF IsOperand
<1>3. Begins(e, i, i)
  BY <1>1, <1>2 DEF Begins, Spans
<1> QED BY <1>1, <1>3, FirstIs

(* Between the operands of a node are the nodes of the right one.          *)
LEMMA OperandsFirst ==
  ASSUME NEW e, IsExpression(e, Names), NEW i \in 1 .. Len(e), e[i].kind = "Binary"
  PROVE  /\ e[i].lhs \in 1 .. i - 2 /\ e[i].rhs = i - 1
         /\ First(e, i - 1) = e[i].lhs + 1
         /\ First(e, i) = First(e, e[i].lhs)
<1>1. PICK l, n : l = e[i].lhs /\ n = Len(e)
  OBVIOUS
<1>2. n \in Nat \ {0} /\ i \in 1 .. n /\ l \in 1 .. i - 2 /\ e[i].rhs = i - 1
  BY <1>1 DEF IsExpression
<1>3. /\ IsOperand(e, l, i) /\ IsOperand(e, i - 1, i)
      /\ \A k : IsOperand(e, k, i) => k \in {l, i - 1}
  BY <1>1, <1>2 DEF IsOperand
<1>4. \A k \in l + 1 .. i - 1 : Owned(e, k, i)
  BY <1>1, <1>2 DEF IsExpression, VisitsInOrder, Owned
<1>5. l \in Nat \ {0} /\ i - 1 \in Nat \ {0} /\ i \in Nat \ {0} /\ l \in 1 .. n
  BY <1>2
<1>6. Begins(e, l + 1, i - 1)
  <2>1. ASSUME NEW k \in l + 1 .. i - 2 PROVE Owned(e, k, i - 1)
    <3>1. PICK o \in k + 1 .. i : IsOperand(e, k, o)
      BY <1>2, <1>4 DEF Owned
    <3>2. o # i
      BY <1>2, <1>3, <3>1
    <3>3. o \in k + 1 .. i - 1
      BY <1>2, <3>1, <3>2
    <3> QED BY <3>1, <3>3 DEF Owned
  <2>2. ~Owned(e, l, i - 1)
    <3> SUFFICES ASSUME Owned(e, l, i - 1) PROVE FALSE
      OBVIOUS
    <3>1. PICK o \in l + 1 .. i - 1 : IsOperand(e, l, o)
      BY DEF Owned
    <3>2. o \in 1 .. Len(e) /\ l \in 1 .. Len(e) /\ o # i
      BY <1>1, <1>2, <1>5, <3>1
    <3> QED BY <1>3, <3>1, <3>2, OneOwner
  <2>3. PICK t, j : t = l + 1 /\ j = i - 1
    OBVIOUS
  <2>4. l + 1 .. i - 2 = t .. j - 1 /\ t - 1 = l /\ t \in 1 .. j
    BY <1>2, <2>3
  <2>5. \A k \in t .. j - 1 : Owned(e, k, j)
    BY <2>1, <2>3, <2>4
  <2>6. Begins(e, t, j)
    BY <2>2, <2>3, <2>4, <2>5 DEF Begins, Spans
  <2> QED BY <2>3, <2>6
<1>7. First(e, i - 1) = l + 1
  BY <1>5, <1>6, FirstIs
<1>8. PICK s : s = First(e, l)
  OBVIOUS
<1>9. Begins(e, s, l)
  BY <1>5, <1>8, FirstBegins
<1>10. Begins(e, s, i)
  <2>1. s \in 1 .. l /\ s \in 1 .. i
    BY <1>2, <1>9 DEF Begins
  <2>2. ASSUME NEW k \in s .. i - 1 PROVE Owned(e, k, i)
    <3>1. CASE k < l
      <4>1. k \in s .. l - 1
        BY <1>2, <2>1, <3>1
      <4>2. PICK o \in k + 1 .. l : IsOperand(e, k, o)
        BY <1>9, <4>1 DEF Begins, Spans, Owned
      <4>3. o \in k + 1 .. i
        BY <1>2, <2>1, <4>2
      <4> QED BY <4>2, <4>3 DEF Owned
    <3>2. CASE k = l
      <4>1. i \in k + 1 .. i
        BY <1>2, <3>2
      <4> QED BY <1>3, <3>2, <4>1 DEF Owned
    <3>3. CASE k > l
      <4>1. k \in l + 1 .. i - 1
        BY <1>2, <2>1, <3>3
      <4> QED BY <1>4, <4>1
    <3> QED BY <1>2, <2>1, <3>1, <3>2, <3>3
  <2>3. ASSUME s > 1, Owned(e, s - 1, i) PROVE FALSE
    <3>1. PICK k : k = s - 1
      OBVIOUS
    <3>2. k \in 1 .. l - 1 /\ k + 1 = s /\ ~Owned(e, k, l)
      BY <1>2, <1>9, <2>1, <2>3, <3>1 DEF Begins
    <3>3. PICK o \in k + 1 .. i : IsOperand(e, k, o)
      BY <2>3, <3>1 DEF Owned
    <3>4. o > l
      <4> SUFFICES ASSUME ~(o > l) PROVE FALSE
        OBVIOUS
      <4>1. o \in k + 1 .. l
        BY <1>2, <3>2, <3>3
      <4> QED BY <3>2, <3>3, <4>1 DEF Owned
    <3>5. o # i
      BY <1>2, <1>3, <3>2, <3>3
    <3>6. o \in 1 .. Len(e) /\ e[o].kind = "Binary" /\ k \in {e[o].lhs, e[o].rhs} /\ o < i
      BY <1>1, <1>2, <3>2, <3>3, <3>5 DEF IsOperand
    <3>7. e[o].lhs \in 1 .. o - 2 /\ e[o].rhs = o - 1
      BY <3>6 DEF IsExpression
    <3>8. k = e[o].lhs
      BY <1>2, <3>2, <3>4, <3>6, <3>7
    <3>9. l \in e[o].lhs + 1 .. o - 1
      <4>1. k \in Int /\ k + 1 <= l /\ o \in Int /\ l \in Int /\ l <= o - 1
        BY <1>2, <3>2, <3>4, <3>6
      <4>2. l \in k + 1 .. o - 1
        BY <4>1
      <4> QED BY <3>8, <4>2
    <3>10. \E p \in l + 1 .. o : IsOperand(e, l, p)
      BY <3>6, <3>9 DEF IsExpression, VisitsInOrder
    <3>11. PICK p \in l + 1 .. o : IsOperand(e, l, p)
      BY <3>10
    <3>12. p \in 1 .. Len(e) /\ p # i /\ l \in 1 .. Len(e)
      BY <1>1, <1>2, <1>5, <3>6, <3>11
    <3> QED BY <1>3, <3>11, <3>12, OneOwner
  <2> QED BY <2>1, <2>2, <2>3 DEF Begins, Spans
<1>11. First(e, i) = s
  BY <1>5, <1>10, FirstIs
<1> QED BY <1>1, <1>2, <1>7, <1>8, <1>11

LEMMA RootFirst ==
  ASSUME NEW e, IsExpression(e, Names)
  PROVE  First(e, Len(e)) = 1
<1>1. PICK n : n = Len(e)
  OBVIOUS
<1>2. n \in Nat \ {0}
  BY <1>1 DEF IsExpression
<1>3. ASSUME NEW k \in 1 .. n - 1 PROVE Owned(e, k, n)
  <2>1. k \in 1 .. Len(e) /\ k < Len(e)
    BY <1>1, <1>2
  <2>2. \E j \in (k + 1) .. Len(e) : IsOperand(e, k, j)
    BY <2>1 DEF IsExpression
  <2> QED BY <1>1, <2>2 DEF Owned
<1>4. Begins(e, 1, n)
  BY <1>2, <1>3 DEF Begins, Spans
<1> QED BY <1>1, <1>2, <1>4, FirstIs

----------------------------------------------------------------------------
(* Parts of sequences.                                                     *)
LEMMA SameSequence ==
  ASSUME NEW s, IsSequence(s), NEW t, IsSequence(t), Len(s) = Len(t),
         \A i \in 1 .. Len(s) : s[i] = t[i]
  PROVE  s = t
<1>1. PICK S, T : s \in Seq(S) /\ t \in Seq(T)
  BY DEF IsSequence
<1> DEFINE U == S \cup T
<1>2. s \in Seq(U) /\ t \in Seq(U)
  <2>1. Len(s) \in Nat /\ s \in [1 .. Len(s) -> S] /\ Len(t) \in Nat /\ t \in [1 .. Len(t) -> T]
    BY <1>1
  <2>2. s \in [1 .. Len(s) -> U] /\ t \in [1 .. Len(t) -> U]
    BY <2>1
  <2> QED BY <2>1, <2>2
<1> HIDE DEF U
<1> QED BY <1>2, SeqEqual

Joined(v, s, m, t, n) ==
  /\ IsSequence(v) /\ Len(v) = m + n
  /\ \A i \in 1 .. m : v[i] = s[i]
  /\ \A j \in 1 .. n : v[m + j] = t[j]

LEMMA Concatenated ==
  ASSUME NEW s, IsSequence(s), NEW t, IsSequence(t), NEW m, m = Len(s), NEW n, n = Len(t)
  PROVE  m \in Nat /\ n \in Nat /\ Joined(s \o t, s, m, t, n)
<1>1. PICK v : v = s \o t
  OBVIOUS
<1>2. IsSequence(v) /\ m \in Nat /\ n \in Nat
  BY <1>1, Concatenating
<1>3. Len(v) = m + n
  BY <1>1, Concatenating
<1>4. \A i \in 1 .. m : v[i] = s[i]
  BY <1>1, Concatenating
<1>5. \A j \in 1 .. n : v[m + j] = t[j]
  BY <1>1, Concatenating
<1> QED BY <1>1, <1>2, <1>3, <1>4, <1>5 DEF Joined

LEMMA OneElement ==
  ASSUME NEW x, NEW s, s = << x >>
  PROVE  IsSequence(s) /\ Len(s) = 1 /\ s[1] = x
<1>1. s \in Seq({x}) /\ Len(s) = 1 /\ s[1] = x
  OBVIOUS
<1> QED BY <1>1 DEF IsSequence

LEMMA BehindOne ==
  ASSUME NEW x, NEW rest, IsSequence(rest), NEW n, n = Len(rest), NEW v, v = << x >> \o rest
  PROVE  v[1] = x /\ \A k \in 1 .. n : v[k + 1] = rest[k]
<1>1. PICK first : first = << x >>
  OBVIOUS
<1>2. IsSequence(first) /\ Len(first) = 1 /\ first[1] = x
  BY <1>1, OneElement
<1>3. n \in Nat /\ Joined(v, first, 1, rest, n)
  BY <1>1, <1>2, Concatenated
<1>4. v[1] = first[1]
  BY <1>3 DEF Joined
<1>5. \A k \in 1 .. n : v[k + 1] = rest[k]
  <2>1. \A k \in 1 .. n : v[1 + k] = rest[k] /\ 1 + k = k + 1
    BY <1>3 DEF Joined
  <2> QED BY <2>1
<1> QED BY <1>2, <1>4, <1>5

(* What stands from place s to place i.                                    *)
Slice(h, s, i) == [k \in 1 .. i - s + 1 |-> h[s + k - 1]]

IsSlice(v, h, s, n) ==
  IsSequence(v) /\ Len(v) = n /\ \A k \in 1 .. n : v[k] = h[s + k - 1]

LEMMA SliceIs ==
  ASSUME NEW h, NEW s \in Nat, NEW i \in Nat, NEW n \in Nat, n = i - s + 1
  PROVE  IsSlice(Slice(h, s, i), h, s, n)
<1>0. PICK v : v = Slice(h, s, i)
  OBVIOUS
<1>1. v = [k \in 1 .. n |-> h[s + k - 1]]
  BY <1>0 DEF Slice
<1> DEFINE S == { h[s + k - 1] : k \in 1 .. n }
<1>2. \A k \in 1 .. n : h[s + k - 1] \in S
  OBVIOUS
<1> HIDE DEF S
<1>3. \A k \in 1 .. n : v[k] = h[s + k - 1]
  BY <1>1
<1>4. v \in [1 .. n -> S]
  BY <1>1, <1>2
<1>5. v \in Seq(S) /\ Len(v) = n
  BY <1>4
<1>6. IsSlice(v, h, s, n)
  BY <1>3, <1>5 DEF IsSequence, IsSlice
<1> QED BY <1>0, <1>6

LEMMA SlicesJoin ==
  ASSUME NEW h, NEW s \in Nat, NEW l \in Nat, NEW i \in Nat, s <= l, l < i - 1
  PROVE  (Slice(h, s, l) \o Slice(h, l + 1, i - 1)) \o << h[i] >> = Slice(h, s, i)
<1>1. PICK a, b, c, d : /\ a = Slice(h, s, l) /\ b = Slice(h, l + 1, i - 1)
                        /\ c = << h[i] >> /\ d = Slice(h, s, i)
  OBVIOUS
<1>2. PICK x, y : x = a \o b /\ y = x \o c
  OBVIOUS
<1>3. PICK m \in Nat, n \in Nat : m = l - s + 1 /\ n = (i - 1) - (l + 1) + 1
  OBVIOUS
<1>4. PICK z \in Nat : z = m + n /\ z + 1 = i - s + 1 /\ z + 1 \in Nat
  BY <1>3
<1>5. IsSlice(a, h, s, m)
  BY <1>1, <1>3, SliceIs
<1>6. IsSlice(b, h, l + 1, n)
  <2>1. PICK t \in Nat, j \in Nat : t = l + 1 /\ j = i - 1
    OBVIOUS
  <2>2. n = j - t + 1 /\ b = Slice(h, t, j)
    BY <1>1, <1>3, <2>1
  <2> QED BY <2>1, <2>2, SliceIs
<1>7. IsSlice(d, h, s, z + 1)
  BY <1>1, <1>4, SliceIs
<1>8. IsSequence(c) /\ Len(c) = 1 /\ c[1] = h[i]
  BY <1>1, OneElement
<1>9. Joined(x, a, m, b, n)
  BY <1>2, <1>5, <1>6, Concatenated DEF IsSlice
<1>10. Joined(y, x, z, c, 1)
  <2>1. IsSequence(x) /\ Len(x) = z
    BY <1>4, <1>9 DEF Joined
  <2> QED BY <1>2, <1>8, <2>1, Concatenated
<1>11. ASSUME NEW k \in 1 .. z + 1 PROVE y[k] = d[k]
  <2>1. d[k] = h[s + k - 1]
    BY <1>7 DEF IsSlice
  <2>2. CASE k \in 1 .. m
    <3>1. k \in 1 .. z
      BY <1>4, <2>2
    <3>2. y[k] = x[k] /\ x[k] = a[k] /\ a[k] = h[s + k - 1]
      BY <1>5, <1>9, <1>10, <2>2, <3>1 DEF IsSlice, Joined
    <3> QED BY <2>1, <3>2
  <2>3. CASE k \in m + 1 .. z
    <3>1. PICK j : j = k - m
      OBVIOUS
    <3>2. j \in 1 .. n /\ k = m + j /\ (l + 1) + j - 1 = s + k - 1 /\ k \in 1 .. z
      BY <1>3, <1>4, <2>3, <3>1
    <3>3. y[k] = x[k]
      BY <1>10, <3>2 DEF Joined
    <3>4. x[k] = b[j]
      BY <1>9, <3>2 DEF Joined
    <3>5. b[j] = h[(l + 1) + j - 1]
      BY <1>6, <3>2 DEF IsSlice
    <3> QED BY <2>1, <3>2, <3>3, <3>4, <3>5
  <2>4. CASE k = z + 1
    <3>1. s + k - 1 = i
      BY <1>4, <2>4
    <3>2. y[z + 1] = c[1]
      BY <1>10 DEF Joined
    <3> QED BY <1>8, <2>1, <2>4, <3>1, <3>2
  <2> QED BY <1>4, <2>2, <2>3, <2>4
<1>12. y = d
  <2>1. IsSequence(y) /\ Len(y) = z + 1 /\ IsSequence(d) /\ Len(d) = z + 1
    BY <1>7, <1>10 DEF IsSlice, Joined
  <2> QED BY <1>11, <2>1, SameSequence
<1> QED BY <1>1, <1>2, <1>12

LEMMA WholeSlice ==
  ASSUME NEW n \in Nat, NEW h, IsSequence(h), Len(h) = n
  PROVE  Slice(h, 1, n) = h
<1>1. PICK v : v = Slice(h, 1, n)
  OBVIOUS
<1>2. IsSlice(v, h, 1, n)
  <2>1. n = n - 1 + 1 /\ 1 \in Nat
    OBVIOUS
  <2> QED BY <1>1, <2>1, SliceIs
<1>3. \A k \in 1 .. n : 1 + k - 1 = k
  OBVIOUS
<1>4. IsSequence(v) /\ Len(v) = n /\ \A k \in 1 .. n : v[k] = h[k]
  BY <1>2, <1>3 DEF IsSlice
<1>5. v = h
  BY <1>4, SameSequence
<1> QED BY <1>1, <1>5

LEMMA OneSlice ==
  ASSUME NEW h, NEW i \in Nat
  PROVE  Slice(h, i, i) = << h[i] >>
<1>1. PICK v, w : v = Slice(h, i, i) /\ w = << h[i] >>
  OBVIOUS
<1>2. IsSlice(v, h, i, 1)
  <2>1. 1 = i - i + 1 /\ 1 \in Nat
    OBVIOUS
  <2> QED BY <1>1, <2>1, SliceIs
<1>3. IsSequence(v) /\ Len(v) = 1 /\ v[1] = h[i]
  <2>1. i + 1 - 1 = i
    OBVIOUS
  <2> QED BY <1>2, <2>1 DEF IsSlice
<1>4. IsSequence(w) /\ Len(w) = 1 /\ w[1] = h[i]
  BY <1>1, OneElement
<1>5. v = w
  BY <1>3, <1>4, SameSequence
<1> QED BY <1>1, <1>5

----------------------------------------------------------------------------
(* The tree below a node, made of the nodes visited up to it.              *)
Lowered(node, by) ==
  IF node.kind = "Binary" THEN Binary(node.op, node.lhs - by, node.rhs - by) ELSE node

Raised(node, by) ==
  IF node.kind = "Binary" THEN Binary(node.op, node.lhs + by, node.rhs + by) ELSE node

Numbered(node) == node.kind = "Binary" => node.lhs \in Int /\ node.rhs \in Int

Below(e, by) == [k \in 1 .. Len(e) |-> Lowered(NodeOf(e[k]), by)]
TreeOf(e, i) == Slice(Below(e, First(e, i) - 1), First(e, i), i)

LEMMA NodeRebuilt ==
  ASSUME NEW n
  PROVE  /\ n.kind = "Binary" => NodeOf(n) = Binary(n.op, n.lhs, n.rhs)
         /\ NodeOf(n).kind = n.kind
BY DEF NodeOf, Variable, FunctionCall, Binary

(* A node that is lowered below its right operand's first node and moved   *)
(* behind the left operand, as Join does.                                  *)
LEMMA NodeMoved ==
  ASSUME NEW n, Numbered(n), NEW l \in Nat, NEW s \in Nat
  PROVE  Raised(Lowered(NodeOf(n), l), l - s + 1) = Lowered(NodeOf(n), s - 1)
<1>0. PICK x, m : x = Lowered(NodeOf(n), l) /\ m = l - s + 1
  OBVIOUS
<1>1. CASE n.kind = "Binary"
  <2>1. NodeOf(n) = Binary(n.op, n.lhs, n.rhs)
    BY <1>1, NodeRebuilt
  <2>2. x = Binary(n.op, n.lhs - l, n.rhs - l)
    BY <1>0, <2>1 DEF Lowered, Binary
  <2>3. Lowered(NodeOf(n), s - 1) = Binary(n.op, n.lhs - (s - 1), n.rhs - (s - 1))
    BY <2>1 DEF Lowered, Binary
  <2>4. (n.lhs - l) + m = n.lhs - (s - 1) /\ (n.rhs - l) + m = n.rhs - (s - 1)
    BY <1>0, <1>1 DEF Numbered
  <2>5. x.kind = "Binary" /\ x.op = n.op /\ x.lhs = n.lhs - l /\ x.rhs = n.rhs - l
    BY <2>2 DEF Binary
  <2>6. Raised(x, m) = Binary(n.op, (n.lhs - l) + m, (n.rhs - l) + m)
    BY <2>5 DEF Raised
  <2> QED BY <1>0, <2>3, <2>4, <2>6
<1>2. CASE n.kind # "Binary"
  <2>1. NodeOf(n).kind # "Binary"
    BY <1>2, NodeRebuilt
  <2>2. x = NodeOf(n) /\ Lowered(NodeOf(n), s - 1) = NodeOf(n)
    BY <1>0, <2>1 DEF Lowered
  <2> QED BY <1>0, <2>1, <2>2 DEF Raised
<1> QED BY <1>1, <1>2

LEMMA OperandNumbers ==
  ASSUME NEW e, IsExpression(e, Names), NEW i \in 1 .. Len(e), e[i].kind = "Binary"
  PROVE  e[i].lhs \in Int /\ e[i].rhs \in Int
<1>1. Len(e) \in Nat
  BY DEF IsExpression
<1>2. e[i].lhs \in 1 .. i - 2 /\ e[i].rhs = i - 1
  BY DEF IsExpression
<1> QED BY <1>1, <1>2

LEMMA BelowIs ==
  ASSUME NEW e, Len(e) \in Nat, NEW by, NEW h, h = Below(e, by)
  PROVE  \A k \in 1 .. Len(e) : h[k] = Lowered(NodeOf(e[k]), by)
BY DEF Below

LEMMA JoinedTree ==
  ASSUME NEW e, IsExpression(e, Names), NEW i \in 1 .. Len(e), e[i].kind = "Binary"
  PROVE  Join(e[i].op, TreeOf(e, e[i].lhs), TreeOf(e, i - 1)) = TreeOf(e, i)
<1>1. PICK l, s : l = e[i].lhs /\ s = First(e, l)
  OBVIOUS
<1>2. Len(e) \in Nat /\ i \in Nat \ {0}
  BY DEF IsExpression
<1>3. l \in 1 .. i - 2 /\ e[i].rhs = i - 1 /\ First(e, i - 1) = l + 1 /\ First(e, i) = s
  BY <1>1, OperandsFirst
<1>4. s \in 1 .. l
  <2>1. l \in Nat \ {0}
    BY <1>2, <1>3
  <2> QED BY <1>1, <2>1, FirstBegins DEF Begins
<1>5. PICK h, g : h = Below(e, s - 1) /\ g = Below(e, l)
  OBVIOUS
<1>6. PICK m \in Nat, n \in Nat : m = l - s + 1 /\ n = (i - 1) - (l + 1) + 1
  BY <1>2, <1>3, <1>4
<1>7. PICK lhs, rhs : lhs = Slice(h, s, l) /\ rhs = Slice(g, l + 1, i - 1)
  OBVIOUS
<1>8. TreeOf(e, l) = lhs /\ TreeOf(e, i - 1) = rhs /\ TreeOf(e, i) = Slice(h, s, i)
  <2>1. (l + 1) - 1 = l
    BY <1>2, <1>3
  <2> QED BY <1>1, <1>3, <1>5, <1>7, <2>1 DEF TreeOf
<1>9. IsSlice(lhs, h, s, m) /\ IsSlice(rhs, g, l + 1, n)
  <2>1. PICK t \in Nat, j \in Nat : t = l + 1 /\ j = i - 1
    BY <1>2, <1>3
  <2>2. n = j - t + 1 /\ rhs = Slice(g, t, j)
    BY <1>6, <1>7, <2>1
  <2>3. IsSlice(rhs, g, t, n)
    BY <2>1, <2>2, SliceIs
  <2>4. s \in Nat /\ l \in Nat
    BY <1>2, <1>3, <1>4
  <2> QED BY <1>6, <1>7, <2>1, <2>3, <2>4, SliceIs
<1>10. Len(lhs) = m /\ Len(rhs) = n
  BY <1>9 DEF IsSlice
<1>11. PICK moved : moved = [k \in 1 .. n |-> Raised(rhs[k], m)]
  OBVIOUS
<1>12. Join(e[i].op, lhs, rhs) = lhs \o moved \o << Binary(e[i].op, m, m + n) >>
  BY <1>10, <1>11 DEF Join, Raised
<1>13. ASSUME NEW k \in 1 .. n PROVE Raised(rhs[k], m) = h[(l + 1) + k - 1]
  <2>1. PICK j : j = (l + 1) + k - 1
    OBVIOUS
  <2>2. j \in 1 .. Len(e)
    BY <1>2, <1>3, <1>6, <2>1
  <2>3. rhs[k] = g[j]
    BY <1>9, <2>1 DEF IsSlice
  <2>4. g[j] = Lowered(NodeOf(e[j]), l) /\ h[j] = Lowered(NodeOf(e[j]), s - 1)
    BY <1>2, <1>5, <2>2, BelowIs
  <2>5. e[j].kind = "Binary" => e[j].lhs \in Int /\ e[j].rhs \in Int
    BY <2>2, OperandNumbers
  <2>6. PICK node : node = e[j]
    OBVIOUS
  <2>7. s \in Nat /\ l \in Nat
    BY <1>2, <1>3, <1>4
  <2>8. Numbered(node)
    BY <2>5, <2>6 DEF Numbered
  <2>9. Raised(Lowered(NodeOf(node), l), l - s + 1) = Lowered(NodeOf(node), s - 1)
    BY <2>7, <2>8, NodeMoved, Zenon
  <2> QED BY <1>6, <2>1, <2>3, <2>4, <2>6, <2>9
<1>14. moved = Slice(h, l + 1, i - 1)
  BY <1>6, <1>11, <1>13 DEF Slice
<1>15. Binary(e[i].op, m, m + n) = h[i]
  <2>1. h[i] = Lowered(NodeOf(e[i]), s - 1)
    BY <1>2, <1>5, BelowIs
  <2>2. NodeOf(e[i]) = Binary(e[i].op, l, i - 1)
    BY <1>1, <1>3, NodeRebuilt
  <2>3. h[i] = Binary(e[i].op, l - (s - 1), (i - 1) - (s - 1))
    BY <2>1, <2>2 DEF Lowered, Binary
  <2>4. m = l - (s - 1) /\ m + n = (i - 1) - (s - 1)
    BY <1>2, <1>3, <1>4, <1>6
  <2> QED BY <2>3, <2>4
<1>16. lhs \o moved \o << h[i] >> = Slice(h, s, i)
  <2>1. s \in Nat /\ l \in Nat /\ i \in Nat /\ s <= l /\ l < i - 1
    BY <1>2, <1>3, <1>4
  <2>2. Slice(h, s, l) \o Slice(h, l + 1, i - 1) \o << h[i] >> = Slice(h, s, i)
    BY <2>1, SlicesJoin, Zenon
  <2> QED BY <1>7, <1>14, <2>2
<1> QED BY <1>1, <1>8, <1>12, <1>15, <1>16

LEMMA LeafTree ==
  ASSUME NEW e, IsExpression(e, Names), NEW i \in 1 .. Len(e), e[i].kind # "Binary"
  PROVE  TreeOf(e, i) = << NodeOf(e[i]) >>
<1>1. First(e, i) = i
  BY LeafFirst
<1>2. Len(e) \in Nat /\ i \in Nat
  BY DEF IsExpression
<1>3. PICK h : h = Below(e, i - 1)
  OBVIOUS
<1>4. h[i] = NodeOf(e[i])
  <2>1. h[i] = Lowered(NodeOf(e[i]), i - 1)
    BY <1>2, <1>3, BelowIs
  <2>2. NodeOf(e[i]).kind # "Binary"
    BY NodeRebuilt
  <2> QED BY <2>1, <2>2 DEF Lowered
<1>5. Slice(h, i, i) = << h[i] >>
  BY <1>2, OneSlice
<1> QED BY <1>1, <1>3, <1>4, <1>5 DEF TreeOf

LEMMA WholeTree ==
  ASSUME NEW e, IsExpression(e, Names)
  PROVE  TreeOf(e, Len(e)) = ValueOf(e)
<1>1. PICK n \in Nat \ {0} : n = Len(e)
  BY DEF IsExpression
<1>2. First(e, n) = 1
  BY <1>1, RootFirst
<1>3. PICK h : h = Below(e, 1 - 1)
  OBVIOUS
<1>4. ASSUME NEW k \in 1 .. n PROVE Lowered(NodeOf(e[k]), 1 - 1) = NodeOf(e[k])
  <2>1. CASE e[k].kind = "Binary"
    <3>1. NodeOf(e[k]) = Binary(e[k].op, e[k].lhs, e[k].rhs)
      BY <2>1, NodeRebuilt
    <3>2. e[k].lhs \in Int /\ e[k].rhs \in Int
      BY <1>1, <2>1, OperandNumbers
    <3>3. e[k].lhs - (1 - 1) = e[k].lhs /\ e[k].rhs - (1 - 1) = e[k].rhs
      BY <3>2
    <3> QED BY <3>1, <3>3 DEF Lowered, Binary
  <2>2. CASE e[k].kind # "Binary"
    BY <2>2, NodeRebuilt DEF Lowered
  <2> QED BY <2>1, <2>2
<1>5. h = [k \in 1 .. n |-> NodeOf(e[k])]
  BY <1>1, <1>3, <1>4 DEF Below
<1>6. h = ValueOf(e)
  BY <1>1, <1>5 DEF ValueOf
<1> DEFINE S == { NodeOf(e[k]) : k \in 1 .. n }
<1>7. h \in Seq(S) /\ Len(h) = n
  BY <1>5
<1>8. IsSequence(h)
  <2> HIDE DEF S
  <2> QED BY <1>7 DEF IsSequence
<1>9. Slice(h, 1, n) = h
  BY <1>7, <1>8, WholeSlice
<1> QED BY <1>1, <1>2, <1>3, <1>6, <1>9 DEF TreeOf

----------------------------------------------------------------------------
(* What is read of a node once it is closed.                               *)
ReadNode(name, values, parts, outer) ==
  [name |-> name, values |-> values, parts |-> parts, outer |-> outer]

Summary(name, values, parts) == Closed(ReadNode(name, values, parts, << >>))

LEMMA NodeFields ==
  ASSUME NEW name, NEW values, NEW parts, NEW outer,
         NEW node, node = ReadNode(name, values, parts, outer)
  PROVE  node.name = name /\ node.values = values /\ node.parts = parts /\ node.outer = outer
BY DEF ReadNode

LEMMA ClosedIs ==
  ASSUME NEW name, NEW values, NEW parts, NEW outer
  PROVE  Closed(ReadNode(name, values, parts, outer)) = Summary(name, values, parts)
<1>1. PICK p, q : p = ReadNode(name, values, parts, outer) /\ q = ReadNode(name, values, parts, << >>)
  OBVIOUS
<1>2. /\ p.name = name /\ p.values = values /\ p.parts = parts
      /\ q.name = name /\ q.values = values /\ q.parts = parts
  BY <1>1, NodeFields
<1>3. TypeRead(p) = TypeRead(q) /\ Parts(p) = Parts(q)
  BY <1>2 DEF TypeRead, Parts, IsTyped
<1>4. TreeRead(p) = TreeRead(q)
  BY <1>2, <1>3 DEF TreeRead
<1>5. TypesRead(p) = TypesRead(q)
  BY <1>2, <1>3 DEF TypesRead
<1> QED BY <1>1, <1>2, <1>4, <1>5 DEF Summary, Closed

(* Nodes that only name a type.                                            *)
TypeNode(name, type) == Summary(name, << type >>, << >>)

LEMMA TypeNodeIs ==
  ASSUME NEW name \in {"ResolvedType", "TypeExpression"}, NEW type
  PROVE  TypeNode(name, type) = [name |-> name, tree |-> type, types |-> << NoType >>]
<1>1. PICK node : node = ReadNode(name, << type >>, << >>, << >>)
  OBVIOUS
<1>2. node.name = name /\ node.values[1] = type /\ node.parts = << >>
  BY <1>1, NodeFields
<1>3. ~IsTyped(node) /\ TypeRead(node) = NoType
  BY <1>2 DEF IsTyped, TypeRead
<1>4. TreeRead(node) = type
  BY <1>2 DEF TreeRead, LiteralTypes
<1>5. TypesRead(node) = << NoType >>
  BY <1>2, <1>3 DEF TypesRead, StatementKinds
<1> QED BY <1>1, <1>2, <1>4, <1>5 DEF TypeNode, Summary, Closed

(* What is printed of a type is its name.                                  *)
PrintedType(a) == IF resolved_type[a] = NoType THEN NoType ELSE identifiers[a]

(* The parts of a node, with its type first if it has one.                 *)
TypeParts(a) ==
  IF resolved_type[a] = NoType THEN << >> ELSE << TypeNode("ResolvedType", identifiers[a]) >>

StartsTyped(parts) == parts # << >> /\ parts[1].name = "ResolvedType"

LEMMA UntypedRead ==
  ASSUME NEW node, ~StartsTyped(node.parts)
  PROVE  TypeRead(node) = NoType /\ Parts(node) = node.parts
BY DEF StartsTyped, TypeRead, Parts, IsTyped

LEMMA TypedRead ==
  ASSUME NEW a, NEW rest, IsSequence(rest), ~StartsTyped(rest),
         NEW node, node.parts = TypeParts(a) \o rest
  PROVE  TypeRead(node) = PrintedType(a) /\ Parts(node) = rest
<1>1. PICK R : rest \in Seq(R)
  BY DEF IsSequence
<1>2. CASE resolved_type[a] = NoType
  <2>1. node.parts = << >> \o rest
    BY <1>2 DEF TypeParts
  <2>2. node.parts = rest
    BY <1>1, <2>1
  <2> QED BY <1>2, <2>2, UntypedRead DEF PrintedType
<1>3. CASE resolved_type[a] # NoType
  <2>1. PICK t, parts : t = TypeNode("ResolvedType", identifiers[a]) /\ parts = node.parts
    OBVIOUS
  <2>2. t.name = "ResolvedType" /\ t.tree = identifiers[a]
    BY <2>1, TypeNodeIs
  <2>3. parts = << t >> \o rest
    BY <1>3, <2>1 DEF TypeParts
  <2> DEFINE S == R \cup {t}
  <2>4. rest \in Seq(S) /\ t \in S
    <3>1. rest \in [1 .. Len(rest) -> R] /\ Len(rest) \in Nat
      BY <1>1
    <3>2. rest \in [1 .. Len(rest) -> S]
      BY <3>1
    <3> QED BY <3>1, <3>2
  <2> HIDE DEF S
  <2>5. parts # << >> /\ parts[1] = t /\ Tail(parts) = rest
    <3>1. << t >> \in Seq(S) /\ Len(<< t >>) = 1 /\ << t >>[1] = t
      BY <2>4
    <3>2. parts \in Seq(S) /\ parts[1] = t /\ Len(parts) = 1 + Len(rest)
      BY <2>3, <2>4, <3>1
    <3>3. parts # << >>
      BY <2>4, <3>2
    <3>4. PICK tail, n : tail = Tail(parts) /\ n = Len(rest)
      OBVIOUS
    <3>5. n \in Nat /\ Len(parts) = n + 1
      BY <2>4, <3>2, <3>4
    <3>6. \A k \in 1 .. n : parts[k + 1] = rest[k]
      BY <2>3, <3>4, BehindOne
    <3>7. tail \in Seq(S) /\ Len(tail) = n /\ \A k \in 1 .. n : tail[k] = parts[k + 1]
      BY <3>2, <3>3, <3>4, <3>5, HeadTailProperties
    <3>8. IsSequence(tail)
      BY <3>7 DEF IsSequence
    <3>9. tail = rest
      BY <3>4, <3>6, <3>7, <3>8, SameSequence
    <3> QED BY <3>2, <3>3, <3>4, <3>9
  <2>6. IsTyped(node)
    BY <2>1, <2>2, <2>5 DEF IsTyped
  <2>7. TypeRead(node) = parts[1].tree /\ Parts(node) = Tail(parts)
    BY <2>1, <2>6 DEF TypeRead, Parts
  <2> QED BY <1>3, <2>2, <2>5, <2>7 DEF PrintedType
<1> QED BY <1>2, <1>3

----------------------------------------------------------------------------
(* What reading should give: for every node its name, its tree, and the    *)
(* types in it.                                                            *)
ValueAt(f, s) == program[f].statements[s].value
TypesAt(f, s) == [k \in 1 .. Len(ValueAt(f, s)) |-> PrintedType(<<f, s, k>>)]

WholeNode(f, s, i) ==
  [name  |-> ValueAt(f, s)[i].kind,
   tree  |-> TreeOf(ValueAt(f, s), i),
   types |-> Slice(TypesAt(f, s), First(ValueAt(f, s), i), i)]

OwnType(f, s) ==
  IF program[f].statements[s].kind = "Declare" THEN PrintedType(<<f, s, 0>>) ELSE NoType

WholeStatement(f, s) ==
  [name  |-> program[f].statements[s].kind,
   tree  |-> StatementOf(program[f].statements[s]),
   types |-> << OwnType(f, s) >> \o TypesAt(f, s)]

WholeFunction(f) ==
  [name  |-> "FunctionDeclaration",
   tree  |-> Function(program[f].name, BodyOf(program[f].statements)),
   types |-> << << PrintedType(<<f, 0, 0>>) >> >>
               \o [s \in 1 .. Len(program[f].statements) |-> WholeStatement(f, s).types]]

WholeProgram ==
  [name  |-> "Program",
   tree  |-> ProgramOf(program),
   types |-> [f \in 1 .. Len(program) |-> WholeFunction(f).types]]

(* The parts of each that are printed in it.                               *)
NodeParts(f, s, i) ==
  LET node == ValueAt(f, s)[i]
      type == TypeParts(<<f, s, i>>)
  IN  IF node.kind = "Binary"
      THEN Append(Append(type, WholeNode(f, s, node.lhs)), WholeNode(f, s, node.rhs))
      ELSE type

StatementParts(f, s) ==
  LET stmt  == program[f].statements[s]
      type  == IF stmt.kind = "Declare" THEN TypeParts(<<f, s, 0>>) ELSE << >>
      value == Append(type, WholeNode(f, s, Len(stmt.value)))
  IN  IF stmt.kind = "Declare" /\ stmt.annotation # NoType
      THEN Append(value, TypeNode("TypeExpression", stmt.annotation))
      ELSE value

FunctionParts(f) ==
  TypeParts(<<f, 0, 0>>)
    \o [s \in 1 .. Len(program[f].statements) |-> WholeStatement(f, s)]

ProgramParts == [f \in 1 .. Len(program) |-> WholeFunction(f)]

LEMMA TypePartsSequence ==
  ASSUME NEW a
  PROVE  IsSequence(TypeParts(a))
<1>1. PICK t : t = TypeNode("ResolvedType", identifiers[a])
  OBVIOUS
<1>2. << >> \in Seq({t}) /\ << t >> \in Seq({t})
  OBVIOUS
<1>3. TypeParts(a) \in Seq({t})
  BY <1>1, <1>2 DEF TypeParts
<1> QED BY <1>3 DEF IsSequence

LEMMA FewParts ==
  ASSUME NEW x, NEW y
  PROVE  /\ IsSequence(<< >>) /\ IsSequence(<< x >>) /\ IsSequence(<< x, y >>)
         /\ Append(<< >>, x) = << x >> /\ Append(<< x >>, y) = << x, y >>
         /\ Len(<< >>) = 0 /\ Len(<< x >>) = 1 /\ Len(<< x, y >>) = 2
<1>1. << >> \in Seq({x, y}) /\ << x >> \in Seq({x, y}) /\ << x, y >> \in Seq({x, y})
  OBVIOUS
<1>2. Len(<< >>) = 0 /\ Len(<< x >>) = 1 /\ << x >>[1] = x /\ Len(<< x, y >>) = 2
      /\ << x, y >>[1] = x /\ << x, y >>[2] = y
  OBVIOUS
<1>3. IsSequence(<< >>) /\ IsSequence(<< x >>) /\ IsSequence(<< x, y >>)
  BY <1>1, Zenon DEF IsSequence
<1>4. PICK a, b, c : a = << >> /\ b = << x >> /\ c = << x, y >>
  OBVIOUS
<1>5. PICK d, e : d = Append(a, x) /\ e = Append(b, y)
  OBVIOUS
<1>6. IsSequence(d) /\ Len(d) = 1 /\ d[1] = x
  BY <1>2, <1>3, <1>4, <1>5, Appending
<1>7. IsSequence(e) /\ Len(e) = 2 /\ e[1] = x /\ e[2] = y
  BY <1>2, <1>3, <1>4, <1>5, Appending
<1>8. d = b
  BY <1>2, <1>3, <1>4, <1>6, SameSequence
<1>9. e = c
  BY <1>2, <1>3, <1>4, <1>7, SameSequence
<1> QED BY <1>2, <1>3, <1>4, <1>5, <1>8, <1>9

LEMMA AppendingOne ==
  ASSUME NEW s, IsSequence(s), NEW x
  PROVE  Append(s, x) = s \o << x >>
<1>1. PICK S : s \in Seq(S)
  BY DEF IsSequence
<1> DEFINE T == S \cup {x}
<1>2. s \in Seq(T)
  <2>1. Len(s) \in Nat /\ s \in [1 .. Len(s) -> S]
    BY <1>1
  <2>2. s \in [1 .. Len(s) -> T]
    BY <2>1
  <2> QED BY <2>1, <2>2
<1>3. x \in T
  OBVIOUS
<1> HIDE DEF T
<1> QED BY <1>2, <1>3

LEMMA TwoJoined ==
  ASSUME NEW x, NEW y
  PROVE  << x >> \o << y >> = << x, y >>
<1>1. PICK first : first = << x >>
  OBVIOUS
<1>2. IsSequence(first)
  BY <1>1, FewParts
<1>3. first \o << y >> = Append(first, y)
  BY <1>2, AppendingOne
<1>4. Append(<< x >>, y) = << x, y >>
  BY FewParts
<1> QED BY <1>1, <1>3, <1>4

LEMMA PartsAppended ==
  ASSUME NEW a, NEW x, NEW y
  PROVE  /\ TypeParts(a) \o << >> = TypeParts(a)
         /\ TypeParts(a) \o << x >> = Append(TypeParts(a), x)
         /\ TypeParts(a) \o << x, y >> = Append(Append(TypeParts(a), x), y)
<1>1. PICK t : t = TypeParts(a)
  OBVIOUS
<1>2. IsSequence(t)
  BY <1>1, TypePartsSequence
<1>3. t \o << >> = t
  BY <1>2 DEF IsSequence
<1>4. t \o << x >> = Append(t, x)
  BY <1>2, AppendingOne
<1>5. t \o << x, y >> = Append(Append(t, x), y)
  BY <1>2, AppendingTwo
<1> QED BY <1>1, <1>3, <1>4, <1>5

(* The nodes of a program.                                                 *)
LEMMA ProgramShape ==
  ASSUME IsProgram(program, Names), NEW f \in 1 .. Len(program),
         NEW s \in 1 .. Len(program[f].statements)
  PROVE  /\ program[f].statements[s].kind \in StatementKinds
         /\ IsExpression(ValueAt(f, s), Names) /\ Len(ValueAt(f, s)) \in Nat \ {0}
         /\ \A i \in 1 .. Len(ValueAt(f, s)) : ValueAt(f, s)[i].kind \in NodeKinds
<1>1. IsStatement(program[f].statements[s], Names)
  BY DEF IsProgram
<1>2. IsExpression(ValueAt(f, s), Names)
  BY <1>1 DEF IsStatement, ValueAt
<1>3. program[f].statements[s].kind \in StatementKinds
  BY <1>1 DEF IsStatement
<1>4. PICK e : e = ValueAt(f, s)
  OBVIOUS
<1>5. Len(e) \in Nat \ {0} /\ \A i \in 1 .. Len(e) : e[i].kind \in NodeKinds
  BY <1>2, <1>4 DEF IsExpression
<1> QED BY <1>2, <1>3, <1>4, <1>5

LEMMA TypesAtIs ==
  ASSUME NEW f, NEW s, NEW n \in Nat, n = Len(ValueAt(f, s))
  PROVE  /\ IsSequence(TypesAt(f, s)) /\ Len(TypesAt(f, s)) = n
         /\ \A k \in 1 .. n : TypesAt(f, s)[k] = PrintedType(<<f, s, k>>)
<1>1. PICK t : t = TypesAt(f, s)
  OBVIOUS
<1>2. t = [k \in 1 .. n |-> PrintedType(<<f, s, k>>)]
  BY <1>1 DEF TypesAt
<1> DEFINE S == { PrintedType(<<f, s, k>>) : k \in 1 .. n }
<1>3. \A k \in 1 .. n : PrintedType(<<f, s, k>>) \in S
  OBVIOUS
<1> HIDE DEF S
<1>4. \A k \in 1 .. n : t[k] = PrintedType(<<f, s, k>>)
  BY <1>2
<1>5. t \in [1 .. n -> S]
  BY <1>2, <1>3
<1>6. t \in Seq(S) /\ Len(t) = n
  BY <1>5
<1>7. IsSequence(t)
  BY <1>6 DEF IsSequence
<1> QED BY <1>1, <1>4, <1>6, <1>7

LEMMA BinaryRead ==
  ASSUME NEW node, node.name = "Binary", NEW l, NEW r, Parts(node) = << l, r >>
  PROVE  /\ TreeRead(node) = Join(node.values[1], l.tree, r.tree)
         /\ TypesRead(node) = l.types \o r.types \o << TypeRead(node) >>
<1>1. PICK parts : parts = Parts(node)
  OBVIOUS
<1>2. Len(parts) = 2 /\ parts[1] = l /\ parts[2] = r
  BY <1>1
<1>3. PICK trees, types : /\ trees = [n \in 1 .. Len(parts) |-> parts[n].tree]
                          /\ types = [n \in 1 .. Len(parts) |-> parts[n].types]
  OBVIOUS
<1>4. trees[1] = l.tree /\ trees[2] = r.tree /\ types[1] = l.types /\ types[2] = r.types
  BY <1>2, <1>3
<1>5. TreeRead(node) = Join(node.values[1], trees[1], trees[2])
  BY <1>1, <1>3 DEF TreeRead, LiteralTypes
<1>6. TypesRead(node) = types[1] \o types[2] \o << TypeRead(node) >>
  BY <1>1, <1>3 DEF TypesRead, StatementKinds
<1> QED BY <1>4, <1>5, <1>6

LEMMA LeafRead ==
  ASSUME NEW node, node.name \in NodeKinds \ {"Binary"}
  PROVE  /\ TypesRead(node) = << TypeRead(node) >>
         /\ node.name = "Variable" => TreeRead(node) = << Variable(node.values[1]) >>
         /\ node.name = "FunctionCall" => TreeRead(node) = << FunctionCall(node.values[1]) >>
         /\ node.name \in LiteralTypes =>
              TreeRead(node) = << [kind |-> node.name, value |-> node.values[1]] >>
<1>1. TypesRead(node) = << TypeRead(node) >>
  BY DEF TypesRead, NodeKinds, StatementKinds
<1> QED BY <1>1 DEF TreeRead, LiteralTypes

LEMMA LabelOf ==
  ASSUME NEW n
  PROVE  /\ n.kind \in {"Variable", "FunctionCall", "Declare", "Assign"} => Label(n) = << n.name >>
         /\ n.kind = "Binary" => Label(n) = << n.op >>
         /\ n.kind \in LiteralTypes => Label(n) = << n.value >>
         /\ n.kind \in {"Show", "Return"} => Label(n) = << >>
BY DEF Label, LiteralTypes

(* A binary node joins what was read of its operands, any other node is    *)
(* read from its value.                                                    *)
LEMMA NodeClosed ==
  ASSUME IsProgram(program, Names), NEW f \in 1 .. Len(program),
         NEW s \in 1 .. Len(program[f].statements), NEW i \in 1 .. Len(ValueAt(f, s))
  PROVE  Summary(ValueAt(f, s)[i].kind, Label(ValueAt(f, s)[i]), NodeParts(f, s, i))
           = WholeNode(f, s, i)
<1>1. PICK e, n, type, whole :
        e = ValueAt(f, s) /\ n = e[i] /\ type = PrintedType(<<f, s, i>>) /\ whole = WholeNode(f, s, i)
  OBVIOUS
<1>2. IsExpression(e, Names) /\ Len(e) \in Nat /\ i \in 1 .. Len(e) /\ n.kind \in NodeKinds
  BY <1>1, ProgramShape
<1>3. PICK node : node = ReadNode(n.kind, Label(n), NodeParts(f, s, i), << >>)
  OBVIOUS
<1>4. node.name = n.kind /\ node.values = Label(n) /\ node.parts = NodeParts(f, s, i)
  BY <1>3, NodeFields
<1>5. PICK h : h = TypesAt(f, s)
  OBVIOUS
<1>6. h[i] = type
  BY <1>1, <1>2, <1>5, TypesAtIs
<1>7. /\ whole.name = n.kind /\ whole.tree = TreeOf(e, i) /\ whole.types = Slice(h, First(e, i), i)
      /\ whole = [name |-> n.kind, tree |-> TreeOf(e, i), types |-> Slice(h, First(e, i), i)]
  BY <1>1, <1>5 DEF WholeNode
<1>8. CASE n.kind = "Binary"
  <2>1. PICK l, s1 : l = n.lhs /\ s1 = First(e, l)
    OBVIOUS
  <2>2. /\ l \in 1 .. i - 2 /\ n.rhs = i - 1
        /\ First(e, i - 1) = l + 1 /\ First(e, i) = s1
    BY <1>1, <1>2, <1>8, <2>1, OperandsFirst
  <2>3. PICK left, right : left = WholeNode(f, s, l) /\ right = WholeNode(f, s, i - 1)
    OBVIOUS
  <2>4. /\ left.name = e[l].kind /\ left.tree = TreeOf(e, l) /\ left.types = Slice(h, s1, l)
        /\ right.tree = TreeOf(e, i - 1) /\ right.types = Slice(h, l + 1, i - 1)
    BY <1>1, <1>5, <2>1, <2>2, <2>3 DEF WholeNode
  <2>5. e[l].kind \in NodeKinds
    <3>1. l \in 1 .. Len(e)
      BY <1>2, <2>2
    <3> QED BY <1>1, <3>1, ProgramShape
  <2>6. PICK rest : rest = << left, right >>
    OBVIOUS
  <2>7. IsSequence(rest) /\ ~StartsTyped(rest)
    <3>1. rest[1] = left
      BY <2>6
    <3> QED BY <2>4, <2>5, <2>6, <3>1, FewParts DEF StartsTyped, NodeKinds
  <2>8. node.parts = TypeParts(<<f, s, i>>) \o rest
    <3>1. node.parts = Append(Append(TypeParts(<<f, s, i>>), left), right)
      BY <1>1, <1>4, <1>8, <2>1, <2>2, <2>3 DEF NodeParts
    <3>2. TypeParts(<<f, s, i>>) \o << left, right >>
            = Append(Append(TypeParts(<<f, s, i>>), left), right)
      BY PartsAppended
    <3> QED BY <2>6, <3>1, <3>2
  <2>9. TypeRead(node) = type /\ Parts(node) = << left, right >>
    BY <1>1, <2>6, <2>7, <2>8, TypedRead
  <2>10. /\ TreeRead(node) = Join(node.values[1], left.tree, right.tree)
         /\ TypesRead(node) = left.types \o right.types \o << type >>
    BY <1>4, <1>8, <2>9, BinaryRead
  <2>11. node.values[1] = n.op
    <3>1. Label(n) = << n.op >>
      BY <1>8, LabelOf
    <3> QED BY <1>4, <3>1
  <2>12. TreeRead(node) = TreeOf(e, i)
    BY <1>1, <1>2, <1>8, <2>1, <2>4, <2>10, <2>11, JoinedTree
  <2>13. TypesRead(node) = Slice(h, s1, i)
    <3>1. s1 \in 1 .. l
      <4>1. l \in Nat \ {0}
        BY <1>2, <2>2
      <4> QED BY <2>1, <4>1, FirstBegins DEF Begins
    <3>2. s1 \in Nat /\ l \in Nat /\ i \in Nat /\ s1 <= l /\ l < i - 1
      BY <1>2, <2>2, <3>1
    <3>3. Slice(h, s1, l) \o Slice(h, l + 1, i - 1) \o << h[i] >> = Slice(h, s1, i)
      BY <3>2, SlicesJoin, Zenon
    <3> QED BY <1>6, <2>4, <2>10, <3>3
  <2> QED BY <1>1, <1>3, <1>4, <1>7, <1>8, <2>2, <2>12, <2>13 DEF Summary, Closed
<1>9. CASE n.kind # "Binary"
  <2>1. node.parts = TypeParts(<<f, s, i>>)
    BY <1>1, <1>4, <1>9 DEF NodeParts
  <2>2. PICK rest : rest = << >>
    OBVIOUS
  <2>3. IsSequence(rest) /\ ~StartsTyped(rest)
    BY <2>2, FewParts DEF StartsTyped
  <2>4. node.parts = TypeParts(<<f, s, i>>) \o rest
    BY <2>1, <2>2, PartsAppended
  <2>5. TypeRead(node) = type
    BY <1>1, <2>3, <2>4, TypedRead
  <2>6. TypesRead(node) = << type >>
    BY <1>2, <1>4, <1>9, <2>5, LeafRead
  <2>7. First(e, i) = i /\ TreeOf(e, i) = << NodeOf(n) >>
    BY <1>1, <1>2, <1>9, LeafFirst, LeafTree
  <2>8. TypesRead(node) = Slice(h, First(e, i), i)
    <3>1. Slice(h, i, i) = << h[i] >>
      BY <1>2, OneSlice
    <3> QED BY <1>6, <2>6, <2>7, <3>1
  <2>9. TreeRead(node) = << NodeOf(n) >>
    <3>1. CASE n.kind = "Variable"
      <4>1. Label(n) = << n.name >> /\ NodeOf(n) = Variable(n.name)
        BY <3>1, LabelOf DEF NodeOf
      <4> QED BY <1>2, <1>4, <1>9, <3>1, <4>1, LeafRead
    <3>2. CASE n.kind = "FunctionCall"
      <4>1. Label(n) = << n.name >> /\ NodeOf(n) = FunctionCall(n.name)
        BY <3>2, LabelOf DEF NodeOf
      <4> QED BY <1>2, <1>4, <1>9, <3>2, <4>1, LeafRead
    <3>3. CASE n.kind \in LiteralTypes
      <4>1. Label(n) = << n.value >>
        BY <3>3, LabelOf
      <4>2. NodeOf(n) = [kind |-> n.kind, value |-> n.value]
        BY <3>3 DEF NodeOf, LiteralTypes
      <4> QED BY <1>2, <1>4, <1>9, <3>3, <4>1, <4>2, LeafRead
    <3> QED BY <1>2, <1>9, <3>1, <3>2, <3>3 DEF NodeKinds, LiteralTypes
  <2> QED BY <1>1, <1>3, <1>4, <1>7, <2>7, <2>8, <2>9 DEF Summary, Closed
<1> QED BY <1>8, <1>9

LEMMA StatementRead ==
  ASSUME NEW node, node.name \in StatementKinds, NEW rest, rest = Parts(node),
         Len(rest) \in {1, 2}, NEW value, value = node.values[1]
  PROVE  /\ TypesRead(node) = << TypeRead(node) >> \o rest[1].types
         /\ node.name = "Declare" =>
              TreeRead(node) =
                Declare(value, IF Len(rest) = 1 THEN NoType ELSE rest[2].tree, rest[1].tree)
         /\ node.name = "Assign" => TreeRead(node) = Assign(value, rest[1].tree)
         /\ node.name = "Show" => TreeRead(node) = Show(rest[1].tree)
         /\ node.name = "Return" => TreeRead(node) = Return(rest[1].tree)
<1>1. PICK trees, types : /\ trees = [n \in 1 .. Len(rest) |-> rest[n].tree]
                          /\ types = [n \in 1 .. Len(rest) |-> rest[n].types]
  OBVIOUS
<1>2. /\ trees[1] = rest[1].tree /\ types[1] = rest[1].types
      /\ Len(rest) # 1 => trees[2] = rest[2].tree
  BY <1>1
<1>3. TypesRead(node) = << TypeRead(node) >> \o types[1]
  BY <1>1 DEF TypesRead, StatementKinds
<1>4. /\ node.name = "Declare" =>
           TreeRead(node) = Declare(value, IF Len(rest) = 1 THEN NoType ELSE trees[2], trees[1])
      /\ node.name = "Assign" => TreeRead(node) = Assign(value, trees[1])
      /\ node.name = "Show" => TreeRead(node) = Show(trees[1])
      /\ node.name = "Return" => TreeRead(node) = Return(trees[1])
  BY <1>1 DEF TreeRead, LiteralTypes
<1> QED BY <1>2, <1>3, <1>4

LEMMA StatementClosed ==
  ASSUME IsProgram(program, Names), NEW f \in 1 .. Len(program),
         NEW s \in 1 .. Len(program[f].statements)
  PROVE  Summary(program[f].statements[s].kind, Label(program[f].statements[s]),
                 StatementParts(f, s))
           = WholeStatement(f, s)
<1>1. PICK stmt, e, own, whole :
        /\ stmt = program[f].statements[s] /\ e = ValueAt(f, s)
        /\ own = OwnType(f, s) /\ whole = WholeStatement(f, s)
  OBVIOUS
<1>2. /\ stmt.kind \in StatementKinds /\ e = stmt.value /\ IsExpression(e, Names)
      /\ Len(e) \in Nat \ {0} /\ \A i \in 1 .. Len(e) : e[i].kind \in NodeKinds
  BY <1>1, ProgramShape DEF ValueAt
<1>3. PICK node : node = ReadNode(stmt.kind, Label(stmt), StatementParts(f, s), << >>)
  OBVIOUS
<1>4. node.name = stmt.kind /\ node.values = Label(stmt) /\ node.parts = StatementParts(f, s)
  BY <1>3, NodeFields
<1>5. PICK value, note : /\ value = WholeNode(f, s, Len(e))
                         /\ note = TypeNode("TypeExpression", stmt.annotation)
  OBVIOUS
<1>6. value.name \in NodeKinds /\ value.tree = ValueOf(e) /\ value.types = TypesAt(f, s)
  <2>1. PICK n \in Nat \ {0} : n = Len(e)
    BY <1>2
  <2>2. value.name = e[n].kind /\ value.tree = TreeOf(e, n)
        /\ value.types = Slice(TypesAt(f, s), First(e, n), n)
    BY <1>1, <1>5, <2>1 DEF WholeNode
  <2>3. TreeOf(e, n) = ValueOf(e) /\ First(e, n) = 1
    BY <1>2, <2>1, WholeTree, RootFirst
  <2>4. Slice(TypesAt(f, s), 1, n) = TypesAt(f, s)
    BY <1>1, <2>1, TypesAtIs, WholeSlice
  <2>5. e[n].kind \in NodeKinds
    BY <1>2, <2>1
  <2> QED BY <2>2, <2>3, <2>4, <2>5
<1>7. note.tree = stmt.annotation
  BY <1>5, TypeNodeIs
<1>8. PICK rest : rest = IF stmt.kind = "Declare" /\ stmt.annotation # NoType
                         THEN << value, note >> ELSE << value >>
  OBVIOUS
<1>9. /\ IsSequence(rest) /\ rest[1] = value /\ Len(rest) \in {1, 2} /\ ~StartsTyped(rest)
      /\ stmt.kind = "Declare" /\ stmt.annotation # NoType => Len(rest) = 2 /\ rest[2] = note
      /\ ~(stmt.kind = "Declare" /\ stmt.annotation # NoType) => Len(rest) = 1
  <2>1. CASE stmt.kind = "Declare" /\ stmt.annotation # NoType
    <3>1. rest = << value, note >>
      BY <1>8, <2>1
    <3>2. IsSequence(rest) /\ rest[1] = value /\ rest[2] = note /\ Len(rest) = 2
      BY <3>1, FewParts
    <3> QED BY <1>6, <2>1, <3>2 DEF StartsTyped, NodeKinds
  <2>2. CASE ~(stmt.kind = "Declare" /\ stmt.annotation # NoType)
    <3>1. rest = << value >>
      BY <1>8, <2>2
    <3>2. IsSequence(rest) /\ rest[1] = value /\ Len(rest) = 1
      BY <3>1, FewParts
    <3> QED BY <1>6, <2>2, <3>2 DEF StartsTyped, NodeKinds
  <2> QED BY <2>1, <2>2
<1>10. TypeRead(node) = own /\ Parts(node) = rest
  <2>1. CASE stmt.kind = "Declare"
    <3>1. PICK type : type = TypeParts(<<f, s, 0>>)
      OBVIOUS
    <3>2. node.parts = IF stmt.annotation # NoType THEN Append(Append(type, value), note)
                       ELSE Append(type, value)
      BY <1>1, <1>2, <1>4, <1>5, <2>1, <3>1 DEF StatementParts
    <3>3. type \o << value >> = Append(type, value)
          /\ type \o << value, note >> = Append(Append(type, value), note)
      BY <3>1, PartsAppended
    <3>4. node.parts = TypeParts(<<f, s, 0>>) \o rest
      BY <1>8, <2>1, <3>1, <3>2, <3>3
    <3>5. own = PrintedType(<<f, s, 0>>)
      BY <1>1, <2>1 DEF OwnType
    <3> QED BY <1>9, <3>4, <3>5, TypedRead
  <2>2. CASE stmt.kind # "Declare"
    <3>1. node.parts = Append(<< >>, value)
      BY <1>1, <1>2, <1>4, <1>5, <2>2 DEF StatementParts
    <3>2. node.parts = rest
      BY <1>8, <2>2, <3>1, FewParts
    <3>3. own = NoType
      BY <1>1, <2>2 DEF OwnType
    <3> QED BY <1>9, <3>2, <3>3, UntypedRead
  <2> QED BY <2>1, <2>2
<1>11. TypesRead(node) = << own >> \o TypesAt(f, s)
  BY <1>2, <1>4, <1>6, <1>9, <1>10, StatementRead
<1>12. TreeRead(node) = StatementOf(stmt)
  <2>1. PICK label : label = node.values[1]
    OBVIOUS
  <2>2. CASE stmt.kind = "Declare"
    <3>1. label = stmt.name
      BY <1>4, <2>1, <2>2, LabelOf
    <3>2. TreeRead(node) =
            Declare(label, IF Len(rest) = 1 THEN NoType ELSE rest[2].tree, rest[1].tree)
      BY <1>2, <1>4, <1>9, <1>10, <2>1, <2>2, StatementRead
    <3>3. (IF Len(rest) = 1 THEN NoType ELSE rest[2].tree) = stmt.annotation
      BY <1>7, <1>9, <2>2
    <3>4. StatementOf(stmt) = Declare(stmt.name, stmt.annotation, ValueOf(e))
      BY <1>2, <2>2 DEF StatementOf
    <3> QED BY <1>6, <1>9, <3>1, <3>2, <3>3, <3>4
  <2>3. CASE stmt.kind = "Assign"
    <3>1. label = stmt.name
      BY <1>4, <2>1, <2>3, LabelOf
    <3>2. TreeRead(node) = Assign(label, rest[1].tree)
      BY <1>2, <1>4, <1>9, <1>10, <2>1, <2>3, StatementRead
    <3>3. StatementOf(stmt) = Assign(stmt.name, ValueOf(e))
      BY <1>2, <2>3 DEF StatementOf
    <3> QED BY <1>6, <1>9, <3>1, <3>2, <3>3
  <2>4. CASE stmt.kind = "Show"
    <3>1. TreeRead(node) = Show(rest[1].tree)
      BY <1>2, <1>4, <1>9, <1>10, <2>1, <2>4, StatementRead
    <3>2. StatementOf(stmt) = Show(ValueOf(e))
      BY <1>2, <2>4 DEF StatementOf
    <3> QED BY <1>6, <1>9, <3>1, <3>2
  <2>5. CASE stmt.kind = "Return"
    <3>1. TreeRead(node) = Return(rest[1].tree)
      BY <1>2, <1>4, <1>9, <1>10, <2>1, <2>5, StatementRead
    <3>2. StatementOf(stmt) = Return(ValueOf(e))
      BY <1>2, <2>5 DEF StatementOf
    <3> QED BY <1>6, <1>9, <3>1, <3>2
  <2> QED BY <1>2, <2>2, <2>3, <2>4, <2>5 DEF StatementKinds
<1>13. whole = [name |-> stmt.kind, tree |-> StatementOf(stmt), types |-> << own >> \o TypesAt(f, s)]
  BY <1>1 DEF WholeStatement
<1>14. Closed(node) = whole
  BY <1>4, <1>11, <1>12, <1>13 DEF Closed
<1>15. Summary(stmt.kind, Label(stmt), StatementParts(f, s)) = Closed(node)
  BY <1>3 DEF Summary
<1> QED BY <1>1, <1>14, <1>15

LEMMA WholeFields ==
  ASSUME NEW f, NEW s
  PROVE  /\ WholeStatement(f, s).name = program[f].statements[s].kind
         /\ WholeStatement(f, s).tree = StatementOf(program[f].statements[s])
         /\ WholeFunction(f).name = "FunctionDeclaration"
         /\ WholeFunction(f).tree = Function(program[f].name, BodyOf(program[f].statements))
<1>1. /\ WholeStatement(f, s).name = program[f].statements[s].kind
      /\ WholeStatement(f, s).tree = StatementOf(program[f].statements[s])
  BY DEF WholeStatement
<1> QED BY <1>1 DEF WholeFunction

LEMMA StatementsSequence ==
  ASSUME NEW f, NEW n \in Nat, n = Len(program[f].statements),
         NEW parts, parts = [s \in 1 .. n |-> WholeStatement(f, s)]
  PROVE  IsSequence(parts) /\ Len(parts) = n /\ \A s \in 1 .. n : parts[s] = WholeStatement(f, s)
<1> DEFINE S == { WholeStatement(f, s) : s \in 1 .. n }
<1>1. \A s \in 1 .. n : WholeStatement(f, s) \in S
  OBVIOUS
<1> HIDE DEF S
<1>2. parts \in [1 .. n -> S]
  BY <1>1
<1>3. parts \in Seq(S) /\ Len(parts) = n
  BY <1>2
<1> QED BY <1>3 DEF IsSequence

LEMMA FunctionClosed ==
  ASSUME IsProgram(program, Names), NEW f \in 1 .. Len(program)
  PROVE  Summary("FunctionDeclaration", << program[f].name >>, FunctionParts(f)) = WholeFunction(f)
<1>0. PICK n \in Nat : n = Len(program[f].statements)
  BY DEF IsProgram
<1>1. PICK type, name :
        n = Len(program[f].statements) /\ type = PrintedType(<<f, 0, 0>>) /\ name = program[f].name
  BY <1>0
<1>2. PICK node : node = ReadNode("FunctionDeclaration", << name >>, FunctionParts(f), << >>)
  OBVIOUS
<1>3. /\ node.name = "FunctionDeclaration" /\ node.values[1] = name
      /\ node.parts = FunctionParts(f)
  BY <1>2, NodeFields
<1>4. PICK rest : rest = [s \in 1 .. n |-> WholeStatement(f, s)]
  OBVIOUS
<1>5. IsSequence(rest) /\ Len(rest) = n /\ \A s \in 1 .. n : rest[s] = WholeStatement(f, s)
  BY <1>1, <1>4, StatementsSequence
<1>6. \A s \in 1 .. n : /\ rest[s].name \in StatementKinds
                        /\ rest[s].tree = StatementOf(program[f].statements[s])
                        /\ rest[s].types = WholeStatement(f, s).types
  <2> TAKE s \in 1 .. n
  <2>1. program[f].statements[s].kind \in StatementKinds
    BY <1>1, ProgramShape
  <2> QED BY <1>5, <2>1, WholeFields
<1>7. ~StartsTyped(rest)
  <2>1. CASE n = 0
    <3>1. rest = << >>
      BY <1>5, <2>1, FewParts, SameSequence
    <3> QED BY <3>1 DEF StartsTyped
  <2>2. CASE n # 0
    <3>1. 1 \in 1 .. n
      BY <2>2
    <3>2. rest[1].name # "ResolvedType"
      BY <1>6, <3>1 DEF StatementKinds
    <3> QED BY <3>2 DEF StartsTyped
  <2> QED BY <2>1, <2>2
<1>8. TypeRead(node) = type /\ Parts(node) = rest
  <2>1. node.parts = TypeParts(<<f, 0, 0>>) \o rest
    BY <1>1, <1>3, <1>4 DEF FunctionParts
  <2> QED BY <1>1, <1>5, <1>7, <2>1, TypedRead
<1>9. PICK trees, types : /\ trees = [k \in 1 .. Len(rest) |-> rest[k].tree]
                          /\ types = [k \in 1 .. Len(rest) |-> rest[k].types]
  OBVIOUS
<1>10. TreeRead(node) = Function(name, trees)
  BY <1>3, <1>8, <1>9 DEF TreeRead, LiteralTypes
<1>11. TypesRead(node) = << << type >> >> \o types
  BY <1>3, <1>8, <1>9 DEF TypesRead, StatementKinds
<1>12. trees = BodyOf(program[f].statements)
  BY <1>1, <1>5, <1>6, <1>9 DEF BodyOf
<1>13. types = [s \in 1 .. n |-> WholeStatement(f, s).types]
  BY <1>5, <1>6, <1>9
<1>14. Closed(node) = [name  |-> "FunctionDeclaration", tree |-> Function(name, trees),
                       types |-> << << type >> >> \o types]
  BY <1>3, <1>10, <1>11 DEF Closed
<1>15. WholeFunction(f) = [name  |-> "FunctionDeclaration", tree |-> Function(name, trees),
                           types |-> << << type >> >> \o types]
  BY <1>1, <1>12, <1>13 DEF WholeFunction
<1>16. Summary("FunctionDeclaration", << name >>, FunctionParts(f)) = Closed(node)
  BY <1>2 DEF Summary
<1> QED BY <1>1, <1>14, <1>15, <1>16

LEMMA ProgramClosed ==
  ASSUME IsProgram(program, Names)
  PROVE  Summary("Program", << >>, ProgramParts) = WholeProgram
<1>1. PICK n \in Nat : n = Len(program)
  BY DEF IsProgram
<1>2. PICK node : node = ReadNode("Program", << >>, ProgramParts, << >>)
  OBVIOUS
<1>3. node.name = "Program" /\ node.parts = ProgramParts
  BY <1>2, NodeFields
<1>4. PICK rest : rest = [f \in 1 .. n |-> WholeFunction(f)]
  OBVIOUS
<1>5. Len(rest) = n /\ \A f \in 1 .. n : rest[f] = WholeFunction(f)
  BY <1>4
<1>6. \A f \in 1 .. n : /\ rest[f].name = "FunctionDeclaration"
                        /\ rest[f].tree = Function(program[f].name, BodyOf(program[f].statements))
                        /\ rest[f].types = WholeFunction(f).types
  BY <1>5, WholeFields
<1>7. ~StartsTyped(rest)
  <2>1. CASE n = 0
    <3>1. rest = << >>
      BY <1>4, <2>1
    <3> QED BY <3>1 DEF StartsTyped
  <2>2. CASE n # 0
    <3>1. 1 \in 1 .. n
      BY <2>2
    <3>2. rest[1].name # "ResolvedType"
      BY <1>6, <3>1
    <3> QED BY <3>2 DEF StartsTyped
  <2> QED BY <2>1, <2>2
<1>8. Parts(node) = rest
  BY <1>1, <1>3, <1>4, <1>7, UntypedRead DEF ProgramParts
<1>9. PICK trees, types : /\ trees = [k \in 1 .. Len(rest) |-> rest[k].tree]
                          /\ types = [k \in 1 .. Len(rest) |-> rest[k].types]
  OBVIOUS
<1>10. TreeRead(node) = trees
  BY <1>3, <1>8, <1>9 DEF TreeRead, LiteralTypes
<1>11. TypesRead(node) = types
  BY <1>3, <1>8, <1>9 DEF TypesRead, StatementKinds
<1>12. trees = ProgramOf(program)
  BY <1>1, <1>5, <1>6, <1>9 DEF ProgramOf
<1>13. types = [f \in 1 .. n |-> WholeFunction(f).types]
  BY <1>5, <1>6, <1>9
<1>14. Closed(node) = [name |-> "Program", tree |-> trees, types |-> types]
  BY <1>3, <1>10, <1>11 DEF Closed
<1>15. WholeProgram = [name |-> "Program", tree |-> trees, types |-> types]
  BY <1>1, <1>12, <1>13 DEF WholeProgram
<1>16. Summary("Program", << >>, ProgramParts) = Closed(node)
  BY <1>2 DEF Summary
<1> QED BY <1>14, <1>15, <1>16

----------------------------------------------------------------------------
(* What is read once the calls on the stack have returned.                 *)
Whole(a) ==
  IF a = Root THEN WholeProgram
  ELSE IF a[2] = 0 THEN WholeFunction(a[1])
  ELSE IF a[3] > 0 THEN WholeNode(a[1], a[2], a[3]) ELSE WholeStatement(a[1], a[2])

After(node, call) ==
  CASE call.call = "visit"      -> Adding(node, Whole(call.of))
    [] call.call = "visit_type" ->
         Adding(node, TypeNode("TypeExpression", StatementAt(program, call.of).annotation))
    [] call.call = "print_resolved_type" ->
         IF resolved_type[call.of] = NoType THEN node
         ELSE Adding(node, TypeNode("ResolvedType", identifiers[call.of]))
    [] OTHER -> Adding(node.outer, Closed(node))

RunsAs(run, node, stack, end) ==
  /\ run[0] = node /\ run[Len(stack)] = end
  /\ \A n \in 1 .. Len(stack) : run[n] = After(run[n - 1], stack[n])

Runs(node, stack, end) == \E run : RunsAs(run, node, stack, end)

LEMMA RunsNone ==
  ASSUME NEW node
  PROVE  Runs(node, << >>, node)
<1>1. PICK run : run = [n \in {0} |-> node]
  OBVIOUS
<1>2. PICK stack : stack = << >>
  OBVIOUS
<1>3. Len(stack) = 0 /\ run[0] = node
  BY <1>1, <1>2
<1>4. RunsAs(run, node, stack, node)
  BY <1>3 DEF RunsAs
<1> QED BY <1>2, <1>4 DEF Runs

LEMMA RunsOne ==
  ASSUME NEW node, NEW call, NEW end, end = After(node, call)
  PROVE  Runs(node, << call >>, end)
<1>1. PICK run : run = [n \in {0, 1} |-> IF n = 0 THEN node ELSE end]
  OBVIOUS
<1>2. PICK stack : stack = << call >>
  OBVIOUS
<1>3. Len(stack) = 1 /\ stack[1] = call /\ run[0] = node /\ run[1] = end
  BY <1>1, <1>2
<1>4. RunsAs(run, node, stack, end)
  BY <1>3 DEF RunsAs
<1> QED BY <1>2, <1>4 DEF Runs

LEMMA RunsOn ==
  ASSUME NEW a, NEW s, IsSequence(s), NEW b, Runs(a, s, b), NEW t, IsSequence(t), NEW c, Runs(b, t, c)
  PROVE  Runs(a, s \o t, c)
<1>1. PICK p : RunsAs(p, a, s, b)
  BY DEF Runs
<1>2. PICK q : RunsAs(q, b, t, c)
  BY DEF Runs
<1>3. PICK v, m, n : v = s \o t /\ m = Len(s) /\ n = Len(t)
  OBVIOUS
<1>4. m \in Nat /\ n \in Nat /\ Joined(v, s, m, t, n)
  BY <1>3, Concatenated
<1>5. Len(v) = m + n
  BY <1>4 DEF Joined
<1>6. PICK run : run = [k \in 0 .. m + n |-> IF k <= m THEN p[k] ELSE q[k - m]]
  OBVIOUS
<1>7. run[0] = a
  BY <1>1, <1>4, <1>6 DEF RunsAs
<1>8. p[m] = b /\ q[0] = b /\ q[n] = c
  BY <1>1, <1>2, <1>3 DEF RunsAs
<1>9. run[m + n] = c
  <2>1. CASE n = 0
    BY <1>4, <1>6, <1>8, <2>1
  <2>2. CASE n # 0
    <3>1. m + n \in 0 .. m + n /\ ~(m + n <= m) /\ (m + n) - m = n
      BY <1>4, <2>2
    <3> QED BY <1>6, <1>8, <3>1
  <2> QED BY <2>1, <2>2
<1>10. ASSUME NEW k \in 1 .. m + n PROVE run[k] = After(run[k - 1], v[k])
  <2>1. CASE k \in 1 .. m
    <3>1. p[k] = After(p[k - 1], s[k])
      BY <1>1, <1>3, <2>1 DEF RunsAs
    <3>2. v[k] = s[k]
      BY <1>4, <2>1 DEF Joined
    <3>3. run[k] = p[k] /\ run[k - 1] = p[k - 1]
      BY <1>4, <1>6, <2>1
    <3> QED BY <3>1, <3>2, <3>3
  <2>2. CASE k \notin 1 .. m
    <3>1. PICK j : j = k - m
      OBVIOUS
    <3>2. j \in 1 .. n /\ k = m + j /\ k \in 0 .. m + n /\ ~(k <= m) /\ k - 1 \in 0 .. m + n
      BY <1>4, <2>2, <3>1
    <3>3. q[j] = After(q[j - 1], t[j])
      BY <1>2, <1>3, <3>2 DEF RunsAs
    <3>4. v[k] = t[j]
      BY <1>4, <3>2 DEF Joined
    <3>5. run[k] = q[j]
      BY <1>6, <3>1, <3>2
    <3>6. run[k - 1] = q[j - 1]
      <4>1. CASE j = 1
        <5>1. k - 1 = m /\ m \in 0 .. m + n /\ j - 1 = 0
          BY <1>4, <3>2, <4>1
        <5> QED BY <1>6, <1>8, <5>1
      <4>2. CASE j # 1
        <5>1. ~(k - 1 <= m) /\ (k - 1) - m = j - 1
          BY <1>4, <3>2, <4>2
        <5> QED BY <1>6, <3>2, <5>1
      <4> QED BY <4>1, <4>2
    <3> QED BY <3>3, <3>4, <3>5, <3>6
  <2> QED BY <2>1, <2>2
<1>11. RunsAs(run, a, v, c)
  BY <1>5, <1>7, <1>9, <1>10 DEF RunsAs
<1> QED BY <1>3, <1>11 DEF Runs

LEMMA RunsFirst ==
  ASSUME NEW stack, IsSequence(stack), stack # << >>, NEW node, NEW end, Runs(node, stack, end)
  PROVE  Runs(After(node, Head(stack)), Tail(stack), end)
<1>1. PICK p : RunsAs(p, node, stack, end)
  BY DEF Runs
<1>2. PICK S : stack \in Seq(S)
  BY DEF IsSequence
<1>3. PICK n, t, h : n = Len(stack) /\ t = Tail(stack) /\ h = Head(stack)
  OBVIOUS
<1>4. n \in Nat \ {0} /\ Len(t) = n - 1 /\ h = stack[1] /\ \A k \in 1 .. n - 1 : t[k] = stack[k + 1]
  BY <1>2, <1>3, HeadTailProperties
<1>5. PICK run : run = [k \in 0 .. n - 1 |-> p[k + 1]]
  OBVIOUS
<1>6. run[0] = After(node, h)
  <2>1. p[1] = After(p[1 - 1], stack[1]) /\ p[0] = node
    BY <1>1, <1>3, <1>4 DEF RunsAs
  <2>2. 0 \in 0 .. n - 1 /\ 1 - 1 = 0
    BY <1>4
  <2> QED BY <1>4, <1>5, <2>1, <2>2
<1>7. run[n - 1] = end
  <2>1. n - 1 \in 0 .. n - 1 /\ (n - 1) + 1 = n
    BY <1>4
  <2> QED BY <1>1, <1>3, <1>5, <2>1 DEF RunsAs
<1>8. ASSUME NEW k \in 1 .. n - 1 PROVE run[k] = After(run[k - 1], t[k])
  <2>1. k + 1 \in 1 .. n /\ (k + 1) - 1 = k /\ k \in 0 .. n - 1 /\ k - 1 \in 0 .. n - 1
        /\ (k - 1) + 1 = k
    BY <1>4
  <2>2. p[k + 1] = After(p[(k + 1) - 1], stack[k + 1])
    BY <1>1, <1>3, <2>1 DEF RunsAs
  <2> QED BY <1>4, <1>5, <2>1, <2>2
<1>9. RunsAs(run, After(node, h), t, end)
  BY <1>4, <1>6, <1>7, <1>8 DEF RunsAs
<1> QED BY <1>3, <1>9 DEF Runs

LEMMA RunsEmpty ==
  ASSUME NEW node, NEW end, Runs(node, << >>, end)
  PROVE  end = node
<1>1. PICK stack : stack = << >>
  OBVIOUS
<1>2. PICK p : RunsAs(p, node, stack, end)
  BY <1>1 DEF Runs
<1>3. Len(stack) = 0
  BY <1>1
<1> QED BY <1>2, <1>3 DEF RunsAs

(* Every call of a visit adds at most one part to its node.                *)
LEMMA AddingTo ==
  ASSUME NEW name, NEW values, NEW parts, NEW outer, NEW x
  PROVE  Adding(ReadNode(name, values, parts, outer), x)
           = ReadNode(name, values, Append(parts, x), outer)
<1>1. PICK node, more : node = ReadNode(name, values, parts, outer) /\ more = Append(parts, x)
  OBVIOUS
<1>2. node = [name |-> name, values |-> values, parts |-> parts, outer |-> outer]
      /\ node.parts = parts
  BY <1>1 DEF ReadNode
<1>3. Adding(node, x) = [node EXCEPT !.parts = more]
  BY <1>1, <1>2 DEF Adding
<1>4. [node EXCEPT !.parts = more] = ReadNode(name, values, more, outer)
  BY <1>2 DEF ReadNode
<1> QED BY <1>1, <1>3, <1>4

LEMMA TypeRun ==
  ASSUME NEW name, NEW values, NEW outer, NEW a
  PROVE  Runs(ReadNode(name, values, << >>, outer), << PrintType(a) >>,
              ReadNode(name, values, TypeParts(a), outer))
<1>1. PICK node, call : node = ReadNode(name, values, << >>, outer) /\ call = PrintType(a)
  OBVIOUS
<1>2. call.call = "print_resolved_type" /\ call.of = a
  BY <1>1 DEF PrintType
<1>3. After(node, call) =
        IF resolved_type[a] = NoType THEN node
        ELSE Adding(node, TypeNode("ResolvedType", identifiers[a]))
  BY <1>2 DEF After
<1>4. After(node, call) = ReadNode(name, values, TypeParts(a), outer)
  <2>1. CASE resolved_type[a] = NoType
    BY <1>1, <1>3, <2>1 DEF TypeParts
  <2>2. CASE resolved_type[a] # NoType
    <3>1. PICK t, none : t = TypeNode("ResolvedType", identifiers[a]) /\ none = << >>
      OBVIOUS
    <3>2. Append(none, t) = << t >>
      BY <3>1, FewParts
    <3>3. TypeParts(a) = << t >>
      BY <2>2, <3>1 DEF TypeParts
    <3>4. node = ReadNode(name, values, none, outer)
      BY <1>1, <3>1
    <3>5. Adding(node, t) = ReadNode(name, values, Append(none, t), outer)
      BY <3>4, AddingTo
    <3> QED BY <1>3, <2>2, <3>1, <3>2, <3>3, <3>5
  <2> QED BY <2>1, <2>2
<1> QED BY <1>1, <1>4, RunsOne

LEMMA VisitRun ==
  ASSUME NEW name, NEW values, NEW parts, NEW outer, NEW a
  PROVE  Runs(ReadNode(name, values, parts, outer), << Visit(a) >>,
              ReadNode(name, values, Append(parts, Whole(a)), outer))
<1>1. PICK node, call : node = ReadNode(name, values, parts, outer) /\ call = Visit(a)
  OBVIOUS
<1>2. call.call = "visit" /\ call.of = a
  BY <1>1 DEF Visit
<1>3. After(node, call) = Adding(node, Whole(a))
  BY <1>2 DEF After
<1>4. After(node, call) = ReadNode(name, values, Append(parts, Whole(a)), outer)
  BY <1>1, <1>3, AddingTo
<1> QED BY <1>1, <1>4, RunsOne

LEMMA NoteRun ==
  ASSUME NEW name, NEW values, NEW parts, NEW outer, NEW a,
         NEW note, note = TypeNode("TypeExpression", StatementAt(program, a).annotation)
  PROVE  Runs(ReadNode(name, values, parts, outer), << VisitType(a) >>,
              ReadNode(name, values, Append(parts, note), outer))
<1>1. PICK node, call : node = ReadNode(name, values, parts, outer) /\ call = VisitType(a)
  OBVIOUS
<1>2. call.call = "visit_type" /\ call.of = a
  BY <1>1 DEF VisitType
<1>3. After(node, call) = Adding(node, note)
  BY <1>2 DEF After
<1>4. After(node, call) = ReadNode(name, values, Append(parts, note), outer)
  BY <1>1, <1>3, AddingTo
<1> QED BY <1>1, <1>4, RunsOne

LEMMA SliceGrows ==
  ASSUME NEW parts, IsSequence(parts), NEW w, NEW j \in Nat \ {0}
  PROVE  Append(parts \o Slice(w, 1, j - 1), w[j]) = parts \o Slice(w, 1, j)
<1>1. PICK a, b, x, y : /\ a = Slice(w, 1, j - 1) /\ b = Slice(w, 1, j)
                        /\ x = parts \o a /\ y = parts \o b
  OBVIOUS
<1>2. PICK z, m : z = Append(x, w[j]) /\ m = Len(parts)
  OBVIOUS
<1>3. IsSlice(a, w, 1, j - 1)
  <2>1. j - 1 \in Nat /\ j - 1 = (j - 1) - 1 + 1 /\ 1 \in Nat
    OBVIOUS
  <2> QED BY <1>1, <2>1, SliceIs
<1>4. IsSlice(b, w, 1, j)
  <2>1. j \in Nat /\ j = j - 1 + 1 /\ 1 \in Nat
    OBVIOUS
  <2> QED BY <1>1, <2>1, SliceIs
<1>5. m \in Nat /\ Joined(x, parts, m, a, j - 1)
  BY <1>1, <1>2, <1>3, Concatenated DEF IsSlice
<1>6. Joined(y, parts, m, b, j)
  BY <1>1, <1>2, <1>4, Concatenated DEF IsSlice
<1>7. /\ IsSequence(z) /\ Len(z) = m + (j - 1) + 1 /\ z[m + (j - 1) + 1] = w[j]
      /\ \A i \in 1 .. m + (j - 1) : z[i] = x[i]
  <2>1. IsSequence(x) /\ Len(x) = m + (j - 1)
    BY <1>5 DEF Joined
  <2>2. IsSequence(z) /\ Len(z) = Len(x) + 1 /\ z[Len(x) + 1] = w[j]
    BY <1>2, <2>1, Appending
  <2>3. \A i \in 1 .. Len(x) : z[i] = x[i]
    BY <1>2, <2>1, Appending
  <2> QED BY <2>1, <2>2, <2>3
<1>8. ASSUME NEW i \in 1 .. m + j PROVE z[i] = y[i]
  <2>1. CASE i \in 1 .. m
    <3>1. i \in 1 .. m + (j - 1)
      BY <1>5, <2>1
    <3> QED BY <1>5, <1>6, <1>7, <2>1, <3>1 DEF Joined
  <2>2. CASE i \notin 1 .. m
    <3>1. PICK k : k = i - m
      OBVIOUS
    <3>2. k \in 1 .. j /\ i = m + k /\ 1 + k - 1 = k
      BY <1>5, <2>2, <3>1
    <3>3. y[i] = w[k]
      BY <1>4, <1>6, <3>2 DEF IsSlice, Joined
    <3>4. CASE k = j
      <4>1. i = m + (j - 1) + 1
        BY <1>5, <3>2, <3>4
      <4> QED BY <1>7, <3>3, <3>4, <4>1
    <3>5. CASE k # j
      <4>1. k \in 1 .. j - 1 /\ i \in 1 .. m + (j - 1)
        BY <1>5, <3>2, <3>5
      <4>2. z[i] = x[i] /\ x[i] = a[k]
        BY <1>5, <1>7, <3>2, <4>1 DEF Joined
      <4>3. a[k] = w[k]
        BY <1>3, <3>2, <4>1 DEF IsSlice
      <4> QED BY <3>3, <4>2, <4>3
    <3> QED BY <3>4, <3>5
  <2> QED BY <2>1, <2>2
<1>9. z = y
  <2>1. Len(z) = m + j /\ Len(y) = m + j /\ IsSequence(y)
    BY <1>5, <1>6, <1>7 DEF Joined
  <2> QED BY <1>7, <1>8, <2>1, SameSequence
<1> QED BY <1>1, <1>2, <1>9

LEMMA VisitsRun ==
  ASSUME NEW name, NEW values, NEW parts, IsSequence(parts), NEW outer,
         NEW k \in Nat, NEW list, Len(list) = k, NEW wholes, IsSequence(wholes), Len(wholes) = k,
         \A i \in 1 .. k : list[i].call = "visit" /\ wholes[i] = Whole(list[i].of)
  PROVE  Runs(ReadNode(name, values, parts, outer), list,
              ReadNode(name, values, parts \o wholes, outer))
<1>1. PICK run : run = [j \in 0 .. k |-> ReadNode(name, values, parts \o Slice(wholes, 1, j), outer)]
  OBVIOUS
<1>2. run[0] = ReadNode(name, values, parts, outer)
  <2>1. PICK none : none = Slice(wholes, 1, 0)
    OBVIOUS
  <2>2. none = << >>
    <3>1. 0 = 0 - 1 + 1 /\ 0 \in Nat /\ 1 \in Nat
      OBVIOUS
    <3>2. IsSlice(none, wholes, 1, 0)
      BY <2>1, <3>1, SliceIs
    <3> QED BY <3>2, FewParts, SameSequence DEF IsSlice
  <2>3. parts \o << >> = parts
    BY DEF IsSequence
  <2> QED BY <1>1, <2>1, <2>2, <2>3
<1>3. run[k] = ReadNode(name, values, parts \o wholes, outer)
  <2>1. Slice(wholes, 1, k) = wholes
    BY WholeSlice
  <2> QED BY <1>1, <2>1
<1>4. ASSUME NEW j \in 1 .. k PROVE run[j] = After(run[j - 1], list[j])
  <2>1. PICK call, before, node : /\ call = list[j] /\ node = run[j - 1]
                                  /\ before = parts \o Slice(wholes, 1, j - 1)
    OBVIOUS
  <2>2. node = ReadNode(name, values, before, outer)
    <3>1. j - 1 \in 0 .. k
      OBVIOUS
    <3> QED BY <1>1, <2>1, <3>1
  <2>3. After(node, call) = Adding(node, wholes[j])
    BY <2>1 DEF After
  <2>4. After(node, call) = ReadNode(name, values, Append(before, wholes[j]), outer)
    BY <2>2, <2>3, AddingTo
  <2>5. Append(before, wholes[j]) = parts \o Slice(wholes, 1, j)
    <3>1. j \in Nat \ {0}
      OBVIOUS
    <3>2. Append(parts \o Slice(wholes, 1, j - 1), wholes[j]) = parts \o Slice(wholes, 1, j)
      BY <3>1, SliceGrows, Zenon
    <3> QED BY <2>1, <3>2
  <2>6. run[j] = ReadNode(name, values, parts \o Slice(wholes, 1, j), outer)
    <3>1. j \in 0 .. k
      OBVIOUS
    <3> QED BY <1>1, <3>1
  <2> QED BY <2>1, <2>4, <2>5, <2>6
<1>5. RunsAs(run, ReadNode(name, values, parts, outer), list,
             ReadNode(name, values, parts \o wholes, outer))
  BY <1>2, <1>3, <1>4 DEF RunsAs
<1> QED BY <1>5 DEF Runs

----------------------------------------------------------------------------
(* The calls of a visit put its parts into its node.                       *)
Inside(a) ==
  IF a = Root THEN ProgramParts
  ELSE IF a[2] = 0 THEN FunctionParts(a[1])
  ELSE IF a[3] > 0 THEN NodeParts(a[1], a[2], a[3]) ELSE StatementParts(a[1], a[2])

Fills(a, name, values, outer) ==
  Runs(ReadNode(name, values, << >>, outer), VisitCalls(a), ReadNode(name, values, Inside(a), outer))

LEMMA NodeWhole ==
  ASSUME NEW f, NEW s \in Nat \ {0}, NEW e \in Nat \ {0}, NEW a, a = <<f, s, e>>
  PROVE  Whole(a) = WholeNode(f, s, e)
<1>1. a # Root /\ a[1] = f /\ a[2] = s /\ a[3] = e /\ s # 0 /\ e > 0
  BY DEF Root
<1> QED BY <1>1 DEF Whole

LEMMA ProgramFills ==
  ASSUME IsProgram(program, Names), NEW name, NEW values, NEW outer
  PROVE  Fills(Root, name, values, outer)
<1>1. PICK n \in Nat : n = Len(program)
  BY DEF IsProgram
<1>2. PICK list, wholes, none :
        list = [f \in 1 .. n |-> Visit(<<f, 0, 0>>)] /\ wholes = ProgramParts /\ none = << >>
  OBVIOUS
<1>3. VisitCalls(Root) = list /\ Len(list) = n
  BY <1>1, <1>2 DEF VisitCalls
<1>4. wholes = [f \in 1 .. n |-> WholeFunction(f)]
  BY <1>1, <1>2 DEF ProgramParts
<1> DEFINE S == { WholeFunction(f) : f \in 1 .. n }
<1>5. \A f \in 1 .. n : WholeFunction(f) \in S
  OBVIOUS
<1> HIDE DEF S
<1>6. wholes \in [1 .. n -> S]
  BY <1>4, <1>5
<1>7. wholes \in Seq(S) /\ Len(wholes) = n
  BY <1>6
<1>8. IsSequence(wholes) /\ IsSequence(none)
  BY <1>2, <1>7, FewParts DEF IsSequence
<1>9. none \o wholes = wholes
  BY <1>2, <1>7
<1>10. ASSUME NEW i \in 1 .. n PROVE list[i].call = "visit" /\ wholes[i] = Whole(list[i].of)
  <2>1. list[i].call = "visit" /\ list[i].of = <<i, 0, 0>>
    BY <1>2 DEF Visit
  <2>2. Whole(<<i, 0, 0>>) = WholeFunction(i)
    <3>1. <<i, 0, 0>> # Root
      BY DEF Root
    <3> QED BY <3>1 DEF Whole
  <2> QED BY <1>4, <2>1, <2>2
<1>11. Runs(ReadNode(name, values, none, outer), list, ReadNode(name, values, none \o wholes, outer))
  BY <1>3, <1>7, <1>8, <1>10, VisitsRun
<1>12. Inside(Root) = wholes
  BY <1>2 DEF Inside
<1> QED BY <1>2, <1>3, <1>9, <1>11, <1>12 DEF Fills

LEMMA FunctionFills ==
  ASSUME IsProgram(program, Names), NEW a \in FunctionAddresses(program),
         NEW name, NEW values, NEW outer
  PROVE  Fills(a, name, values, outer)
<1>1. PICK f \in 1 .. Len(program) : a = <<f, 0, 0>>
  BY DEF FunctionAddresses
<1>2. PICK n \in Nat : n = Len(program[f].statements)
  BY <1>1 DEF IsProgram
<1>3. a # Root /\ a[1] = f /\ a[2] = 0 /\ f \in Nat \ {0}
  <2>1. f \in Nat \ {0}
    BY <1>1 DEF IsProgram
  <2> QED BY <1>1, <2>1 DEF Root
<1>4. PICK type, list, wholes :
        /\ type = << PrintType(a) >> /\ list = [s \in 1 .. n |-> Visit(<<f, s, 0>>)]
        /\ wholes = [s \in 1 .. n |-> WholeStatement(f, s)]
  OBVIOUS
<1>5. VisitCalls(a) = type \o list
  BY <1>2, <1>3, <1>4 DEF VisitCalls
<1>6. IsSequence(type) /\ Len(list) = n
  BY <1>4, OneElement
<1>7. IsSequence(list)
  <2> DEFINE S == { Visit(<<f, s, 0>>) : s \in 1 .. n }
  <2>1. \A s \in 1 .. n : Visit(<<f, s, 0>>) \in S
    OBVIOUS
  <2> HIDE DEF S
  <2>2. list \in [1 .. n -> S]
    BY <1>4, <2>1
  <2>3. list \in Seq(S)
    BY <2>2
  <2> QED BY <2>3 DEF IsSequence
<1>8. IsSequence(wholes) /\ Len(wholes) = n /\ \A s \in 1 .. n : wholes[s] = WholeStatement(f, s)
  BY <1>2, <1>4, StatementsSequence
<1>9. PICK parts : parts = TypeParts(a)
  OBVIOUS
<1>10. IsSequence(parts)
  BY <1>9, TypePartsSequence
<1>11. Runs(ReadNode(name, values, << >>, outer), type, ReadNode(name, values, parts, outer))
  BY <1>4, <1>9, TypeRun
<1>12. ASSUME NEW i \in 1 .. n PROVE list[i].call = "visit" /\ wholes[i] = Whole(list[i].of)
  <2>1. list[i].call = "visit" /\ list[i].of = <<f, i, 0>>
    BY <1>4 DEF Visit
  <2>2. Whole(<<f, i, 0>>) = WholeStatement(f, i)
    <3>1. <<f, i, 0>> # Root
      BY DEF Root
    <3> QED BY <3>1 DEF Whole
  <2> QED BY <1>8, <2>1, <2>2
<1>13. Runs(ReadNode(name, values, parts, outer), list, ReadNode(name, values, parts \o wholes, outer))
  BY <1>6, <1>8, <1>10, <1>12, VisitsRun
<1>14. Inside(a) = parts \o wholes
  <2>1. Inside(a) = FunctionParts(f)
    BY <1>3 DEF Inside
  <2>2. FunctionParts(f) = TypeParts(a) \o wholes
    BY <1>1, <1>2, <1>4 DEF FunctionParts
  <2> QED BY <1>9, <2>1, <2>2
<1>15. Runs(ReadNode(name, values, << >>, outer), type \o list,
            ReadNode(name, values, parts \o wholes, outer))
  BY <1>6, <1>7, <1>11, <1>13, RunsOn
<1> QED BY <1>5, <1>14, <1>15 DEF Fills

LEMMA StatementFills ==
  ASSUME IsProgram(program, Names), NEW a \in StatementAddresses(program),
         NEW name, NEW values, NEW outer
  PROVE  Fills(a, name, values, outer)
<1>1. PICK f \in 1 .. Len(program) : \E s \in 1 .. Len(program[f].statements) : a = <<f, s, 0>>
  BY DEF StatementAddresses
<1>2. PICK s \in 1 .. Len(program[f].statements) : a = <<f, s, 0>>
  BY <1>1
<1>3. a # Root /\ a[1] = f /\ a[2] = s /\ a[3] = 0 /\ s # 0 /\ f \in Nat \ {0} /\ s \in Nat \ {0}
  <2>1. f \in Nat \ {0} /\ s \in Nat \ {0}
    BY <1>1, <1>2 DEF IsProgram
  <2> QED BY <1>2, <2>1 DEF Root
<1>4. PICK stmt, root, note :
        /\ stmt = program[f].statements[s] /\ root = RootOf(a)
        /\ note = TypeNode("TypeExpression", StatementAt(program, a).annotation)
  OBVIOUS
<1>5. StatementAt(program, a) = stmt
  BY <1>3, <1>4 DEF StatementAt
<1>6. PICK e \in Nat \ {0} : e = Len(stmt.value)
  BY <1>1, <1>4, ProgramShape DEF ValueAt
<1>7. root = <<f, s, e>>
  BY <1>3, <1>4, <1>5, <1>6 DEF RootOf
<1>8. Whole(root) = WholeNode(f, s, e)
  BY <1>3, <1>6, <1>7, NodeWhole
<1>9. PICK type, value, parts :
        /\ type = IF stmt.kind = "Declare" THEN TypeParts(a) ELSE << >>
        /\ value = Append(type, Whole(root))
        /\ parts = IF stmt.kind = "Declare" /\ stmt.annotation # NoType
                   THEN Append(value, note) ELSE value
  OBVIOUS
<1>10. Inside(a) = parts
  <2>1. Inside(a) = StatementParts(f, s)
    BY <1>3 DEF Inside
  <2>2. PICK x : x = WholeNode(f, s, Len(stmt.value))
    OBVIOUS
  <2>3. TypeParts(<<f, s, 0>>) = TypeParts(a)
    BY <1>2
  <2>4. note = TypeNode("TypeExpression", stmt.annotation)
    BY <1>4, <1>5
  <2>5. StatementParts(f, s) =
          IF stmt.kind = "Declare" /\ stmt.annotation # NoType
          THEN Append(Append(type, x), note) ELSE Append(type, x)
    <3>1. CASE stmt.kind = "Declare"
      <4>1. type = TypeParts(<<f, s, 0>>)
        BY <1>9, <2>3, <3>1
      <4> QED BY <1>4, <2>2, <2>4, <3>1, <4>1 DEF StatementParts
    <3>2. CASE stmt.kind # "Declare"
      <4>1. type = << >>
        BY <1>9, <3>2
      <4> QED BY <1>4, <2>2, <3>2, <4>1 DEF StatementParts
    <3> QED BY <3>1, <3>2
  <2>6. value = Append(type, x)
    BY <1>6, <1>8, <1>9, <2>2
  <2>7. StatementParts(f, s) = parts
    BY <1>9, <2>5, <2>6
  <2> QED BY <2>1, <2>7
<1>11. PICK before, visit, after :
         /\ before = IF stmt.kind = "Declare" THEN << PrintType(a) >> ELSE << >>
         /\ visit = << Visit(root) >>
         /\ after = IF stmt.kind = "Declare" /\ stmt.annotation # NoType
                    THEN << VisitType(a) >> ELSE << >>
  OBVIOUS
<1>12. VisitCalls(a) = (before \o visit) \o after
  <2>1. StatementCalls(a) = (before \o visit) \o after
    <3>1. StatementAt(program, a) = stmt /\ RootOf(a) = root
      BY <1>4, <1>5
    <3>2. CASE stmt.kind = "Declare"
      <4>1. before = << PrintType(a) >>
        BY <1>11, <3>2
      <4> QED BY <1>11, <3>1, <3>2, <4>1 DEF StatementCalls
    <3>3. CASE stmt.kind # "Declare"
      <4>1. before = << >> /\ after = << >>
        BY <1>11, <3>3
      <4>2. visit = << Visit(root) >>
        BY <1>11
      <4>3. StatementCalls(a) = (<< >> \o << Visit(root) >>) \o << >>
        BY <3>1, <3>3 DEF StatementCalls
      <4> QED BY <4>1, <4>2, <4>3
    <3> QED BY <3>2, <3>3
  <2>2. a # Root /\ a[2] # 0 /\ ~(a[3] > 0)
    BY <1>3
  <2>3. VisitCalls(a) = StatementCalls(a)
    BY <2>2, Zenon DEF VisitCalls
  <2> QED BY <2>1, <2>3
<1>13. IsSequence(before) /\ IsSequence(visit) /\ IsSequence(after)
  BY <1>11, FewParts
<1>14. Runs(ReadNode(name, values, << >>, outer), before, ReadNode(name, values, type, outer))
  <2>1. CASE stmt.kind = "Declare"
    <3>1. before = << PrintType(a) >> /\ type = TypeParts(a)
      BY <1>9, <1>11, <2>1
    <3> QED BY <3>1, TypeRun
  <2>2. CASE stmt.kind # "Declare"
    <3>1. before = << >> /\ type = << >>
      BY <1>9, <1>11, <2>2
    <3> QED BY <3>1, RunsNone
  <2> QED BY <2>1, <2>2
<1>15. Runs(ReadNode(name, values, type, outer), visit, ReadNode(name, values, value, outer))
  BY <1>9, <1>11, VisitRun
<1>16. Runs(ReadNode(name, values, value, outer), after, ReadNode(name, values, parts, outer))
  <2>1. CASE stmt.kind = "Declare" /\ stmt.annotation # NoType
    <3>1. after = << VisitType(a) >> /\ parts = Append(value, note)
      BY <1>9, <1>11, <2>1
    <3> QED BY <1>4, <3>1, NoteRun
  <2>2. CASE ~(stmt.kind = "Declare" /\ stmt.annotation # NoType)
    <3>1. after = << >> /\ parts = value
      BY <1>9, <1>11, <2>2
    <3> QED BY <3>1, RunsNone
  <2> QED BY <2>1, <2>2
<1>17. Runs(ReadNode(name, values, << >>, outer), before \o visit, ReadNode(name, values, value, outer))
  BY <1>13, <1>14, <1>15, RunsOn
<1>18. IsSequence(before \o visit)
  BY <1>13, Concatenating
<1>19. Runs(ReadNode(name, values, << >>, outer), (before \o visit) \o after,
            ReadNode(name, values, parts, outer))
  BY <1>13, <1>16, <1>17, <1>18, RunsOn
<1> QED BY <1>10, <1>12, <1>19 DEF Fills

LEMMA NodeFills ==
  ASSUME IsProgram(program, Names), NEW a \in NodeAddresses(program),
         NEW name, NEW values, NEW outer
  PROVE  Fills(a, name, values, outer)
<1>1. /\ a[1] \in 1 .. Len(program) /\ Len(program) \in Nat
      /\ a[2] \in 1 .. Len(program[a[1]].statements)
      /\ Len(program[a[1]].statements) \in Nat
      /\ a[3] \in 1 .. Len(StatementAt(program, a).value)
      /\ Len(StatementAt(program, a).value) \in Nat
      /\ a \in Addresses(program)
  BY NodeAddressParts
<1>2. PICK f, s, e : f = a[1] /\ s = a[2] /\ e = a[3] /\ a = <<f, s, e>>
  BY DEF NodeAddresses
<1>3. f \in 1 .. Len(program) /\ s \in 1 .. Len(program[f].statements)
      /\ e \in 1 .. Len(ValueAt(f, s))
  BY <1>1, <1>2 DEF StatementAt, ValueAt
<1>4. a # Root /\ s # 0 /\ e > 0
  BY <1>1, <1>2 DEF Root
<1>5. PICK node : node = ValueAt(f, s)[e]
  OBVIOUS
<1>6. NodeAt(program, a) = node
  BY <1>2, <1>5 DEF NodeAt, StatementAt, ValueAt
<1>7. PICK type, parts : type = << PrintType(a) >> /\ parts = TypeParts(a)
  OBVIOUS
<1>8. Inside(a) = NodeParts(f, s, e)
  BY <1>2, <1>4 DEF Inside
<1>9. VisitCalls(a) = ExpressionCalls(a)
  BY <1>2, <1>4 DEF VisitCalls
<1>10. IsSequence(type)
  BY <1>7, OneElement
<1>11. Runs(ReadNode(name, values, << >>, outer), type, ReadNode(name, values, parts, outer))
  BY <1>7, TypeRun
<1>12. CASE node.kind = "Binary"
  <2>1. PICK left, right : left = <<f, s, node.lhs>> /\ right = <<f, s, node.rhs>>
    OBVIOUS
  <2>2. Whole(left) = WholeNode(f, s, node.lhs) /\ Whole(right) = WholeNode(f, s, node.rhs)
    <3>1. IsExpression(ValueAt(f, s), Names)
      BY <1>3, ProgramShape
    <3>2. PICK n \in Nat : n = Len(ValueAt(f, s)) /\ e \in 1 .. n
      BY <1>3, ProgramShape
    <3>3. node.lhs \in 1 .. (e - 2) /\ node.rhs = e - 1
      BY <1>3, <1>5, <1>12, <3>1 DEF IsExpression
    <3>4. node.lhs \in Nat \ {0} /\ node.rhs \in Nat \ {0}
      BY <3>2, <3>3
    <3>5. s \in Nat \ {0}
      <4>1. PICK m \in Nat : m = Len(program[f].statements)
        BY <1>1, <1>2
      <4> QED BY <1>3, <4>1
    <3> QED BY <2>1, <3>4, <3>5, NodeWhole
  <2>3. PICK first, second, both :
          first = << Visit(left) >> /\ second = << Visit(right) >> /\ both = first \o second
    OBVIOUS
  <2>4. VisitCalls(a) = type \o both
    <3>1. ExpressionCalls(a) = type \o << Visit(left), Visit(right) >>
      BY <1>2, <1>6, <1>7, <1>12, <2>1 DEF ExpressionCalls
    <3>2. PICK x, y : x = Visit(left) /\ y = Visit(right)
      OBVIOUS
    <3>3. << x >> \o << y >> = << x, y >>
      BY TwoJoined, Zenon
    <3> QED BY <1>9, <2>3, <3>1, <3>2, <3>3
  <2>5. IsSequence(first) /\ IsSequence(second) /\ IsSequence(both)
    BY <2>3, FewParts, Concatenating
  <2>6. PICK one, two : one = Append(parts, Whole(left)) /\ two = Append(one, Whole(right))
    OBVIOUS
  <2>7. Inside(a) = two
    <3>1. PICK x, y : x = WholeNode(f, s, node.lhs) /\ y = WholeNode(f, s, node.rhs)
      OBVIOUS
    <3>2. NodeParts(f, s, e) = Append(Append(TypeParts(<<f, s, e>>), x), y)
      BY <1>5, <1>12, <3>1 DEF NodeParts
    <3>3. TypeParts(<<f, s, e>>) = parts
      BY <1>2, <1>7
    <3> QED BY <1>8, <2>2, <2>6, <3>1, <3>2, <3>3
  <2>8. Runs(ReadNode(name, values, parts, outer), first, ReadNode(name, values, one, outer))
    BY <2>3, <2>6, VisitRun
  <2>9. Runs(ReadNode(name, values, one, outer), second, ReadNode(name, values, two, outer))
    BY <2>3, <2>6, VisitRun
  <2>10. Runs(ReadNode(name, values, parts, outer), both, ReadNode(name, values, two, outer))
    BY <2>3, <2>5, <2>8, <2>9, RunsOn
  <2>11. Runs(ReadNode(name, values, << >>, outer), type \o both, ReadNode(name, values, two, outer))
    BY <1>10, <1>11, <2>5, <2>10, RunsOn
  <2> QED BY <2>4, <2>7, <2>11 DEF Fills
<1>13. CASE node.kind # "Binary"
  <2>1. VisitCalls(a) = type
    <3>1. ExpressionCalls(a) = type \o << >>
      BY <1>6, <1>7, <1>13 DEF ExpressionCalls
    <3>2. type \o << >> = type
      BY <1>10 DEF IsSequence
    <3> QED BY <1>9, <3>1, <3>2
  <2>2. Inside(a) = parts
    BY <1>2, <1>5, <1>7, <1>8, <1>13 DEF NodeParts
  <2> QED BY <1>11, <2>1, <2>2 DEF Fills
<1> QED BY <1>12, <1>13

LEMMA VisitFills ==
  ASSUME IsProgram(program, Names), NEW a \in PrintAddresses(program),
         NEW name, NEW values, NEW outer
  PROVE  Fills(a, name, values, outer)
BY ProgramFills, FunctionFills, StatementFills, NodeFills DEF PrintAddresses, Addresses

(* Closed with these parts, the node of a visit is as it should be.        *)
LEMMA VisitCloses ==
  ASSUME IsProgram(program, Names), NEW a \in PrintAddresses(program)
  PROVE  Summary(Name(a), Values(a), Inside(a)) = Whole(a)
<1>1. CASE a = Root
  <2>1. Name(a) = "Program" /\ Values(a) = << >> /\ Inside(a) = ProgramParts /\ Whole(a) = WholeProgram
    BY <1>1 DEF Name, Values, Inside, Whole
  <2> QED BY <2>1, ProgramClosed
<1>2. CASE a \in FunctionAddresses(program)
  <2>1. PICK f \in 1 .. Len(program) : a = <<f, 0, 0>>
    BY <1>2 DEF FunctionAddresses
  <2>2. a # Root /\ a[1] = f /\ a[2] = 0
    <3>1. f # 0
      BY <2>1 DEF IsProgram
    <3> QED BY <2>1, <3>1 DEF Root
  <2>3. Name(a) = "FunctionDeclaration" /\ Values(a) = << program[f].name >>
        /\ Inside(a) = FunctionParts(f) /\ Whole(a) = WholeFunction(f)
    BY <2>2 DEF Name, Values, Inside, Whole
  <2> QED BY <2>1, <2>3, FunctionClosed
<1>3. CASE a \in StatementAddresses(program)
  <2>1. PICK f \in 1 .. Len(program) : \E s \in 1 .. Len(program[f].statements) : a = <<f, s, 0>>
    BY <1>3 DEF StatementAddresses
  <2>2. PICK s \in 1 .. Len(program[f].statements) : a = <<f, s, 0>>
    BY <2>1
  <2>3. a # Root /\ a[1] = f /\ a[2] = s /\ a[3] = 0 /\ s # 0
    <3>1. f \in Nat \ {0} /\ s \in Nat \ {0}
      BY <2>1, <2>2 DEF IsProgram
    <3> QED BY <2>2, <3>1 DEF Root
  <2>4. Inside(a) = StatementParts(f, s) /\ Whole(a) = WholeStatement(f, s)
    BY <2>3 DEF Inside, Whole
  <2>5. PICK stmt : stmt = program[f].statements[s]
    OBVIOUS
  <2>6. StatementAt(program, a) = stmt
    BY <2>3, <2>5 DEF StatementAt
  <2>7. Name(a) = stmt.kind /\ Values(a) = Label(stmt)
    BY <2>3, <2>6 DEF Name, Values
  <2>8. Summary(stmt.kind, Label(stmt), StatementParts(f, s)) = WholeStatement(f, s)
    BY <2>1, <2>5, StatementClosed
  <2> QED BY <2>4, <2>7, <2>8
<1>4. CASE a \in NodeAddresses(program)
  <2>1. /\ a[1] \in 1 .. Len(program) /\ Len(program) \in Nat
        /\ a[2] \in 1 .. Len(program[a[1]].statements)
        /\ Len(program[a[1]].statements) \in Nat
        /\ a[3] \in 1 .. Len(StatementAt(program, a).value)
        /\ Len(StatementAt(program, a).value) \in Nat
        /\ a \in Addresses(program)
    BY <1>4, NodeAddressParts
  <2>2. PICK f, s, e : f = a[1] /\ s = a[2] /\ e = a[3]
    OBVIOUS
  <2>3. f \in 1 .. Len(program) /\ s \in 1 .. Len(program[f].statements)
        /\ e \in 1 .. Len(ValueAt(f, s))
    BY <2>1, <2>2 DEF StatementAt, ValueAt
  <2>4. a # Root /\ s # 0 /\ e > 0
    BY <2>1, <2>2 DEF Root
  <2>5. PICK node : node = ValueAt(f, s)[e]
    OBVIOUS
  <2>6. NodeAt(program, a) = node
    BY <2>2, <2>5 DEF NodeAt, StatementAt, ValueAt
  <2>7. Inside(a) = NodeParts(f, s, e) /\ Whole(a) = WholeNode(f, s, e)
    BY <2>2, <2>4 DEF Inside, Whole
  <2>8. Name(a) = node.kind /\ Values(a) = Label(node)
    BY <2>2, <2>4, <2>6 DEF Name, Values
  <2>9. Summary(node.kind, Label(node), NodeParts(f, s, e)) = WholeNode(f, s, e)
    BY <2>3, <2>5, NodeClosed
  <2> QED BY <2>7, <2>8, <2>9
<1> QED BY <1>1, <1>2, <1>3, <1>4 DEF PrintAddresses, Addresses

----------------------------------------------------------------------------
(* The reader takes the pieces one after the other.                        *)
ReadFrom(nodes, text, n) == IF n = 0 THEN File ELSE Reading(nodes[n - 1], text[n])

LEMMA ReadsDefined ==
  ASSUME NEW text, Len(text) \in Nat
  PROVE  Reads(text) = [n \in 0 .. Len(text) |-> ReadFrom(Reads(text), text, n)]
<1> DEFINE last == Len(text)
           Defines(x, k) == x = [n \in 0 .. k |-> ReadFrom(x, text, n)]
           T == { k \in 0 .. last : \E x : Defines(x, k) }
<1>1. ASSUME NEW x, NEW y, NEW n \in 0 .. last, \A j \in 0 .. n - 1 : x[j] = y[j]
      PROVE  ReadFrom(x, text, n) = ReadFrom(y, text, n)
  <2>1. CASE n = 0
    BY <2>1 DEF ReadFrom
  <2>2. CASE n # 0
    <3>1. x[n - 1] = y[n - 1]
      BY <1>1, <2>2
    <3> QED BY <3>1 DEF ReadFrom
  <2> QED BY <2>1, <2>2
<1>2. 0 \in T
  <2>1. Defines([n \in 0 .. 0 |-> File], 0)
    BY DEF ReadFrom
  <2>2. \E x : Defines(x, 0)
    <3> HIDE DEF Defines
    <3> QED BY <2>1
  <2> HIDE DEF Defines
  <2> QED BY <2>2
<1>3. ASSUME NEW k \in 0 .. last - 1, k \in T
      PROVE  k + 1 \in T
  <2>1. PICK x : Defines(x, k)
    BY <1>3
  <2> DEFINE y == [n \in 0 .. k + 1 |-> IF n <= k THEN x[n] ELSE ReadFrom(x, text, k + 1)]
  <2>2. k \in Nat /\ k + 1 \in 0 .. last
    OBVIOUS
  <2>3. \A j \in 0 .. k : x[j] = y[j]
    BY <2>2
  <2>4. \A n \in 0 .. k + 1 : y[n] = ReadFrom(x, text, n)
    BY <2>1, <2>2
  <2>5. ASSUME NEW n \in 0 .. k + 1
        PROVE  ReadFrom(x, text, n) = ReadFrom(y, text, n)
    <3>1. n \in 0 .. last /\ \A j \in 0 .. n - 1 : j \in 0 .. k
      BY <2>2
    <3>2. \A j \in 0 .. n - 1 : x[j] = y[j]
      BY <2>3, <3>1
    <3> HIDE DEF y
    <3> QED BY <1>1, <3>1, <3>2
  <2>6. \A n \in 0 .. k + 1 : y[n] = ReadFrom(y, text, n)
    BY <2>4, <2>5
  <2>7. y = [n \in 0 .. k + 1 |-> y[n]]
    OBVIOUS
  <2> HIDE DEF y
  <2>8. Defines(y, k + 1)
    BY <2>6, <2>7
  <2> HIDE DEF Defines
  <2> QED BY <2>2, <2>8
<1>4. last \in T
  <2>1. \A k \in 0 .. last - 1 : k \in T => k + 1 \in T
    BY <1>3
  <2> HIDE DEF T
  <2>2. 0 .. last \subseteq T
    BY <1>2, <2>1, Counting
  <2> QED BY <2>2
<1>5. \E x : Defines(x, last)
  BY <1>4
<1>6. Reads(text) = CHOOSE x : Defines(x, last)
  BY Zenon DEF Reads, ReadFrom
<1>7. Defines(Reads(text), last)
  <2> HIDE DEF Defines
  <2> QED BY <1>5, <1>6, Zenon
<1> QED BY <1>7

LEMMA ReadsStep ==
  ASSUME NEW text, NEW len \in Nat, len = Len(text), NEW nodes, nodes = Reads(text)
  PROVE  nodes[0] = File /\ \A n \in 1 .. len : nodes[n] = Reading(nodes[n - 1], text[n])
<1>1. nodes = [n \in 0 .. len |-> ReadFrom(nodes, text, n)]
  BY ReadsDefined
<1>2. \A n \in 0 .. len : nodes[n] = ReadFrom(nodes, text, n)
  BY <1>1
<1> QED BY <1>2 DEF ReadFrom

LEMMA ReadNothing == Read(<< >>) = File
<1>1. PICK text : text = << >>
  OBVIOUS
<1>2. Len(text) = 0
  BY <1>1
<1>3. PICK nodes : nodes = Reads(text)
  OBVIOUS
<1>4. nodes[0] = File
  BY <1>2, <1>3, ReadsStep
<1> QED BY <1>1, <1>2, <1>3, <1>4 DEF Read

LEMMA ReadPiece ==
  ASSUME NEW text, IsSequence(text), NEW piece
  PROVE  Read(Append(text, piece)) = Reading(Read(text), piece)
<1>1. PICK whole, m : whole = Append(text, piece) /\ m = Len(text)
  OBVIOUS
<1>2. /\ m \in Nat /\ Len(whole) = m + 1 /\ whole[m + 1] = piece
      /\ \A i \in 1 .. m : whole[i] = text[i]
  BY <1>1, Appending
<1>3. PICK x, y : x = Reads(text) /\ y = Reads(whole)
  OBVIOUS
<1>4. x[0] = File /\ \A n \in 1 .. m : x[n] = Reading(x[n - 1], text[n])
  BY <1>1, <1>2, <1>3, ReadsStep
<1>5. y[0] = File /\ \A n \in 1 .. m + 1 : y[n] = Reading(y[n - 1], whole[n])
  <2>1. PICK k \in Nat : k = m + 1
    BY <1>2
  <2> QED BY <1>2, <1>3, <2>1, ReadsStep
<1> DEFINE T == { k \in 0 .. m : x[k] = y[k] }
<1>6. 0 \in T
  BY <1>2, <1>4, <1>5
<1>7. ASSUME NEW k \in 0 .. m - 1, k \in T PROVE k + 1 \in T
  <2>1. k + 1 \in 1 .. m /\ k + 1 \in 1 .. m + 1 /\ (k + 1) - 1 = k /\ k + 1 \in 0 .. m
    BY <1>2
  <2>2. x[k] = y[k]
    BY <1>7
  <2>3. x[k + 1] = Reading(x[k], text[k + 1])
    BY <1>4, <2>1
  <2>4. y[k + 1] = Reading(y[k], whole[k + 1])
    BY <1>5, <2>1
  <2>5. whole[k + 1] = text[k + 1]
    BY <1>2, <2>1
  <2>6. x[k + 1] = y[k + 1]
    BY <2>2, <2>3, <2>4, <2>5
  <2> QED BY <2>1, <2>6
<1>8. m \in T
  <2> HIDE DEF T
  <2>1. \A k \in 0 .. m - 1 : k \in T => k + 1 \in T
    BY <1>7
  <2>2. 0 .. m \subseteq T
    BY <1>2, <1>6, <2>1, Counting
  <2> QED BY <1>2, <2>2
<1>9. x[m] = y[m]
  BY <1>8
<1>10. y[m + 1] = Reading(y[m], piece)
  <2>1. m + 1 \in 1 .. m + 1 /\ (m + 1) - 1 = m
    BY <1>2
  <2> QED BY <1>2, <1>5, <2>1
<1>11. Read(whole) = y[m + 1] /\ Read(text) = x[m]
  BY <1>1, <1>2, <1>3 DEF Read
<1> QED BY <1>1, <1>9, <1>10, <1>11

LEMMA PieceRead ==
  ASSUME NEW node, NEW n, NEW name, NEW value
  PROVE  /\ Reading(node, Line(n)) = node
         /\ Reading(node, Open(name)) = ReadNode(name, << >>, << >>, node)
         /\ Reading(node, Value(value)) = [node EXCEPT !.values = Append(@, value)]
         /\ Reading(node, ClosingParen) = Adding(node.outer, Closed(node))
<1>1. Reading(node, Line(n)) = node
  BY DEF Reading, Line
<1>2. Reading(node, Open(name)) = ReadNode(name, << >>, << >>, node)
  BY DEF Reading, Open, Started, ReadNode
<1>3. Reading(node, Value(value)) = [node EXCEPT !.values = Append(@, value)]
  BY DEF Reading, Value
<1>4. Reading(node, ClosingParen) = Adding(node.outer, Closed(node))
  BY DEF Reading, ClosingParen
<1> QED BY <1>1, <1>2, <1>3, <1>4

LEMMA NodeOpens ==
  ASSUME NEW text, IsSequence(text), NEW name
  PROVE  /\ IsSequence(text \o add_node(name))
         /\ Read(text \o add_node(name)) = ReadNode(name, << >>, << >>, Read(text))
<1>1. PICK line, open : line = Line(4 * depth) /\ open = Open(name)
  OBVIOUS
<1>2. CASE depth = 0
  <2>1. add_node(name) = << open >>
    <3>1. add_node(name) = << >> \o << open >>
      BY <1>1, <1>2 DEF add_node
    <3>2. << >> \o << open >> = << open >>
      <4>1. PICK one : one = << open >>
        OBVIOUS
      <4>2. one \in Seq({open})
        BY <4>1
      <4>3. << >> \o one = one
        BY <4>2
      <4> QED BY <4>1, <4>3
    <3> QED BY <3>1, <3>2
  <2>2. text \o << open >> = Append(text, open)
    BY AppendingOne
  <2>3. IsSequence(Append(text, open))
    BY Appending
  <2>4. Read(Append(text, open)) = Reading(Read(text), open)
    BY ReadPiece
  <2>5. Reading(Read(text), open) = ReadNode(name, << >>, << >>, Read(text))
    BY <1>1, PieceRead
  <2> QED BY <2>1, <2>2, <2>3, <2>4, <2>5
<1>3. CASE depth # 0
  <2>1. add_node(name) = << line, open >>
    <3>1. add_node(name) = << line >> \o << open >>
      BY <1>1, <1>3 DEF add_node
    <3>2. << line >> \o << open >> = << line, open >>
      BY TwoJoined, Zenon
    <3> QED BY <3>1, <3>2
  <2>2. PICK more : more = Append(text, line)
    OBVIOUS
  <2>3. text \o << line, open >> = Append(more, open)
    BY <2>2, AppendingTwo
  <2>4. IsSequence(more) /\ IsSequence(Append(more, open))
    BY <2>2, Appending
  <2>5. Read(more) = Reading(Read(text), line)
    BY <2>2, ReadPiece
  <2>6. Reading(Read(text), line) = Read(text)
    BY <1>1, PieceRead
  <2>7. Read(Append(more, open)) = Reading(Read(more), open)
    BY <2>4, ReadPiece
  <2>8. Reading(Read(text), open) = ReadNode(name, << >>, << >>, Read(text))
    BY <1>1, PieceRead
  <2> QED BY <2>1, <2>3, <2>4, <2>5, <2>6, <2>7, <2>8
<1> QED BY <1>2, <1>3

(* A node has at most one value.                                           *)
FewValues(values) == \E v : values \in {<< >>, << v >>}

LEMMA BeginReads ==
  ASSUME NEW text, IsSequence(text), NEW name, NEW values, FewValues(values)
  PROVE  Read(text \o add_node(name) \o Written(values)) = ReadNode(name, values, << >>, Read(text))
<1>0. PICK v : values \in {<< >>, << v >>}
  BY DEF FewValues
<1>1. PICK half, outer : half = text \o add_node(name) /\ outer = Read(text)
  OBVIOUS
<1>2. IsSequence(half) /\ Read(half) = ReadNode(name, << >>, << >>, outer)
  BY <1>1, NodeOpens
<1>3. CASE values = << >>
  <2>1. Len(values) = 0
    BY <1>3
  <2>2. Written(values) = << >>
    BY <2>1 DEF Written
  <2>3. half \o << >> = half
    BY <1>2 DEF IsSequence
  <2> QED BY <1>1, <1>2, <1>3, <2>2, <2>3
<1>4. CASE values = << v >>
  <2>1. Len(values) = 1 /\ values[1] = v
    BY <1>4
  <2>2. PICK piece, written : piece = Value(v) /\ written = Written(values)
    OBVIOUS
  <2>3. written = [i \in 1 .. 1 |-> Value(values[i])]
    BY <2>1, <2>2 DEF Written
  <2>4. written[1] = piece
    BY <2>1, <2>2, <2>3
  <2>5. written = << piece >>
    BY <2>3, <2>4
  <2>6. half \o << piece >> = Append(half, piece)
    BY <1>2, AppendingOne
  <2>7. Read(Append(half, piece)) = Reading(Read(half), piece)
    BY <1>2, ReadPiece
  <2>8. PICK node, none : node = ReadNode(name, << >>, << >>, outer) /\ none = << >>
    OBVIOUS
  <2>9. Reading(node, piece) = [node EXCEPT !.values = Append(@, v)]
    BY <2>2, PieceRead
  <2>10. node = [name |-> name, values |-> none, parts |-> << >>, outer |-> outer]
    BY <2>8 DEF ReadNode
  <2>11. Append(none, v) = values
    BY <1>4, <2>8, FewParts
  <2>12. [node EXCEPT !.values = Append(@, v)] = ReadNode(name, values, << >>, outer)
    <3>1. node.values = none
      BY <2>10
    <3>2. [node EXCEPT !.values = Append(@, v)] = [node EXCEPT !.values = values]
      BY <2>11, <3>1
    <3> QED BY <2>10, <3>2 DEF ReadNode
  <2> QED BY <1>1, <1>2, <2>2, <2>5, <2>6, <2>7, <2>8, <2>9, <2>12
<1> QED BY <1>0, <1>3, <1>4

----------------------------------------------------------------------------
(* Printing changes neither the tree nor the types in it.                  *)
LEMMA NodesFixed ==
  ASSUME program' = program, resolved_type' = resolved_type,
         identifiers' = identifiers, NEW f, NEW s, NEW i
  PROVE  WholeNode(f, s, i)' = WholeNode(f, s, i)
<1>1. ValueAt(f, s)' = ValueAt(f, s)
  BY DEF ValueAt
<1>2. TypesAt(f, s)' = TypesAt(f, s)
  BY <1>1 DEF TypesAt, PrintedType
<1> QED BY <1>1, <1>2 DEF WholeNode

LEMMA StatementsFixed ==
  ASSUME program' = program, resolved_type' = resolved_type,
         identifiers' = identifiers, NEW f, NEW s
  PROVE  WholeStatement(f, s)' = WholeStatement(f, s)
<1>1. ValueAt(f, s)' = ValueAt(f, s)
  BY DEF ValueAt
<1>2. TypesAt(f, s)' = TypesAt(f, s)
  BY <1>1 DEF TypesAt, PrintedType
<1>3. OwnType(f, s)' = OwnType(f, s)
  BY DEF OwnType, PrintedType
<1> QED BY <1>2, <1>3 DEF WholeStatement

LEMMA FunctionsFixed ==
  ASSUME program' = program, resolved_type' = resolved_type,
         identifiers' = identifiers, NEW f
  PROVE  WholeFunction(f)' = WholeFunction(f)
<1>1. \A s : WholeStatement(f, s)' = WholeStatement(f, s)
  BY StatementsFixed
<1>2. [s \in 1 .. Len(program[f].statements) |-> WholeStatement(f, s).types]'
        = [s \in 1 .. Len(program[f].statements) |-> WholeStatement(f, s).types]
  BY <1>1
<1> QED BY <1>2 DEF WholeFunction, PrintedType

LEMMA ProgramWholeFixed ==
  ASSUME program' = program, resolved_type' = resolved_type,
         identifiers' = identifiers
  PROVE  WholeProgram' = WholeProgram
<1>1. \A f : WholeFunction(f)' = WholeFunction(f)
  BY FunctionsFixed
<1>2. [f \in 1 .. Len(program) |-> WholeFunction(f).types]'
        = [f \in 1 .. Len(program) |-> WholeFunction(f).types]
  BY <1>1
<1> QED BY <1>2 DEF WholeProgram

LEMMA WholeFixed ==
  ASSUME program' = program, resolved_type' = resolved_type,
         identifiers' = identifiers, NEW a
  PROVE  Whole(a)' = Whole(a)
<1>1. /\ WholeProgram' = WholeProgram
      /\ WholeFunction(a[1])' = WholeFunction(a[1])
      /\ WholeNode(a[1], a[2], a[3])' = WholeNode(a[1], a[2], a[3])
      /\ WholeStatement(a[1], a[2])' = WholeStatement(a[1], a[2])
  BY ProgramWholeFixed, FunctionsFixed, NodesFixed, StatementsFixed
<1> QED BY <1>1 DEF Whole

LEMMA AfterFixed ==
  ASSUME program' = program, resolved_type' = resolved_type,
         identifiers' = identifiers, NEW node, NEW call
  PROVE  After(node, call)' = After(node, call)
<1>1. Whole(call.of)' = Whole(call.of)
  BY WholeFixed
<1> QED BY <1>1 DEF After

LEMMA RunsFixed ==
  ASSUME program' = program, resolved_type' = resolved_type,
         identifiers' = identifiers,
         NEW node, NEW stack, NEW end, Runs(node, stack, end)
  PROVE  Runs(node, stack, end)'
<1>1. PICK run : RunsAs(run, node, stack, end)
  BY DEF Runs
<1>2. \A n \in 1 .. Len(stack) : After(run[n - 1], stack[n])' = After(run[n - 1], stack[n])
  BY AfterFixed
<1>3. RunsAs(run, node, stack, end)'
  BY <1>1, <1>2 DEF RunsAs
<1> QED BY <1>3 DEF Runs

----------------------------------------------------------------------------
(* The invariant: when the calls on the stack return, what is read of the  *)
(* text is the whole program.                                              *)
Continues(node, stack, end) ==
  /\ node = Read(output) /\ stack = calls /\ end = Adding(File, WholeProgram)
  /\ Runs(node, stack, end)

ReadInv ==
  /\ PrinterInv
  /\ printing = "waiting" => output = << >>
  /\ printing # "waiting" =>
       status = "checked" /\ \E node, stack, end : Continues(node, stack, end)

(* A node that begins will be closed as the part the call was to add.      *)
LEMMA BeginContinues ==
  ASSUME PrinterInv, calls # << >>, NEW end, Runs(Read(output), calls, end),
         NEW name, NEW values, FewValues(values),
         NEW rest \in Seq(Todo(program)), Begin(name, values, rest),
         NEW parts,
         Runs(ReadNode(name, values, << >>, Read(output)), rest,
              ReadNode(name, values, parts, Read(output))),
         After(Read(output), Head(calls)) = Adding(Read(output), Summary(name, values, parts))
  PROVE  \E node, stack : node = Read(output') /\ stack = calls' /\ Runs(node, stack, end)
<1>1. /\ output' = (output \o add_node(name)) \o Written(values)
      /\ calls' = (rest \o << Closer(Callee) >>) \o Tail(calls)
  BY DEF Begin
<1>2. PICK outer, first, last, closer, tail :
        /\ outer = Read(output) /\ first = ReadNode(name, values, << >>, outer)
        /\ last = ReadNode(name, values, parts, outer)
        /\ closer = Closer(Callee) /\ tail = Tail(calls)
  OBVIOUS
<1>3. IsSequence(output) /\ IsSequence(calls)
  BY DEF PrinterInv, IsSequence
<1>4. Read(output') = first
  <2>1. PICK text, inner : text = output /\ inner = Read(text)
    OBVIOUS
  <2>2. Read(text \o add_node(name) \o Written(values)) = ReadNode(name, values, << >>, Read(text))
    <3>1. IsSequence(text)
      BY <1>3, <2>1
    <3> QED BY <3>1, BeginReads, Zenon
  <2> QED BY <1>1, <1>2, <2>1, <2>2
<1>5. IsSequence(rest) /\ IsSequence(tail)
  BY <1>2, TodoNoCloser, TopOfStack
<1>6. PICK next : next = After(outer, Head(calls))
  OBVIOUS
<1>7. Runs(next, tail, end)
  BY <1>2, <1>3, <1>6, RunsFirst
<1>8. next = After(last, closer)
  <2>1. closer.call = "close_node"
    BY <1>2 DEF Closer
  <2>2. After(last, closer) = Adding(last.outer, Closed(last))
    BY <2>1 DEF After
  <2>3. last.outer = outer
    BY <1>2, NodeFields
  <2>4. Closed(last) = Summary(name, values, parts)
    BY <1>2, ClosedIs
  <2> QED BY <1>2, <1>6, <2>2, <2>3, <2>4
<1>9. PICK closing, some, stack :
        /\ closing = << closer >> /\ some = rest \o closing /\ stack = some \o tail
  OBVIOUS
<1>10. IsSequence(closing) /\ IsSequence(some)
  BY <1>5, <1>9, OneElement, Concatenating
<1>11. Runs(last, closing, next)
  BY <1>8, <1>9, RunsOne
<1>12. Runs(first, rest, last)
  BY <1>2
<1>13. Runs(first, some, next)
  BY <1>5, <1>9, <1>10, <1>11, <1>12, RunsOn
<1>14. Runs(first, stack, end)
  BY <1>5, <1>7, <1>9, <1>10, <1>13, RunsOn
<1>15. stack = calls'
  BY <1>1, <1>2, <1>9
<1> QED BY <1>4, <1>14, <1>15

LEMMA LabelValues ==
  ASSUME NEW a
  PROVE  FewValues(Values(a))
<1>1. ASSUME NEW x PROVE FewValues(Label(x))
  BY DEF FewValues, Label
<1>2. CASE a = Root
  BY <1>2 DEF FewValues, Values
<1>3. CASE a # Root /\ a[2] = 0
  BY <1>3 DEF FewValues, Values
<1>4. CASE a # Root /\ a[2] # 0
  BY <1>1, <1>4 DEF Values
<1> QED BY <1>2, <1>3, <1>4

(* A step that leaves the tree and its types alone and keeps the promise.  *)
LEMMA ReadKept ==
  ASSUME PrinterInv', program' = program, resolved_type' = resolved_type,
         identifiers' = identifiers,
         status = "checked", status' = status, printing' # "waiting",
         \E node, stack : /\ node = Read(output') /\ stack = calls'
                          /\ Runs(node, stack, Adding(File, WholeProgram))
  PROVE  ReadInv'
<1>1. PICK node, stack, end : /\ node = Read(output') /\ stack = calls'
                              /\ end = Adding(File, WholeProgram) /\ Runs(node, stack, end)
  OBVIOUS
<1>2. Runs(node, stack, end)'
  BY <1>1, RunsFixed
<1>3. WholeProgram' = WholeProgram
  BY ProgramWholeFixed
<1>4. Continues(node, stack, end)'
  BY <1>1, <1>2, <1>3 DEF Continues
<1>5. (\E n, s, e : Continues(n, s, e))'
  BY <1>4
<1> QED BY <1>5 DEF ReadInv

LEMMA ReadStarts ==
  ASSUME ReadInv, StartPrinting
  PROVE  ReadInv'
<1>1. /\ program' = program /\ resolved_type' = resolved_type
      /\ identifiers' = identifiers /\ status' = status
      /\ status = "checked" /\ printing' = "printing" /\ output' = output
      /\ calls' = << Visit(Root) >> /\ output = << >>
  BY DEF StartPrinting, chk_vars, tc_vars, tn_vars, ReadInv
<1>2. PrinterInv'
  BY PrinterStep DEF ReadInv, Next, PrintNext
<1>3. PICK node, call, stack, end :
        /\ node = Read(output') /\ call = Visit(Root) /\ stack = << call >>
        /\ end = Adding(File, WholeProgram)
  OBVIOUS
<1>4. node = File
  BY <1>1, <1>3, ReadNothing
<1>5. call.call = "visit" /\ call.of = Root
  BY <1>3 DEF Visit
<1>6. After(node, call) = Adding(node, Whole(Root))
  BY <1>5 DEF After
<1>7. Whole(Root) = WholeProgram
  BY DEF Whole
<1>8. Runs(node, stack, end)
  BY <1>3, <1>4, <1>6, <1>7, RunsOne
<1>9. \E n, s : n = Read(output') /\ s = calls' /\ Runs(n, s, Adding(File, WholeProgram))
  BY <1>1, <1>3, <1>8
<1> QED BY <1>1, <1>2, <1>9, ReadKept

(* What is true of the stack while the text is printed.                    *)
LEMMA ReadNow ==
  ASSUME ReadInv, printing # "waiting"
  PROVE  status = "checked" /\ Runs(Read(output), calls, Adding(File, WholeProgram))
BY DEF ReadInv, Continues

LEMMA VisitKeepsReading ==
  ASSUME ReadInv, PrintNode
  PROVE  ReadInv'
<1>1. /\ program' = program /\ resolved_type' = resolved_type
      /\ identifiers' = identifiers /\ status' = status
      /\ printing = "printing" /\ printing' = "printing" /\ calls # << >>
      /\ Head(calls).call = "visit"
      /\ Begin(Name(Callee), Values(Callee), VisitCalls(Callee))
  BY DEF PrintNode, Calling, Begin, chk_vars, tc_vars, tn_vars
<1>2. PrinterInv' /\ PrinterInv /\ IsProgram(program, Names)
  BY PrinterStep, ProgramsAssumption DEF ReadInv, Next, PrintNext, PrinterInv
<1>3. PICK a, outer, end : a = Callee /\ outer = Read(output) /\ end = Adding(File, WholeProgram)
  OBVIOUS
<1>4. status = "checked" /\ Runs(outer, calls, end)
  BY <1>1, <1>3, ReadNow
<1>5. a \in PrintAddresses(program)
  BY <1>1, <1>2, <1>3, TopOfStack DEF Callee
<1>6. PICK name, values, rest, parts :
        /\ name = Name(a) /\ values = Values(a) /\ rest = VisitCalls(a) /\ parts = Inside(a)
  OBVIOUS
<1>7. FewValues(values)
  BY <1>6, LabelValues
<1>8. rest \in Seq(Todo(program))
  BY <1>2, <1>5, <1>6, VisitTodo
<1>9. Runs(ReadNode(name, values, << >>, outer), rest, ReadNode(name, values, parts, outer))
  <2>1. Fills(a, name, values, outer)
    BY <1>2, <1>5, VisitFills
  <2> QED BY <1>6, <2>1 DEF Fills
<1>10. After(outer, Head(calls)) = Adding(outer, Summary(name, values, parts))
  <2>1. Head(calls).of = a
    BY <1>3 DEF Callee
  <2>2. After(outer, Head(calls)) = Adding(outer, Whole(a))
    BY <1>1, <2>1 DEF After
  <2>3. Summary(name, values, parts) = Whole(a)
    BY <1>2, <1>5, <1>6, VisitCloses
  <2> QED BY <2>2, <2>3
<1>11. Begin(name, values, rest)
  BY <1>1, <1>3, <1>6
<1>12. \E n, s : n = Read(output') /\ s = calls' /\ Runs(n, s, end)
  BY <1>1, <1>2, <1>3, <1>4, <1>7, <1>8, <1>9, <1>10, <1>11, BeginContinues
<1> QED BY <1>1, <1>2, <1>3, <1>4, <1>12, ReadKept

(* A type that is printed opens a node of nothing but its name.            *)
LEMMA TypeKeepsReading ==
  ASSUME ReadInv, [Next \/ Done]_vars, printing = "printing", calls # << >>,
         Head(calls).call # "close_node",
         NEW name, NEW type, Begin(name, << type >>, << >>),
         After(Read(output), Head(calls)) = Adding(Read(output), TypeNode(name, type))
  PROVE  ReadInv'
<1>1. /\ program' = program /\ resolved_type' = resolved_type
      /\ identifiers' = identifiers /\ status' = status
      /\ printing' = "printing"
  BY DEF Begin, chk_vars, tc_vars, tn_vars
<1>2. PrinterInv' /\ PrinterInv
  BY PrinterStep DEF ReadInv
<1>3. PICK outer, end, values, none :
        /\ outer = Read(output) /\ end = Adding(File, WholeProgram)
        /\ values = << type >> /\ none = << >>
  OBVIOUS
<1>4. status = "checked" /\ Runs(outer, calls, end)
  BY <1>3, ReadNow
<1>5. FewValues(values) /\ none \in Seq(Todo(program))
  BY <1>3 DEF FewValues
<1>6. Runs(ReadNode(name, values, << >>, outer), none, ReadNode(name, values, none, outer))
  BY <1>3, RunsNone
<1>7. After(outer, Head(calls)) = Adding(outer, Summary(name, values, none))
  BY <1>3 DEF TypeNode
<1>8. Begin(name, values, none)
  BY <1>3
<1>9. \E n, s : n = Read(output') /\ s = calls' /\ Runs(n, s, end)
  BY <1>2, <1>3, <1>4, <1>5, <1>6, <1>7, <1>8, BeginContinues
<1> QED BY <1>1, <1>2, <1>3, <1>4, <1>9, ReadKept

(* A call that returns with nothing more printed than its own end.         *)
LEMMA ReturnKeepsReading ==
  ASSUME ReadInv, PrinterInv', program' = program, resolved_type' = resolved_type,
         identifiers' = identifiers,
         status' = status, printing = "printing", printing' = printing, calls # << >>,
         calls' = Tail(calls), Read(output') = After(Read(output), Head(calls))
  PROVE  ReadInv'
<1>1. PICK outer, end, node, tail :
        /\ outer = Read(output) /\ end = Adding(File, WholeProgram)
        /\ node = After(outer, Head(calls)) /\ tail = Tail(calls)
  OBVIOUS
<1>2. status = "checked" /\ Runs(outer, calls, end)
  BY <1>1, ReadNow
<1>3. IsSequence(calls)
  BY DEF ReadInv, PrinterInv, IsSequence
<1>4. Runs(node, tail, end)
  BY <1>1, <1>2, <1>3, RunsFirst
<1>5. \E n, s : n = Read(output') /\ s = calls' /\ Runs(n, s, end)
  BY <1>1, <1>4
<1> QED BY <1>1, <1>2, <1>5, ReadKept

LEMMA ReadStep == ReadInv /\ [Next \/ Done]_vars => ReadInv'
<1> SUFFICES ASSUME ReadInv, [Next \/ Done]_vars PROVE ReadInv'
  OBVIOUS
<1>1. PrinterInv /\ PrinterInv'
  BY PrinterStep DEF ReadInv
<1>2. CASE NamedNext /\ UNCHANGED pr_vars
  <2>1. status = "checking"
    <3>1. EnterFunction \/ EnterStatement \/ FinishCheck => status = "checking"
      BY DEF EnterFunction, EnterStatement, FinishCheck
    <3>2. VisitNode => status = "checking"
      BY DEF VisitNode, VisitLiteral, VisitVariable, VisitFunctionCall, VisitBinary
    <3>3. ExitStatement => status = "checking"
      BY DEF ExitStatement, Declaring, Assigning, Showing, Returning
    <3> QED BY <1>2, <3>1, <3>2, <3>3, NamedSteps DEF TCNext
  <2>2. printing = "waiting" /\ printing' = printing /\ output' = output
    BY <1>2, <2>1 DEF ReadInv, pr_vars
  <2> QED BY <1>1, <2>2 DEF ReadInv
<1>3. CASE StartPrinting
  BY <1>3, ReadStarts
<1>4. CASE PrintNode
  BY <1>4, VisitKeepsReading
<1>5. CASE PrintTypeExpression
  <2>1. PICK type : type = StatementAt(program, Callee).annotation
    OBVIOUS
  <2>2. /\ calls # << >> /\ printing = "printing" /\ Head(calls).call = "visit_type"
        /\ Begin("TypeExpression", << type >>, << >>)
    BY <1>5, <2>1 DEF PrintTypeExpression, Calling
  <2>3. After(Read(output), Head(calls)) = Adding(Read(output), TypeNode("TypeExpression", type))
    BY <2>1, <2>2 DEF After, Callee
  <2> QED BY <2>2, <2>3, TypeKeepsReading
<1>6. CASE PrintResolvedType
  <2>1. calls # << >> /\ printing = "printing" /\ Head(calls).call = "print_resolved_type"
    BY <1>6 DEF PrintResolvedType, Calling
  <2>2. PICK type, own : type = identifiers[Callee] /\ own = resolved_type[Callee]
    OBVIOUS
  <2>3. After(Read(output), Head(calls)) =
          IF own = NoType THEN Read(output)
          ELSE Adding(Read(output), TypeNode("ResolvedType", type))
    <3>1. PICK call, node : call = Head(calls) /\ node = Read(output)
      OBVIOUS
    <3>2. call.call = "print_resolved_type" /\ type = identifiers[call.of]
          /\ own = resolved_type[call.of]
      BY <2>1, <2>2, <3>1 DEF Callee
    <3>3. After(node, call) =
            IF own = NoType THEN node ELSE Adding(node, TypeNode("ResolvedType", type))
      BY <3>2 DEF After
    <3> QED BY <3>1, <3>3
  <2>4. CASE own = NoType
    <3>1. /\ program' = program /\ resolved_type' = resolved_type
          /\ identifiers' = identifiers /\ status' = status
          /\ output' = output /\ printing' = printing /\ calls' = Tail(calls)
      BY <1>6, <2>2, <2>4 DEF PrintResolvedType, chk_vars, tc_vars, tn_vars
    <3>2. Read(output') = After(Read(output), Head(calls))
      BY <2>3, <2>4, <3>1
    <3> QED BY <1>1, <2>1, <3>1, <3>2, ReturnKeepsReading
  <2>5. CASE own # NoType
    <3>1. Begin("ResolvedType", << type >>, << >>)
      BY <1>6, <2>2, <2>5 DEF PrintResolvedType
    <3>2. After(Read(output), Head(calls)) = Adding(Read(output), TypeNode("ResolvedType", type))
      BY <2>3, <2>5
    <3> QED BY <2>1, <3>1, <3>2, TypeKeepsReading
  <2> QED BY <2>4, <2>5
<1>7. CASE CloseNode
  <2>1. /\ program' = program /\ resolved_type' = resolved_type
        /\ identifiers' = identifiers /\ status' = status
        /\ printing = "printing" /\ printing' = printing /\ calls # << >> /\ calls' = Tail(calls)
        /\ Head(calls).call = "close_node" /\ output' = Append(output, ClosingParen)
    BY <1>7 DEF CloseNode, Calling, chk_vars, tc_vars, tn_vars
  <2>2. PICK text, node : text = output /\ node = Read(text)
    OBVIOUS
  <2>3. IsSequence(text)
    BY <1>1, <2>2 DEF PrinterInv
  <2>4. Read(Append(text, ClosingParen)) = Reading(Read(text), ClosingParen)
    BY <2>3, ReadPiece
  <2>5. Reading(node, ClosingParen) = Adding(node.outer, Closed(node))
    BY PieceRead
  <2>6. After(node, Head(calls)) = Adding(node.outer, Closed(node))
    BY <2>1 DEF After
  <2>7. Read(output') = After(Read(output), Head(calls))
    BY <2>1, <2>2, <2>4, <2>5, <2>6
  <2> QED BY <1>1, <2>1, <2>7, ReturnKeepsReading
<1>8. CASE FinishPrinting \/ Done \/ UNCHANGED vars
  <2>1. /\ program' = program /\ resolved_type' = resolved_type
        /\ identifiers' = identifiers /\ status' = status
        /\ output' = output /\ calls' = calls
        /\ printing' = printing \/ (printing = "printing" /\ printing' = "printed")
    BY <1>8 DEF FinishPrinting, Done, vars, chk_vars, tc_vars, tn_vars, pr_vars
  <2>2. CASE printing = "waiting"
    BY <1>1, <2>1, <2>2 DEF ReadInv
  <2>3. CASE printing # "waiting"
    <3>1. status = "checked" /\ Runs(Read(output), calls, Adding(File, WholeProgram))
      BY <2>3, ReadNow
    <3>2. PICK node, stack : node = Read(output) /\ stack = calls
      OBVIOUS
    <3>3. Runs(node, stack, Adding(File, WholeProgram))
      BY <3>1, <3>2
    <3>4. \E n, s : n = Read(output') /\ s = calls' /\ Runs(n, s, Adding(File, WholeProgram))
      BY <2>1, <3>2, <3>3
    <3> QED BY <1>1, <2>1, <2>3, <3>1, <3>4, ReadKept
  <2> QED BY <2>2, <2>3
<1> QED BY <1>2, <1>3, <1>4, <1>5, <1>6, <1>7, <1>8 DEF Next, PrintNext

----------------------------------------------------------------------------
(* The types in what was read.                                             *)
LEMMA StatementTypes ==
  ASSUME IsProgram(program, Names), NEW f \in 1 .. Len(program),
         NEW s \in 1 .. Len(program[f].statements)
  PROVE  /\ WholeStatement(f, s).types[1] = OwnType(f, s)
         /\ \A e \in 1 .. Len(ValueAt(f, s)) :
              WholeStatement(f, s).types[e + 1] = PrintedType(<<f, s, e>>)
<1>1. PICK n \in Nat : n = Len(ValueAt(f, s))
  BY ProgramShape
<1>2. PICK own, rest, types :
        /\ own = OwnType(f, s) /\ rest = TypesAt(f, s) /\ types = WholeStatement(f, s).types
  OBVIOUS
<1>3. IsSequence(rest) /\ Len(rest) = n /\ \A k \in 1 .. n : rest[k] = PrintedType(<<f, s, k>>)
  BY <1>1, <1>2, TypesAtIs
<1>4. types = << own >> \o rest
  BY <1>2 DEF WholeStatement
<1>5. types[1] = own /\ \A k \in 1 .. n : types[k + 1] = rest[k]
  BY <1>3, <1>4, BehindOne
<1> QED BY <1>1, <1>2, <1>3, <1>5

LEMMA FunctionTypes ==
  ASSUME IsProgram(program, Names), NEW f \in 1 .. Len(program)
  PROVE  /\ WholeFunction(f).types[1] = << PrintedType(<<f, 0, 0>>) >>
         /\ \A s \in 1 .. Len(program[f].statements) :
              WholeFunction(f).types[s + 1] = WholeStatement(f, s).types
<1>1. PICK n \in Nat : n = Len(program[f].statements)
  BY DEF IsProgram
<1>2. PICK own, rest, types :
        /\ own = << PrintedType(<<f, 0, 0>>) >> /\ types = WholeFunction(f).types
        /\ rest = [s \in 1 .. n |-> WholeStatement(f, s).types]
  OBVIOUS
<1>3. Len(rest) = n /\ \A s \in 1 .. n : rest[s] = WholeStatement(f, s).types
  BY <1>2
<1>4. IsSequence(rest)
  <2> DEFINE S == { WholeStatement(f, s).types : s \in 1 .. n }
  <2>1. \A s \in 1 .. n : WholeStatement(f, s).types \in S
    OBVIOUS
  <2> HIDE DEF S
  <2>2. rest \in [1 .. n -> S]
    BY <1>2, <2>1
  <2>3. rest \in Seq(S)
    BY <2>2
  <2> QED BY <2>3 DEF IsSequence
<1>5. types = << own >> \o rest
  BY <1>1, <1>2 DEF WholeFunction
<1>6. types[1] = own /\ \A k \in 1 .. n : types[k + 1] = rest[k]
  BY <1>3, <1>4, <1>5, BehindOne
<1> QED BY <1>1, <1>2, <1>3, <1>6

LEMMA ProgramTypes ==
  ASSUME IsProgram(program, Names), NEW a \in Addresses(program),
         a \in StatementAddresses(program) => StatementAt(program, a).kind = "Declare"
  PROVE  WholeProgram.types[a[1]][a[2] + 1][a[3] + 1] = PrintedType(a)
<1>1. PICK types : types = WholeProgram.types
  OBVIOUS
<1>2. types = [f \in 1 .. Len(program) |-> WholeFunction(f).types]
  BY <1>1 DEF WholeProgram
<1>3. \A f \in 1 .. Len(program) : types[f] = WholeFunction(f).types
  BY <1>2
<1>4. CASE a \in FunctionAddresses(program)
  <2>1. PICK f \in 1 .. Len(program) : a = <<f, 0, 0>>
    BY <1>4 DEF FunctionAddresses
  <2>2. a[1] = f /\ a[2] + 1 = 1 /\ a[3] + 1 = 1
    BY <2>1
  <2>3. types[f][1] = << PrintedType(a) >>
    BY <1>3, <2>1, FunctionTypes
  <2>4. types[f][1][1] = PrintedType(a)
    BY <2>3
  <2> QED BY <1>1, <2>2, <2>4
<1>5. CASE a \in StatementAddresses(program)
  <2>1. PICK f \in 1 .. Len(program) : \E s \in 1 .. Len(program[f].statements) : a = <<f, s, 0>>
    BY <1>5 DEF StatementAddresses
  <2>2. PICK s \in 1 .. Len(program[f].statements) : a = <<f, s, 0>>
    BY <2>1
  <2>3. a[1] = f /\ a[2] = s /\ a[3] + 1 = 1
    BY <2>2
  <2>4. types[f][s + 1] = WholeStatement(f, s).types
    BY <1>3, FunctionTypes
  <2>5. WholeStatement(f, s).types[1] = OwnType(f, s)
    BY StatementTypes
  <2>6. OwnType(f, s) = PrintedType(a)
    BY <1>5, <2>2, <2>3 DEF OwnType, StatementAt
  <2> QED BY <1>1, <2>3, <2>4, <2>5, <2>6
<1>6. CASE a \in NodeAddresses(program)
  <2>1. PICK f, s, e : f = a[1] /\ s = a[2] /\ e = a[3] /\ a = <<f, s, e>>
    BY <1>6 DEF NodeAddresses
  <2>2. f \in 1 .. Len(program) /\ s \in 1 .. Len(program[f].statements)
        /\ e \in 1 .. Len(ValueAt(f, s))
    BY <1>6, <2>1, NodeAddressParts DEF StatementAt, ValueAt
  <2>3. types[f][s + 1] = WholeStatement(f, s).types
    BY <1>3, <2>2, FunctionTypes
  <2>4. WholeStatement(f, s).types[e + 1] = PrintedType(a)
    BY <2>1, <2>2, StatementTypes
  <2> QED BY <1>1, <2>1, <2>3, <2>4
<1> QED BY <1>4, <1>5, <1>6 DEF Addresses

----------------------------------------------------------------------------
(* The names of the types.  What a step writes has its name where what it  *)
(* read had one; only `result' has none, until the first value is visited  *)
(* or an annotation before it.                                             *)
AllNamed(types, names, D) == \A x \in D : types[x] # NoType => IsNamed(types[x], names[x])

NothingUsed ==
  /\ \A g \in 1 .. at[1] - 1 : g <= Len(program) => Len(program[g].statements) = 0
  /\ at[2] <= 1
  /\ at[3] > 0 => at[3] = 1 /\ ~HasAnnotation(CurrentStatement)

ResultNamed ==
  \/ IsNamed(result, result_identifier)
  \/ result \in InitialResults /\ result_identifier = NoName /\ NothingUsed

EmittedNamed ==
  /\ IsSequence(emitted_identifiers) /\ Len(emitted_identifiers) = Len(emitted)
  /\ AllNamed(emitted, emitted_identifiers, 1 .. Len(emitted))

NamesOf(names, D) == names = [x \in D |-> names[x]]

NodesNamed ==
  /\ NamesOf(identifiers, Addresses(program))
  /\ AllNamed(resolved_type, identifiers, Addresses(program))

VariablesNamed ==
  /\ NamesOf(variable_identifiers, Names)
  /\ AllNamed(variable_map, variable_identifiers, Names)

NamedInv == TCTypeOK /\ NodesNamed /\ VariablesNamed /\ EmittedNamed /\ ResultNamed

LEMMA ConcreteNames ==
  /\ \A type \in BuiltinTypes : IsNamed(type, type)
  /\ \A type \in LiteralTypes : IsNamed(type, NoName) /\ type # NoType
  /\ \A type \in LiteralTypes : IsNamed(LiteralDefault(type), LiteralDefault(type))
  /\ "Int32" \in BuiltinTypes /\ "Float64" \in BuiltinTypes /\ "Bool" \in BuiltinTypes
  /\ NoType \notin TypeIds
BY DEF IsNamed, LiteralTypes, LiteralDefault, BuiltinTypes, IntTypes, SignedTypes, FloatTypes,
       UnsignedTypes, NoType, TypeIds, Indeterminate

LEMMA OperandNamed ==
  ASSUME NEW own, NEW ownName, NEW other, NEW otherName,
         IsNamed(own, ownName), IsNamed(other, otherName)
  PROVE  IsNamed(OperandType(own, other), OperandName(own, ownName, other, otherName))
<1>1. CASE own \notin LiteralTypes
  BY <1>1 DEF OperandType, OperandName
<1>2. CASE own \in LiteralTypes /\ other \notin LiteralTypes
  BY <1>2 DEF OperandType, OperandName
<1>3. CASE own \in LiteralTypes /\ other \in LiteralTypes
  <2>1. OperandName(own, ownName, other, otherName) = OperandType(own, other)
    BY <1>3 DEF OperandName
  <2>2. OperandType(own, other) \in {"Int32", "Float64"}
    BY <1>3 DEF OperandType
  <2> QED BY <2>1, <2>2, ConcreteNames
<1> QED BY <1>1, <1>2, <1>3

LEMMA BinaryNamed ==
  ASSUME NEW op, NEW lhs, NEW lhsName, NEW rhs, NEW rhsName,
         IsNamed(lhs, lhsName), IsNamed(rhs, rhsName)
  PROVE  IsNamed(BinaryType(op, lhs, rhs), BinaryName(op, lhs, lhsName, rhs, rhsName))
<1>1. IsNamed(OperandType(rhs, lhs), OperandName(rhs, rhsName, lhs, lhsName))
  BY OperandNamed
<1>2. IsNamed("Bool", "Bool")
  BY ConcreteNames
<1> QED BY <1>1, <1>2 DEF BinaryType, BinaryName

LEMMA SettledNamed ==
  ASSUME IsNamed(ValueType, ValueName), NEW expected, NEW name,
         expected # NoType => IsNamed(expected, name)
  PROVE  IsNamed(Settled(expected, ValueType), SettledName(expected, name))
<1>1. CASE ValueType \notin LiteralTypes
  BY <1>1 DEF Settled, SettledName
<1>2. CASE ValueType \in LiteralTypes /\ expected = NoType
  BY <1>2, ConcreteNames DEF Settled, SettledName, ResolveLiteral
<1>3. CASE ValueType \in LiteralTypes /\ expected # NoType
  BY <1>3 DEF Settled, SettledName, ResolveLiteral
<1> QED BY <1>1, <1>2, <1>3

(* What is written with its name leaves all with theirs.                   *)
LEMMA OneNamed ==
  ASSUME NEW D, NEW T, NEW types \in [D -> T], NEW names, NamesOf(names, D),
         AllNamed(types, names, D),
         NEW x, NEW type, NEW name, IsNamed(type, name)
  PROVE  /\ NamesOf([names EXCEPT ![x] = name], D)
         /\ AllNamed([types EXCEPT ![x] = type], [names EXCEPT ![x] = name], D)
<1>1. PICK n : n = [names EXCEPT ![x] = name]
  OBVIOUS
<1>2. PICK t : t = [types EXCEPT ![x] = type]
  OBVIOUS
<1>3. n = [y \in D |-> IF y = x THEN name ELSE names[y]]
  BY <1>1 DEF NamesOf
<1>4. \A y \in D : /\ n[y] = IF y = x THEN name ELSE names[y]
                   /\ t[y] = IF y = x THEN type ELSE types[y]
  BY <1>2, <1>3
<1>5. NamesOf(n, D)
  BY <1>3 DEF NamesOf
<1>6. AllNamed(t, n, D)
  BY <1>4 DEF AllNamed
<1> QED BY <1>1, <1>2, <1>5, <1>6

(* What was read from a program that stays is as well named afterwards.    *)
LEMMA NamedKept ==
  ASSUME program' = program, NEW types, NEW names, NEW D, AllNamed(types, names, D)
  PROVE  AllNamed(types, names, D)'
BY DEF AllNamed, IsNamed

LEMMA NodesKept ==
  ASSUME program' = program, NamesOf(identifiers', Addresses(program)),
         AllNamed(resolved_type', identifiers', Addresses(program))
  PROVE  NodesNamed'
BY DEF NodesNamed, AllNamed, IsNamed

LEMMA VariablesKept ==
  ASSUME program' = program, NamesOf(variable_identifiers', Names),
         AllNamed(variable_map', variable_identifiers', Names)
  PROVE  VariablesNamed'
BY DEF VariablesNamed, AllNamed, IsNamed

LEMMA EmittedNamesKept ==
  ASSUME program' = program, IsSequence(emitted_identifiers'),
         Len(emitted_identifiers') = Len(emitted'),
         AllNamed(emitted', emitted_identifiers', 1 .. Len(emitted'))
  PROVE  EmittedNamed'
BY DEF EmittedNamed, AllNamed, IsNamed

LEMMA ResultKept ==
  ASSUME program' = program, IsNamed(result', result_identifier')
  PROVE  ResultNamed'
BY DEF ResultNamed, IsNamed

(* A step that leaves types and names alone.                               *)
LEMMA NothingNamed ==
  ASSUME NamedInv, TCTypeOK', UNCHANGED tn_vars,
         UNCHANGED << program, at, resolved_type, result, variable_map, emitted >>
  PROVE  NamedInv'
<1>1. NodesNamed'
  BY NodesKept DEF NamedInv, NodesNamed, tn_vars
<1>2. VariablesNamed'
  BY VariablesKept DEF NamedInv, VariablesNamed, tn_vars
<1>3. EmittedNamed'
  BY EmittedNamesKept DEF NamedInv, EmittedNamed, tn_vars
<1>4. ResultNamed'
  BY DEF NamedInv, ResultNamed, IsNamed, NothingUsed, CurrentStatement, tn_vars
<1> QED BY <1>1, <1>2, <1>3, <1>4 DEF NamedInv

LEMMA ThrowNamed ==
  ASSUME NamedInv, TCTypeOK', Thrown, UNCHANGED tn_vars,
         EnterStatement \/ VisitVariable \/ VisitBinary \/ Declaring \/ Assigning \/ Returning
  PROVE  NamedInv'
<1>1. status' # "checking" /\ status' # "CannotInferLiteral"
  BY DEF Thrown, Errors
<1>2. EnterStatement => Throw("UndeclaredVariable")
  BY <1>1 DEF EnterStatement
<1>3. VisitVariable \/ VisitBinary => \E error : Throw(error)
  BY <1>1 DEF VisitVariable, VisitBinary, Emit
<1>4. Declaring \/ Assigning \/ Returning => \E error : Throw(error)
  BY <1>1 DEF Declaring, Assigning, Returning, FinishStatement
<1>5. PICK error : Throw(error)
  BY <1>2, <1>3, <1>4
<1>6. UNCHANGED << program, at, resolved_type, result, variable_map, emitted >>
  BY <1>5 DEF Throw
<1> QED BY <1>6, NothingNamed

LEMMA FunctionNamed ==
  ASSUME NamedInv, TCTypeOK', NameFunction
  PROVE  NamedInv'
<1>1. /\ program' = program /\ result' = result /\ emitted' = emitted
      /\ result_identifier' = result_identifier /\ emitted_identifiers' = emitted_identifiers
      /\ at' = NextStatement(program, at) /\ AtFunction(program, at)
  BY DEF NameFunction, EnterFunction
<1>2. NodesNamed'
  <2>1. resolved_type' = [resolved_type EXCEPT ![at] = "Int32"]
        /\ identifiers' = [identifiers EXCEPT ![at] = "Int32"]
    BY DEF NameFunction, EnterFunction
  <2>2. IsNamed("Int32", "Int32")
    BY ConcreteNames
  <2>3. /\ resolved_type \in [Addresses(program) -> TypeIds \cup {NoType}]
        /\ NamesOf(identifiers, Addresses(program))
        /\ AllNamed(resolved_type, identifiers, Addresses(program))
    BY DEF NamedInv, NodesNamed, TCTypeOK
  <2>4. /\ NamesOf([identifiers EXCEPT ![at] = "Int32"], Addresses(program))
        /\ AllNamed([resolved_type EXCEPT ![at] = "Int32"], [identifiers EXCEPT ![at] = "Int32"],
                    Addresses(program))
    BY <2>2, <2>3, OneNamed
  <2> QED BY <1>1, <2>1, <2>4, NodesKept
<1>3. VariablesNamed'
  <2>1. /\ variable_map' = [n \in Names |-> NoType]
        /\ variable_identifiers' = [n \in Names |-> NoName]
    BY DEF NameFunction, EnterFunction
  <2>2. NamesOf(variable_identifiers', Names)
    BY <2>1 DEF NamesOf
  <2>3. AllNamed(variable_map', variable_identifiers', Names)
    BY <2>1 DEF AllNamed
  <2> QED BY <1>1, <2>2, <2>3, VariablesKept
<1>4. EmittedNamed'
  BY <1>1, EmittedNamesKept DEF NamedInv, EmittedNamed
<1>5. ResultNamed'
  <2>1. CASE IsNamed(result, result_identifier)
    BY <1>1, <2>1, ResultKept
  <2>2. CASE result \in InitialResults /\ result_identifier = NoName /\ NothingUsed
    <3>1. IsProgram(program, Names) /\ at[1] \in 1 .. Len(program) /\ Len(program) \in Nat
      BY <1>1, ProgramsAssumption DEF NamedInv, TCTypeOK, OnWalk, AtFunction, AtEnd, IsProgram
    <3>2. Len(program[at[1]].statements) \in Nat
      BY <3>1 DEF IsProgram
    <3>3. at[2] = 0 /\ \A g \in 1 .. at[1] - 1 : Len(program[g].statements) = 0
      BY <1>1, <2>2, <3>1 DEF NothingUsed, AtFunction
    <3>4. CASE 0 < Len(program[at[1]].statements)
      <4>1. at' = <<at[1], 1, 0>>
        BY <1>1, <3>3, <3>4 DEF NextStatement
      <4>2. at'[1] = at[1] /\ at'[2] = 1 /\ at'[3] = 0
        BY <4>1
      <4> QED BY <1>1, <2>2, <3>3, <4>2 DEF ResultNamed, NothingUsed
    <3>5. CASE ~(0 < Len(program[at[1]].statements))
      <4>1. at' = <<at[1] + 1, 0, 0>>
        BY <1>1, <3>3, <3>5 DEF NextStatement
      <4>2. at'[1] = at[1] + 1 /\ at'[2] = 0 /\ at'[3] = 0
        BY <4>1
      <4>3. \A g \in 1 .. at[1] : Len(program[g].statements) = 0
        BY <3>1, <3>2, <3>3, <3>5
      <4> QED BY <1>1, <2>2, <3>1, <4>2, <4>3 DEF ResultNamed, NothingUsed
    <3> QED BY <3>4, <3>5
  <2> QED BY <2>1, <2>2 DEF NamedInv, ResultNamed
<1> QED BY <1>2, <1>3, <1>4, <1>5 DEF NamedInv

LEMMA EntryNamed ==
  ASSUME NamedInv, TCTypeOK', NameEntry
  PROVE  NamedInv'
<1>1. CASE Thrown
  BY <1>1, ThrowNamed DEF NameEntry
<1>2. CASE ~Thrown
  <2>1. /\ program' = program /\ at' = Operand(1) /\ AtEntry(program, at) /\ emitted' = << >>
        /\ emitted_identifiers' = << >>
        /\ UNCHANGED << identifiers, variable_identifiers, resolved_type, variable_map >>
        /\ result' = IF HasAnnotation(CurrentStatement)
                     THEN CurrentStatement.annotation ELSE result
        /\ result_identifier' = IF HasAnnotation(CurrentStatement)
                                THEN CurrentStatement.annotation ELSE result_identifier
    BY <1>2 DEF NameEntry, EnterStatement, Throw, Thrown, Errors, HasAnnotation
  <2>2. NodesNamed' /\ VariablesNamed'
    BY <2>1, NodesKept, VariablesKept DEF NamedInv, NodesNamed, VariablesNamed
  <2>3. EmittedNamed'
    <3>1. PICK none : none = << >>
      OBVIOUS
    <3>2. none \in Seq({}) /\ Len(none) = 0
      BY <3>1
    <3>3. IsSequence(none)
      BY <3>2 DEF IsSequence
    <3>4. AllNamed(none, none, 1 .. Len(none))
      BY <3>2 DEF AllNamed
    <3> QED BY <2>1, <3>1, <3>3, <3>4, EmittedNamesKept
  <2>4. ResultNamed'
    <3>1. CASE HasAnnotation(CurrentStatement)
      <4>1. CurrentStatement.annotation \in BuiltinTypes
        BY <2>1, <3>1, StatementShape DEF AtEntry, IsStatement, HasAnnotation, NamedInv
      <4>2. IsNamed(CurrentStatement.annotation, CurrentStatement.annotation)
        BY <4>1, ConcreteNames
      <4> QED BY <2>1, <3>1, <4>2, ResultKept
    <3>2. CASE ~HasAnnotation(CurrentStatement) /\ IsNamed(result, result_identifier)
      BY <2>1, <3>2, ResultKept
    <3>3. CASE /\ ~HasAnnotation(CurrentStatement)
               /\ result \in InitialResults /\ result_identifier = NoName /\ NothingUsed
      <4>1. at'[1] = at[1] /\ at'[2] = at[2] /\ at'[3] = 1
        BY <2>1 DEF Operand
      <4>2. CurrentStatement' = CurrentStatement
        BY <2>1, <4>1 DEF CurrentStatement, StatementAt
      <4> QED BY <2>1, <3>3, <4>1, <4>2 DEF ResultNamed, NothingUsed, HasAnnotation
    <3> QED BY <3>1, <3>2, <3>3 DEF NamedInv, ResultNamed
  <2> QED BY <2>2, <2>3, <2>4 DEF NamedInv
<1> QED BY <1>1, <1>2

(* A visit that emits a type with its name.                                *)
LEMMA EmitNamed ==
  ASSUME NamedInv, TCTypeOK', Emit, NEW name, EmitName(name), IsNamed(result', name), NodesNamed'
  PROVE  NamedInv'
<1>1. /\ program' = program /\ variable_map' = variable_map /\ emitted' = Append(emitted, result')
      /\ variable_identifiers' = variable_identifiers /\ result_identifier' = name
      /\ emitted_identifiers' = Append(emitted_identifiers, name)
  BY DEF Emit, EmitName
<1>2. VariablesNamed'
  BY <1>1, VariablesKept DEF NamedInv, VariablesNamed
<1>3. ResultNamed'
  BY <1>1, ResultKept
<1>4. EmittedNamed'
  <2>1. PICK types, names, type : types = emitted /\ names = emitted_identifiers /\ type = result'
    OBVIOUS
  <2>2. PICK ts, ns : ts = Append(types, type) /\ ns = Append(names, name)
    OBVIOUS
  <2>3. PICK S : names \in Seq(S)
    BY <2>1 DEF NamedInv, EmittedNamed, IsSequence
  <2> DEFINE U == S \cup {name}
  <2>4. names \in Seq(U) /\ name \in U
    <3>1. names \in [1 .. Len(names) -> S] /\ Len(names) \in Nat
      BY <2>3
    <3>2. names \in [1 .. Len(names) -> U]
      BY <3>1
    <3> QED BY <3>1, <3>2
  <2>5. types \in Seq(TypeIds) /\ type \in TypeIds /\ Len(types) = Len(names)
    BY <2>1 DEF NamedInv, TCTypeOK, EmittedNamed
  <2> HIDE DEF U
  <2>6. PICK n \in Nat : n = Len(types)
    BY <2>5
  <2>7. /\ ns \in Seq(U) /\ Len(ns) = n + 1 /\ ns[n + 1] = name
        /\ \A i \in 1 .. n : ns[i] = names[i]
    BY <2>2, <2>4, <2>5, <2>6
  <2>8. /\ Len(ts) = n + 1 /\ ts[n + 1] = type
        /\ \A i \in 1 .. n : ts[i] = types[i]
    BY <2>2, <2>5, <2>6
  <2>9. IsSequence(ns)
    BY <2>7 DEF IsSequence
  <2>10. AllNamed(types, names, 1 .. n)
    BY <2>1, <2>6 DEF NamedInv, EmittedNamed
  <2>11. AllNamed(ts, ns, 1 .. n + 1)
    <3> SUFFICES ASSUME NEW i \in 1 .. n + 1, ts[i] # NoType PROVE IsNamed(ts[i], ns[i])
      BY DEF AllNamed
    <3>1. CASE i = n + 1
      BY <2>1, <2>7, <2>8, <3>1
    <3>2. CASE i \in 1 .. n
      BY <2>7, <2>8, <2>10, <3>2 DEF AllNamed
    <3> QED BY <3>1, <3>2
  <2> QED BY <1>1, <2>1, <2>2, <2>7, <2>8, <2>9, <2>11, EmittedNamesKept
<1> QED BY <1>2, <1>3, <1>4 DEF NamedInv

LEMMA LiteralNamed ==
  ASSUME NamedInv, TCTypeOK', NameLiteral
  PROVE  NamedInv'
<1>1. /\ program' = program /\ Emit /\ EmitName(NoName) /\ result' \in LiteralTypes
      /\ resolved_type' = [resolved_type EXCEPT ![at] = result']
      /\ identifiers' = [identifiers EXCEPT ![at] = NoName]
  BY DEF NameLiteral, VisitLiteral, Emit
<1>2. IsNamed(result', NoName)
  BY <1>1, ConcreteNames
<1>3. NodesNamed'
  <2>1. /\ resolved_type \in [Addresses(program) -> TypeIds \cup {NoType}]
        /\ NamesOf(identifiers, Addresses(program))
        /\ AllNamed(resolved_type, identifiers, Addresses(program))
    BY DEF NamedInv, NodesNamed, TCTypeOK
  <2>2. PICK type : type = result'
    OBVIOUS
  <2>3. /\ NamesOf([identifiers EXCEPT ![at] = NoName], Addresses(program))
        /\ AllNamed([resolved_type EXCEPT ![at] = type], [identifiers EXCEPT ![at] = NoName],
                    Addresses(program))
    BY <1>2, <2>1, <2>2, OneNamed
  <2> QED BY <1>1, <2>2, <2>3, NodesKept
<1> QED BY <1>1, <1>2, <1>3, EmitNamed

LEMMA VariableNamed ==
  ASSUME NamedInv, TCTypeOK', NameVariable
  PROVE  NamedInv'
<1>1. CASE Thrown
  BY <1>1, ThrowNamed DEF NameVariable
<1>2. CASE ~Thrown
  <2>1. PICK type, name : /\ type = variable_map[CurrentNode.name]
                          /\ name = variable_identifiers[CurrentNode.name]
    OBVIOUS
  <2>2. /\ program' = program /\ Emit /\ EmitName(name) /\ result' = type /\ type # NoType
        /\ resolved_type' = [resolved_type EXCEPT ![at] = type]
        /\ identifiers' = [identifiers EXCEPT ![at] = name]
        /\ AtNode(program, at) /\ CurrentNode.kind = "Variable"
    BY <1>2, <2>1 DEF NameVariable, VisitVariable, Emit, Throw, Thrown, Errors
  <2>3. CurrentNode.name \in Names
    BY <2>2, NodeShape DEF NamedInv
  <2>4. IsNamed(type, name)
    BY <2>1, <2>2, <2>3 DEF NamedInv, VariablesNamed, AllNamed
  <2>5. /\ resolved_type \in [Addresses(program) -> TypeIds \cup {NoType}]
        /\ NamesOf(identifiers, Addresses(program))
        /\ AllNamed(resolved_type, identifiers, Addresses(program))
    BY DEF NamedInv, NodesNamed, TCTypeOK
  <2>6. /\ NamesOf([identifiers EXCEPT ![at] = name], Addresses(program))
        /\ AllNamed([resolved_type EXCEPT ![at] = type], [identifiers EXCEPT ![at] = name],
                    Addresses(program))
    BY <2>4, <2>5, OneNamed
  <2>7. NodesNamed'
    BY <2>2, <2>6, NodesKept
  <2> QED BY <2>2, <2>4, <2>7, EmitNamed
<1> QED BY <1>1, <1>2

(* What a call emits has a name, unless nothing was used before it.        *)
LEMMA CallNamed ==
  ASSUME NamedInv, TCTypeOK', NameCall
  PROVE  NamedInv'
<1>1. /\ program' = program /\ Emit /\ EmitName(result_identifier) /\ result' = result
      /\ resolved_type' = resolved_type /\ identifiers' = identifiers
      /\ AtNode(program, at) /\ CurrentNode.kind = "FunctionCall"
  BY DEF NameCall, VisitFunctionCall, Emit
<1>2. IsNamed(result, result_identifier)
  <2> SUFFICES ASSUME result \in InitialResults, result_identifier = NoName, NothingUsed
               PROVE  BeginsWithCall(program)
    BY DEF NamedInv, ResultNamed, IsNamed
  <2>1. at[1] \in 1 .. Len(program) /\ at[2] \in 1 .. Len(program[at[1]].statements)
    BY <1>1, StatementShape DEF NamedInv, AtNode
  <2>2. at[3] \in 1 .. Len(CurrentStatement.value)
    BY <1>1, NodeShape DEF NamedInv
  <2>3. IsProgram(program, Names)
    BY ProgramsAssumption DEF NamedInv, TCTypeOK
  <2>4. PICK f \in 1 .. Len(program) : f = at[1]
    BY <2>1
  <2>5. Len(program) \in Nat /\ Len(program[f].statements) \in Nat
    BY <2>3 DEF IsProgram
  <2>6. at[2] = 1 /\ Len(program[f].statements) > 0
    BY <2>1, <2>4, <2>5 DEF NothingUsed
  <2>7. at[3] = 1
    BY <2>2 DEF NothingUsed
  <2>8. CurrentStatement = program[f].statements[1]
    BY <2>4, <2>6 DEF CurrentStatement, StatementAt
  <2>9. CurrentNode = program[f].statements[1].value[1]
    BY <2>7, <2>8 DEF CurrentNode, NodeAt, CurrentStatement
  <2>10. ~HasAnnotation(program[f].statements[1])
    BY <2>7, <2>8 DEF NothingUsed
  <2>11. \A g \in 1 .. f - 1 : Len(program[g].statements) = 0
    <3> SUFFICES ASSUME NEW g \in 1 .. f - 1 PROVE Len(program[g].statements) = 0
      OBVIOUS
    <3>1. g \in 1 .. at[1] - 1 /\ g <= Len(program)
      BY <2>4, <2>5
    <3> QED BY <3>1 DEF NothingUsed
  <2> QED BY <1>1, <2>6, <2>9, <2>10, <2>11 DEF BeginsWithCall
<1>3. NodesNamed'
  BY <1>1, NodesKept DEF NamedInv, NodesNamed
<1> QED BY <1>1, <1>2, <1>3, EmitNamed

LEMMA BinaryNodeNamed ==
  ASSUME NamedInv, TCTypeOK', NameBinary
  PROVE  NamedInv'
<1>1. CASE Thrown
  BY <1>1, ThrowNamed DEF NameBinary
<1>2. CASE ~Thrown
  <2>1. PICK l, r, lhs, rhs, lhsName, rhsName :
          /\ l = CurrentNode.lhs /\ r = CurrentNode.rhs
          /\ lhs = emitted[l] /\ rhs = emitted[r]
          /\ lhsName = emitted_identifiers[l] /\ rhsName = emitted_identifiers[r]
    OBVIOUS
  <2>2. PICK type, name : /\ type = BinaryType(CurrentNode.op, lhs, rhs)
                          /\ name = BinaryName(CurrentNode.op, lhs, lhsName, rhs, rhsName)
    OBVIOUS
  <2>3. /\ program' = program /\ Emit /\ result' = type
        /\ resolved_type' = [resolved_type EXCEPT
             ![Operand(l)] = Annotated(@, lhs, OperandType(lhs, rhs)),
             ![Operand(r)] = Annotated(@, rhs, OperandType(rhs, lhs)),
             ![at] = type]
        /\ AtNode(program, at) /\ CurrentNode.kind = "Binary"
    BY <1>2, <2>1, <2>2 DEF NameBinary, VisitBinary, Emit, Throw, Thrown, Errors
  <2>4. /\ EmitName(name)
        /\ identifiers' = [identifiers EXCEPT
             ![Operand(l)] = Annotated(@, lhs, OperandName(lhs, lhsName, rhs, rhsName)),
             ![Operand(r)] = Annotated(@, rhs, OperandName(rhs, rhsName, lhs, lhsName)),
             ![at] = name]
    BY <1>2, <2>1, <2>2 DEF NameBinary
  <2>5. IsNamed(lhs, lhsName) /\ IsNamed(rhs, rhsName)
    <3>1. l \in 1 .. at[3] - 1 /\ r \in 1 .. at[3] - 1
      BY <2>1, <2>3, OperandUnread DEF NamedInv
    <3>2. Len(emitted) = at[3] - 1
      BY <2>3 DEF NamedInv, TCTypeOK
    <3>3. lhs \in TypeIds /\ rhs \in TypeIds
      BY <2>1, <2>3, NodeShape DEF NamedInv
    <3>4. lhs # NoType /\ rhs # NoType
      BY <3>3, ConcreteNames
    <3> QED BY <2>1, <3>1, <3>2, <3>4 DEF NamedInv, EmittedNamed, AllNamed
  <2>6. IsNamed(type, name)
    BY <2>2, <2>5, BinaryNamed
  <2>7. PICK lhsType, rhsType, lhsAs, rhsAs :
          /\ lhsType = OperandType(lhs, rhs) /\ rhsType = OperandType(rhs, lhs)
          /\ lhsAs = OperandName(lhs, lhsName, rhs, rhsName)
          /\ rhsAs = OperandName(rhs, rhsName, lhs, lhsName)
    OBVIOUS
  <2>8. IsNamed(lhsType, lhsAs) /\ IsNamed(rhsType, rhsAs)
    BY <2>5, <2>7, OperandNamed
  <2>9. NodesNamed'
    <3> DEFINE D == Addresses(program)
    <3>1. resolved_type \in [D -> TypeIds \cup {NoType}] /\ identifiers = [x \in D |-> identifiers[x]]
          /\ AllNamed(resolved_type, identifiers, D)
      BY DEF NamedInv, NodesNamed, TCTypeOK, NamesOf
    <3> HIDE DEF D
    <3>2. \A x \in D : resolved_type'[x] =
            IF x = at THEN type
            ELSE IF x = Operand(r) /\ rhs \in LiteralTypes THEN rhsType
            ELSE IF x = Operand(l) /\ lhs \in LiteralTypes THEN lhsType ELSE resolved_type[x]
      BY <2>3, <2>7, <3>1 DEF Annotated
    <3>3. \A x \in D : identifiers'[x] =
            IF x = at THEN name
            ELSE IF x = Operand(r) /\ rhs \in LiteralTypes THEN rhsAs
            ELSE IF x = Operand(l) /\ lhs \in LiteralTypes THEN lhsAs ELSE identifiers[x]
      BY <2>4, <2>7, <3>1 DEF Annotated
    <3>4. AllNamed(resolved_type', identifiers', D)
      BY <2>6, <2>8, <3>1, <3>2, <3>3 DEF AllNamed
    <3>5. NamesOf(identifiers', D)
      BY <2>4, <3>1 DEF NamesOf
    <3> QED BY <2>3, <3>4, <3>5, NodesKept DEF D
  <2> QED BY <2>3, <2>4, <2>6, <2>9, EmitNamed
<1> QED BY <1>1, <1>2

(* At the end of a statement the value has a name, and so has `result'.    *)
LEMMA ValueNamed ==
  ASSUME NamedInv, AtExit(program, at)
  PROVE  IsNamed(ValueType, ValueName) /\ IsNamed(result, result_identifier)
<1>1. IsExpression(CurrentStatement.value, Names)
  BY StatementShape DEF AtExit, IsStatement, NamedInv
<1>2. PICK n : n = Len(CurrentStatement.value)
  OBVIOUS
<1>3. n \in Nat \ {0} /\ at[3] = n + 1
  BY <1>1, <1>2 DEF IsExpression, AtExit, CurrentStatement
<1>4. Len(emitted) = n /\ emitted \in Seq(TypeIds)
  BY <1>3 DEF NamedInv, TCTypeOK
<1>5. n \in 1 .. Len(emitted) /\ emitted[n] # NoType
  BY <1>3, <1>4, ConcreteNames
<1>6. IsNamed(emitted[n], emitted_identifiers[n])
  BY <1>5 DEF NamedInv, EmittedNamed, AllNamed
<1>7. ~NothingUsed
  BY <1>3 DEF NothingUsed
<1> QED BY <1>2, <1>6, <1>7 DEF ValueType, ValueName, NamedInv, ResultNamed

(* The end of a statement that annotates it, its value, or neither.        *)
LEMMA ExitNamed ==
  ASSUME NamedInv, TCTypeOK', NEW final, FinishStatement(final),
         emitted_identifiers' = emitted_identifiers, IsNamed(final, result_identifier'),
         VariablesNamed',
         NEW type, NEW name, IsNamed(type, name),
         \/ UNCHANGED << resolved_type, identifiers >>
         \/ /\ resolved_type' = [resolved_type EXCEPT ![ValueNode] = Annotated(@, ValueType, type)]
            /\ identifiers' = [identifiers EXCEPT ![ValueNode] = Annotated(@, ValueType, name)]
         \/ /\ resolved_type' = [resolved_type EXCEPT
                 ![ValueNode] = Annotated(@, ValueType, type), ![StatementNode] = type]
            /\ identifiers' = [identifiers EXCEPT
                 ![ValueNode] = Annotated(@, ValueType, name), ![StatementNode] = name]
  PROVE  NamedInv'
<1>1. program' = program /\ emitted' = emitted /\ result' = final
  BY DEF FinishStatement
<1>2. EmittedNamed'
  BY <1>1, EmittedNamesKept DEF NamedInv, EmittedNamed
<1>3. ResultNamed'
  BY <1>1, ResultKept
<1>4. NodesNamed'
  <2> DEFINE D == Addresses(program)
  <2>1. resolved_type \in [D -> TypeIds \cup {NoType}] /\ identifiers = [x \in D |-> identifiers[x]]
        /\ AllNamed(resolved_type, identifiers, D)
    BY DEF NamedInv, NodesNamed, TCTypeOK, NamesOf
  <2> HIDE DEF D
  <2>2. \A x \in D : \/ resolved_type'[x] = resolved_type[x] /\ identifiers'[x] = identifiers[x]
                     \/ resolved_type'[x] = type /\ identifiers'[x] = name
    BY <2>1 DEF Annotated
  <2>3. AllNamed(resolved_type', identifiers', D)
    BY <2>1, <2>2 DEF AllNamed
  <2>4. NamesOf(identifiers', D)
    BY <2>1 DEF NamesOf
  <2> QED BY <1>1, <2>3, <2>4, NodesKept DEF D
<1> QED BY <1>2, <1>3, <1>4 DEF NamedInv

LEMMA DeclarationNamed ==
  ASSUME NamedInv, TCTypeOK', NameDeclaration
  PROVE  NamedInv'
<1>1. CASE Thrown
  BY <1>1, ThrowNamed DEF NameDeclaration
<1>2. CASE ~Thrown
  <2>1. PICK expected, type, name :
          /\ expected = CurrentStatement.annotation /\ type = Settled(expected, ValueType)
          /\ name = SettledName(expected, expected)
    OBVIOUS
  <2>2. /\ AtExit(program, at) /\ CurrentStatement.kind = "Declare" /\ FinishStatement(type)
        /\ resolved_type' = [resolved_type EXCEPT
             ![ValueNode] = Annotated(@, ValueType, type), ![StatementNode] = type]
        /\ variable_map' = [variable_map EXCEPT ![CurrentStatement.name] = type]
    BY <1>2, <2>1 DEF NameDeclaration, Declaring, Throw, Thrown, Errors
  <2>3. /\ identifiers' = [identifiers EXCEPT
             ![ValueNode] = Annotated(@, ValueType, name), ![StatementNode] = name]
        /\ variable_identifiers' = [variable_identifiers EXCEPT ![CurrentStatement.name] = name]
        /\ result_identifier' = name /\ emitted_identifiers' = emitted_identifiers
    BY <1>2, <2>1 DEF NameDeclaration
  <2>4. expected # NoType => expected \in BuiltinTypes
    BY <2>1, <2>2, StatementShape DEF AtExit, IsStatement, NamedInv
  <2>5. IsNamed(type, name)
    BY <2>1, <2>2, <2>4, ConcreteNames, ValueNamed, SettledNamed
  <2>6. VariablesNamed'
    <3>1. /\ variable_map \in [Names -> TypeIds \cup {NoType}]
          /\ NamesOf(variable_identifiers, Names)
          /\ AllNamed(variable_map, variable_identifiers, Names)
      BY DEF NamedInv, VariablesNamed, TCTypeOK
    <3>2. PICK variable : variable = CurrentStatement.name
      OBVIOUS
    <3>3. /\ NamesOf([variable_identifiers EXCEPT ![variable] = name], Names)
          /\ AllNamed([variable_map EXCEPT ![variable] = type],
                      [variable_identifiers EXCEPT ![variable] = name], Names)
      BY <2>5, <3>1, OneNamed
    <3>4. program' = program
      BY <2>2 DEF FinishStatement
    <3> QED BY <2>2, <2>3, <3>2, <3>3, <3>4, VariablesKept
  <2> QED BY <2>2, <2>3, <2>5, <2>6, ExitNamed
<1> QED BY <1>1, <1>2

LEMMA AssignmentNamed ==
  ASSUME NamedInv, TCTypeOK', NameAssignment
  PROVE  NamedInv'
<1>1. CASE Thrown
  BY <1>1, ThrowNamed DEF NameAssignment
<1>2. CASE ~Thrown
  <2>1. PICK expected, expectedName, type, name :
          /\ expected = variable_map[CurrentStatement.name]
          /\ expectedName = variable_identifiers[CurrentStatement.name]
          /\ type = Settled(expected, ValueType) /\ name = SettledName(expected, expectedName)
    OBVIOUS
  <2>2. /\ AtExit(program, at) /\ CurrentStatement.kind = "Assign" /\ FinishStatement(result)
        /\ resolved_type' = [resolved_type EXCEPT ![ValueNode] = Annotated(@, ValueType, type)]
        /\ variable_map' = variable_map
    BY <1>2, <2>1 DEF NameAssignment, Assigning, Throw, Thrown, Errors
  <2>3. /\ identifiers' = [identifiers EXCEPT ![ValueNode] = Annotated(@, ValueType, name)]
        /\ UNCHANGED << result_identifier, variable_identifiers, emitted_identifiers >>
    BY <1>2, <2>1 DEF NameAssignment
  <2>4. CurrentStatement.name \in Names
    BY <2>2, StatementShape DEF AtExit, IsStatement, NamedInv
  <2>5. expected # NoType => IsNamed(expected, expectedName)
    BY <2>1, <2>4 DEF NamedInv, VariablesNamed, AllNamed
  <2>6. IsNamed(type, name) /\ IsNamed(result, result_identifier)
    BY <2>1, <2>2, <2>5, ValueNamed, SettledNamed
  <2>7. VariablesNamed'
    BY <2>2, <2>3, VariablesKept DEF FinishStatement, NamedInv, VariablesNamed
  <2> QED BY <2>2, <2>3, <2>6, <2>7, ExitNamed
<1> QED BY <1>1, <1>2

LEMMA ReturnNamed ==
  ASSUME NamedInv, TCTypeOK', NameReturn
  PROVE  NamedInv'
<1>1. CASE Thrown
  BY <1>1, ThrowNamed DEF NameReturn
<1>2. CASE ~Thrown
  <2>1. PICK function : function = <<at[1], 0, 0>>
    OBVIOUS
  <2>2. PICK expected, expectedName, type, name :
          /\ expected = resolved_type[function] /\ expectedName = identifiers[function]
          /\ type = Settled(expected, ValueType) /\ name = SettledName(expected, expectedName)
    OBVIOUS
  <2>3. /\ AtExit(program, at) /\ FinishStatement(type)
        /\ resolved_type' = [resolved_type EXCEPT
             ![ValueNode] = Annotated(@, ValueType, type), ![StatementNode] = type]
        /\ variable_map' = variable_map
    BY <1>2, <2>1, <2>2 DEF NameReturn, Returning, Throw, Thrown, Errors
  <2>4. /\ identifiers' = [identifiers EXCEPT
             ![ValueNode] = Annotated(@, ValueType, name), ![StatementNode] = name]
        /\ result_identifier' = name
        /\ UNCHANGED << variable_identifiers, emitted_identifiers >>
    BY <1>2, <2>1, <2>2 DEF NameReturn
  <2>5. function \in Addresses(program)
    BY <2>1, <2>3, StatementShape DEF AtExit, NamedInv, Addresses, FunctionAddresses
  <2>6. expected # NoType => IsNamed(expected, expectedName)
    BY <2>2, <2>5 DEF NamedInv, NodesNamed, AllNamed
  <2>7. IsNamed(type, name)
    BY <2>2, <2>3, <2>6, ValueNamed, SettledNamed
  <2>8. VariablesNamed'
    BY <2>3, <2>4, VariablesKept DEF FinishStatement, NamedInv, VariablesNamed
  <2> QED BY <2>3, <2>4, <2>7, <2>8, ExitNamed
<1> QED BY <1>1, <1>2

LEMMA NothingWritten ==
  ASSUME NamedInv, TCTypeOK', NameNothing
  PROVE  NamedInv'
<1>1. CASE Showing
  <2>1. /\ AtExit(program, at) /\ FinishStatement(result)
        /\ UNCHANGED << resolved_type, variable_map >>
    BY <1>1 DEF Showing
  <2>2. UNCHANGED << identifiers, result_identifier, variable_identifiers, emitted_identifiers >>
    BY DEF NameNothing, tn_vars
  <2>3. VariablesNamed'
    BY <2>1, <2>2, VariablesKept DEF FinishStatement, NamedInv, VariablesNamed
  <2>4. IsNamed(result, result_identifier)
    BY <2>1, ValueNamed
  <2> QED BY <2>1, <2>2, <2>3, <2>4, ExitNamed
<1>2. CASE FinishCheck
  BY <1>2, NothingNamed DEF FinishCheck, NameNothing
<1> QED BY <1>1, <1>2 DEF NameNothing

LEMMA NamedStart == Init => NamedInv
<1> SUFFICES ASSUME Init PROVE NamedInv
  OBVIOUS
<1>1. TCInit /\ TNInit
  BY DEF Init, TNInit
<1>2. TCTypeOK
  BY <1>1, TypeInit
<1>3. NodesNamed
  <2>1. \A x \in Addresses(program) : resolved_type[x] = NoType
    BY <1>1 DEF TCInit
  <2> QED BY <1>1, <2>1 DEF TNInit, NodesNamed, NamesOf, AllNamed
<1>4. VariablesNamed
  <2>1. \A n \in Names : variable_map[n] = NoType
    BY <1>1 DEF TCInit
  <2> QED BY <1>1, <2>1 DEF TNInit, VariablesNamed, NamesOf, AllNamed
<1>5. EmittedNamed
  <2>1. PICK none : none = << >>
    OBVIOUS
  <2>2. none \in Seq({}) /\ Len(none) = 0
    BY <2>1
  <2>3. IsSequence(none) /\ AllNamed(none, none, 1 .. Len(none))
    BY <2>2 DEF IsSequence, AllNamed
  <2> QED BY <1>1, <2>1, <2>3 DEF TCInit, TNInit, EmittedNamed
<1>6. ResultNamed
  <2>1. at[1] = 1 /\ at[2] = 0 /\ at[3] = 0
    BY <1>1 DEF TCInit, FirstAddress
  <2> QED BY <1>1, <2>1 DEF TCInit, TNInit, ResultNamed, NothingUsed
<1> QED BY <1>2, <1>3, <1>4, <1>5, <1>6 DEF NamedInv

LEMMA NamedStep == NamedInv /\ [Next \/ Done]_vars => NamedInv'
<1> SUFFICES ASSUME NamedInv, [Next \/ Done]_vars PROVE NamedInv'
  OBVIOUS
<1>1. CASE NamedNext
  <2>1. TCTypeOK'
    BY <1>1, NamedSteps, TypeNext DEF NamedInv
  <2> QED
    BY <1>1, <2>1, FunctionNamed, EntryNamed, LiteralNamed, VariableNamed, CallNamed,
       BinaryNodeNamed, DeclarationNamed, AssignmentNamed, ReturnNamed, NothingWritten
    DEF NamedNext
<1>2. CASE PrintNext \/ Done \/ UNCHANGED vars
  <2>1. UNCHANGED chk_vars
    BY <1>2 DEF PrintNext, StartPrinting, PrintNode, PrintTypeExpression, PrintResolvedType,
                CloseNode, FinishPrinting, Begin, Done, vars
  <2>2. UNCHANGED tc_vars /\ UNCHANGED tn_vars
    BY <2>1 DEF chk_vars
  <2>3. TCTypeOK'
    BY <2>2, TypeNext DEF NamedInv
  <2> QED BY <2>2, <2>3, NothingNamed DEF tc_vars
<1> QED BY <1>1, <1>2 DEF Next

LEMMA NamedAlways == Spec => []NamedInv
<1>1. NamedInv /\ [Next \/ Done]_vars => NamedInv'
  BY NamedStep
<1> QED BY <1>1, NamedStart, PTL DEF Spec

LEMMA ReadAlways == Spec => []ReadInv
<1>1. Init => ReadInv
  BY PrinterStart DEF Init, ReadInv
<1>2. ReadInv /\ [Next \/ Done]_vars => ReadInv'
  BY ReadStep
<1> QED BY <1>1, <1>2, PTL DEF Spec

(* Whatever the program, the printed text can be read back: by its         *)
(* parentheses alone it gives the tree that was printed and the name of    *)
(* the type of every node that has one.  Two trees that differ print       *)
(* differently, and a type is printed without its name only where a        *)
(* program begins with a call and the type is the one `result' began with. *)
THEOREM PrintsTree == Spec => []PrintedTreeReadsBack
<1>1. ReadInv /\ NamedInv => PrintedTreeReadsBack
  <2> SUFFICES ASSUME ReadInv, NamedInv, printing = "printed" PROVE PrintedTreeReadsBack
    BY DEF PrintedTreeReadsBack
  <2>1. IsProgram(program, Names) /\ calls = << >>
    BY ProgramsAssumption DEF ReadInv, PrinterInv
  <2>2. PICK file, whole : file = Read(output) /\ whole = WholeProgram
    OBVIOUS
  <2>3. Runs(file, << >>, Adding(File, whole))
    BY <2>1, <2>2, ReadNow
  <2>4. file = Adding(File, whole)
    BY <2>3, RunsEmpty
  <2>5. file.parts[1] = whole
    <3>1. PICK name, none : name = "file" /\ none = << >>
      OBVIOUS
    <3>2. PICK parts, node : parts = Append(none, whole) /\ node = ReadNode(name, none, none, none)
      OBVIOUS
    <3>3. parts = << whole >>
      BY <3>1, <3>2, FewParts
    <3>4. node = File
      BY <3>1, <3>2 DEF File, Started, ReadNode
    <3>5. Adding(node, whole) = ReadNode(name, none, parts, none)
      BY <3>2, AddingTo
    <3>6. file.parts = parts
      BY <2>4, <3>4, <3>5, NodeFields
    <3> QED BY <3>3, <3>6
  <2>6. whole.tree = program
    <3>1. whole.tree = ProgramOf(program)
      BY <2>2 DEF WholeProgram
    <3>2. program = ProgramOf(program)
      BY <2>1 DEF IsProgram, IsBuilt
    <3> QED BY <3>1, <3>2
  <2>7. \A a \in Addresses(program) :
          (a \in StatementAddresses(program) => StatementAt(program, a).kind = "Declare")
            => whole.types[a[1]][a[2] + 1][a[3] + 1] = PrintedType(a)
    BY <2>1, <2>2, ProgramTypes
  <2>8. \A a \in Addresses(program) : IsTypeOf(a, PrintedType(a))
    BY DEF NamedInv, NodesNamed, AllNamed, IsTypeOf, PrintedType
  <2>9. \A a \in Addresses(program) :
          (a \in StatementAddresses(program) => StatementAt(program, a).kind = "Declare")
            => IsTypeOf(a, whole.types[a[1]][a[2] + 1][a[3] + 1])
    BY <2>7, <2>8
  <2> QED BY <2>2, <2>4, <2>5, <2>6, <2>9, Zenon DEF PrintedTreeReadsBack
<1> QED BY <1>1, ReadAlways, NamedAlways, PTL
=============================================================================
