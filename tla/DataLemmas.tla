----------------------------- MODULE DataLemmas -----------------------------
(***************************************************************************)
(* Facts about data that several proofs need: induction over numbers, and  *)
(* appending to a sequence whose elements are of no common set, such as    *)
(* the requests made of LLVM or the tokens of a file.                      *)
(***************************************************************************)
EXTENDS Integers, Sequences, SequenceTheorems, WellFoundedInduction, TLAPS

(* Induction, on sets rather than on formulas: a set of numbers that is    *)
(* not empty has a smallest element, a bounded one a largest.              *)
LEMMA Smallest ==
  ASSUME NEW T, T \subseteq Nat, T # {}
  PROVE  \E x \in T : \A y \in T : x <= y
<1> DEFINE R == OpToRel(<, Nat)
<1>1. IsWellFoundedOn(R, Nat)
  BY NatLessThanWellFounded, Zenon
<1>2. \A x, y \in Nat : <<y, x>> \in R <=> y < x
  BY DEF OpToRel
<1> HIDE DEF R
<1>3. PICK x \in T : \A y \in T : ~ (<<y, x>> \in R)
  BY <1>1, WFMin
<1>4. \A y \in T : x <= y
  <2> TAKE y \in T
  <2>1. x \in Nat /\ y \in Nat
    OBVIOUS
  <2>2. ~(y < x)
    BY <1>2, <1>3, <2>1
  <2> QED BY <2>1, <2>2
<1> QED BY <1>4

LEMMA Largest ==
  ASSUME NEW n \in Nat, NEW T, T \subseteq 0 .. n, T # {}
  PROVE  \E x \in T : \A y \in T : y <= x
<1> DEFINE U == { n - y : y \in T }
<1>1. \A y \in T : y \in Nat /\ n - y \in Nat
  <2> TAKE y \in T
  <2>1. y \in 0 .. n
    OBVIOUS
  <2> QED BY <2>1
<1>2. U \subseteq Nat /\ U # {}
  BY <1>1
<1>3. PICK u \in U : \A v \in U : u <= v
  BY <1>2, Smallest
<1>4. PICK x \in T : u = n - x
  BY <1>3
<1>5. ASSUME NEW y \in T
      PROVE  y <= x
  <2>1. n - y \in U
    OBVIOUS
  <2>2. n - x <= n - y
    BY <1>3, <1>4, <2>1
  <2>3. x \in Nat /\ y \in Nat
    BY <1>1
  <2> QED BY <2>2, <2>3
<1> QED BY <1>5

(* What holds of every number below a bound when it holds of each whose    *)
(* predecessors have it.                                                   *)
LEMMA Induction ==
  ASSUME NEW n \in Nat, NEW T,
         \A i \in 1 .. n : (\A j \in 1 .. i - 1 : j \in T) => i \in T
  PROVE  1 .. n \subseteq T
<1> DEFINE U == { i \in 1 .. n : i \notin T }
<1>1. SUFFICES ASSUME U # {} PROVE FALSE
  OBVIOUS
<1>2. U \subseteq Nat
  OBVIOUS
<1>3. PICK x \in U : \A y \in U : x <= y
  BY <1>1, <1>2, Smallest
<1>4. \A j \in 1 .. x - 1 : j \in T
  <2> TAKE j \in 1 .. x - 1
  <2>1. j \in 1 .. n /\ ~(x <= j)
    BY <1>3
  <2> QED BY <1>3, <2>1
<1> QED BY <1>3, <1>4

LEMMA Counting ==
  ASSUME NEW n \in Nat, NEW T, 0 \in T,
         \A k \in 0 .. n - 1 : k \in T => k + 1 \in T
  PROVE  0 .. n \subseteq T
<1> DEFINE U == { k \in 0 .. n : k \notin T }
<1>1. SUFFICES ASSUME U # {} PROVE FALSE
  OBVIOUS
<1>2. U \subseteq Nat
  OBVIOUS
<1>3. PICK x \in U : \A y \in U : x <= y
  BY <1>1, <1>2, Smallest
<1>4. x # 0
  OBVIOUS
<1>5. x - 1 \in 0 .. n - 1 /\ ~(x <= x - 1)
  BY <1>4
<1>6. x - 1 \in T
  BY <1>3, <1>5
<1> QED BY <1>5, <1>6

IsSequence(s) == \E S : s \in Seq(S)

LEMMA Appending ==
  ASSUME NEW s, IsSequence(s), NEW e
  PROVE  /\ IsSequence(Append(s, e))
         /\ Len(s) \in Nat /\ Len(Append(s, e)) = Len(s) + 1
         /\ Append(s, e)[Len(s) + 1] = e
         /\ \A i \in 1 .. Len(s) : Append(s, e)[i] = s[i]
<1>1. PICK S : s \in Seq(S)
  BY DEF IsSequence
<1> DEFINE T == S \cup {e}
<1>2. s \in Seq(T)
  <2>1. Len(s) \in Nat /\ s \in [1 .. Len(s) -> S]
    BY <1>1
  <2>2. s \in [1 .. Len(s) -> T]
    BY <2>1
  <2> QED BY <2>1, <2>2
<1>3. e \in T
  OBVIOUS
<1> HIDE DEF T
<1>4. Append(s, e) \in Seq(T)
  BY <1>2, <1>3
<1> QED BY <1>2, <1>3, <1>4 DEF IsSequence

LEMMA AppendingTwo ==
  ASSUME NEW s, IsSequence(s), NEW e, NEW f
  PROVE  s \o <<e, f>> = Append(Append(s, e), f)
<1>1. PICK S : s \in Seq(S)
  BY DEF IsSequence
<1> DEFINE T == S \cup {e, f}
<1>2. s \in Seq(T)
  <2>1. Len(s) \in Nat /\ s \in [1 .. Len(s) -> S]
    BY <1>1
  <2>2. s \in [1 .. Len(s) -> T]
    BY <2>1
  <2> QED BY <2>1, <2>2
<1>3. e \in T /\ f \in T
  OBVIOUS
<1> HIDE DEF T
<1> QED BY <1>2, <1>3

(* A part of a sequence has the length and the elements it should.         *)
LEMMA Part ==
  ASSUME NEW s, NEW m \in Nat, NEW n \in Nat, m <= n + 1
  PROVE  /\ Len(SubSeq(s, m, n)) = n - m + 1
         /\ m = n => SubSeq(s, m, n) = << s[m] >>
<1> DEFINE S == { s[i] : i \in m .. n }
<1>1. \A i \in m .. n : s[i] \in S
  OBVIOUS
<1> HIDE DEF S
<1>2. /\ SubSeq(s, m, n) \in Seq(S)
      /\ Len(SubSeq(s, m, n)) = IF m <= n THEN n - m + 1 ELSE 0
      /\ \A i \in 1 .. n - m + 1 : SubSeq(s, m, n)[i] = s[m + i - 1]
  BY <1>1, SubSeqProperties
<1>3. ASSUME m = n PROVE SubSeq(s, m, n) = << s[m] >>
  <2>1. PICK t \in Seq(S) : t = SubSeq(s, m, n)
    BY <1>2
  <2>2. Len(t) = 1 /\ t[1] = s[m] /\ s[m] \in S
    BY <1>1, <1>2, <1>3, <2>1
  <2>3. << s[m] >> \in Seq(S) /\ Len(<< s[m] >>) = 1 /\ << s[m] >>[1] = s[m]
    BY <2>2
  <2>4. t = << s[m] >>
    BY <2>2, <2>3, SeqEqual
  <2> QED BY <2>1, <2>4
<1> QED BY <1>2, <1>3

(* What goes behind a sequence keeps its places.                           *)
LEMMA Concatenating ==
  ASSUME NEW s, IsSequence(s), NEW t, IsSequence(t)
  PROVE  /\ IsSequence(s \o t) /\ Len(s) \in Nat /\ Len(t) \in Nat
         /\ Len(s \o t) = Len(s) + Len(t)
         /\ \A i \in 1 .. Len(s) : (s \o t)[i] = s[i]
         /\ \A j \in 1 .. Len(t) : (s \o t)[Len(s) + j] = t[j]
<1>1. PICK S, T : s \in Seq(S) /\ t \in Seq(T)
  BY DEF IsSequence
<1> DEFINE U == S \cup T
<1>2. s \in Seq(U) /\ t \in Seq(U)
  <2>1. Len(s) \in Nat /\ s \in [1 .. Len(s) -> S] /\ Len(t) \in Nat /\ t \in [1 .. Len(t) -> T]
    BY <1>1
  <2>2. s \in [1 .. Len(s) -> U] /\ t \in [1 .. Len(t) -> U]
    BY <2>1
  <2> QED BY <2>1, <2>2
<1> HIDE DEF U
<1>3. /\ s \o t \in Seq(U) /\ Len(s \o t) = Len(s) + Len(t)
      /\ \A i \in 1 .. Len(s) + Len(t) : (s \o t)[i] = IF i <= Len(s) THEN s[i] ELSE t[i - Len(s)]
  BY <1>2, ConcatProperties
<1>4. Len(s) \in Nat /\ Len(t) \in Nat
  BY <1>2
<1>5. \A i \in 1 .. Len(s) : (s \o t)[i] = s[i]
  BY <1>3, <1>4
<1>6. ASSUME NEW j \in 1 .. Len(t) PROVE (s \o t)[Len(s) + j] = t[j]
  <2>1. /\ Len(s) + j \in 1 .. Len(s) + Len(t) /\ ~(Len(s) + j <= Len(s))
        /\ Len(s) + j - Len(s) = j
    BY <1>4
  <2> QED BY <1>3, <2>1
<1> QED BY <1>3, <1>4, <1>5, <1>6 DEF IsSequence

LEMMA HeadAndTail ==
  ASSUME NEW s, IsSequence(s), s # << >>
  PROVE  /\ IsSequence(<< Head(s) >>) /\ IsSequence(Tail(s))
         /\ s = << Head(s) >> \o Tail(s)
<1>1. PICK S : s \in Seq(S)
  BY DEF IsSequence
<1>2. Head(s) \in S /\ Tail(s) \in Seq(S) /\ s = << Head(s) >> \o Tail(s)
  BY <1>1
<1>3. << Head(s) >> \in Seq(S)
  BY <1>2
<1> QED BY <1>2, <1>3 DEF IsSequence
=============================================================================
