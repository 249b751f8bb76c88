-------------------------- MODULE StaticMapProofs --------------------------
(***************************************************************************)
(* What find() answers, for every table and every key: the array is a      *)
(* sorted rearrangement of the initializer, and the search keeps what it   *)
(* has not looked at between keys too small and keys not too small.        *)
(***************************************************************************)
EXTENDS StaticMap, TLAPS

OneToOne(perm, n) == \A i, j \in 1 .. n : perm[i] = perm[j] => i = j
IsOnto(perm, n)   == \A k \in 1 .. n : \E i \in 1 .. n : perm[i] = k

(* The array s holds the entries given so far, each at one place.          *)
Arranges(perm, s, given) ==
  /\ perm \in [1 .. Len(s) -> 1 .. Len(s)]
  /\ OneToOne(perm, Len(s))
  /\ IsOnto(perm, Len(s))
  /\ \A i \in 1 .. Len(s) : s[i] = given[perm[i]]

Given == {items[i] : i \in 1 .. N}

SortedInv ==
  /\ items \in Initializers
  /\ items_ \in Seq(Given)
  /\ Len(items_) <= N
  /\ \A i, j \in 1 .. Len(items_) : i <= j => items_[i].key <= items_[j].key
  /\ \E perm : Arranges(perm, items_, items)

PhaseInv ==
  /\ phase \in {"made", "ready", "searching", "refused"}
  /\ phase # "made" => Len(items_) = N
  /\ phase = "refused" => HasDuplicate(items_)
  /\ phase \in {"ready", "searching"} => ~HasDuplicate(items_)

(* What a search still has to look at: everything before it is too small,  *)
(* everything behind it is not.                                            *)
Bracketed ==
  phase = "searching" =>
    /\ \A i \in 1 .. first - 1 : items_[i].key < key
    /\ \A i \in first + length .. N : items_[i].key >= key

SearchInv ==
  /\ key \in Int
  /\ first \in 1 .. N + 1
  /\ length \in 0 .. N + 1 - first
  /\ answer = NoAnswer \/ answer \in {Found(items[i].value) : i \in 1 .. N}
  /\ Bracketed

MapInv == SortedInv /\ PhaseInv /\ SearchInv

----------------------------------------------------------------------------
LEMMA InitMapInv == Init => MapInv
<1> SUFFICES ASSUME Init PROVE MapInv
  OBVIOUS
<1>1. N \in Nat
  BY InitializersAssumption DEF Init, N
<1>2. items_ = << >> /\ Len(items_) = 0 /\ items_ \in Seq(Given)
  BY DEF Init
<1>3. Arranges([i \in 1 .. 0 |-> i], items_, items)
  BY <1>2 DEF Arranges, OneToOne, IsOnto
<1>4. SortedInv
  BY <1>1, <1>2, <1>3 DEF SortedInv, Init
<1>5. PhaseInv
  BY DEF PhaseInv, Init
<1>6. SearchInv
  BY <1>1 DEF SearchInv, Init, Bracketed
<1> QED BY <1>4, <1>5, <1>6 DEF MapInv

(* The entries have keys that can be compared.                             *)
LEMMA GivenKeys ==
  ASSUME items \in Initializers, items_ \in Seq(Given)
  PROVE  /\ N \in Nat
         /\ Len(items_) \in Nat
         /\ \A i \in 1 .. N : items[i].key \in Int
         /\ \A i \in 1 .. Len(items_) : items_[i] \in Given /\ items_[i].key \in Int
<1>1. N \in Nat /\ \A i \in 1 .. N : items[i].key \in Int
  BY InitializersAssumption DEF N
<1>2. Len(items_) \in Nat /\ \A i \in 1 .. Len(items_) : items_[i] \in Given
  <2> HIDE DEF Given
  <2> QED OBVIOUS
<1>3. \A e \in Given : e.key \in Int
  BY <1>1 DEF Given
<1> QED BY <1>1, <1>2, <1>3

(* The arrangement perm of n entries once entry n + 1 is put behind p.     *)
Inserted(perm, n, p) ==
  [i \in 1 .. n + 1 |->
     IF i <= p THEN perm[i] ELSE IF i = p + 1 THEN n + 1 ELSE perm[i - 1]]

LEMMA InsertedRange ==
  ASSUME NEW n \in Nat, NEW p \in 0 .. n, NEW perm \in [1 .. n -> 1 .. n]
  PROVE  Inserted(perm, n, p) \in [1 .. n + 1 -> 1 .. n + 1]
<1> SUFFICES ASSUME NEW i \in 1 .. n + 1
             PROVE  Inserted(perm, n, p)[i] \in 1 .. n + 1
  BY DEF Inserted
<1>1. CASE i <= p
  <2>1. i \in 1 .. n /\ perm[i] \in 1 .. n
    BY <1>1
  <2> QED BY <1>1, <2>1 DEF Inserted
<1>2. CASE i = p + 1
  BY <1>2 DEF Inserted
<1>3. CASE i > p + 1
  <2>1. i - 1 \in 1 .. n /\ perm[i - 1] \in 1 .. n
    BY <1>3
  <2> QED BY <1>3, <2>1 DEF Inserted
<1> QED BY <1>1, <1>2, <1>3

LEMMA InsertedOnto ==
  ASSUME NEW n \in Nat, NEW p \in 0 .. n, NEW perm \in [1 .. n -> 1 .. n],
         IsOnto(perm, n)
  PROVE  IsOnto(Inserted(perm, n, p), n + 1)
<1> SUFFICES ASSUME NEW k \in 1 .. n + 1
             PROVE  \E i \in 1 .. n + 1 : Inserted(perm, n, p)[i] = k
  BY DEF IsOnto
<1>1. CASE k = n + 1
  <2>1. p + 1 \in 1 .. n + 1 /\ Inserted(perm, n, p)[p + 1] = k
    BY <1>1 DEF Inserted
  <2> QED BY <2>1
<1>2. CASE k # n + 1
  <2>1. k \in 1 .. n
    BY <1>2
  <2>2. PICK i \in 1 .. n : perm[i] = k
    BY <2>1 DEF IsOnto
  <2>3. CASE i <= p
    <3>1. i \in 1 .. n + 1 /\ Inserted(perm, n, p)[i] = k
      BY <2>2, <2>3 DEF Inserted
    <3> QED BY <3>1
  <2>4. CASE i > p
    <3>1. i + 1 \in 1 .. n + 1 /\ ~(i + 1 <= p) /\ i + 1 # p + 1 /\ (i + 1) - 1 = i
      BY <2>4
    <3>2. Inserted(perm, n, p)[i + 1] = k
      BY <2>2, <3>1 DEF Inserted
    <3> QED BY <3>1, <3>2
  <2> QED BY <2>3, <2>4
<1> QED BY <1>1, <1>2

(* The place an entry comes from, for the places of the old arrangement.   *)
LEMMA InsertedOnce ==
  ASSUME NEW n \in Nat, NEW p \in 0 .. n, NEW perm \in [1 .. n -> 1 .. n],
         OneToOne(perm, n)
  PROVE  OneToOne(Inserted(perm, n, p), n + 1)
<1> DEFINE Old(i) == IF i <= p THEN i ELSE i - 1
<1>1. ASSUME NEW i \in 1 .. n + 1, i # p + 1
      PROVE  /\ Old(i) \in 1 .. n
             /\ Inserted(perm, n, p)[i] = perm[Old(i)]
             /\ perm[Old(i)] \in 1 .. n
  <2>1. Old(i) \in 1 .. n
    BY <1>1
  <2>2. Inserted(perm, n, p)[i] = perm[Old(i)]
    BY <1>1 DEF Inserted
  <2> QED BY <2>1, <2>2
<1>2. Inserted(perm, n, p)[p + 1] = n + 1
  BY DEF Inserted
<1> SUFFICES ASSUME NEW i \in 1 .. n + 1, NEW j \in 1 .. n + 1,
                    Inserted(perm, n, p)[i] = Inserted(perm, n, p)[j]
             PROVE  i = j
  BY DEF OneToOne
<1>3. CASE i = p + 1 \/ j = p + 1
  <2>1. ASSUME NEW k \in 1 .. n + 1, Inserted(perm, n, p)[k] = n + 1
        PROVE  k = p + 1
    <3>1. ASSUME k # p + 1 PROVE FALSE
      <4>1. Inserted(perm, n, p)[k] \in 1 .. n
        BY <1>1, <3>1
      <4> QED BY <4>1, <2>1
    <3> QED BY <3>1
  <2> QED BY <1>2, <1>3, <2>1
<1>4. CASE i # p + 1 /\ j # p + 1
  <2>1. Old(i) \in 1 .. n /\ Old(j) \in 1 .. n /\ perm[Old(i)] = perm[Old(j)]
    BY <1>1, <1>4
  <2>2. \A a, b \in 1 .. n : perm[a] = perm[b] => a = b
    BY DEF OneToOne
  <2>3. Old(i) = Old(j)
    <3> HIDE DEF Old
    <3> QED BY <2>1, <2>2
  <2>4. \A k \in 1 .. n + 1 : k <= p => Old(k) = k
    OBVIOUS
  <2>5. \A k \in 1 .. n + 1 : ~(k <= p) => Old(k) = k - 1
    OBVIOUS
  <2> HIDE DEF Old
  <2>6. CASE i <= p /\ j <= p
    BY <2>3, <2>4, <2>6
  <2>7. CASE ~(i <= p) /\ ~(j <= p)
    <3>1. i - 1 = j - 1
      BY <2>3, <2>5, <2>7
    <3> QED BY <3>1
  <2>8. CASE i <= p /\ ~(j <= p)
    <3>1. i = j - 1
      BY <2>3, <2>4, <2>5, <2>8
    <3> QED BY <3>1, <2>8, <1>4
  <2>9. CASE ~(i <= p) /\ j <= p
    <3>1. i - 1 = j
      BY <2>3, <2>4, <2>5, <2>9
    <3> QED BY <3>1, <2>9, <1>4
  <2> QED BY <2>6, <2>7, <2>8, <2>9
<1> QED BY <1>3, <1>4

(* An entry put behind those not above it leaves the array sorted, and     *)
(* takes a place of its own.                                               *)
LEMMA SortStep == MapInv /\ Sort => MapInv'
<1> SUFFICES ASSUME MapInv, Sort PROVE MapInv'
  OBVIOUS
<1>a. /\ items \in Initializers /\ items_ \in Seq(Given) /\ Len(items_) <= N
      /\ phase = "made" /\ Len(items_) < N
      /\ UNCHANGED << items, key, first, length, answer, phase >>
  BY DEF MapInv, SortedInv, Sort
<1>b. /\ N \in Nat /\ Len(items_) \in Nat
      /\ \A i \in 1 .. N : items[i].key \in Int
      /\ \A i \in 1 .. Len(items_) : items_[i] \in Given /\ items_[i].key \in Int
  BY <1>a, GivenKeys
<1> DEFINE n == Len(items_)
           new == items[n + 1]
           Put(p) == [i \in 1 .. n + 1 |->
                        IF i <= p THEN items_[i] ELSE IF i = p + 1 THEN new ELSE items_[i - 1]]
<1>1. PICK p \in 0 .. n :
        /\ \A i \in 1 .. p : items_[i].key <= new.key
        /\ \A i \in p + 1 .. n : items_[i].key > new.key
        /\ items_' = Put(p)
  BY DEF Sort
<1>2. new \in Given /\ new.key \in Int /\ n \in Nat
  BY <1>a, <1>b DEF Given
<1>3. N' = N /\ Given' = Given /\ items' = items
  BY <1>a DEF N, Given
<1>4. items_' \in Seq(Given) /\ Len(items_') = n + 1
  <2>1. \A i \in 1 .. n + 1 : Put(p)[i] \in Given
    BY <1>b, <1>2
  <2> HIDE DEF Given, new
  <2>2. Put(p) \in [1 .. n + 1 -> Given]
    BY <2>1
  <2> QED BY <1>1, <1>2, <2>2
<1> HIDE DEF new
<1>5. \A i, j \in 1 .. Len(items_') : i <= j => items_'[i].key <= items_'[j].key
  <2>1. \A i, j \in 1 .. n : i <= j => items_[i].key <= items_[j].key
    BY DEF MapInv, SortedInv
  <2> SUFFICES ASSUME NEW i \in 1 .. n + 1, NEW j \in 1 .. n + 1, i <= j
               PROVE  Put(p)[i].key <= Put(p)[j].key
    BY <1>1, <1>4
  <2>2. CASE j <= p
    BY <2>1, <2>2, <1>2
  <2>3. CASE j = p + 1
    BY <2>1, <2>3, <1>1, <1>2
  <2>4. CASE j > p + 1
    <3>1. j - 1 \in 1 .. n /\ j - 1 \in p + 1 .. n
      BY <2>4, <1>2
    <3>2. CASE i <= p
      <4>1. i \in 1 .. n /\ i <= j - 1
        BY <3>1, <3>2, <1>2
      <4> QED BY <2>1, <2>4, <3>1, <3>2, <4>1
    <3>3. CASE i = p + 1
      <4>1. items_[j - 1].key > new.key
        BY <1>1, <3>1
      <4>2. items_[j - 1].key \in Int
        BY <1>b, <3>1
      <4> QED BY <2>4, <3>3, <4>1, <4>2, <1>2
    <3>4. CASE i > p + 1
      <4>1. i - 1 \in 1 .. n /\ i - 1 <= j - 1
        BY <3>1, <3>4, <1>2
      <4> QED BY <2>1, <2>4, <3>1, <3>4, <4>1
    <3> QED BY <3>2, <3>3, <3>4
  <2> QED BY <2>2, <2>3, <2>4
<1>6. \E perm : Arranges(perm, items_', items')
  <2>1. PICK perm : Arranges(perm, items_, items)
    BY DEF MapInv, SortedInv
  <2> DEFINE next == Inserted(perm, n, p)
  <2>2. /\ perm \in [1 .. n -> 1 .. n]
        /\ OneToOne(perm, n) /\ IsOnto(perm, n)
        /\ \A i \in 1 .. n : items_[i] = items[perm[i]]
    BY <2>1 DEF Arranges
  <2>3. next \in [1 .. n + 1 -> 1 .. n + 1]
    BY <2>2, <1>2, InsertedRange
  <2>4. OneToOne(next, n + 1)
    BY <2>2, <1>2, InsertedOnce
  <2>5. IsOnto(next, n + 1)
    BY <2>2, <1>2, InsertedOnto
  <2>6. \A i \in 1 .. n + 1 : items_'[i] = items'[next[i]]
    <3> SUFFICES ASSUME NEW i \in 1 .. n + 1 PROVE Put(p)[i] = items[next[i]]
      BY <1>1, <1>3
    <3>1. CASE i <= p
      <4>1. i \in 1 .. n /\ Put(p)[i] = items_[i] /\ next[i] = perm[i]
        BY <3>1, <1>2 DEF Inserted
      <4>2. items_[i] = items[perm[i]]
        BY <2>2, <4>1
      <4> QED BY <4>1, <4>2
    <3>2. CASE i = p + 1
      <4>1. Put(p)[i] = new /\ next[i] = n + 1
        BY <3>2, <1>2 DEF Inserted
      <4> QED BY <4>1 DEF new
    <3>3. CASE i > p + 1
      <4>1. i - 1 \in 1 .. n /\ Put(p)[i] = items_[i - 1] /\ next[i] = perm[i - 1]
        BY <3>3, <1>2 DEF Inserted
      <4>2. items_[i - 1] = items[perm[i - 1]]
        BY <2>2, <4>1
      <4> QED BY <4>1, <4>2
    <3> QED BY <3>1, <3>2, <3>3
  <2> HIDE DEF next
  <2>7. Arranges(next, items_', items')
    BY <2>3, <2>4, <2>5, <2>6, <1>4 DEF Arranges
  <2> QED BY <2>7
<1>7. SortedInv'
  <2>1. Len(items_') <= N
    BY <1>4, <1>a, <1>b
  <2> QED BY <2>1, <1>3, <1>4, <1>5, <1>6, <1>a DEF SortedInv
<1>8. PhaseInv'
  BY <1>a DEF PhaseInv
<1>9. SearchInv'
  BY <1>a, <1>3 DEF SearchInv, MapInv, Bracketed
<1> QED BY <1>7, <1>8, <1>9 DEF MapInv

(* The constructor's check and the start of a search.                      *)
LEMMA ConstructStep == MapInv /\ Construct => MapInv'
<1> SUFFICES ASSUME MapInv, Construct PROVE MapInv'
  OBVIOUS
<1>1. SortedInv'
  BY DEF MapInv, SortedInv, Construct, Given, N
<1>2. PhaseInv'
  BY DEF MapInv, PhaseInv, Construct, HasDuplicate, N
<1>3. SearchInv'
  BY DEF MapInv, SearchInv, Construct, Bracketed, N
<1> QED BY <1>1, <1>2, <1>3 DEF MapInv

LEMMA FindStep == MapInv /\ Find => MapInv'
<1> SUFFICES ASSUME MapInv, Find PROVE MapInv'
  OBVIOUS
<1>0. N \in Nat
  BY GivenKeys DEF MapInv, SortedInv
<1>1. SortedInv'
  BY DEF MapInv, SortedInv, Find, Given, N
<1>2. PhaseInv'
  BY DEF MapInv, PhaseInv, Find, HasDuplicate, N
<1>3. SearchInv'
  BY <1>0, SoughtAssumption DEF MapInv, SearchInv, Find, Bracketed, N
<1> QED BY <1>1, <1>2, <1>3 DEF MapInv

(* A probe tells on which side of it the key belongs, because the entries  *)
(* before it are no larger and those behind it no smaller.                 *)
LEMMA ProbeStep == MapInv /\ Probe => MapInv'
<1> SUFFICES ASSUME MapInv, Probe PROVE MapInv'
  OBVIOUS
<1>a. /\ phase = "searching" /\ length > 0 /\ Len(items_) = N
      /\ UNCHANGED << items, items_, key, answer, phase >>
      /\ key \in Int /\ first \in 1 .. N + 1 /\ length \in 0 .. N + 1 - first
      /\ \A i \in 1 .. first - 1 : items_[i].key < key
      /\ \A i \in first + length .. N : items_[i].key >= key
      /\ \A i, j \in 1 .. N : i <= j => items_[i].key <= items_[j].key
  BY DEF MapInv, SortedInv, PhaseInv, SearchInv, Bracketed, Probe
<1>b. N \in Nat /\ \A i \in 1 .. N : items_[i].key \in Int
  BY <1>a, GivenKeys DEF MapInv, SortedInv
<1>c. Half \in Nat /\ Half < length /\ N' = N
  BY <1>a DEF Half, N
<1>1. SortedInv'
  BY <1>a DEF MapInv, SortedInv, Given, N
<1>2. PhaseInv'
  BY <1>a, <1>c DEF MapInv, PhaseInv, HasDuplicate
<1> DEFINE middle == first + Half
<1>3. middle \in 1 .. N
  BY <1>a, <1>b, <1>c
<1>4. CASE items_[middle].key < key
  <2>1. first' = middle + 1 /\ length' = length - Half - 1
    BY <1>4 DEF Probe
  <2>2. \A i \in 1 .. middle : items_[i].key < key
    BY <1>a, <1>b, <1>3, <1>4
  <2>3. first' \in 1 .. N + 1 /\ length' \in 0 .. N + 1 - first' /\ first' + length' = first + length
    BY <2>1, <1>a, <1>b, <1>c
  <2>4. Bracketed'
    BY <2>1, <2>2, <2>3, <1>a, <1>c, <1>3 DEF Bracketed
  <2> QED BY <1>1, <1>2, <2>3, <2>4, <1>a, <1>c DEF MapInv, SearchInv
<1>5. CASE ~(items_[middle].key < key)
  <2>1. first' = first /\ length' = Half
    BY <1>5 DEF Probe
  <2>2. \A i \in middle .. N : items_[i].key >= key
    BY <1>a, <1>b, <1>3, <1>5
  <2>3. first' \in 1 .. N + 1 /\ length' \in 0 .. N + 1 - first'
    BY <2>1, <1>a, <1>b, <1>c
  <2>4. Bracketed'
    BY <2>1, <2>2, <2>3, <1>a, <1>c, <1>3 DEF Bracketed
  <2> QED BY <1>1, <1>2, <2>3, <2>4, <1>a, <1>c DEF MapInv, SearchInv
<1> QED BY <1>4, <1>5

LEMMA AnswerStep == MapInv /\ Answer => MapInv'
<1> SUFFICES ASSUME MapInv, Answer PROVE MapInv'
  OBVIOUS
<1>a. /\ phase = "searching" /\ phase' = "ready" /\ Len(items_) = N
      /\ UNCHANGED << items, items_, key, first, length >>
  BY DEF MapInv, PhaseInv, Answer
<1>1. SortedInv'
  BY <1>a DEF MapInv, SortedInv, Given, N
<1>2. PhaseInv'
  BY <1>a DEF MapInv, PhaseInv, HasDuplicate, N
<1>3. answer' = NoAnswer \/ answer' \in {Found(items[i].value) : i \in 1 .. N}
  <2>1. CASE ~Matches(first)
    BY <2>1 DEF Answer
  <2>2. CASE Matches(first)
    <3>1. first \in 1 .. Len(items_) /\ answer' = Found(items_[first].value)
      BY <2>2, <1>a, GivenKeys DEF Answer, Matches, MapInv, SortedInv, SearchInv
    <3>2. items_[first] \in Given
      BY <3>1, GivenKeys DEF MapInv, SortedInv
    <3> QED BY <3>1, <3>2 DEF Given
  <2> QED BY <2>1, <2>2
<1>4. SearchInv'
  BY <1>3, <1>a DEF MapInv, SearchInv, Bracketed, N
<1> QED BY <1>1, <1>2, <1>4 DEF MapInv

LEMMA MapStep == MapInv /\ [Next \/ Refused]_vars => MapInv'
<1> SUFFICES ASSUME MapInv, [Next \/ Refused]_vars PROVE MapInv'
  OBVIOUS
<1>1. CASE Sort
  BY <1>1, SortStep
<1>2. CASE Construct
  BY <1>2, ConstructStep
<1>3. CASE Find
  BY <1>3, FindStep
<1>4. CASE Probe
  BY <1>4, ProbeStep
<1>5. CASE Answer
  BY <1>5, AnswerStep
<1>6. CASE UNCHANGED vars
  BY <1>6 DEF vars, MapInv, SortedInv, PhaseInv, SearchInv, Bracketed, HasDuplicate, Given, N
<1> QED BY <1>1, <1>2, <1>3, <1>4, <1>5, <1>6 DEF Next, Refused

LEMMA MapInvariant == Spec => []MapInv
BY InitMapInv, MapStep, PTL DEF Spec

----------------------------------------------------------------------------
(* The iterators of lower_bound never leave the array and its end, and the *)
(* array never holds anything but entries of the initializer.              *)
THEOREM MapTypeCorrect == Spec => []TypeOK
<1>1. MapInv => TypeOK
  BY DEF MapInv, SortedInv, PhaseInv, SearchInv, TypeOK, Given
<1> QED BY <1>1, MapInvariant, PTL

(* adjacent_find on the sorted array finds two equal keys exactly if two   *)
(* entries of the initializer share one, wherever they stood.              *)
THEOREM RefusesDuplicates == Spec => []DuplicatesRefused
<1>1. MapInv => DuplicatesRefused
  <2> SUFFICES ASSUME MapInv, phase # "made"
               PROVE  phase = "refused" <=>
                        \E i, j \in 1 .. N : i # j /\ items[i].key = items[j].key
    BY DEF DuplicatesRefused
  <2>1. /\ Len(items_) = N
        /\ \A i, j \in 1 .. N : i <= j => items_[i].key <= items_[j].key
        /\ phase = "refused" <=> HasDuplicate(items_)
    BY DEF MapInv, SortedInv, PhaseInv
  <2>2. N \in Nat /\ \A i \in 1 .. N : items_[i].key \in Int
    BY <2>1, GivenKeys DEF MapInv, SortedInv
  <2>3. PICK perm : Arranges(perm, items_, items)
    BY DEF MapInv, SortedInv
  <2>4. /\ \A i \in 1 .. N : perm[i] \in 1 .. N /\ items_[i] = items[perm[i]]
        /\ \A i, j \in 1 .. N : perm[i] = perm[j] => i = j
        /\ \A k \in 1 .. N : \E i \in 1 .. N : perm[i] = k
    BY <2>1, <2>3 DEF Arranges, OneToOne, IsOnto
  <2>5. ASSUME HasDuplicate(items_)
        PROVE  \E i, j \in 1 .. N : i # j /\ items[i].key = items[j].key
    <3>1. PICK i \in 1 .. N - 1 : items_[i].key = items_[i + 1].key
      BY <2>5, <2>1 DEF HasDuplicate
    <3>2. i \in 1 .. N /\ i + 1 \in 1 .. N /\ i # i + 1
      BY <2>2
    <3>3. /\ perm[i] \in 1 .. N /\ perm[i + 1] \in 1 .. N /\ perm[i] # perm[i + 1]
          /\ items_[i] = items[perm[i]] /\ items_[i + 1] = items[perm[i + 1]]
      BY <2>4, <3>2
    <3> QED BY <3>1, <3>3
  <2>6. ASSUME NEW i \in 1 .. N, NEW j \in 1 .. N, i # j, items[i].key = items[j].key
        PROVE  HasDuplicate(items_)
    <3>1. PICK a \in 1 .. N : perm[a] = i
      BY <2>4
    <3>2. PICK b \in 1 .. N : perm[b] = j
      BY <2>4
    <3>3. a # b /\ items_[a].key = items_[b].key
      BY <2>4, <2>6, <3>1, <3>2
    <3>4. PICK c \in 1 .. N, d \in 1 .. N : c < d /\ items_[c].key = items_[d].key
      BY <3>3, <2>2
    <3>5. c \in 1 .. N - 1 /\ c + 1 \in 1 .. N /\ c + 1 <= d
      BY <3>4, <2>2
    <3>6. items_[c].key <= items_[c + 1].key /\ items_[c + 1].key <= items_[d].key
      BY <3>5, <2>1
    <3>7. items_[c].key = items_[c + 1].key
      BY <3>4, <3>5, <3>6, <2>2
    <3> QED BY <3>5, <3>7, <2>1 DEF HasDuplicate
  <2> QED BY <2>1, <2>5, <2>6
<1> QED BY <1>1, MapInvariant, PTL

(* A table that was not refused is strictly sorted.                        *)
LEMMA StrictlySorted ==
  ASSUME MapInv, phase = "searching"
  PROVE  \A i, j \in 1 .. N : i < j => items_[i].key < items_[j].key
<1>1. /\ Len(items_) = N
      /\ \A i, j \in 1 .. N : i <= j => items_[i].key <= items_[j].key
      /\ ~HasDuplicate(items_)
  BY DEF MapInv, SortedInv, PhaseInv
<1>2. N \in Nat /\ \A i \in 1 .. N : items_[i].key \in Int
  BY <1>1, GivenKeys DEF MapInv, SortedInv
<1> SUFFICES ASSUME NEW i \in 1 .. N, NEW j \in 1 .. N, i < j
             PROVE  items_[i].key < items_[j].key
  OBVIOUS
<1>3. i \in 1 .. N - 1 /\ i + 1 \in 1 .. N /\ i + 1 <= j
  BY <1>2
<1>4. items_[i].key # items_[i + 1].key
  BY <1>1, <1>3 DEF HasDuplicate
<1>5. items_[i].key <= items_[i + 1].key /\ items_[i + 1].key <= items_[j].key
  BY <1>1, <1>3
<1> QED BY <1>2, <1>3, <1>4, <1>5

(* find() answers with the value the key was given in the initializer, and *)
(* with nothing exactly if it was given none.                              *)
THEOREM AnswersAreRight == Spec => FindsWhatWasGiven
<1> DEFINE Right ==
      phase = "searching" /\ phase' = "ready" =>
        /\ answer'.found <=> \E i \in 1 .. N : items[i].key = key
        /\ \A i \in 1 .. N : items[i].key = key => answer' = Found(items[i].value)
<1>1. MapInv /\ [Next \/ Refused]_vars => Right
  <2> SUFFICES ASSUME MapInv, [Next \/ Refused]_vars, phase = "searching", phase' = "ready"
               PROVE  Right
    OBVIOUS
  <2>1. Answer
    BY DEF Next, Refused, vars, Sort, Construct, Find, Probe
  <2>2. /\ length = 0 /\ first \in 1 .. N + 1 /\ key \in Int /\ Len(items_) = N
        /\ \A i \in 1 .. first - 1 : items_[i].key < key
        /\ \A i \in first + length .. N : items_[i].key >= key
    BY <2>1 DEF Answer, MapInv, PhaseInv, SearchInv, Bracketed
  <2>3. N \in Nat /\ \A i \in 1 .. N : items_[i].key \in Int
    BY <2>2, GivenKeys DEF MapInv, SortedInv
  <2>4. PICK perm : Arranges(perm, items_, items)
    BY DEF MapInv, SortedInv
  <2>5. /\ \A i \in 1 .. N : perm[i] \in 1 .. N /\ items_[i] = items[perm[i]]
        /\ \A k \in 1 .. N : \E i \in 1 .. N : perm[i] = k
    BY <2>2, <2>4 DEF Arranges, IsOnto
  <2>6. \A k \in 1 .. N : items_[k].key = key => k = first
    <3> SUFFICES ASSUME NEW k \in 1 .. N, items_[k].key = key PROVE k = first
      OBVIOUS
    <3>1. ~(k < first)
      BY <2>2, <2>3
    <3>2. ~(first < k)
      <4> SUFFICES ASSUME first < k PROVE FALSE
        OBVIOUS
      <4>1. first \in 1 .. N /\ items_[first].key >= key
        BY <2>2, <2>3
      <4>2. items_[first].key < items_[k].key
        BY <4>1, StrictlySorted
      <4> QED BY <4>1, <4>2, <2>3
    <3> QED BY <3>1, <3>2, <2>2, <2>3
  <2>7. ASSUME NEW i \in 1 .. N, items[i].key = key
        PROVE  answer' = Found(items[i].value) /\ Matches(first)
    <3>1. PICK k \in 1 .. N : perm[k] = i
      BY <2>5
    <3>2. items_[k] = items[i] /\ k = first
      BY <2>5, <2>6, <2>7, <3>1
    <3>3. Matches(first)
      BY <3>2, <2>7, <2>3 DEF Matches
    <3> QED BY <2>1, <3>2, <3>3 DEF Answer
  <2>8. ASSUME Matches(first)
        PROVE  \E i \in 1 .. N : items[i].key = key
    <3>1. first \in 1 .. N /\ items_[first].key = key
      BY <2>8, <2>2, <2>3 DEF Matches
    <3> QED BY <3>1, <2>5
  <2>9. answer'.found <=> Matches(first)
    BY <2>1 DEF Answer, Found, NoAnswer
  <2> QED BY <2>7, <2>8, <2>9
<1>2. MapInv /\ [Next \/ Refused]_vars => [Right]_vars
  BY <1>1
<1> QED BY <1>2, MapInvariant, PTL DEF Spec, FindsWhatWasGiven
============================================================================
