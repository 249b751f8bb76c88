----------------------------- MODULE StaticMap -----------------------------
(***************************************************************************)
(* StaticMap (include/utils/container.h): the table behind KEYWORDS,       *)
(* SYMBOLS and TOKEN_TYPE_STR.  Its constructor sorts the entries it is    *)
(* given and refuses duplicate keys; find() is a std::ranges::lower_bound  *)
(* and a comparison.  StaticSet is the same with the value as its own key. *)
(*                                                                         *)
(* std::ranges is external: sort puts one entry per step in its place, and *)
(* lower_bound makes one probe per step, as the standard libraries do it.  *)
(***************************************************************************)
EXTENDS Integers, Sequences

CONSTANTS
  Initializers,   \* the sequences of entries a table is made from
  Sought          \* the keys looked up

ASSUME InitializersAssumption ==
  \A items \in Initializers :
    /\ Len(items) \in Nat
    /\ \A i \in 1 .. Len(items) : items[i].key \in Int
ASSUME SoughtAssumption == Sought \subseteq Int

VARIABLES
  items,      \* what the constructor was given
  items_,     \* the array
  key,        \* the key looked up
  first,      \* lower_bound: the answer is first or later ...
  length,     \* ... and no later than first + length
  answer,     \* what find() returned
  phase       \* "made", "ready", "searching", "refused"

vars == << items, items_, key, first, length, answer, phase >>

NoAnswer == [found |-> FALSE]
Found(value) == [found |-> TRUE, value |-> value]

N == Len(items)

Init ==
  /\ items \in Initializers
  /\ items_ = << >>
  /\ key = 0
  /\ first = 1
  /\ length = 0
  /\ answer = NoAnswer
  /\ phase = "made"

----------------------------------------------------------------------------
(* Faulty: the end of the array is one further.                            *)
FindPastEnd ==
  /\ phase = "ready"
  /\ key' \in Sought
  /\ first' = 1
  /\ length' = N + 1
  /\ phase' = "searching"
  /\ UNCHANGED << items, items_, answer >>

(* Faulty: neighbours are compared before they are sorted.                 *)
HasDuplicateUnsorted(s) == \E i \in 1 .. N - 1 : items[i].key = items[i + 1].key

(* adjacent_find.                                                          *)
HasDuplicate(s) == \E i \in 1 .. Len(s) - 1 : s[i].key = s[i + 1].key

(* std::ranges::sort, one entry at a time: behind those not above it.      *)
Sort ==
  /\ phase = "made"
  /\ Len(items_) < N
  /\ LET new == items[Len(items_) + 1]
     IN  \E p \in 0 .. Len(items_) :
           /\ \A i \in 1 .. p : items_[i].key <= new.key
           /\ \A i \in p + 1 .. Len(items_) : items_[i].key > new.key
           /\ items_' = [i \in 1 .. Len(items_) + 1 |->
                          IF i <= p THEN items_[i]
                          ELSE IF i = p + 1 THEN new ELSE items_[i - 1]]
  /\ UNCHANGED << items, key, first, length, answer, phase >>

Construct ==
  /\ phase = "made"
  /\ Len(items_) = N
  /\ phase' = IF HasDuplicate(items_) THEN "refused" ELSE "ready"
  /\ UNCHANGED << items, items_, key, first, length, answer >>

Find ==
  /\ phase = "ready"
  /\ key' \in Sought
  /\ first' = 1
  /\ length' = N
  /\ phase' = "searching"
  /\ UNCHANGED << items, items_, answer >>

----------------------------------------------------------------------------
Half == length \div 2

(* One turn of the loop of lower_bound.                                    *)
Probe ==
  /\ phase = "searching"
  /\ length > 0
  /\ IF items_[first + Half].key < key
     THEN first' = first + Half + 1 /\ length' = length - Half - 1
     ELSE first' = first /\ length' = Half
  /\ UNCHANGED << items, items_, key, answer, phase >>

(* Faulty: the entry found is taken for the key's own.                     *)
MatchesAny(i) == i <= N

(* it != items_.end() && it->key == key                                    *)
Matches(i) == i <= N /\ items_[i].key = key

Answer ==
  /\ phase = "searching"
  /\ length = 0
  /\ answer' = IF Matches(first) THEN Found(items_[first].value) ELSE NoAnswer
  /\ phase' = "ready"
  /\ UNCHANGED << items, items_, key, first, length >>

Next == Sort \/ Construct \/ Find \/ Probe \/ Answer

(* A constant expression that throws does not compile.                     *)
Refused == phase = "refused" /\ UNCHANGED vars

Spec == Init /\ [][Next \/ Refused]_vars

----------------------------------------------------------------------------
(* Type invariant: the iterators of a search stay within the array and its *)
(* end.                                                                    *)
TypeOK ==
  /\ items \in Initializers
  /\ phase \in {"made", "ready", "searching", "refused"}
  /\ items_ \in Seq({items[i] : i \in 1 .. N})
  /\ phase = "made" \/ Len(items_) = N
  /\ key \in Int
  /\ first \in 1 .. N + 1
  /\ length \in 0 .. N + 1 - first
  /\ answer = NoAnswer \/ answer \in {Found(items[i].value) : i \in 1 .. N}

(* A table is refused exactly if two of the entries it was given, however  *)
(* far apart, have one key ("must not contain duplicate keys").            *)
DuplicatesRefused ==
  phase # "made" =>
    (phase = "refused" <=> \E i, j \in 1 .. N : i # j /\ items[i].key = items[j].key)

(* find() answers with the value the key was given, wherever that entry    *)
(* stood in the initializer, and with nothing for a key that has none.     *)
(* token_type_to_str() dereferences the answer without looking.            *)
FindsWhatWasGiven ==
  [][phase = "searching" /\ phase' = "ready" =>
       /\ answer'.found <=> \E i \in 1 .. N : items[i].key = key
       /\ \A i \in 1 .. N : items[i].key = key => answer' = Found(items[i].value)]_vars
============================================================================
