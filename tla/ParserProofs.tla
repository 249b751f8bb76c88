---------------------------- MODULE ParserProofs ----------------------------
(***************************************************************************)
(* Proofs about the parser, for any set of token streams: it stays within  *)
(* the tokens, every step makes progress, and what it returns is a         *)
(* program, which is what the type checker's proofs assume of their input. *)
(***************************************************************************)
EXTENDS Parser, SequenceTheorems, TLAPS

----------------------------------------------------------------------------
(* Joining two expressions.                                                *)

ShiftedBy(node, n) ==
  IF node.kind = "Binary" THEN Binary(node.op, node.lhs + n, node.rhs + n) ELSE node

(* Moving a node behind n others leaves it a node.                         *)
LEMMA ShiftedNode ==
  ASSUME NEW node \in Nodes, NEW n \in Nat
  PROVE  ShiftedBy(node, n) \in Nodes
<1>1. CASE node.kind = "Binary"
  <2>1. node \in [kind : {"Binary"}, op : BinaryOperators, lhs : Nat, rhs : Nat]
    BY <1>1 DEF Nodes, LiteralTypes
  <2>2. node.op \in BinaryOperators /\ node.lhs + n \in Nat /\ node.rhs + n \in Nat
    BY <2>1
  <2> QED BY <1>1, <2>2 DEF Nodes, ShiftedBy, Binary
<1>2. CASE node.kind # "Binary"
  BY <1>2 DEF ShiftedBy
<1> QED BY <1>1, <1>2

(* The nodes of a joined expression: those of the left operand, those of   *)
(* the right one with their indices shifted, and the new root.             *)
LEMMA JoinNodes ==
  ASSUME NEW op \in BinaryOperators, NEW l \in Seq(Nodes), NEW r \in Seq(Nodes)
  PROVE  /\ Join(op, l, r) \in Seq(Nodes)
         /\ Len(Join(op, l, r)) = Len(l) + Len(r) + 1
         /\ \A i \in 1 .. Len(l) : Join(op, l, r)[i] = l[i]
         /\ \A i \in Len(l) + 1 .. Len(l) + Len(r) :
              Join(op, l, r)[i] = ShiftedBy(r[i - Len(l)], Len(l))
         /\ Join(op, l, r)[Len(l) + Len(r) + 1] = Binary(op, Len(l), Len(l) + Len(r))
<1> DEFINE moved == [i \in 1 .. Len(r) |-> ShiftedBy(r[i], Len(l))]
           root  == Binary(op, Len(l), Len(l) + Len(r))
           front == l \o moved
           last  == << root >>
<1>1. Join(op, l, r) = front \o last
  BY Zenon DEF Join, ShiftedBy
<1>2. Len(l) \in Nat /\ Len(r) \in Nat
  OBVIOUS
<1>3. \A i \in 1 .. Len(r) : ShiftedBy(r[i], Len(l)) \in Nodes
  <2>1. \A i \in 1 .. Len(r) : r[i] \in Nodes
    OBVIOUS
  <2> QED BY <1>2, <2>1, ShiftedNode
<1>4. moved \in Seq(Nodes) /\ Len(moved) = Len(r)
  BY <1>2, <1>3
<1>5. \A i \in 1 .. Len(r) : moved[i] = ShiftedBy(r[i], Len(l))
  OBVIOUS
<1>6. root \in Nodes
  BY <1>2 DEF Nodes, Binary
<1>7. last \in Seq(Nodes) /\ Len(last) = 1 /\ last[1] = root
  BY <1>6
<1> HIDE DEF moved, root, last
<1>8. /\ front \in Seq(Nodes)
      /\ Len(front) = Len(l) + Len(r)
      /\ \A i \in 1 .. Len(l) + Len(r) :
           front[i] = IF i <= Len(l) THEN l[i] ELSE moved[i - Len(l)]
  <2>1. /\ front \in Seq(Nodes)
        /\ Len(front) = Len(l) + Len(moved)
        /\ \A i \in 1 .. Len(l) + Len(moved) :
             front[i] = IF i <= Len(l) THEN l[i] ELSE moved[i - Len(l)]
    BY <1>4, ConcatProperties, Zenon
  <2> QED BY <1>4, <2>1
<1> HIDE DEF front
<1>9. /\ front \o last \in Seq(Nodes)
      /\ Len(front \o last) = Len(front) + 1
      /\ \A i \in 1 .. Len(front) + 1 :
           (front \o last)[i] = IF i <= Len(front) THEN front[i] ELSE last[i - Len(front)]
  <2>1. /\ front \o last \in Seq(Nodes)
        /\ Len(front \o last) = Len(front) + Len(last)
        /\ \A i \in 1 .. Len(front) + Len(last) :
             (front \o last)[i] = IF i <= Len(front) THEN front[i] ELSE last[i - Len(front)]
    <3>1. front \in Seq(Nodes) /\ last \in Seq(Nodes)
      BY <1>7, <1>8
    <3> QED BY <3>1, ConcatProperties, Zenon
  <2> QED BY <1>7, <2>1
<1>10. \A i \in 1 .. Len(l) : (front \o last)[i] = l[i]
  BY <1>2, <1>8, <1>9
<1>11. \A i \in Len(l) + 1 .. Len(l) + Len(r) :
         (front \o last)[i] = ShiftedBy(r[i - Len(l)], Len(l))
  BY <1>2, <1>5, <1>8, <1>9
<1>12. (front \o last)[Len(l) + Len(r) + 1] = root
  BY <1>2, <1>7, <1>8, <1>9
<1> QED BY <1>1, <1>2, <1>8, <1>9, <1>10, <1>11, <1>12 DEF root

(* What an expression is good for: operands come before their node.        *)
LEMMA OperandsPrecede ==
  ASSUME NEW e, IsExpression(e, Names)
  PROVE  /\ Len(e) \in Nat \ {0}
         /\ \A i, j \in Int : j \in 1 .. Len(e) /\ IsOperand(e, i, j) => i \in 1 .. j - 1
<1>1. Len(e) \in Nat \ {0}
  BY DEF IsExpression
<1>2. ASSUME NEW i \in Int, NEW j \in 1 .. Len(e), IsOperand(e, i, j)
      PROVE  i \in 1 .. j - 1
  <2>1. e[j].kind = "Binary" /\ i \in {e[j].lhs, e[j].rhs}
    BY <1>2 DEF IsOperand
  <2>2. e[j].lhs \in 1 .. (j - 2) /\ e[j].rhs = j - 1
    BY <2>1 DEF IsExpression
  <2> QED BY <1>1, <2>1, <2>2
<1> QED BY <1>1, <1>2

(* Every node of an expression but its last has one owner, and it comes    *)
(* after the node.                                                         *)
LEMMA OneOwner ==
  ASSUME NEW e, IsExpression(e, Names), NEW i \in 1 .. Len(e), i < Len(e)
  PROVE  \E j \in (i + 1) .. Len(e) :
           /\ IsOperand(e, i, j)
           /\ \A k \in 1 .. Len(e) : IsOperand(e, i, k) => k = j
<1>1. \A p \in 1 .. Len(e) :
        p < Len(e) => \E j \in (p + 1) .. Len(e) :
                        /\ IsOperand(e, p, j)
                        /\ \A k \in 1 .. Len(e) : IsOperand(e, p, k) => k = j
  BY Zenon DEF IsExpression
<1> QED BY <1>1

(* BinaryExpression made of two expressions is one: the operands keep      *)
(* their owners, and their roots get the new node as theirs.               *)
LEMMA JoinExpression ==
  ASSUME NEW op \in BinaryOperators, NEW l \in Expressions, NEW r \in Expressions
  PROVE  Join(op, l, r) \in Expressions
<1> DEFINE e == Join(op, l, r)
           a == Len(l)
           b == Len(r)
           n == a + b + 1
<1>1. /\ l \in Seq(Nodes) /\ r \in Seq(Nodes)
      /\ IsExpression(l, Names) /\ IsExpression(r, Names)
  BY DEF Expressions
<1>2. /\ e \in Seq(Nodes)
      /\ Len(e) = n
      /\ \A j \in 1 .. a : e[j] = l[j]
      /\ \A j \in a + 1 .. a + b : e[j] = ShiftedBy(r[j - a], a)
      /\ e[n] = Binary(op, a, a + b)
  BY <1>1, JoinNodes
<1>3. a \in Nat \ {0} /\ b \in Nat \ {0}
  BY <1>1, OperandsPrecede
<1> HIDE DEF e, a, b
<1>4. \A j \in 1 .. n : j \in 1 .. a \/ j \in a + 1 .. a + b \/ j = n
  BY <1>3
(* Who owns what.                                                          *)
<1>5. ASSUME NEW i \in 1 .. n, NEW j \in 1 .. a
      PROVE  IsOperand(e, i, j) <=> IsOperand(l, i, j)
  BY <1>2 DEF IsOperand
<1>6. ASSUME NEW i \in 1 .. n, NEW j \in a + 1 .. a + b
      PROVE  IsOperand(e, i, j) <=> IsOperand(r, i - a, j - a)
  <2>1. j - a \in 1 .. b
    BY <1>3
  <2>2. e[j] = ShiftedBy(r[j - a], a)
    BY <1>2
  <2>3. CASE r[j - a].kind = "Binary"
    <3>1. r[j - a].lhs \in 1 .. (j - a - 2) /\ r[j - a].rhs = j - a - 1
      BY <1>1, <2>1, <2>3 DEF IsExpression, b
    <3>2. e[j].kind = "Binary" /\ e[j].lhs = r[j - a].lhs + a /\ e[j].rhs = r[j - a].rhs + a
      BY <2>2, <2>3 DEF ShiftedBy, Binary
    <3>3. r[j - a].lhs \in Int /\ r[j - a].rhs \in Int
      BY <1>3, <3>1
    <3>4. i \in {e[j].lhs, e[j].rhs} <=> i - a \in {r[j - a].lhs, r[j - a].rhs}
      BY <1>3, <3>2, <3>3
    <3> QED BY <2>3, <3>2, <3>4 DEF IsOperand
  <2>4. CASE r[j - a].kind # "Binary"
    BY <2>2, <2>4 DEF ShiftedBy, IsOperand
  <2> QED BY <2>3, <2>4
<1>7. ASSUME NEW i \in 1 .. n
      PROVE  IsOperand(e, i, n) <=> i \in {a, a + b}
  BY <1>2 DEF IsOperand, Binary
<1>8. \A i, j \in Int : j \in 1 .. a /\ IsOperand(l, i, j) => i \in 1 .. j - 1
  BY <1>1, OperandsPrecede DEF a
<1>9. \A i, j \in Int : j \in 1 .. b /\ IsOperand(r, i, j) => i \in 1 .. j - 1
  BY <1>1, OperandsPrecede DEF b
(* The shape of each node.                                                 *)
<1>10. ASSUME NEW j \in 1 .. n
       PROVE  /\ e[j].kind \in NodeKinds
              /\ e[j].kind \in {"Variable", "FunctionCall"} => e[j].name \in Names
              /\ e[j].kind = "Binary" => /\ e[j].op \in BinaryOperators
                                         /\ e[j].lhs \in 1 .. (j - 2)
                                         /\ e[j].rhs = j - 1
  <2>1. CASE j \in 1 .. a
    BY <1>1, <1>2, <2>1 DEF IsExpression, a
  <2>2. CASE j \in a + 1 .. a + b
    <3>1. j - a \in 1 .. b
      BY <1>3, <2>2
    <3>2. e[j] = ShiftedBy(r[j - a], a)
      BY <1>2, <2>2
    <3>3. /\ r[j - a].kind \in NodeKinds
          /\ r[j - a].kind \in {"Variable", "FunctionCall"} => r[j - a].name \in Names
          /\ r[j - a].kind = "Binary" => /\ r[j - a].op \in BinaryOperators
                                         /\ r[j - a].lhs \in 1 .. (j - a - 2)
                                         /\ r[j - a].rhs = j - a - 1
      BY <1>1, <3>1 DEF IsExpression, b
    <3>4. CASE r[j - a].kind = "Binary"
      <4>1. /\ e[j].kind = "Binary" /\ e[j].op = r[j - a].op
            /\ e[j].lhs = r[j - a].lhs + a /\ e[j].rhs = r[j - a].rhs + a
        BY <3>2, <3>4 DEF ShiftedBy, Binary
      <4>2. e[j].lhs \in 1 .. (j - 2) /\ e[j].rhs = j - 1
        BY <1>3, <3>3, <3>4, <4>1
      <4> QED BY <3>3, <3>4, <4>1, <4>2 DEF NodeKinds
    <3>5. CASE r[j - a].kind # "Binary"
      BY <3>2, <3>3, <3>5 DEF ShiftedBy
    <3> QED BY <3>4, <3>5
  <2>3. CASE j = n
    BY <1>2, <1>3, <2>3 DEF Binary, NodeKinds
  <2> QED BY <1>4, <2>1, <2>2, <2>3
(* Every node but the last has one owner.                                  *)
<1>11. ASSUME NEW i \in 1 .. n, i < n
       PROVE  \E j \in (i + 1) .. n :
                /\ IsOperand(e, i, j)
                /\ \A k \in 1 .. n : IsOperand(e, i, k) => k = j
  <2>1. CASE i < a
    <3>1. PICK j \in (i + 1) .. a :
            IsOperand(l, i, j) /\ \A k \in 1 .. a : IsOperand(l, i, k) => k = j
      <4>1. i \in 1 .. a
        BY <1>3, <2>1
      <4> QED BY <1>1, <2>1, <4>1, OneOwner, Zenon DEF a
    <3>2. j \in 1 .. a /\ j \in (i + 1) .. n
      BY <1>3
    <3>3. ASSUME NEW k \in 1 .. n, IsOperand(e, i, k)
          PROVE  k = j
      <4>1. CASE k \in 1 .. a
        BY <1>5, <3>1, <3>3, <4>1
      <4>2. CASE k \in a + 1 .. a + b
        <5>1. IsOperand(r, i - a, k - a) /\ k - a \in 1 .. b
          BY <1>3, <1>6, <3>3, <4>2
        <5> QED BY <1>3, <1>9, <2>1, <5>1
      <4>3. CASE k = n
        BY <1>3, <1>7, <2>1, <3>3, <4>3
      <4> QED BY <1>4, <4>1, <4>2, <4>3
    <3> QED BY <1>5, <3>1, <3>2, <3>3
  <2>2. CASE i = a \/ i = a + b
    <3>1. IsOperand(e, i, n) /\ n \in (i + 1) .. n
      BY <1>3, <1>7, <2>2
    <3>2. ASSUME NEW k \in 1 .. n, IsOperand(e, i, k)
          PROVE  k = n
      <4>1. CASE k \in 1 .. a
        <5>1. IsOperand(l, i, k)
          BY <1>5, <3>2, <4>1
        <5> QED BY <1>3, <1>8, <2>2, <4>1, <5>1
      <4>2. CASE k \in a + 1 .. a + b
        <5>1. IsOperand(r, i - a, k - a) /\ k - a \in 1 .. b
          BY <1>3, <1>6, <3>2, <4>2
        <5> QED BY <1>3, <1>9, <2>2, <5>1
      <4> QED BY <1>4, <4>1, <4>2
    <3> QED BY <3>1, <3>2
  <2>3. CASE a < i /\ i < a + b
    <3>1. i - a \in 1 .. b /\ i - a < b
      BY <1>3, <2>3
    <3>2. PICK m \in (i - a + 1) .. b :
            IsOperand(r, i - a, m) /\ \A k \in 1 .. b : IsOperand(r, i - a, k) => k = m
      <4>1. PICK p \in 1 .. b : p = i - a /\ p < b
        BY <3>1
      <4>2. \E m \in (p + 1) .. b :
              IsOperand(r, p, m) /\ \A k \in 1 .. b : IsOperand(r, p, k) => k = m
        BY <1>1, <4>1, OneOwner, Zenon DEF b
      <4> QED BY <4>1, <4>2
    <3>3. m \in 1 .. b /\ m + a \in a + 1 .. a + b /\ m + a \in (i + 1) .. n
      <4>1. m \in (i - a + 1) .. b
        BY <3>2
      <4>2. m \in Int /\ i - a + 1 <= m /\ m <= b
        BY <1>3, <3>1, <4>1
      <4> QED BY <1>3, <3>1, <4>2
    <3>4. IsOperand(e, i, m + a)
      <4>1. PICK j \in a + 1 .. a + b : j = m + a
        BY <3>3
      <4>2. j - a = m
        BY <1>3, <3>3, <4>1
      <4>3. IsOperand(e, i, j)
        BY <1>6, <3>2, <4>1, <4>2
      <4> QED BY <4>1, <4>3
    <3>5. ASSUME NEW k \in 1 .. n, IsOperand(e, i, k)
          PROVE  k = m + a
      <4>1. CASE k \in 1 .. a
        <5>1. IsOperand(l, i, k)
          BY <1>5, <3>5, <4>1
        <5> QED BY <1>3, <1>8, <2>3, <4>1, <5>1
      <4>2. CASE k \in a + 1 .. a + b
        <5>1. IsOperand(r, i - a, k - a) /\ k - a \in 1 .. b
          BY <1>3, <1>6, <3>5, <4>2
        <5>2. k - a = m
          BY <3>2, <5>1
        <5> QED BY <1>3, <5>2
      <4>3. CASE k = n
        BY <1>3, <1>7, <2>3, <3>5, <4>3
      <4> QED BY <1>4, <4>1, <4>2, <4>3
    <3> QED BY <3>3, <3>4, <3>5
  <2> QED BY <1>3, <1>11, <2>1, <2>2, <2>3
<1>12. IsExpression(e, Names)
  <2>1. n \in Nat \ {0}
    BY <1>3
  <2>2. \A i \in 1 .. n : i < n => \E j \in (i + 1) .. n :
          IsOperand(e, i, j) /\ \A k \in 1 .. n : IsOperand(e, i, k) => k = j
    BY <1>11
  <2>3. VisitsInOrder(e)
    <3> SUFFICES ASSUME NEW j \in 1 .. n, e[j].kind = "Binary", NEW i \in e[j].lhs + 1 .. j - 1
                 PROVE  \E k \in i + 1 .. j : IsOperand(e, i, k)
      BY <1>2 DEF VisitsInOrder
    <3>1. e[j].lhs \in 1 .. j - 2 /\ i \in 1 .. n /\ i < n
      BY <1>3, <1>10
    <3>2. CASE j \in 1 .. a
      <4>1. l[j] = e[j]
        BY <1>2, <3>2
      <4>2. \E k \in i + 1 .. j : IsOperand(l, i, k)
        BY <1>1, <3>2, <4>1 DEF IsExpression, VisitsInOrder, a
      <4>3. PICK k \in i + 1 .. j : IsOperand(l, i, k)
        BY <4>2
      <4>4. k \in 1 .. a
        BY <1>3, <3>1, <3>2
      <4> QED BY <1>5, <3>1, <4>3, <4>4
    <3>3. CASE j \in a + 1 .. a + b
      <4>1. j - a \in 1 .. b
        BY <1>3, <3>3
      <4>2. e[j] = ShiftedBy(r[j - a], a)
        BY <1>2, <3>3
      <4>3. r[j - a].kind = "Binary" /\ e[j].lhs = r[j - a].lhs + a
        BY <4>2 DEF ShiftedBy, Binary
      <4>4. r[j - a].lhs \in 1 .. (j - a - 2)
        BY <1>1, <4>1, <4>3 DEF IsExpression, b
      <4>5. PICK m \in Int, o \in Int : m = j - a /\ o = i - a
        BY <1>3, <3>1
      <4>6. o \in r[m].lhs + 1 .. m - 1 /\ m \in 1 .. b
        BY <1>3, <3>1, <4>1, <4>3, <4>4, <4>5
      <4>7. \E k \in o + 1 .. m : IsOperand(r, o, k)
        BY <1>1, <4>3, <4>5, <4>6 DEF IsExpression, VisitsInOrder, b
      <4>8. PICK k \in o + 1 .. m : IsOperand(r, o, k)
        BY <4>7
      <4>9. PICK h \in i + 1 .. j : h \in a + 1 .. a + b /\ h - a = k
        <5>1. k + a \in i + 1 .. j /\ k + a \in a + 1 .. a + b /\ k + a - a = k
          BY <1>3, <3>1, <4>1, <4>4, <4>5, <4>6, <4>8
        <5> QED BY <1>3, <4>5, <4>8, <5>1
      <4>10. IsOperand(e, i, h)
        BY <1>6, <3>1, <4>5, <4>8, <4>9
      <4> QED BY <4>9, <4>10
    <3>4. CASE j = n
      <4>1. e[j].lhs = a
        BY <1>2, <3>4 DEF Binary
      <4>2. i \in a + 1 .. a + b
        BY <1>3, <3>1, <3>4, <4>1
      <4>3. CASE i = a + b
        BY <1>3, <1>7, <3>1, <3>4, <4>3
      <4>4. CASE i # a + b
        <5>1. i - a \in 1 .. b /\ i - a < b
          BY <1>3, <4>2, <4>4
        <5>2. \E k \in i - a + 1 .. b : IsOperand(r, i - a, k)
          BY <1>1, <5>1 DEF IsExpression, b
        <5>3. PICK k \in i - a + 1 .. b : IsOperand(r, i - a, k)
          BY <5>2
        <5>4. PICK h \in i + 1 .. j : h \in a + 1 .. a + b /\ h - a = k
          <6>1. k + a \in i + 1 .. j /\ k + a \in a + 1 .. a + b /\ k + a - a = k
            BY <1>3, <3>4, <5>1, <5>3
          <6> QED BY <1>3, <5>1, <5>3, <6>1
        <5>5. IsOperand(e, i, h)
          BY <1>6, <3>1, <5>3, <5>4
        <5> QED BY <5>4, <5>5
      <4> QED BY <4>3, <4>4
    <3> QED BY <1>4, <3>2, <3>3, <3>4
  <2> HIDE DEF n
  <2> QED BY <1>2, <1>10, <2>1, <2>2, <2>3 DEF IsExpression
<1> QED BY <1>2, <1>12 DEF Expressions, e

(* A leaf is an expression.                                                *)
LEMMA LeafExpression ==
  ASSUME NEW node \in Nodes, node.kind # "Binary"
  PROVE  << node >> \in Expressions
<1>1. << node >> \in Seq(Nodes) /\ Len(<< node >>) = 1 /\ << node >>[1] = node
  OBVIOUS
<1>2. node.kind \in NodeKinds /\ (node.kind \in {"Variable", "FunctionCall"} => node.name \in Names)
  BY DEF Nodes, NodeKinds, LiteralTypes
<1>3. \A i \in 1 .. 1 : i = 1
  OBVIOUS
<1>4. VisitsInOrder(<< node >>)
  BY <1>1 DEF VisitsInOrder
<1>5. IsExpression(<< node >>, Names)
  BY <1>1, <1>2, <1>3, <1>4 DEF IsExpression
<1> QED BY <1>1, <1>5 DEF Expressions

----------------------------------------------------------------------------
(* Tokens and statements.                                                  *)

(* What peek() sees is a token; unless it is EndOfFile there is one more   *)
(* behind it.                                                              *)
LEMMA AheadToken ==
  ASSUME IsTokenStream(tokens), index \in 0 .. Len(tokens) - 1, NEW n \in Nat
  PROVE  /\ Ahead(n).type \in TokenTypes
         /\ Ahead(n).type = "Identifier" => Ahead(n).value \in Names
         /\ Ahead(n).type \in LiteralTypes => Ahead(n).value \in {"InRange", "OutOfRange"}
         /\ Ahead(n).type # "EndOfFile" => index + n + 1 \in 0 .. Len(tokens) - 1
<1>1. Len(tokens) \in Nat \ {0}
  BY DEF IsTokenStream
<1>2. CASE index + n < Len(tokens)
  <2>1. Ahead(n) = tokens[index + n + 1] /\ index + n + 1 \in 1 .. Len(tokens)
    BY <1>1, <1>2 DEF Ahead
  <2>2. PICK k \in 1 .. Len(tokens) : k = index + n + 1
    BY <2>1
  <2>3. /\ tokens[k].type \in TokenTypes
        /\ tokens[k].type = "EndOfFile" <=> k = Len(tokens)
        /\ tokens[k].type = "Identifier" => tokens[k].value \in Names
        /\ tokens[k].type \in LiteralTypes => tokens[k].value \in {"InRange", "OutOfRange"}
    BY DEF IsTokenStream
  <2> QED BY <1>1, <2>1, <2>2, <2>3
<1>3. CASE ~(index + n < Len(tokens))
  <2>1. Ahead(n) = tokens[Len(tokens)] /\ Len(tokens) \in 1 .. Len(tokens)
    BY <1>1, <1>3 DEF Ahead
  <2>2. tokens[Len(tokens)].type = "EndOfFile"
    BY <2>1 DEF IsTokenStream
  <2> QED BY <2>1, <2>2 DEF TokenTypes, LiteralTypes
<1> QED BY <1>2, <1>3

(* A statement that has got its value.                                     *)
LEMMA FilledStatement ==
  ASSUME NEW s \in StatementsOn({<< >>}), NEW v \in Expressions
  PROVE  [s EXCEPT !.value = v] \in StatementsOn(Expressions)
<1>1. CASE s \in [kind : {"Declare"}, name : Names, annotation : BuiltinTypes \cup {NoType},
                  value : {<< >>}]
  BY <1>1 DEF StatementsOn
<1>2. CASE s \in [kind : {"Assign"}, name : Names, value : {<< >>}]
  BY <1>2 DEF StatementsOn
<1>3. CASE s \in [kind : {"Show", "Return"}, value : {<< >>}]
  BY <1>3 DEF StatementsOn
<1> QED BY <1>1, <1>2, <1>3 DEF StatementsOn

(* A function that has got one more statement.                             *)
LEMMA ExtendedFunction ==
  ASSUME NEW fs \in Seq(Declarations), fs # << >>, NEW s \in StatementsOn(Expressions)
  PROVE  LET new == [fs EXCEPT ![Len(fs)].statements = Append(@, s)]
         IN  new \in Seq(Declarations) /\ new # << >>
<1> DEFINE last == fs[Len(fs)]
           changed == [last EXCEPT !.statements = Append(last.statements, s)]
<1>1. Len(fs) \in 1 .. Len(fs) /\ last \in Declarations
  BY EmptySeq
<1>2. Append(last.statements, s) \in Seq(StatementsOn(Expressions))
  BY <1>1, AppendProperties DEF Declarations
<1>3. changed \in Declarations
  BY <1>1, <1>2 DEF Declarations
<1>4. [fs EXCEPT ![Len(fs)].statements = Append(@, s)] = [fs EXCEPT ![Len(fs)] = changed]
  BY <1>1
<1> HIDE DEF changed, last
<1>5. /\ [fs EXCEPT ![Len(fs)] = changed] \in Seq(Declarations)
      /\ Len([fs EXCEPT ![Len(fs)] = changed]) = Len(fs)
  BY <1>1, <1>3, ExceptSeq
<1>6. [fs EXCEPT ![Len(fs)] = changed] # << >>
  BY <1>1, <1>5
<1> QED BY <1>4, <1>5, <1>6

----------------------------------------------------------------------------
(* The invariant.                                                          *)

(* consume() of several types in a row: each is there.                     *)
LEMMA MatchesThree ==
  ASSUME NEW a, NEW b, NEW c, Matches(<< a, b, c >>)
  PROVE  Ahead(0).type = a /\ Ahead(1).type = b /\ Ahead(2).type = c
<1>1. \A n \in 1 .. 3 : Ahead(n - 1).type = << a, b, c >>[n]
  BY DEF Matches
<1>2. Ahead(1 - 1).type = a /\ Ahead(2 - 1).type = b /\ Ahead(3 - 1).type = c
  BY <1>1
<1> QED BY <1>2

LEMMA MatchesFour ==
  ASSUME NEW a, NEW b, NEW c, NEW d, Matches(<< a, b, c, d >>)
  PROVE  Ahead(1).type = b /\ Ahead(3).type = d
<1>1. \A n \in 1 .. 4 : Ahead(n - 1).type = << a, b, c, d >>[n]
  BY DEF Matches
<1>2. Ahead(2 - 1).type = b /\ Ahead(4 - 1).type = d
  BY <1>1
<1> QED BY <1>2

LEMMA MatchesTwo ==
  ASSUME NEW a, NEW b, Matches(<< a, b >>)
  PROVE  Ahead(0).type = a /\ Ahead(1).type = b
<1>1. \A n \in 1 .. 2 : Ahead(n - 1).type = << a, b >>[n]
  BY DEF Matches
<1>2. Ahead(1 - 1).type = a /\ Ahead(2 - 1).type = b
  BY <1>1
<1> QED BY <1>2

(* advance() over tokens that are not EndOfFile.                           *)
LEMMA AdvanceStep ==
  ASSUME ParserInv, NEW n \in Nat, Ahead(n).type # "EndOfFile", Advance(n + 1)
  PROVE  /\ IsTokenStream(tokens)' /\ status' = status
         /\ index' \in 0 .. Len(tokens') - 1
         /\ index' = index + n + 1 /\ tokens' = tokens
<1>1. IsTokenStream(tokens) /\ index \in 0 .. Len(tokens) - 1
  BY DEF ParserInv
<1>2. tokens' = tokens /\ status' = status /\ index' = index + n + 1
  BY <1>1 DEF Advance, IsTokenStream
<1>3. index + n + 1 \in 0 .. Len(tokens) - 1
  BY <1>1, AheadToken
<1> QED BY <1>1, <1>2, <1>3 DEF IsTokenStream

LEMMA ParserInit == Init => ParserInv
<1> SUFFICES ASSUME Init PROVE ParserInv
  OBVIOUS
<1>1. IsTokenStream(tokens)
  BY InputsAssumption DEF Init
<1>2. 0 \in 0 .. Len(tokens) - 1
  BY <1>1 DEF IsTokenStream
<1> QED BY <1>1, <1>2 DEF Init, ParserInv

(* An exception changes nothing but how the parse ended.                   *)
LEMMA ThrowStep ==
  ASSUME ParserInv, NEW error \in Errors, Throw(error)
  PROVE  ParserInv'
BY DEF ParserInv, Throw, IsTokenStream

(* A statement begins, its value yet to be parsed.                         *)
LEMMA ValueStep ==
  ASSUME ParserInv, At("body"), NEW stmt \in StatementsOn({<< >>}),
         NEW n \in Nat, Ahead(n).type # "EndOfFile", BeginValue(stmt, n + 1)
  PROVE  ParserInv'
<1>1. /\ IsTokenStream(tokens)' /\ status' = status
      /\ index' \in 0 .. Len(tokens') - 1
  BY AdvanceStep DEF BeginValue
<1> QED BY <1>1 DEF ParserInv, BeginValue, At

(* A primary expression is complete.                                       *)
LEMMA PrimaryStep ==
  ASSUME ParserInv, At("primary"), NEW node \in Nodes, node.kind # "Binary",
         NEW n \in Nat, Ahead(n).type # "EndOfFile", TakePrimary(node, n + 1)
  PROVE  ParserInv'
<1>1. /\ IsTokenStream(tokens)' /\ status' = status
      /\ index' \in 0 .. Len(tokens') - 1
  BY AdvanceStep DEF TakePrimary
<1>2. << node >> \in Expressions
  BY LeafExpression
<1> QED BY <1>1, <1>2 DEF ParserInv, TakePrimary, At

(* A call goes on the stack, one comes off it.                             *)
LEMMA PushFrame ==
  ASSUME stack \in Seq(Frames), NEW frame \in Frames
  PROVE  << frame >> \o stack \in Seq(Frames) /\ Len(<< frame >> \o stack) = Len(stack) + 1
<1>1. << frame >> \in Seq(Frames) /\ Len(<< frame >>) = 1
  OBVIOUS
<1>2. /\ << frame >> \o stack \in Seq(Frames)
      /\ Len(<< frame >> \o stack) = Len(<< frame >>) + Len(stack)
  <2>1. << frame >> \in Seq(Frames)
    BY <1>1
  <2> HIDE DEF Frames
  <2> QED BY <2>1, ConcatProperties, Zenon
<1>3. Len(stack) \in Nat
  OBVIOUS
<1> QED BY <1>1, <1>2, <1>3

LEMMA PopFrame ==
  ASSUME stack \in Seq(Frames), stack # << >>
  PROVE  /\ Head(stack) \in Frames
         /\ Tail(stack) \in Seq(Frames)
         /\ Len(Tail(stack)) = Len(stack) - 1
BY HeadTailProperties

LEMMA ParserNext == ParserInv /\ [Next \/ Done]_vars => ParserInv'
<1> SUFFICES ASSUME ParserInv, [Next \/ Done]_vars
             PROVE  ParserInv'
  OBVIOUS
<1>a. IsTokenStream(tokens) /\ index \in 0 .. Len(tokens) - 1
  BY DEF ParserInv
<1>b. peek.type = Ahead(0).type /\ peek.value = Ahead(0).value
  BY DEF peek
<1>1. CASE EndOfProgram
  BY <1>1 DEF ParserInv, EndOfProgram, IsTokenStream
<1>2. CASE BeginFunction
  <2>1. CASE Matches(<< "Function", "Identifier", "LParen", "RParen" >>)
    <3>1. Ahead(1).type = "Identifier" /\ Ahead(3).type = "RParen"
      BY <2>1, MatchesFour
    <3>2. Ahead(1).value \in Names
      BY <1>a, <3>1, AheadToken
    <3>3. /\ Advance(3 + 1)
          /\ functions' = Append(functions, Function(Ahead(1).value, << >>))
          /\ mode' = "body"
          /\ UNCHANGED << min, stack, value, statement >>
      BY <1>2, <2>1 DEF BeginFunction
    <3>4. /\ IsTokenStream(tokens)' /\ status' = status
          /\ index' \in 0 .. Len(tokens') - 1
      BY <3>1, <3>3, AdvanceStep
    <3>5. Function(Ahead(1).value, << >>) \in Declarations
      BY <3>2 DEF Declarations, Function
    <3>6. functions' \in Seq(Declarations) /\ functions' # << >>
      BY <3>3, <3>5, AppendProperties DEF ParserInv
    <3>7. stack = << >>
      BY <1>2 DEF ParserInv, BeginFunction, At
    <3> QED BY <3>3, <3>4, <3>6, <3>7 DEF ParserInv
  <2>2. CASE ~Matches(<< "Function", "Identifier", "LParen", "RParen" >>)
    BY <1>2, <2>2, ThrowStep DEF BeginFunction, Errors
  <2> QED BY <2>1, <2>2
<1>3. CASE EndFunction
  <2>1. Ahead(0).type # "EndOfFile" /\ Advance(0 + 1)
    BY <1>3, <1>b DEF EndFunction
  <2>2. /\ IsTokenStream(tokens)' /\ status' = status
        /\ index' \in 0 .. Len(tokens') - 1
    BY <2>1, AdvanceStep
  <2> QED BY <1>3, <2>2 DEF ParserInv, EndFunction, At
<1>4. CASE BeginDeclaration
  <2>1. At("body") /\ peek.type = "Identifier" /\ peek.value \in Names
    BY <1>4, <1>a, <1>b, AheadToken DEF BeginDeclaration
  <2>2. CASE Matches(<< "Identifier", "Assignment" >>)
    <3>1. Ahead(1).type # "EndOfFile"
      BY <2>2, MatchesTwo
    <3>2. Declare(peek.value, NoType, << >>) \in StatementsOn({<< >>})
      BY <2>1 DEF Declare, StatementsOn
    <3>3. BeginValue(Declare(peek.value, NoType, << >>), 1 + 1)
      BY <1>4, <2>2 DEF BeginDeclaration
    <3> QED BY <2>1, <3>1, <3>2, <3>3, ValueStep
  <2>3. CASE /\ ~Matches(<< "Identifier", "Assignment" >>)
             /\ Matches(<< "Identifier", "Colon", "Identifier" >>)
             /\ Ahead(2).value \in BuiltinTypes
             /\ Ahead(3).type = "Assignment"
    <3>1. Ahead(3).type # "EndOfFile"
      BY <2>3
    <3>2. Declare(peek.value, Ahead(2).value, << >>) \in StatementsOn({<< >>})
      BY <2>1, <2>3 DEF Declare, StatementsOn
    <3>3. BeginValue(Declare(peek.value, Ahead(2).value, << >>), 3 + 1)
      BY <1>4, <2>3 DEF BeginDeclaration
    <3> QED BY <2>1, <3>1, <3>2, <3>3, ValueStep
  <2>4. CASE Throw("Expected") \/ Throw("UnknownType")
    BY <2>4, ThrowStep DEF Errors
  <2> QED BY <1>4, <2>2, <2>3, <2>4 DEF BeginDeclaration
<1>5. CASE BeginAssignment
  <2>1. CASE Matches(<< "Set", "Identifier", "Assignment" >>)
    <3>1. Ahead(1).type = "Identifier" /\ Ahead(2).type # "EndOfFile"
      BY <2>1, MatchesThree
    <3>2. Assign(Ahead(1).value, << >>) \in StatementsOn({<< >>})
      BY <1>a, <3>1, AheadToken DEF Assign, StatementsOn
    <3>3. At("body") /\ BeginValue(Assign(Ahead(1).value, << >>), 2 + 1)
      BY <1>5, <2>1 DEF BeginAssignment
    <3> QED BY <3>1, <3>2, <3>3, ValueStep
  <2>2. CASE ~Matches(<< "Set", "Identifier", "Assignment" >>)
    BY <1>5, <2>2, ThrowStep DEF BeginAssignment, Errors
  <2> QED BY <2>1, <2>2
<1>6. CASE BeginShow
  <2>1. Show(<< >>) \in StatementsOn({<< >>})
    BY DEF Show, StatementsOn
  <2>2. At("body") /\ Ahead(0).type # "EndOfFile" /\ BeginValue(Show(<< >>), 0 + 1)
    BY <1>6, <1>b DEF BeginShow
  <2> QED BY <2>1, <2>2, ValueStep
<1>7. CASE BeginReturn
  <2>1. Return(<< >>) \in StatementsOn({<< >>})
    BY DEF Return, StatementsOn
  <2>2. At("body") /\ Ahead(0).type # "EndOfFile" /\ BeginValue(Return(<< >>), 0 + 1)
    BY <1>7, <1>b DEF BeginReturn
  <2> QED BY <2>1, <2>2, ValueStep
<1>8. CASE RefuseStatement
  BY <1>8, ThrowStep DEF RefuseStatement, Errors
<1>9. CASE TakeLiteral
  <2>1. CASE peek.value = "OutOfRange"
    BY <1>9, <2>1, ThrowStep DEF TakeLiteral, Errors
  <2>2. CASE peek.value # "OutOfRange"
    <3>1. /\ At("primary") /\ Ahead(0).type # "EndOfFile"
          /\ TakePrimary([kind |-> peek.type, value |-> peek.value], 0 + 1)
      BY <1>9, <1>b, <2>2 DEF TakeLiteral, LiteralTypes
    <3>2. peek.value = "InRange"
      BY <1>9, <1>a, <1>b, <2>2, AheadToken DEF TakeLiteral
    <3>3. /\ [kind |-> peek.type, value |-> peek.value] \in Nodes
          /\ [kind |-> peek.type, value |-> peek.value].kind # "Binary"
      BY <1>9, <3>2 DEF TakeLiteral, Nodes, LiteralTypes
    <3> QED BY <3>1, <3>3, PrimaryStep
  <2> QED BY <2>1, <2>2
<1>10. CASE TakeIdentifier
  <2>1. At("primary") /\ peek.type = "Identifier" /\ peek.value \in Names
    BY <1>10, <1>a, <1>b, AheadToken DEF TakeIdentifier
  <2>2. CASE Ahead(1).type # "LParen"
    <3>1. TakePrimary(Variable(peek.value), 0 + 1) /\ Ahead(0).type # "EndOfFile"
      BY <1>10, <1>b, <2>1, <2>2 DEF TakeIdentifier
    <3>2. Variable(peek.value) \in Nodes /\ Variable(peek.value).kind # "Binary"
      BY <2>1 DEF Variable, Nodes
    <3> QED BY <2>1, <3>1, <3>2, PrimaryStep
  <2>3. CASE Ahead(1).type = "LParen" /\ Ahead(2).type = "RParen"
    <3>1. TakePrimary(FunctionCall(peek.value), 2 + 1) /\ Ahead(2).type # "EndOfFile"
      BY <1>10, <2>3 DEF TakeIdentifier
    <3>2. FunctionCall(peek.value) \in Nodes /\ FunctionCall(peek.value).kind # "Binary"
      BY <2>1 DEF FunctionCall, Nodes
    <3> QED BY <2>1, <3>1, <3>2, PrimaryStep
  <2>4. CASE Ahead(1).type = "LParen" /\ Ahead(2).type # "RParen"
    BY <1>10, <2>4, ThrowStep DEF TakeIdentifier, Errors
  <2> QED BY <2>2, <2>3, <2>4
<1>11. CASE OpenParenthesis
  <2>1. Ahead(0).type # "EndOfFile" /\ Advance(0 + 1)
    BY <1>11, <1>b DEF OpenParenthesis
  <2>2. /\ IsTokenStream(tokens)' /\ status' = status
        /\ index' \in 0 .. Len(tokens') - 1
    BY <2>1, AdvanceStep
  <2>3. [op |-> "LParen", lhs |-> << >>, min |-> min] \in Frames
    BY DEF ParserInv, Frames
  <2>4. stack' \in Seq(Frames)
    BY <1>11, <2>3, PushFrame DEF ParserInv, OpenParenthesis
  <2> QED BY <1>11, <2>2, <2>4 DEF ParserInv, OpenParenthesis, At
<1>12. CASE RefusePrimary
  BY <1>12, ThrowStep DEF RefusePrimary, Errors
<1>13. CASE TakeOperator
  <2>1. peek.type \in BinaryOperators /\ precedence(peek.type) \in 0 .. 3
    <3>1. precedence(peek.type) > min /\ min \in 0 .. 3
      BY <1>13 DEF TakeOperator, Continues, ParserInv
    <3>2. precedence(peek.type) # 0
      BY <3>1
    <3> QED BY <3>2 DEF precedence, BinaryOperators, ArithmeticOperators
  <2>2. Ahead(0).type # "EndOfFile" /\ Advance(0 + 1)
    BY <1>13, <1>b, <2>1 DEF TakeOperator, BinaryOperators, ArithmeticOperators
  <2>3. /\ IsTokenStream(tokens)' /\ status' = status
        /\ index' \in 0 .. Len(tokens') - 1
    BY <2>2, AdvanceStep
  <2>4. [op |-> peek.type, lhs |-> value, min |-> min] \in Frames
    BY <1>13, <2>1 DEF ParserInv, Frames, TakeOperator, At
  <2>5. stack' \in Seq(Frames)
    BY <1>13, <2>4, PushFrame DEF ParserInv, TakeOperator
  <2> QED BY <1>13, <2>1, <2>3, <2>5 DEF ParserInv, TakeOperator, At
<1>14. CASE FinishOperand
  <2>1. /\ Head(stack) \in Frames /\ Head(stack).op # "LParen"
        /\ Tail(stack) \in Seq(Frames) /\ value \in Expressions
    BY <1>14, PopFrame DEF ParserInv, FinishOperand, At
  <2>2. /\ Head(stack).op \in BinaryOperators
        /\ Head(stack).lhs \in Expressions
        /\ Head(stack).min \in 0 .. 3
    BY <2>1 DEF Frames
  <2>3. value' \in Expressions
    BY <1>14, <2>1, <2>2, JoinExpression DEF FinishOperand
  <2> QED BY <1>14, <2>1, <2>2, <2>3 DEF ParserInv, FinishOperand, At, IsTokenStream
<1>15. CASE CloseParenthesis
  <2>1. CASE peek.type # "RParen"
    BY <1>15, <2>1, ThrowStep DEF CloseParenthesis, Errors
  <2>2. CASE peek.type = "RParen"
    <3>1. Ahead(0).type # "EndOfFile" /\ Advance(0 + 1)
      BY <1>15, <1>b, <2>2 DEF CloseParenthesis
    <3>2. /\ IsTokenStream(tokens)' /\ status' = status
          /\ index' \in 0 .. Len(tokens') - 1
      BY <3>1, AdvanceStep
    <3>3. Head(stack) \in Frames /\ Tail(stack) \in Seq(Frames)
      BY <1>15, PopFrame DEF ParserInv, CloseParenthesis
    <3>4. Head(stack).min \in 0 .. 3
      BY <3>3 DEF Frames
    <3> QED BY <1>15, <2>2, <3>2, <3>3, <3>4 DEF ParserInv, CloseParenthesis, At
  <2> QED BY <2>1, <2>2
<1>16. CASE FinishStatement
  <2>1. /\ statement \in StatementsOn({<< >>}) /\ value \in Expressions
        /\ functions \in Seq(Declarations) /\ functions # << >>
    BY <1>16 DEF ParserInv, FinishStatement, At
  <2>2. [statement EXCEPT !.value = value] \in StatementsOn(Expressions)
    BY <2>1, FilledStatement
  <2>3. functions' \in Seq(Declarations) /\ functions' # << >>
    BY <1>16, <2>1, <2>2, ExtendedFunction DEF FinishStatement
  <2> QED BY <1>16, <2>3 DEF ParserInv, FinishStatement, At, IsTokenStream
<1>17. CASE UNCHANGED vars
  BY <1>17 DEF vars, ParserInv, IsTokenStream
<1> QED BY <1>1, <1>2, <1>3, <1>4, <1>5, <1>6, <1>7, <1>8, <1>9, <1>10, <1>11, <1>12,
           <1>13, <1>14, <1>15, <1>16, <1>17
        DEF Next, Done, parse_statement, parse_primary_expression, parse_expression

LEMMA ParserAlways == Spec => []ParserInv
<1>1. ParserInv /\ [Next \/ Done]_vars => ParserInv'
  BY ParserNext
<1> QED BY ParserInit, <1>1, PTL DEF Spec

(* The parser's state is well typed: in particular `index' stays on the    *)
(* tokens, EndOfFile at the furthest, however the file ends.               *)
THEOREM ParserTypeCorrect == Spec => []TypeOK
<1>1. ASSUME ParserInv
      PROVE  \A n \in 1 .. Len(stack) : stack[n].op \in BinaryOperators \cup {"LParen"}
  <2> SUFFICES ASSUME NEW n \in 1 .. Len(stack)
               PROVE  stack[n].op \in BinaryOperators \cup {"LParen"}
    OBVIOUS
  <2>1. stack[n] \in Frames
    BY <1>1 DEF ParserInv
  <2> QED BY <2>1 DEF Frames
<1>2. ParserInv => TypeOK
  BY <1>1 DEF ParserInv, TypeOK
<1> QED BY ParserAlways, <1>2, PTL

----------------------------------------------------------------------------
(* Declarations put together are a program: what it consists of was made   *)
(* with the constructors of Ast.                                           *)
LEMMA NodeBuilt ==
  ASSUME NEW n \in Nodes
  PROVE  NodeOf(n) = n
<1>1. CASE n \in [kind : LiteralTypes, value : {"InRange"}]
  <2>1. n = [kind |-> n.kind, value |-> n.value] /\ n.kind \in LiteralTypes
    BY <1>1
  <2> QED BY <2>1 DEF NodeOf, LiteralTypes
<1>2. CASE n \in [kind : {"Variable", "FunctionCall"}, name : Names]
  <2>1. n = [kind |-> n.kind, name |-> n.name] /\ n.kind \in {"Variable", "FunctionCall"}
    BY <1>2
  <2> QED BY <2>1 DEF NodeOf, Variable, FunctionCall
<1>3. CASE n \in [kind : {"Binary"}, op : BinaryOperators, lhs : Nat, rhs : Nat]
  <2>1. n = [kind |-> n.kind, op |-> n.op, lhs |-> n.lhs, rhs |-> n.rhs] /\ n.kind = "Binary"
    BY <1>3
  <2> QED BY <2>1 DEF NodeOf, Binary
<1> QED BY <1>1, <1>2, <1>3 DEF Nodes

LEMMA ValueBuilt ==
  ASSUME NEW e \in Expressions
  PROVE  ValueOf(e) = e
<1>1. e \in Seq(Nodes)
  BY DEF Expressions
<1>2. e = [i \in 1 .. Len(e) |-> e[i]] /\ \A i \in 1 .. Len(e) : e[i] \in Nodes
  BY <1>1
<1>3. \A i \in 1 .. Len(e) : NodeOf(e[i]) = e[i]
  BY <1>2, NodeBuilt
<1> QED BY <1>2, <1>3 DEF ValueOf

LEMMA StatementBuilt ==
  ASSUME NEW s \in StatementsOn(Expressions)
  PROVE  StatementOf(s) = s
<1>1. s.value \in Expressions
  BY DEF StatementsOn
<1>2. ValueOf(s.value) = s.value
  BY <1>1, ValueBuilt
<1>3. CASE s.kind = "Declare"
  <2>1. s = [kind |-> "Declare", name |-> s.name, annotation |-> s.annotation, value |-> s.value]
    BY <1>3 DEF StatementsOn
  <2> QED BY <1>2, <1>3, <2>1 DEF StatementOf, Declare
<1>4. CASE s.kind = "Assign"
  <2>1. s = [kind |-> "Assign", name |-> s.name, value |-> s.value]
    BY <1>4 DEF StatementsOn
  <2> QED BY <1>2, <1>4, <2>1 DEF StatementOf, Assign
<1>5. CASE s.kind \in {"Show", "Return"}
  <2>1. s = [kind |-> s.kind, value |-> s.value]
    BY <1>5 DEF StatementsOn
  <2> QED BY <1>2, <1>5, <2>1 DEF StatementOf, Show, Return
<1> QED BY <1>3, <1>4, <1>5 DEF StatementsOn

LEMMA DeclarationsBuilt ==
  ASSUME NEW fs \in Seq(Declarations)
  PROVE  IsBuilt(fs)
<1>1. ASSUME NEW f \in 1 .. Len(fs)
      PROVE  Function(fs[f].name, BodyOf(fs[f].statements)) = fs[f]
  <2>1. PICK d, body : d = fs[f] /\ body = fs[f].statements
    OBVIOUS
  <2>2. d \in Declarations
    BY <2>1
  <2>3. d = [name |-> d.name, statements |-> body] /\ body \in Seq(StatementsOn(Expressions))
    BY <2>1, <2>2 DEF Declarations
  <2>4. /\ body = [s \in 1 .. Len(body) |-> body[s]]
        /\ \A s \in 1 .. Len(body) : body[s] \in StatementsOn(Expressions)
    BY <2>3
  <2>5. \A s \in 1 .. Len(body) : StatementOf(body[s]) = body[s]
    BY <2>4, StatementBuilt
  <2>6. BodyOf(body) = body
    BY <2>4, <2>5 DEF BodyOf
  <2> QED BY <2>1, <2>3, <2>6 DEF Function
<1>2. fs = [f \in 1 .. Len(fs) |-> fs[f]]
  OBVIOUS
<1> QED BY <1>1, <1>2 DEF IsBuilt, ProgramOf

LEMMA DeclarationsAreProgram ==
  ASSUME NEW fs \in Seq(Declarations)
  PROVE  IsProgram(fs, Names)
<1>1. ASSUME NEW f \in 1 .. Len(fs)
      PROVE  /\ fs[f].name \in Names
             /\ Len(fs[f].statements) \in Nat
             /\ \A s \in 1 .. Len(fs[f].statements) : IsStatement(fs[f].statements[s], Names)
  <2>1. fs[f] \in Declarations
    OBVIOUS
  <2>2. fs[f].name \in Names /\ fs[f].statements \in Seq(StatementsOn(Expressions))
    BY <2>1 DEF Declarations
  <2>3. ASSUME NEW s \in 1 .. Len(fs[f].statements)
        PROVE  IsStatement(fs[f].statements[s], Names)
    <3> DEFINE stmt == fs[f].statements[s]
    <3>1. stmt \in StatementsOn(Expressions)
      BY <2>2
    <3> HIDE DEF stmt
    <3>2. stmt.value \in Expressions
      BY <3>1 DEF StatementsOn
    <3>3. IsExpression(stmt.value, Names)
      BY <3>2 DEF Expressions
    <3>4. /\ stmt.kind \in StatementKinds
          /\ stmt.kind \in {"Declare", "Assign"} => stmt.name \in Names
          /\ stmt.kind = "Declare" => stmt.annotation \in BuiltinTypes \cup {NoType}
      BY <3>1 DEF StatementsOn, StatementKinds
    <3> QED BY <3>3, <3>4 DEF IsStatement, stmt
  <2> QED BY <2>2, <2>3
<1>2. IsBuilt(fs)
  BY DeclarationsBuilt
<1> QED BY <1>1, <1>2 DEF IsProgram

(* The parser only returns programs, on every token stream: each node has  *)
(* one owner and comes after its operands, names are identifiers of the    *)
(* file and annotations builtin types.  It is what ProgramsAssumption asks *)
(* of the trees the type checker is given.                                 *)
THEOREM ParserReturnsPrograms == Spec => []ParsesToProgram
<1>1. ParserInv => ParsesToProgram
  BY DeclarationsAreProgram DEF ParserInv, ParsesToProgram
<1> QED BY ParserAlways, <1>1, PTL

----------------------------------------------------------------------------
(* Progress.                                                               *)

LEMMA ThrowProgress ==
  ASSUME ParserInv, status = "parsing", NEW error \in Errors, Throw(error)
  PROVE  Progress' < Progress
<1>1. status' # "parsing" /\ tokens' = tokens /\ index' = index /\ stack' = stack /\ mode' = mode
  BY DEF Throw, Errors
<1>2. Len(tokens) \in Nat /\ index \in Nat /\ Len(stack) \in Nat
  BY DEF ParserInv, IsTokenStream
<1> QED BY <1>1, <1>2 DEF Progress

(* A token read pays for a call entered and an operand begun.              *)
LEMMA AdvanceProgress ==
  ASSUME ParserInv, status = "parsing", NEW n \in Nat, Advance(n + 1),
         Len(stack') \in Nat, Len(stack') <= Len(stack) + 1
  PROVE  Progress' < Progress
<1>1. /\ tokens' = tokens /\ status' = status /\ index' = index + n + 1
      /\ Len(tokens) \in Nat /\ index \in Nat /\ Len(stack) \in Nat
  BY DEF ParserInv, IsTokenStream, Advance
<1> QED BY <1>1 DEF Progress

LEMMA ParserProgress == ParserInv /\ [Next \/ Done]_vars => [Progress' < Progress]_vars
<1> SUFFICES ASSUME ParserInv, Next
             PROVE  Progress' < Progress
  BY DEF Done, vars
<1>a. Len(tokens) \in Nat /\ index \in Nat /\ Len(stack) \in Nat
  BY DEF ParserInv, IsTokenStream
<1>1. CASE EndOfProgram
  BY <1>1, <1>a DEF EndOfProgram, At, Progress
<1>2. CASE BeginFunction
  <2>1. status = "parsing" /\ ((stack' = stack /\ Advance(3 + 1)) \/ Throw("Expected"))
    BY <1>2 DEF BeginFunction, At
  <2> QED BY <1>a, <2>1, ThrowProgress, AdvanceProgress DEF Errors
<1>3. CASE EndFunction
  <2>1. status = "parsing" /\ stack' = stack /\ Advance(0 + 1)
    BY <1>3 DEF EndFunction, At
  <2> QED BY <1>a, <2>1, AdvanceProgress
<1>4. CASE parse_statement
  <2>1. CASE BeginDeclaration
    <3>1. /\ status = "parsing"
          /\ \/ Throw("Expected") \/ Throw("UnknownType")
             \/ (stack' = stack /\ Advance(1 + 1))
             \/ (stack' = stack /\ Advance(3 + 1))
      BY <2>1 DEF BeginDeclaration, BeginValue, At
    <3> QED BY <1>a, <3>1, ThrowProgress, AdvanceProgress DEF Errors
  <2>2. CASE BeginAssignment
    <3>1. status = "parsing"
      BY <2>2 DEF BeginAssignment, At
    <3>2. CASE Matches(<< "Set", "Identifier", "Assignment" >>)
      <4>1. stack' = stack /\ Advance(2 + 1)
        BY <2>2, <3>2 DEF BeginAssignment, BeginValue
      <4> QED BY <1>a, <3>1, <4>1, AdvanceProgress
    <3>3. CASE ~Matches(<< "Set", "Identifier", "Assignment" >>)
      <4>1. Throw("Expected")
        BY <2>2, <3>3 DEF BeginAssignment
      <4> QED BY <3>1, <4>1, ThrowProgress DEF Errors
    <3> QED BY <3>2, <3>3
  <2>3. CASE BeginShow \/ BeginReturn
    <3>1. status = "parsing" /\ stack' = stack /\ Advance(0 + 1)
      BY <2>3 DEF BeginShow, BeginReturn, BeginValue, At
    <3> QED BY <1>a, <3>1, AdvanceProgress
  <2>4. CASE RefuseStatement
    BY <2>4, ThrowProgress DEF RefuseStatement, At, Errors
  <2> QED BY <1>4, <2>1, <2>2, <2>3, <2>4 DEF parse_statement
<1>5. CASE TakeLiteral \/ TakeIdentifier
  <2>1. CASE TakeLiteral
    <3>1. status = "parsing" /\ (Throw("OutOfRange") \/ (stack' = stack /\ Advance(0 + 1)))
      BY <2>1 DEF TakeLiteral, TakePrimary, At
    <3> QED BY <1>a, <3>1, ThrowProgress, AdvanceProgress DEF Errors
  <2>2. CASE TakeIdentifier
    <3>1. /\ status = "parsing"
          /\ \/ Throw("Expected")
             \/ (stack' = stack /\ Advance(0 + 1))
             \/ (stack' = stack /\ Advance(2 + 1))
      <4>1. CASE Ahead(1).type # "LParen"
        BY <2>2, <4>1 DEF TakeIdentifier, TakePrimary, At
      <4>2. CASE Ahead(1).type = "LParen" /\ Ahead(2).type = "RParen"
        BY <2>2, <4>2 DEF TakeIdentifier, TakePrimary, At
      <4>3. CASE Ahead(1).type = "LParen" /\ Ahead(2).type # "RParen"
        BY <2>2, <4>3 DEF TakeIdentifier, TakePrimary, At
      <4> QED BY <4>1, <4>2, <4>3
    <3>2. CASE Throw("Expected")
      BY <3>1, <3>2, ThrowProgress DEF Errors
    <3>3. CASE stack' = stack /\ Advance(0 + 1)
      BY <1>a, <3>1, <3>3, AdvanceProgress
    <3>4. CASE stack' = stack /\ Advance(2 + 1)
      BY <1>a, <3>1, <3>4, AdvanceProgress
    <3> QED BY <3>1, <3>2, <3>3, <3>4
  <2> QED BY <1>5, <2>1, <2>2
<1>6. CASE RefusePrimary
  BY <1>6, ThrowProgress DEF RefusePrimary, At, Errors
<1>7. CASE OpenParenthesis
  <2>1. [op |-> "LParen", lhs |-> << >>, min |-> min] \in Frames
    BY DEF ParserInv, Frames
  <2>2. Len(stack') = Len(stack) + 1
    BY <1>7, <2>1, PushFrame DEF ParserInv, OpenParenthesis
  <2>3. status = "parsing" /\ Advance(0 + 1)
    BY <1>7 DEF OpenParenthesis, At
  <2>4. Len(stack') \in Nat /\ Len(stack') <= Len(stack) + 1
    BY <2>2 DEF ParserInv
  <2> QED BY <2>3, <2>4, AdvanceProgress
<1>8. CASE TakeOperator
  <2>1. status = "parsing" /\ Advance(0 + 1) /\ peek.type \in BinaryOperators
    <3>1. precedence(peek.type) > min /\ min \in 0 .. 3
      BY <1>8 DEF TakeOperator, Continues, ParserInv
    <3>2. precedence(peek.type) # 0
      BY <3>1
    <3> QED BY <1>8, <3>2 DEF precedence, BinaryOperators, ArithmeticOperators, TakeOperator, At
  <2>2. [op |-> peek.type, lhs |-> value, min |-> min] \in Frames
    BY <1>8, <2>1 DEF ParserInv, Frames, TakeOperator, At
  <2>3. Len(stack') = Len(stack) + 1
    BY <1>8, <2>2, PushFrame DEF ParserInv, TakeOperator
  <2> QED BY <1>a, <2>1, <2>3, AdvanceProgress
<1>9. CASE FinishOperand
  <2>1. Len(stack') = Len(stack) - 1
    BY <1>9, PopFrame DEF ParserInv, FinishOperand
  <2> QED BY <1>9, <1>a, <2>1 DEF FinishOperand, Progress
<1>10. CASE CloseParenthesis
  <2>1. status = "parsing" /\ stack # << >>
    BY <1>10 DEF CloseParenthesis, At
  <2>2. CASE peek.type # "RParen"
    BY <1>10, <2>1, <2>2, ThrowProgress DEF CloseParenthesis, Errors
  <2>3. CASE peek.type = "RParen"
    <3>1. Advance(0 + 1) /\ stack' = Tail(stack)
      BY <1>10, <2>3 DEF CloseParenthesis
    <3>2. Len(stack') = Len(stack) - 1 /\ Len(stack') \in Nat
      BY <2>1, <3>1, PopFrame DEF ParserInv
    <3> QED BY <1>a, <2>1, <3>1, <3>2, AdvanceProgress
  <2> QED BY <2>2, <2>3
<1>11. CASE FinishStatement
  BY <1>11, <1>a DEF FinishStatement, At, Progress
<1> QED BY <1>1, <1>2, <1>3, <1>4, <1>5, <1>6, <1>7, <1>8, <1>9, <1>10, <1>11
        DEF Next, parse_primary_expression, parse_expression

(* Every step of the parser reads a token or returns from a call, on every *)
(* token stream: no loop of it turns for ever, at EndOfFile in particular. *)
THEOREM ParserProgresses == Spec => EveryStepProgresses
<1>1. ParserInv /\ [Next \/ Done]_vars => [Progress' < Progress]_vars
  BY ParserProgress
<1> QED BY ParserAlways, <1>1, PTL DEF Spec, EveryStepProgresses
=============================================================================
