------------------------------ MODULE TutorProofs ------------------------------
(***************************************************************************)
(* Proofs about Tutor, for any number of calls, questions and editions of  *)
(* the law, any limits and lengths, and whatever rebuilds fail: its types, *)
(* how old the texts are that an answer cites, that its sources are of     *)
(* different texts, and that the passages of a text of law cover it.       *)
(*                                                                         *)
(* How old a cached corpus's texts are and how long it will be kept never  *)
(* exceed the corpus's life together; a call takes it while it is kept,    *)
(* and searches it before time passes.  While a corpus is being built, the *)
(* questions read for it are as they were read, since time does not pass.  *)
(* An index has one passage of each text, and a search gives each of them  *)
(* at most once.  What a corpus is made of is computed along a text, by    *)
(* recursive functions: the first part shows that they are well defined    *)
(* and what they return, the second that the passages, without the leads   *)
(* they repeat, are the text, one after another: so are the parts after    *)
(* every paragraph that is put into them, and the clauses.                 *)
(***************************************************************************)
EXTENDS Tutor, FiniteSetTheorems, SequenceTheorems, WellFoundedInduction, TLAPS

(* Of the naturals of a set one is least.                                  *)
LEMMA Least ==
  ASSUME NEW T \in SUBSET Nat, T # {}
  PROVE  \E m \in T : \A n \in T : m <= n
<1> DEFINE R == OpToRel(<, Nat)
<1>1. IsWellFoundedOn(R, Nat)
  BY NatLessThanWellFounded
<1>2. R = {p \in Nat \X Nat : p[1] < p[2]}
  BY Zenon DEF OpToRel
<1> HIDE DEF R
<1>3. \E x \in T : \A y \in T : ~ (<<y, x>> \in R)
  BY <1>1, WFMin, Zenon
<1>4. PICK m \in T : \A n \in T : ~ (<<n, m>> \in R)
  BY <1>3
<1>5. ASSUME NEW n \in T
      PROVE  m <= n
  <2>1. m \in Nat /\ n \in Nat /\ ~ (<<n, m>> \in R)
    BY <1>4
  <2> QED
    BY <1>2, <2>1
<1> QED
  BY <1>5

(* A set of naturals below a bound has a greatest element.                 *)
LEMMA Greatest ==
  ASSUME NEW T \in SUBSET Nat, T # {}, NEW b \in Nat, \A n \in T : n <= b
  PROVE  \E m \in T : \A n \in T : n <= m
<1> DEFINE Gaps == {b - n : n \in T}
<1>1. Gaps \in SUBSET Nat /\ Gaps # {}
  <2>1. \A n \in T : b - n \in Nat
    OBVIOUS
  <2> QED
    BY <2>1
<1>2. PICK g \in Gaps : \A h \in Gaps : g <= h
  <2> HIDE DEF Gaps
  <2> QED
    BY <1>1, Least
<1>3. PICK m \in T : g = b - m
  BY <1>2
<1>4. ASSUME NEW n \in T
      PROVE  n <= m
  <2>1. b - n \in Gaps
    OBVIOUS
  <2>2. b - m <= b - n
    BY <1>2, <1>3, <2>1
  <2>3. n \in Nat /\ m \in Nat
    OBVIOUS
  <2> QED
    BY <2>2, <2>3
<1> QED
  BY <1>4


(***************************************************************************)
(* What is computed along a sequence.                                      *)
(***************************************************************************)

(* A function of the naturals up to n is given by its values at 0 and at a *)
(* successor of each.                                                      *)
LEMMA Recursion ==
  ASSUME NEW A, NEW base \in A, NEW n \in Nat, NEW G \in [1 .. n -> [A -> A]]
  PROVE  \E f \in [0 .. n -> A] : f[0] = base /\ \A i \in 1 .. n : f[i] = G[i][f[i - 1]]
<1> DEFINE Upto(k, f) == f \in [0 .. k -> A] /\ f[0] = base /\ \A i \in 1 .. k : f[i] = G[i][f[i - 1]]
<1> DEFINE T == {k \in 0 .. n : ~ \E f : Upto(k, f)}
<1>1. SUFFICES T = {}
  OBVIOUS
<1>2. SUFFICES ASSUME T # {}
               PROVE  FALSE
  OBVIOUS
<1>3. PICK m \in T : \A k \in T : m <= k
  <2>1. T \in SUBSET Nat
    OBVIOUS
  <2> HIDE DEF T
  <2> QED
    BY <1>2, <2>1, Least
<1>4. m # 0
  <2>1. Upto(0, [i \in 0 .. 0 |-> base])
    OBVIOUS
  <2> QED
    BY <1>3, <2>1
<1>5. PICK f : Upto(m - 1, f)
  <2>1. m - 1 \in 0 .. n /\ ~ (m <= m - 1)
    BY <1>3, <1>4
  <2> HIDE DEF Upto
  <2> QED
    BY <1>3, <2>1
<1> DEFINE g == [i \in 0 .. m |-> IF i = m THEN G[m][f[m - 1]] ELSE f[i]]
<1>6. f[m - 1] \in A /\ G[m][f[m - 1]] \in A
  <2>1. m - 1 \in 0 .. m - 1 /\ m \in 1 .. n
    BY <1>3, <1>4
  <2>2. f[m - 1] \in A
    BY <1>5, <2>1
  <2>3. G[m] \in [A -> A]
    BY <2>1, <2>2
  <2> QED
    BY <2>2, <2>3
<1>7. Upto(m, g)
  <2>1. m \in Nat \ {0}
    BY <1>3, <1>4
  <2>2. g \in [0 .. m -> A]
    BY <1>5, <1>6, <2>1
  <2>3. g[0] = base
    BY <1>5, <2>1
  <2>4. ASSUME NEW i \in 1 .. m
        PROVE  g[i] = G[i][g[i - 1]]
    <3>1. i - 1 \in 0 .. m /\ i - 1 # m
      BY <2>1
    <3>2. g[i - 1] = f[i - 1]
      BY <3>1
    <3>3. CASE i = m
      BY <3>2, <3>3
    <3>4. CASE i # m
      <4>1. i \in 1 .. m - 1 /\ i \in 0 .. m
        BY <2>1, <3>4
      <4>2. f[i] = G[i][f[i - 1]]
        BY <1>5, <4>1
      <4>3. g[i] = f[i]
        BY <3>4, <4>1
      <4> QED
        BY <3>2, <4>2, <4>3
    <3> QED
      BY <3>3, <3>4
  <2> QED
    BY <2>2, <2>3, <2>4
<1> QED
  <2> HIDE DEF Upto
  <2> QED
    BY <1>3, <1>7

(* Induction, over the set of the naturals of which something holds.       *)
LEMMA Stepwise ==
  ASSUME NEW n \in Nat, NEW T, 0 \in T, \A i \in 1 .. n : i - 1 \in T => i \in T
  PROVE  0 .. n \subseteq T
<1> DEFINE U == (0 .. n) \ T
<1>1. SUFFICES ASSUME U # {}
               PROVE  FALSE
  OBVIOUS
<1>2. PICK m \in U : \A k \in U : m <= k
  <2>1. U \in SUBSET Nat
    OBVIOUS
  <2> HIDE DEF U
  <2> QED
    BY <1>1, <2>1, Least
<1>3. m \in 1 .. n /\ m - 1 \in 0 .. n /\ ~ (m <= m - 1)
  BY <1>2
<1>4. m - 1 \in T
  BY <1>2, <1>3
<1> QED
  BY <1>2, <1>3, <1>4

(* A fold is what the recursion along the sequence gives it. *)
Groups == Seq(Paragraphs) \ {<<>>}

LEMMA PutIntoGroupsType ==
  ASSUME NEW g \in Seq(Groups), NEW p \in Paragraphs
  PROVE  PutIntoGroups(g, p) \in Seq(Groups) \ {<<>>}
<1>1. <<p>> \in Groups
  BY DEF Groups
<1>2. CASE g # <<>> /\ g[Len(g)][1].clause = p.clause
  <2>1. Len(g) \in 1 .. Len(g)
    BY <1>2
  <2>2. g[Len(g)] \in Groups
    BY <2>1
  <2>3. Append(g[Len(g)], p) \in Groups
    BY <2>2 DEF Groups
  <2>4. PutIntoGroups(g, p) = [g EXCEPT ![Len(g)] = Append(g[Len(g)], p)]
    BY <1>2 DEF PutIntoGroups
  <2>5. [g EXCEPT ![Len(g)] = Append(g[Len(g)], p)] \in Seq(Groups)
    BY <2>1, <2>3
  <2>6. Len([g EXCEPT ![Len(g)] = Append(g[Len(g)], p)]) = Len(g)
    BY <2>1, <2>3
  <2> QED
    BY <2>1, <2>4, <2>5, <2>6
<1>3. CASE ~ (g # <<>> /\ g[Len(g)][1].clause = p.clause)
  <2>1. PutIntoGroups(g, p) = Append(g, <<p>>)
    BY <1>3 DEF PutIntoGroups
  <2> QED
    BY <1>1, <2>1
<1> QED
  BY <1>2, <1>3

LEMMA ClausesUnfold ==
  ASSUME NEW list \in Seq(Paragraphs)
  PROVE  \E f \in [0 .. Len(list) -> Seq(Groups)] :
           /\ f[0] = <<>> /\ \A i \in 1 .. Len(list) : f[i] = PutIntoGroups(f[i - 1], list[i])
           /\ Clauses(list) = f[Len(list)]
<1> DEFINE n == Len(list)
           G == [i \in 1 .. n |-> [g \in Seq(Groups) |-> PutIntoGroups(g, list[i])]]
           Body(h) == [i \in 0 .. n |-> IF i = 0 THEN <<>> ELSE PutIntoGroups(h[i - 1], list[i])]
           h == CHOOSE h : h = Body(h)
<1>1. n \in Nat /\ <<>> \in Seq(Groups)
  OBVIOUS
<1>2. G \in [1 .. n -> [Seq(Groups) -> Seq(Groups)]]
  <2>1. \A i \in 1 .. n : list[i] \in Paragraphs
    OBVIOUS
  <2> QED
    BY <2>1, PutIntoGroupsType
<1>3. PICK f \in [0 .. n -> Seq(Groups)] : f[0] = <<>> /\ \A i \in 1 .. n : f[i] = G[i][f[i - 1]]
  <2> DEFINE A == Seq(Groups)
             none == <<>>
  <2>1. \E f \in [0 .. n -> A] : f[0] = none /\ \A i \in 1 .. n : f[i] = G[i][f[i - 1]]
    <3>1. none \in A /\ n \in Nat /\ G \in [1 .. n -> [A -> A]]
      BY <1>1, <1>2
    <3> HIDE DEF G, n, A, none, h, Body
    <3> QED
      BY <3>1, Recursion
  <2> QED
    BY <2>1
<1>4. \A i \in 1 .. n : f[i] = PutIntoGroups(f[i - 1], list[i])
  <2> SUFFICES ASSUME NEW i \in 1 .. n
               PROVE  f[i] = PutIntoGroups(f[i - 1], list[i])
    OBVIOUS
  <2>1. i - 1 \in 0 .. n
    BY <1>1
  <2>2. f[i - 1] \in Seq(Groups)
    BY <1>3, <2>1
  <2> QED
    BY <1>3, <2>2
<1>5. f = Body(f)
  BY <1>1, <1>3, <1>4
<1>6. h = Body(h)
  BY <1>5
<1>7. h[0] = <<>> /\ \A i \in 1 .. n : h[i] = PutIntoGroups(h[i - 1], list[i])
  <2> HIDE DEF h
  <2> QED
    BY <1>1, <1>6
<1>8. 0 .. n \subseteq {i \in 0 .. n : h[i] = f[i]}
  <2>1. ASSUME NEW i \in 1 .. n, h[i - 1] = f[i - 1]
        PROVE  h[i] = f[i]
    BY <1>4, <1>7, <2>1
  <2>2. h[0] = f[0]
    BY <1>3, <1>7
  <2> DEFINE T == {i \in 0 .. n : h[i] = f[i]}
  <2>3. 0 \in T /\ \A i \in 1 .. n : i - 1 \in T => i \in T
    BY <1>1, <2>1, <2>2
  <2> HIDE DEF T, n
  <2>4. 0 .. n \subseteq T
    BY <1>1, <2>3, Stepwise
  <2> QED
    BY <2>4 DEF T
<1>9. Clauses(list) = h[n]
  BY DEF Clauses
<1>10. h[n] = f[n]
  <2>1. n \in 0 .. n
    BY <1>1
  <2> HIDE DEF h, n
  <2> QED
    BY <1>8, <2>1
<1>11. Clauses(list) = f[n]
  BY <1>9, <1>10
<1> HIDE DEF h
<1> QED
  BY <1>3, <1>4, <1>11

(* The parts of a clause. *)
Part == [start: Paragraphs, list: Seq(Paragraphs), size: Nat]

LEMMA NewPartType ==
  ASSUME NEW lead \in Paragraphs, NEW p \in Paragraphs
  PROVE  NewPart(lead, p) \in Part
<1>1. Ellipsis \in Paragraphs
  BY DEF Ellipsis, Paragraphs
<1>2. <<lead, Ellipsis, p>> \in Seq(Paragraphs)
  BY <1>1
<1>3. lead.size + p.size \in Nat
  BY DEF Paragraphs
<1> QED
  BY <1>2, <1>3 DEF NewPart, Part

LEMMA AddToPartType ==
  ASSUME NEW t \in Part, NEW p \in Paragraphs
  PROVE  AddToPart(t, p) \in Part
<1>1. t.start \in Paragraphs /\ t.list \in Seq(Paragraphs) /\ t.size \in Nat /\ p.size \in Nat
  BY DEF Part, Paragraphs
<1>2. Append(t.list, p) \in Seq(Paragraphs)
  BY <1>1
<1>3. t.size + p.size \in Nat
  BY <1>1
<1> QED
  BY <1>1, <1>2, <1>3 DEF AddToPart, Part

LEMMA PutIntoPartsType ==
  ASSUME NEW g \in Seq(Part) \ {<<>>}, NEW lead \in Paragraphs, NEW p \in Paragraphs
  PROVE  PutIntoParts(g, lead, p) \in Seq(Part) \ {<<>>}
<1>1. Len(g) \in 1 .. Len(g)
  OBVIOUS
<1>2. g[Len(g)] \in Part
  BY <1>1
<1>3. NewPart(lead, p) \in Part /\ AddToPart(g[Len(g)], p) \in Part
  BY <1>2, NewPartType, AddToPartType
<1>4. Append(g, NewPart(lead, p)) \in Seq(Part) \ {<<>>}
  BY <1>3
<1>5. [g EXCEPT ![Len(g)] = AddToPart(g[Len(g)], p)] \in Seq(Part) \ {<<>>}
  <2> DEFINE x == AddToPart(g[Len(g)], p)
  <2>1. x \in Part
    BY <1>3
  <2> HIDE DEF x
  <2>2. [g EXCEPT ![Len(g)] = x] \in Seq(Part)
    BY <1>1, <2>1
  <2>3. Len([g EXCEPT ![Len(g)] = x]) = Len(g)
    BY <1>1, <2>1
  <2>4. [g EXCEPT ![Len(g)] = x] # <<>>
    BY <1>1, <2>3
  <2> QED
    BY <2>2, <2>4 DEF x
<1> QED
  BY <1>4, <1>5 DEF PutIntoParts

FirstPart(lead) == <<[start |-> lead, list |-> <<lead>>, size |-> lead.size]>>

LEMMA PartsUnfold ==
  ASSUME NEW group \in Groups
  PROVE  \E f \in [0 .. Len(group) - 1 -> Seq(Part) \ {<<>>}] :
           /\ f[0] = FirstPart(group[1])
           /\ \A i \in 1 .. Len(group) - 1 : f[i] = PutIntoParts(f[i - 1], group[1], group[i + 1])
           /\ Parts(group) = f[Len(group) - 1]
<1> DEFINE n == Len(group) - 1
           A == Seq(Part) \ {<<>>}
           first == FirstPart(group[1])
           G == [i \in 1 .. n |-> [g \in A |-> PutIntoParts(g, group[1], group[i + 1])]]
           Body(h) == [i \in 0 .. n |-> IF i = 0 THEN first ELSE PutIntoParts(h[i - 1], group[1], group[i + 1])]
           h == CHOOSE h : h = Body(h)
<1>0. group \in Seq(Paragraphs) /\ group # <<>>
  BY DEF Groups
<1>1. n \in Nat /\ \A i \in 0 .. n : group[i + 1] \in Paragraphs
  BY <1>0
<1>2. group[1] \in Paragraphs
  BY <1>0
<1>3. first \in A
  <2>1. [start |-> group[1], list |-> <<group[1]>>, size |-> group[1].size] \in Part
    BY <1>2 DEF Part, Paragraphs
  <2> QED
    BY <2>1 DEF FirstPart
<1>4. \A i \in 1 .. n : \A g \in A : PutIntoParts(g, group[1], group[i + 1]) \in A
  BY <1>1, <1>2, PutIntoPartsType
<1>5. G \in [1 .. n -> [A -> A]]
  BY <1>4
<1>6. PICK f \in [0 .. n -> A] : f[0] = first /\ \A i \in 1 .. n : f[i] = G[i][f[i - 1]]
  <2> HIDE DEF G, n, A, first, h, Body
  <2> QED
    BY <1>1, <1>3, <1>5, Recursion
<1>7. \A i \in 1 .. n : f[i] = PutIntoParts(f[i - 1], group[1], group[i + 1])
  <2> SUFFICES ASSUME NEW i \in 1 .. n
               PROVE  f[i] = PutIntoParts(f[i - 1], group[1], group[i + 1])
    OBVIOUS
  <2>1. i - 1 \in 0 .. n
    BY <1>1
  <2> HIDE DEF A, n
  <2>2. f[i - 1] \in A
    BY <1>6, <2>1
  <2> QED
    BY <1>6, <2>2
<1>8. f = Body(f)
  <2> HIDE DEF A, n, first
  <2> QED
    BY <1>1, <1>6, <1>7
<1>9. h = Body(h)
  BY <1>8
<1>10. h[0] = first /\ \A i \in 1 .. n : h[i] = PutIntoParts(h[i - 1], group[1], group[i + 1])
  <2> HIDE DEF h, n, first
  <2> QED
    BY <1>1, <1>9
<1>11. 0 .. n \subseteq {i \in 0 .. n : h[i] = f[i]}
  <2> HIDE DEF h, n, first, A, G
  <2>1. ASSUME NEW i \in 1 .. n, h[i - 1] = f[i - 1]
        PROVE  h[i] = f[i]
    BY <1>7, <1>10, <2>1
  <2>2. h[0] = f[0]
    BY <1>6, <1>10
  <2> DEFINE T == {i \in 0 .. n : h[i] = f[i]}
  <2>3. 0 \in T /\ \A i \in 1 .. n : i - 1 \in T => i \in T
    BY <1>1, <2>1, <2>2
  <2> HIDE DEF T
  <2>4. 0 .. n \subseteq T
    BY <1>1, <2>3, Stepwise
  <2> QED
    BY <2>4 DEF T
<1>12. Parts(group) = h[n]
  BY DEF Parts, FirstPart
<1>13. h[n] = f[n]
  <2> HIDE DEF h, n
  <2>1. n \in 0 .. n
    BY <1>1
  <2> QED
    BY <1>11, <2>1
<1>14. Parts(group) = f[n]
  BY <1>12, <1>13
<1> HIDE DEF h
<1> QED
  BY <1>6, <1>7, <1>14

(* The sequences of a sequence, one after another. *)
LEMMA FlattenUnfold ==
  ASSUME NEW S, NEW seqs \in Seq(Seq(S))
  PROVE  \E f \in [0 .. Len(seqs) -> Seq(S)] :
           /\ f[0] = <<>> /\ \A i \in 1 .. Len(seqs) : f[i] = f[i - 1] \o seqs[i]
           /\ FlattenSeq(seqs) = f[Len(seqs)]
<1> DEFINE n == Len(seqs)
           A == Seq(S)
           none == <<>>
           G == [i \in 1 .. n |-> [g \in A |-> g \o seqs[i]]]
           Body(h) == [i \in 1 .. n |-> IF i = 1 THEN seqs[i] ELSE h[i - 1] \o seqs[i]]
           h == CHOOSE h : h = Body(h)
<1>1. n \in Nat /\ none \in A /\ \A i \in 1 .. n : seqs[i] \in A
  OBVIOUS
<1>2. \A g, s \in A : g \o s \in A
  OBVIOUS
<1>3. G \in [1 .. n -> [A -> A]]
  <2> HIDE DEF A, n
  <2> QED
    BY <1>1, <1>2
<1>4. PICK f \in [0 .. n -> A] : f[0] = none /\ \A i \in 1 .. n : f[i] = G[i][f[i - 1]]
  <2>1. none \in A /\ n \in Nat
    BY <1>1
  <2> HIDE DEF G, n, A, none, h, Body
  <2> QED
    BY <1>3, <2>1, Recursion, SMTT(60)
<1>5. \A i \in 1 .. n : f[i] = f[i - 1] \o seqs[i]
  <2> SUFFICES ASSUME NEW i \in 1 .. n
               PROVE  f[i] = f[i - 1] \o seqs[i]
    OBVIOUS
  <2>1. i - 1 \in 0 .. n
    BY <1>1
  <2> HIDE DEF A, n
  <2>2. f[i - 1] \in A
    BY <1>4, <2>1
  <2> QED
    BY <1>4, <2>2
<1> DEFINE k == [i \in 1 .. n |-> f[i]]
<1>6. k = Body(k)
  <2> SUFFICES ASSUME NEW i \in 1 .. n
               PROVE  k[i] = IF i = 1 THEN seqs[i] ELSE k[i - 1] \o seqs[i]
    OBVIOUS
  <2>1. CASE i = 1
    <3>1. f[1] = none \o seqs[1]
      <4>1. f[1] = f[1 - 1] \o seqs[1]
        BY <1>5, <2>1
      <4>2. f[1 - 1] = none
        BY <1>4
      <4> QED
        BY <4>1, <4>2
    <3>2. none \o seqs[1] = seqs[1]
      BY <1>1, <2>1
    <3> QED
      BY <2>1, <3>1, <3>2
  <2>2. CASE i # 1
    <3>1. i - 1 \in 1 .. n
      BY <1>1, <2>2
    <3> HIDE DEF n
    <3>2. k[i] = f[i] /\ k[i - 1] = f[i - 1]
      BY <3>1
    <3> HIDE DEF k
    <3> QED
      BY <1>5, <2>2, <3>2
  <2> QED
    BY <2>1, <2>2
<1>7. h = Body(h)
  <2> HIDE DEF k
  <2> QED
    BY <1>6
<1>8. \A i \in 1 .. n : h[i] = IF i = 1 THEN seqs[i] ELSE h[i - 1] \o seqs[i]
  <2> HIDE DEF h, n
  <2> QED
    BY <1>7
<1>9. 0 .. n \subseteq {i \in 0 .. n : i = 0 \/ h[i] = f[i]}
  <2>1. ASSUME NEW i \in 1 .. n, i - 1 = 0 \/ h[i - 1] = f[i - 1]
        PROVE  h[i] = f[i]
    <3>1. CASE i = 1
      <4>1. f[1] = seqs[1]
        <5>1. k[1] = seqs[1]
          <6> HIDE DEF k
          <6> QED
            BY <1>6, <3>1
        <5> QED
          BY <3>1, <5>1
      <4> HIDE DEF h, k
      <4> QED
        BY <1>8, <3>1, <4>1
    <3>2. CASE i # 1
      <4> HIDE DEF h, n
      <4>1. h[i - 1] = f[i - 1]
        BY <2>1, <3>2
      <4> QED
        BY <1>5, <1>8, <3>2, <4>1
    <3> QED
      BY <3>1, <3>2
  <2> HIDE DEF h, n, A, G, k
  <2> DEFINE T == {i \in 0 .. n : i = 0 \/ h[i] = f[i]}
  <2>2. 0 \in T /\ \A i \in 1 .. n : i - 1 \in T => i \in T
    BY <1>1, <2>1
  <2> HIDE DEF T
  <2>3. 0 .. n \subseteq T
    BY <1>1, <2>2, Stepwise
  <2> QED
    BY <2>3 DEF T
<1>10. FlattenSeq(seqs) = f[n]
  <2>1. CASE n = 0
    <3>1. FlattenSeq(seqs) = seqs /\ seqs = none
      BY <2>1 DEF FlattenSeq
    <3> QED
      BY <1>4, <2>1, <3>1
  <2>2. CASE n # 0
    <3>1. FlattenSeq(seqs) = h[n]
      BY <2>2 DEF FlattenSeq
    <3> HIDE DEF h, n
    <3>2. n \in 0 .. n
      BY <1>1
    <3>3. h[n] = f[n]
      BY <1>9, <2>2, <3>2
    <3> QED
      BY <3>1, <3>3
  <2> QED
    BY <2>1, <2>2
<1> HIDE DEF h, k
<1> QED
  BY <1>4, <1>5, <1>10

-----------------------------------------------------------------------------
RulePassages     == [kind: {"rule"}, id: Nat, text: Seq(Paragraphs)]
QuestionPages    == [kind: {"question"}, id: 1 .. LastExplained, text: Explanations \cup {NoExplanation}]
Explained        == [kind: {"question"}, id: 1 .. LastExplained, text: Explanations]

LEMMA PassageType ==
  ASSUME NEW p \in Paragraphs, NEW t \in Seq(Paragraphs)
  PROVE  Passage(p, t) \in RulePassages
BY DEF Passage, RulePassages, Paragraphs

LEMMA PassagesOfType ==
  ASSUME NEW group \in Groups
  PROVE  PassagesOf(group) \in Seq(RulePassages)
<1>1. group \in Seq(Paragraphs) /\ group[1] \in Paragraphs
  BY DEF Groups
<1>2. Passage(group[1], group) \in RulePassages
  BY <1>1, PassageType
<1>3. Parts(group) \in Seq(Part)
  <2>1. Len(group) - 1 \in 0 .. Len(group) - 1
    BY <1>1 DEF Groups
  <2> QED
    BY <2>1, PartsUnfold
<1>4. [n \in 1 .. Len(Parts(group)) |-> Passage(Parts(group)[n].start, Parts(group)[n].list)]
        \in Seq(RulePassages)
  <2> DEFINE t == Parts(group)
  <2>1. \A n \in 1 .. Len(t) : t[n] \in Part
    BY <1>3
  <2>2. \A n \in 1 .. Len(t) : Passage(t[n].start, t[n].list) \in RulePassages
    BY <2>1, PassageType DEF Part
  <2>3. Len(t) \in Nat
    BY <1>3
  <2> HIDE DEF t
  <2>4. [n \in 1 .. Len(t) |-> Passage(t[n].start, t[n].list)] \in Seq(RulePassages)
    BY <2>2, <2>3
  <2> QED
    BY <2>4 DEF t
<1>5. <<Passage(group[1], group)>> \in Seq(RulePassages)
  BY <1>2
<1> QED
  BY <1>4, <1>5 DEF PassagesOf

LEMMA ClausesType ==
  ASSUME NEW list \in Seq(Paragraphs)
  PROVE  Clauses(list) \in Seq(Groups)
<1>1. Len(list) \in 0 .. Len(list)
  OBVIOUS
<1> QED
  BY <1>1, ClausesUnfold

LEMMA FlattenType ==
  ASSUME NEW S, NEW seqs \in Seq(Seq(S))
  PROVE  FlattenSeq(seqs) \in Seq(S)
<1>1. Len(seqs) \in 0 .. Len(seqs)
  OBVIOUS
<1>2. PICK f \in [0 .. Len(seqs) -> Seq(S)] : FlattenSeq(seqs) = f[Len(seqs)]
  BY FlattenUnfold, Zenon
<1> QED
  BY <1>1, <1>2

LEMMA LegalPassagesType ==
  ASSUME NEW list \in Seq(Paragraphs)
  PROVE  LegalPassages(list) \in Seq(RulePassages)
<1> DEFINE groups == Clauses(list)
           passages == [i \in 1 .. Len(groups) |-> PassagesOf(groups[i])]
<1>1. groups \in Seq(Groups)
  BY ClausesType
<1>2. \A i \in 1 .. Len(groups) : groups[i] \in Groups
  BY <1>1
<1>3. \A i \in 1 .. Len(groups) : PassagesOf(groups[i]) \in Seq(RulePassages)
  BY <1>2, PassagesOfType
<1>4. Len(groups) \in Nat
  BY <1>1
<1>5. passages \in Seq(Seq(RulePassages))
  <2> HIDE DEF groups
  <2> QED
    BY <1>3, <1>4
<1> HIDE DEF passages
<1>6. FlattenSeq(passages) \in Seq(RulePassages)
  BY <1>5, FlattenType
<1> QED
  BY <1>6 DEF LegalPassages, passages

-----------------------------------------------------------------------------
(***************************************************************************)
(* What a text of law is cut into: nothing of it is lost, said twice but   *)
(* for leads, or moved.                                                    *)
(***************************************************************************)

(* The flattening of a sequence is the last of what is joined step by step. *)
LEMMA FlattenIs ==
  ASSUME NEW S, NEW seqs \in Seq(Seq(S)), NEW f, f[0] = <<>>,
         \A i \in 1 .. Len(seqs) : f[i] = f[i - 1] \o seqs[i]
  PROVE  FlattenSeq(seqs) = f[Len(seqs)]
<1> DEFINE n == Len(seqs)
<1>1. n \in Nat
  OBVIOUS
<1>2. PICK g : /\ g[0] = <<>> /\ \A i \in 1 .. n : g[i] = g[i - 1] \o seqs[i]
               /\ FlattenSeq(seqs) = g[n]
  BY FlattenUnfold, Zenon
<1> DEFINE T == {i \in 0 .. n : f[i] = g[i]}
<1>3. 0 \in T /\ \A i \in 1 .. n : i - 1 \in T => i \in T
  <2>1. ASSUME NEW i \in 1 .. n, f[i - 1] = g[i - 1]
        PROVE  f[i] = g[i]
    <3>1. f[i] = f[i - 1] \o seqs[i] /\ g[i] = g[i - 1] \o seqs[i]
      BY <1>2
    <3> QED
      BY <2>1, <3>1
  <2>2. 0 \in 0 .. n /\ \A i \in 1 .. n : i \in 0 .. n
    BY <1>1
  <2> HIDE DEF n
  <2> QED
    BY <1>2, <2>1, <2>2
<1>4. 0 .. n \subseteq T
  <2> HIDE DEF n, T
  <2> QED
    BY <1>1, <1>3, Stepwise
<1>5. f[n] = g[n]
  <2>1. n \in 0 .. n
    BY <1>1
  <2> HIDE DEF n
  <2> QED
    BY <1>4, <2>1
<1> QED
  BY <1>2, <1>5

LEMMA FlattenOne ==
  ASSUME NEW S, NEW x \in Seq(S)
  PROVE  FlattenSeq(<<x>>) = x
<1> DEFINE f == [i \in 0 .. 1 |-> IF i = 0 THEN <<>> ELSE x]
           one == <<x>>
<1>1. one \in Seq(Seq(S)) /\ Len(one) = 1 /\ one[1] = x
  OBVIOUS
<1>2. f[0] = <<>> /\ f[1] = x /\ <<>> \o x = x
  OBVIOUS
<1>3. \A i \in 1 .. Len(one) : f[i] = f[i - 1] \o one[i]
  <2>1. ASSUME NEW i \in 1 .. Len(one)
        PROVE  f[i] = f[i - 1] \o one[i]
    <3>1. i = 1 /\ i - 1 = 0
      BY <1>1
    <3> HIDE DEF f, one
    <3> QED
      BY <1>1, <1>2, <3>1
  <2> QED
    BY <2>1
<1>4. FlattenSeq(one) = f[Len(one)]
  <2> HIDE DEF f, one
  <2> QED
    BY <1>1, <1>2, <1>3, FlattenIs
<1> HIDE DEF f, one
<1>5. FlattenSeq(one) = x
  BY <1>1, <1>2, <1>4
<1> QED
  BY <1>5 DEF one

LEMMA FlattenJoins ==
  ASSUME NEW S, NEW a \in Seq(Seq(S)), NEW b \in Seq(Seq(S))
  PROVE  FlattenSeq(a \o b) = FlattenSeq(a) \o FlattenSeq(b)
<1> DEFINE m == Len(a)
           n == Len(b)
           ab == a \o b
<1>1. PICK f \in [0 .. m -> Seq(S)] : /\ f[0] = <<>> /\ \A i \in 1 .. m : f[i] = f[i - 1] \o a[i]
                                      /\ FlattenSeq(a) = f[m]
  BY FlattenUnfold, Zenon
<1>2. PICK g \in [0 .. n -> Seq(S)] : /\ g[0] = <<>> /\ \A i \in 1 .. n : g[i] = g[i - 1] \o b[i]
                                      /\ FlattenSeq(b) = g[n]
  BY FlattenUnfold, Zenon
<1> DEFINE h == [i \in 0 .. m + n |-> IF i <= m THEN f[i] ELSE f[m] \o g[i - m]]
<1>3. /\ m \in Nat /\ n \in Nat /\ ab \in Seq(Seq(S)) /\ Len(ab) = m + n
      /\ \A i \in 1 .. m : ab[i] = a[i]
      /\ \A i \in 1 .. n : ab[m + i] = b[i]
      /\ \A i \in 1 .. n : b[i] \in Seq(S)
  OBVIOUS
<1> HIDE DEF m, n, ab
<1>4. f[m] \in Seq(S)
  <2>1. m \in 0 .. m
    BY <1>3
  <2> QED
    BY <2>1
<1>5. \A i \in 1 .. m + n : h[i] = h[i - 1] \o ab[i]
  <2> SUFFICES ASSUME NEW i \in 1 .. m + n
               PROVE  h[i] = h[i - 1] \o ab[i]
    OBVIOUS
  <2>0. i \in 0 .. m + n /\ i - 1 \in 0 .. m + n
    BY <1>3
  <2>1. CASE i <= m
    <3>1. i \in 1 .. m /\ i - 1 <= m
      BY <1>3, <2>1
    <3>2. h[i] = f[i] /\ h[i - 1] = f[i - 1]
      BY <2>0, <2>1, <3>1
    <3> HIDE DEF h
    <3> QED
      BY <1>1, <1>3, <3>1, <3>2
  <2>2. CASE ~ (i <= m)
    <3> DEFINE k == i - m
    <3>1. k \in 1 .. n /\ i = m + k /\ k - 1 \in 0 .. n
      BY <1>3, <2>2
    <3>2. h[i] = f[m] \o g[k]
      BY <2>0, <2>2
    <3>3. h[i - 1] = f[m] \o g[k - 1]
      <4>1. CASE k = 1
        <5>1. i - 1 <= m /\ i - 1 = m /\ k - 1 = 0
          BY <1>3, <4>1, <3>1
        <5>2. h[i - 1] = f[m]
          BY <2>0, <5>1
        <5>3. g[k - 1] = <<>>
          BY <1>2, <5>1
        <5>4. f[m] \o <<>> = f[m]
          BY <1>4
        <5> QED
          BY <5>2, <5>3, <5>4
      <4>2. CASE k # 1
        <5>1. ~ (i - 1 <= m) /\ (i - 1) - m = k - 1
          BY <1>3, <4>2, <3>1
        <5> QED
          BY <2>0, <5>1
      <4> QED
        BY <4>1, <4>2
    <3>4. ab[i] = b[k] /\ b[k] \in Seq(S)
      BY <1>3, <3>1
    <3>5. g[k] = g[k - 1] \o b[k] /\ g[k - 1] \in Seq(S)
      BY <1>2, <3>1
    <3> HIDE DEF h, k, m, n
    <3>6. (f[m] \o g[k - 1]) \o b[k] = f[m] \o (g[k - 1] \o b[k])
      <4>1. f[m] \in Seq(S) /\ g[k - 1] \in Seq(S) /\ b[k] \in Seq(S)
        BY <1>4, <3>4, <3>5
      <4>2. \A x \in Seq(S) : \A y \in Seq(S) : \A z \in Seq(S) : (x \o y) \o z = x \o (y \o z)
        BY ConcatAssociative
      <4> QED
        BY <4>1, <4>2, Zenon
    <3> QED
      BY <3>2, <3>3, <3>4, <3>5, <3>6
  <2> QED
    BY <2>1, <2>2
<1>6. h[0] = <<>>
  BY <1>1, <1>3
<1>7. h[m + n] = f[m] \o g[n]
  <2>1. m + n \in 0 .. m + n
    BY <1>3
  <2>2. CASE n = 0
    <3>1. m + n <= m /\ m + n = m
      BY <1>3, <2>2
    <3>2. h[m + n] = f[m] /\ g[n] = <<>>
      BY <1>2, <2>1, <2>2, <3>1
    <3>3. f[m] \o <<>> = f[m]
      BY <1>4
    <3> QED
      BY <3>2, <3>3
  <2>3. CASE n # 0
    <3>1. ~ (m + n <= m) /\ (m + n) - m = n
      BY <1>3, <2>3
    <3> QED
      BY <2>1, <3>1
  <2> QED
    BY <2>2, <2>3
<1>8. FlattenSeq(ab) = h[Len(ab)]
  <2> HIDE DEF h
  <2>1. \A i \in 1 .. Len(ab) : h[i] = h[i - 1] \o ab[i]
    BY <1>3, <1>5
  <2> QED
    BY <1>3, <1>6, <2>1, FlattenIs
<1> HIDE DEF h
<1>9. FlattenSeq(ab) = FlattenSeq(a) \o FlattenSeq(b)
  BY <1>1, <1>2, <1>3, <1>7, <1>8
<1> QED
  BY <1>9 DEF ab

(* A sequence whose last element is another. *)
LEMMA LastReplaced ==
  ASSUME NEW A, NEW s \in Seq(A), NEW y \in A, NEW x \in A
  PROVE  [Append(s, y) EXCEPT ![Len(Append(s, y))] = x] = Append(s, x)
<1> DEFINE t == Append(s, y)
           c == Append(s, x)
           n == Len(s)
           e == [t EXCEPT ![Len(t)] = x]
<1>1. n \in Nat
  OBVIOUS
<1>2. t \in Seq(A) /\ Len(t) = n + 1 /\ \A i \in 1 .. n : t[i] = s[i]
  BY AppendProperties
<1>3. c \in Seq(A) /\ Len(c) = n + 1 /\ \A i \in 1 .. n : c[i] = s[i] /\ c[n + 1] = x
  BY AppendProperties
<1> HIDE DEF t, c, n
<1>4. Len(t) \in 1 .. Len(t)
  BY <1>1, <1>2
<1>5. /\ e \in Seq(A) /\ Len(e) = Len(t)
      /\ \A i \in 1 .. Len(t) : e[i] = IF i = Len(t) THEN x ELSE t[i]
  <2>1. \A i \in 1 .. Len(t) : /\ [t EXCEPT ![i] = x] \in Seq(A) /\ Len([t EXCEPT ![i] = x]) = Len(t)
                               /\ \A j \in 1 .. Len(t) : [t EXCEPT ![i] = x][j] = IF j = i THEN x ELSE t[j]
    BY <1>2
  <2> QED
    BY <1>4, <2>1, Zenon
<1> HIDE DEF e
<1>6. c[n + 1] = x
  BY AppendProperties DEF c, n
<1>7. \A i \in 1 .. Len(e) : e[i] = c[i]
  BY <1>1, <1>2, <1>3, <1>5, <1>6
<1>8. e = c
  BY <1>2, <1>3, <1>5, <1>7, SeqEqual
<1> QED
  BY <1>8 DEF e, c, t

(* A sequence is what comes before an element, the element, and the rest. *)
LEMMA AroundOne ==
  ASSUME NEW A, NEW s \in Seq(A), NEW i \in 1 .. Len(s)
  PROVE  s = (SubSeq(s, 1, i - 1) \o <<s[i]>>) \o SubSeq(s, i + 1, Len(s))
<1>1. /\ 1 \in 1 .. Len(s) /\ i \in 1 .. Len(s) /\ 1 \in 1 .. Len(s) + 1
      /\ i \in 1 - 1 .. Len(s) /\ Len(s) \in i .. Len(s)
  OBVIOUS
<1>2. SubSeq(s, 1, i) = SubSeq(s, 1, i - 1) \o <<s[i]>>
  BY <1>1, SubSeqRecursiveSecond, Zenon
<1>3. SubSeq(s, 1, i) \o SubSeq(s, i + 1, Len(s)) = SubSeq(s, 1, Len(s))
  BY <1>1, ConcatAdjacentSubSeq, Zenon
<1>4. SubSeq(s, 1, Len(s)) = s
  BY SubSeqFull, Zenon
<1> QED
  BY <1>2, <1>3, <1>4

LEMMA FlattenAppends ==
  ASSUME NEW S, NEW seqs \in Seq(Seq(S)), NEW x \in Seq(S)
  PROVE  FlattenSeq(Append(seqs, x)) = FlattenSeq(seqs) \o x
<1>1. Append(seqs, x) = seqs \o <<x>> /\ <<x>> \in Seq(Seq(S))
  OBVIOUS
<1>2. FlattenSeq(seqs \o <<x>>) = FlattenSeq(seqs) \o FlattenSeq(<<x>>)
  BY <1>1, FlattenJoins
<1> QED
  BY <1>1, <1>2, FlattenOne

(* What is added to the last is added to the whole. *)
LEMMA FlattenGrows ==
  ASSUME NEW S, NEW seqs \in Seq(Seq(S)), seqs # <<>>, NEW p \in S
  PROVE  FlattenSeq([seqs EXCEPT ![Len(seqs)] = Append(seqs[Len(seqs)], p)]) = Append(FlattenSeq(seqs), p)
<1>1. PICK front \in Seq(Seq(S)), last \in Seq(S) : seqs = Append(front, last)
  BY SequenceEmptyOrAppend, Zenon
<1>2. seqs[Len(seqs)] = last
  BY <1>1
<1> DEFINE grown == Append(last, p)
<1>3. grown \in Seq(S)
  OBVIOUS
<1>4. FlattenSeq(front) \in Seq(S)
  BY FlattenType
<1> DEFINE F == FlattenSeq(front)
<1>5. F \o grown = Append(F \o last, p)
  <2> HIDE DEF F
  <2> QED
    BY <1>4 DEF F
<1> HIDE DEF grown
<1>6. [seqs EXCEPT ![Len(seqs)] = grown] = Append(front, grown)
  <2>1. [Append(front, last) EXCEPT ![Len(Append(front, last))] = grown] = Append(front, grown)
    <3>1. \A s \in Seq(Seq(S)), y, x \in Seq(S) : [Append(s, y) EXCEPT ![Len(Append(s, y))] = x] = Append(s, x)
      BY LastReplaced
    <3> QED
      BY <1>3, <3>1
  <2> QED
    BY <1>1, <2>1, Zenon
<1>7. FlattenSeq(seqs) = FlattenSeq(front) \o last /\ FlattenSeq(Append(front, grown)) = FlattenSeq(front) \o grown
  BY <1>1, <1>3, FlattenAppends
<1> QED
  BY <1>2, <1>5, <1>6, <1>7 DEF grown

(* The first element of each sequence is somewhere, those of two in        *)
(* different places.                                                       *)
LEMMA FlattenHas ==
  ASSUME NEW S, NEW seqs \in Seq(Seq(S)), NEW i \in 1 .. Len(seqs), seqs[i] # <<>>
  PROVE  \E a \in 1 .. Len(FlattenSeq(seqs)) : FlattenSeq(seqs)[a] = seqs[i][1]
<1> DEFINE A == SubSeq(seqs, 1, i - 1)
           B == SubSeq(seqs, i + 1, Len(seqs))
           x == seqs[i]
           one == <<x>>
<1>1. A \in Seq(Seq(S)) /\ B \in Seq(Seq(S)) /\ x \in Seq(S) /\ one \in Seq(Seq(S))
  OBVIOUS
<1>2. seqs = (A \o one) \o B
  BY AroundOne, Zenon
<1>3. x # <<>>
  OBVIOUS
<1>4. FlattenSeq(one) = x
  BY <1>1, FlattenOne, Zenon
<1> HIDE DEF A, B, x, one
<1>5. A \o one \in Seq(Seq(S))
  BY <1>1
<1>6. FlattenSeq((A \o one) \o B) = FlattenSeq(A \o one) \o FlattenSeq(B)
  BY <1>1, <1>5, FlattenJoins
<1>7. FlattenSeq(A \o one) = FlattenSeq(A) \o x
  BY <1>1, <1>4, FlattenJoins
<1>8. FlattenSeq(A) \in Seq(S) /\ FlattenSeq(B) \in Seq(S)
  BY <1>1, FlattenType
<1>9. PICK u, v : u \in Seq(S) /\ v \in Seq(S) /\ FlattenSeq(seqs) = (u \o x) \o v
  BY <1>2, <1>6, <1>7, <1>8
<1>10. Len(u) + 1 \in 1 .. Len((u \o x) \o v) /\ ((u \o x) \o v)[Len(u) + 1] = x[1]
  BY <1>1, <1>3, <1>9
<1> QED
  BY <1>9, <1>10 DEF x

LEMMA FlattenParts ==
  ASSUME NEW S, NEW seqs \in Seq(Seq(S)), \A i \in 1 .. Len(seqs) : seqs[i] # <<>>,
         NEW i \in 1 .. Len(seqs), NEW k \in 1 .. Len(seqs), i < k
  PROVE  \E a, b \in 1 .. Len(FlattenSeq(seqs)) :
           a < b /\ FlattenSeq(seqs)[a] = seqs[i][1] /\ FlattenSeq(seqs)[b] = seqs[k][1]
<1> DEFINE A == SubSeq(seqs, 1, i)
           B == SubSeq(seqs, i + 1, Len(seqs))
           FA == FlattenSeq(A)
           FB == FlattenSeq(B)
<1>1. A \in Seq(Seq(S)) /\ B \in Seq(Seq(S)) /\ seqs = A \o B
  OBVIOUS
<1>2. i \in 1 .. Len(A) /\ A[i] = seqs[i]
  OBVIOUS
<1>3. k - i \in 1 .. Len(B) /\ B[k - i] = seqs[k]
  OBVIOUS
<1>4. seqs[i] # <<>> /\ seqs[k] # <<>>
  OBVIOUS
<1> HIDE DEF A, B
<1>5. FlattenSeq(A \o B) = FA \o FB
  BY <1>1, FlattenJoins
<1>6. FA \in Seq(S) /\ FB \in Seq(S)
  BY <1>1, FlattenType
<1>7. PICK a \in 1 .. Len(FA) : FA[a] = seqs[i][1]
  BY <1>1, <1>2, <1>4, FlattenHas
<1>8. PICK b \in 1 .. Len(FB) : FB[b] = seqs[k][1]
  <2> DEFINE j == k - i
  <2>1. j \in 1 .. Len(B) /\ B[j] # <<>> /\ B[j] = seqs[k]
    BY <1>3, <1>4
  <2> HIDE DEF j
  <2> QED
    BY <1>1, <2>1, FlattenHas
<1> HIDE DEF FA, FB
<1>9. /\ a \in 1 .. Len(FA \o FB) /\ Len(FA) + b \in 1 .. Len(FA \o FB) /\ a < Len(FA) + b
      /\ (FA \o FB)[a] = FA[a] /\ (FA \o FB)[Len(FA) + b] = FB[b]
  BY <1>6
<1>10. FlattenSeq(seqs) = FA \o FB
  BY <1>1, <1>5
<1> QED
  BY <1>7, <1>8, <1>9, <1>10


(* The length of a list of paragraphs. *)
LEMMA SizeUnfold ==
  ASSUME NEW list \in Seq(Paragraphs)
  PROVE  \E f \in [0 .. Len(list) -> Nat] :
           /\ f[0] = 0 /\ \A i \in 1 .. Len(list) : f[i] = f[i - 1] + list[i].size
           /\ Size(list) = f[Len(list)]
<1> DEFINE n == Len(list)
           none == 0
           A == Nat
           G == [i \in 1 .. n |-> [k \in A |-> k + list[i].size]]
           Body(h) == [i \in 0 .. n |-> IF i = 0 THEN none ELSE h[i - 1] + list[i].size]
           h == CHOOSE h : h = Body(h)
<1>1. n \in Nat /\ none \in A
  OBVIOUS
<1>2. G \in [1 .. n -> [A -> A]]
  <2>0. \A i \in 1 .. n : list[i] \in Paragraphs
    OBVIOUS
  <2>1. \A i \in 1 .. n : list[i].size \in Nat
    BY <2>0 DEF Paragraphs
  <2> QED
    BY <2>1
<1>3. PICK f \in [0 .. n -> A] : f[0] = none /\ \A i \in 1 .. n : f[i] = G[i][f[i - 1]]
  <2> HIDE DEF G, n, A, none, h, Body
  <2> QED
    BY <1>1, <1>2, Recursion
<1>4. \A i \in 1 .. n : f[i] = f[i - 1] + list[i].size
  <2> SUFFICES ASSUME NEW i \in 1 .. n
               PROVE  f[i] = f[i - 1] + list[i].size
    OBVIOUS
  <2>1. i - 1 \in 0 .. n
    BY <1>1
  <2>2. f[i - 1] \in Nat
    BY <1>3, <2>1
  <2> QED
    BY <1>3, <2>2
<1>5. f = Body(f)
  BY <1>1, <1>3, <1>4
<1>6. h = Body(h)
  BY <1>5
<1>7. h[0] = none /\ \A i \in 1 .. n : h[i] = h[i - 1] + list[i].size
  <2> HIDE DEF h
  <2> QED
    BY <1>1, <1>6
<1> DEFINE T == {i \in 0 .. n : h[i] = f[i]}
<1>8. 0 \in T /\ \A i \in 1 .. n : i - 1 \in T => i \in T
  <2>1. ASSUME NEW i \in 1 .. n, h[i - 1] = f[i - 1]
        PROVE  h[i] = f[i]
    <3> HIDE DEF h
    <3> QED
      BY <1>4, <1>7, <2>1
  <2>2. h[0] = f[0]
    BY <1>3, <1>7
  <2> HIDE DEF h
  <2> QED
    BY <1>1, <2>1, <2>2
<1>9. 0 .. n \subseteq T
  <2> HIDE DEF T, n
  <2> QED
    BY <1>1, <1>8, Stepwise
<1>10. Size(list) = h[n]
  BY DEF Size
<1>11. h[n] = f[n]
  <2>1. n \in 0 .. n
    BY <1>1
  <2> HIDE DEF h, n
  <2> QED
    BY <1>9, <2>1
<1>12. Size(list) = f[n]
  BY <1>10, <1>11
<1> HIDE DEF h, T
<1> QED
  BY <1>3, <1>4, <1>12

LEMMA SizeOfNone == Size(<<>>) = 0
<1> DEFINE none == <<>>
<1>1. none \in Seq(Paragraphs) /\ Len(none) = 0
  OBVIOUS
<1> HIDE DEF none
<1>2. Size(none) = 0
  BY <1>1, SizeUnfold
<1> QED
  BY <1>2 DEF none

LEMMA SizeAppends ==
  ASSUME NEW list \in Seq(Paragraphs), NEW p \in Paragraphs
  PROVE  Size(Append(list, p)) = Size(list) + p.size /\ Size(list) \in Nat
<1> DEFINE n == Len(list)
           more == Append(list, p)
<1>1. n \in Nat /\ more \in Seq(Paragraphs) /\ Len(more) = n + 1 /\ more[n + 1] = p
  OBVIOUS
<1>2. \A i \in 1 .. n : more[i] = list[i]
  OBVIOUS
<1> HIDE DEF more
<1>3. PICK f \in [0 .. n -> Nat] : /\ f[0] = 0 /\ \A i \in 1 .. n : f[i] = f[i - 1] + list[i].size
                                   /\ Size(list) = f[n]
  BY SizeUnfold, Zenon
<1>4. PICK g \in [0 .. Len(more) -> Nat] :
             /\ g[0] = 0 /\ \A i \in 1 .. Len(more) : g[i] = g[i - 1] + more[i].size
             /\ Size(more) = g[Len(more)]
  BY <1>1, SizeUnfold, Zenon
<1> HIDE DEF n
<1> DEFINE T == {i \in 0 .. n : g[i] = f[i]}
<1>5. 0 \in T /\ \A i \in 1 .. n : i - 1 \in T => i \in T
  <2>1. ASSUME NEW i \in 1 .. n, g[i - 1] = f[i - 1]
        PROVE  g[i] = f[i]
    <3>1. i \in 1 .. Len(more)
      BY <1>1
    <3>2. g[i] = g[i - 1] + more[i].size /\ f[i] = f[i - 1] + list[i].size
      BY <1>3, <1>4, <3>1
    <3> QED
      BY <1>2, <2>1, <3>2
  <2>2. 0 \in 0 .. n /\ \A i \in 1 .. n : i \in 0 .. n
    BY <1>1
  <2> QED
    BY <1>3, <1>4, <2>1, <2>2
<1>6. 0 .. n \subseteq T
  <2> HIDE DEF T
  <2> QED
    BY <1>1, <1>5, Stepwise
<1>7. g[n] = f[n] /\ f[n] \in Nat
  BY <1>1, <1>3, <1>6
<1>8. g[n + 1] = g[n] + p.size
  <2>1. n + 1 \in 1 .. Len(more) /\ (n + 1) - 1 = n
    BY <1>1
  <2>2. g[n + 1] = g[(n + 1) - 1] + more[n + 1].size
    BY <1>4, <2>1
  <2> QED
    BY <1>1, <2>1, <2>2
<1> QED
  BY <1>1, <1>3, <1>4, <1>7, <1>8 DEF more

(* Paragraphs as they are stored have an id, and the ellipsis none. *)
Written == {p \in Paragraphs : p.id # 0}

(* What a passage adds to those before it: all but the lead it repeats. *)
Own(t) == IF Len(t) > 2 /\ t[2] = Ellipsis THEN SubSeq(t, 3, Len(t)) ELSE t

LEMMA WrittenIsParagraph ==
  /\ Written \subseteq Paragraphs /\ Seq(Written) \subseteq Seq(Paragraphs)
  /\ Ellipsis \in Paragraphs /\ Ellipsis \notin Written
<1>1. Written \subseteq Paragraphs
  BY DEF Written
<1>2. Ellipsis \in Paragraphs /\ Ellipsis \notin Written
  BY DEF Ellipsis, Paragraphs, Written
<1> QED
  BY <1>1, <1>2

LEMMA OwnOfWhole ==
  ASSUME NEW r \in Seq(Written)
  PROVE  Own(r) = r
<1>1. ASSUME Len(r) > 2
      PROVE  r[2] # Ellipsis
  <2>1. r[2] \in Written
    BY <1>1
  <2> QED
    BY <2>1, WrittenIsParagraph
<1> QED
  BY <1>1 DEF Own

LEMMA OwnOfPart ==
  ASSUME NEW lead \in Paragraphs, NEW r \in Seq(Written), r # <<>>
  PROVE  /\ Own(<<lead, Ellipsis>> \o r) = r /\ <<lead, Ellipsis>> \o r \in Seq(Paragraphs)
         /\ Len(<<lead, Ellipsis>> \o r) > 2
<1> DEFINE two == <<lead, Ellipsis>>
           t == two \o r
           s == SubSeq(t, 3, Len(t))
<1>1. r \in Seq(Paragraphs) /\ Ellipsis \in Paragraphs
  BY WrittenIsParagraph
<1>2. two \in Seq(Paragraphs) /\ Len(two) = 2 /\ two[2] = Ellipsis
  BY <1>1
<1> HIDE DEF two
<1>3. /\ t \in Seq(Paragraphs) /\ Len(t) = 2 + Len(r) /\ t[2] = Ellipsis
      /\ \A i \in 1 .. Len(r) : t[2 + i] = r[i]
  <2>1. ASSUME NEW A, NEW a \in Seq(A), NEW b \in Seq(A), Len(a) = 2
        PROVE  /\ a \o b \in Seq(A) /\ Len(a \o b) = 2 + Len(b) /\ (a \o b)[2] = a[2]
               /\ \A i \in 1 .. Len(b) : (a \o b)[2 + i] = b[i]
    <3>1. Len(b) \in Nat /\ 2 \in 1 .. Len(a) + Len(b)
      BY <2>1
    <3>2. /\ a \o b \in Seq(A) /\ Len(a \o b) = Len(a) + Len(b)
          /\ \A i \in 1 .. Len(a) + Len(b) :
               (a \o b)[i] = IF i <= Len(a) THEN a[i] ELSE b[i - Len(a)]
      BY ConcatProperties
    <3> DEFINE c == a \o b
    <3> HIDE DEF c
    <3>3. ASSUME NEW i \in 1 .. Len(b)
          PROVE  c[2 + i] = b[i]
      BY <2>1, <3>1, <3>2 DEF c
    <3> QED
      BY <2>1, <3>1, <3>2, <3>3 DEF c
  <2> QED
    BY <1>1, <1>2, <2>1
<1>4. \A i \in 1 .. Len(r) : t[2 + i] = r[i]
  BY <1>3
<1>5. Len(r) \in Nat \ {0}
  BY <1>1
<1> HIDE DEF t
<1>6. s \in Seq(Paragraphs) /\ Len(s) = Len(r)
  BY <1>3, <1>5
<1>7. \A i \in 1 .. Len(r) : s[i] = t[2 + i]
  BY <1>3, <1>5
<1> HIDE DEF s
<1>8. s = r
  BY <1>1, <1>4, <1>6, <1>7
<1>9. Own(t) = s
  BY <1>3, <1>5 DEF Own, s
<1> QED
  BY <1>3, <1>5, <1>8, <1>9 DEF t, two

(* The parts of a clause that begins with lead: the first, or one that     *)
(* repeats the lead and goes on.  A part is longer than ChunkMax only if   *)
(* it has, with the lead, one paragraph.                                   *)
Chunks(lead) ==
  {t \in Part :
     /\ Own(t.list) \in Seq(Written) \ {<<>>} /\ t.start = Own(t.list)[1]
     /\ \/ t.list = Own(t.list) /\ t.list[1] = lead
        \/ t.list = <<lead, Ellipsis>> \o Own(t.list)
     /\ t.size = Size(t.list)
     /\ t.size <= ChunkMax \/ \E p \in Written : ToSet(t.list) \subseteq {lead, Ellipsis, p}}

LEMMA FirstChunk ==
  ASSUME NEW lead \in Written
  PROVE  /\ [start |-> lead, list |-> <<lead>>, size |-> lead.size] \in Chunks(lead)
         /\ Own(<<lead>>) = <<lead>>
<1> DEFINE one == <<lead>>
           none == <<>>
<1>1. lead \in Paragraphs /\ lead.size \in Nat
  BY DEF Written, Paragraphs
<1>2. /\ one \in Seq(Written) /\ one \in Seq(Paragraphs) /\ one # <<>> /\ one[1] = lead
      /\ Len(one) = 1 /\ ToSet(one) \subseteq {lead}
  BY <1>1 DEF ToSet
<1>3. Size(one) = lead.size
  <2>1. none \in Seq(Paragraphs) /\ one = Append(none, lead) /\ Size(none) = 0
    BY SizeOfNone
  <2> HIDE DEF none, one
  <2>2. Size(one) = Size(none) + lead.size
    BY <1>1, <2>1, SizeAppends
  <2> QED
    BY <1>1, <2>1, <2>2
<1> HIDE DEF one
<1>4. Own(one) = one
  BY <1>2, OwnOfWhole
<1> DEFINE t == [start |-> lead, list |-> one, size |-> lead.size]
<1>5. t \in Part /\ t.list = one /\ t.start = lead /\ t.size = lead.size
  BY <1>1, <1>2 DEF Part
<1> HIDE DEF t
<1>6. t \in Chunks(lead)
  BY <1>2, <1>3, <1>4, <1>5 DEF Chunks
<1> QED
  BY <1>4, <1>6 DEF t, one

LEMMA NewChunk ==
  ASSUME NEW lead \in Written, NEW p \in Written
  PROVE  NewPart(lead, p) \in Chunks(lead) /\ Own(NewPart(lead, p).list) = <<p>>
<1> DEFINE one == <<p>>
           three == <<lead, Ellipsis, p>>
           none == <<>>
           first == <<lead>>
           two == <<lead, Ellipsis>>
<1>1. /\ lead \in Paragraphs /\ lead.size \in Nat /\ p \in Paragraphs /\ p.size \in Nat
      /\ Ellipsis \in Paragraphs /\ Ellipsis.size = 0
  BY DEF Written, Paragraphs, Ellipsis
<1>2. one \in Seq(Written) /\ one # <<>> /\ one[1] = p
  OBVIOUS
<1>3. three = two \o one
  OBVIOUS
<1>4. three \in Seq(Paragraphs) /\ ToSet(three) \subseteq {lead, Ellipsis, p}
  BY <1>1 DEF ToSet
<1>5. Size(three) = lead.size + p.size
  <2>1. none \in Seq(Paragraphs) /\ first = Append(none, lead) /\ Size(none) = 0
    BY SizeOfNone
  <2>2. first \in Seq(Paragraphs) /\ two = Append(first, Ellipsis)
    BY <1>1
  <2>3. two \in Seq(Paragraphs) /\ three = Append(two, p)
    BY <1>1
  <2> HIDE DEF none, first, two, three
  <2>4. Size(first) = Size(none) + lead.size
    BY <1>1, <2>1, SizeAppends
  <2>5. Size(two) = Size(first) + Ellipsis.size
    BY <1>1, <2>2, SizeAppends
  <2>6. Size(three) = Size(two) + p.size
    BY <1>1, <2>3, SizeAppends
  <2> QED
    BY <1>1, <2>1, <2>4, <2>5, <2>6
<1>6. Own(two \o one) = one
  <2> HIDE DEF one
  <2> QED
    BY <1>1, <1>2, OwnOfPart
<1> DEFINE t == NewPart(lead, p)
<1>7. t \in Part /\ t.list = three /\ t.start = p /\ t.size = lead.size + p.size
  BY <1>1, NewPartType DEF NewPart
<1> HIDE DEF t, one, three, two
<1>8. Own(t.list) = one
  BY <1>3, <1>6, <1>7
<1>9. t.list = two \o Own(t.list)
  BY <1>3, <1>7, <1>8
<1>10. t.size = Size(t.list) /\ t.start = Own(t.list)[1] /\ Own(t.list) \in Seq(Written) \ {<<>>}
  BY <1>2, <1>5, <1>7, <1>8
<1>11. \E q \in Written : ToSet(t.list) \subseteq {lead, Ellipsis, q}
  BY <1>4, <1>7
<1>12. t \in Chunks(lead)
  BY <1>7, <1>9, <1>10, <1>11 DEF Chunks, two
<1> QED
  BY <1>8, <1>12 DEF t, one

LEMMA ChunkGrows ==
  ASSUME NEW lead \in Written, NEW t \in Chunks(lead), NEW p \in Written,
         t.size + p.size <= ChunkMax \/ Len(t.list) <= 1
  PROVE  AddToPart(t, p) \in Chunks(lead) /\ Own(AddToPart(t, p).list) = Append(Own(t.list), p)
<1> DEFINE r == Own(t.list)
           s == AddToPart(t, p)
           more == Append(r, p)
           two == <<lead, Ellipsis>>
<1>1. t \in Part /\ p \in Paragraphs /\ lead \in Paragraphs
  BY WrittenIsParagraph DEF Chunks
<1>2. /\ r \in Seq(Written) \ {<<>>} /\ t.start = r[1] /\ t.size = Size(t.list)
      /\ (t.list = r /\ t.list[1] = lead) \/ t.list = two \o r
  BY DEF Chunks
<1>3. t.list \in Seq(Paragraphs) /\ t.size \in Nat /\ p.size \in Nat
  BY <1>1 DEF Part, Paragraphs
<1>4. s \in Part /\ s.start = t.start /\ s.list = Append(t.list, p) /\ s.size = t.size + p.size
  BY <1>1, AddToPartType DEF AddToPart
<1> HIDE DEF r, s
<1>5. more \in Seq(Written) \ {<<>>} /\ more[1] = r[1]
  BY <1>2
<1>6. s.size = Size(s.list)
  BY <1>1, <1>2, <1>3, <1>4, SizeAppends
<1>7. Own(s.list) = more /\ ((s.list = Own(s.list) /\ s.list[1] = lead) \/ s.list = two \o Own(s.list))
  <2>1. CASE t.list = r /\ t.list[1] = lead
    <3>1. s.list = more /\ more[1] = lead
      BY <1>4, <1>5, <2>1
    <3> HIDE DEF more
    <3> QED
      BY <1>5, <3>1, OwnOfWhole
  <2>2. CASE t.list = two \o r
    <3>1. two \in Seq(Paragraphs) /\ r \in Seq(Paragraphs)
      BY <1>1, <1>2, WrittenIsParagraph
    <3>2. Append(two \o r, p) = two \o more
      <4> HIDE DEF two
      <4> QED
        BY <1>1, <3>1
    <3>3. s.list = two \o more
      BY <1>4, <2>2, <3>2
    <3> HIDE DEF more
    <3>4. Own(two \o more) = more
      BY <1>1, <1>5, OwnOfPart
    <3> QED
      BY <3>3, <3>4
  <2> QED
    BY <1>2, <2>1, <2>2
<1>8. s.size <= ChunkMax \/ \E q \in Written : ToSet(s.list) \subseteq {lead, Ellipsis, q}
  <2>1. CASE t.size + p.size <= ChunkMax
    BY <1>4, <2>1
  <2>2. CASE Len(t.list) <= 1
    <3>1. CASE t.list = two \o r
      <4>1. Len(two \o r) > 2
        BY <1>1, <1>2, OwnOfPart
      <4> QED
        BY <2>2, <3>1, <4>1
    <3>2. CASE t.list[1] = lead
      <4>1. Len(t.list) \in Nat /\ \A i \in 1 .. Len(t.list) : i = 1
        BY <1>3, <2>2
      <4>2. \A i \in 1 .. Len(t.list) + 1 : s.list[i] \in {lead, Ellipsis, p}
        BY <1>1, <1>3, <1>4, <3>2, <4>1
      <4>3. DOMAIN s.list = 1 .. Len(t.list) + 1
        BY <1>1, <1>3, <1>4
      <4>4. ToSet(s.list) \subseteq {lead, Ellipsis, p}
        BY <4>2, <4>3 DEF ToSet
      <4> QED
        BY <4>4
    <3> QED
      BY <1>2, <3>1, <3>2
  <2> QED
    BY <2>1, <2>2
<1>9. s \in Chunks(lead)
  BY <1>2, <1>4, <1>5, <1>6, <1>7, <1>8 DEF Chunks, two
<1> QED
  BY <1>7, <1>9 DEF r, s, more


(* What parts add to one another. *)
OwnsOfParts(parts) == [k \in 1 .. Len(parts) |-> Own(parts[k].list)]

LEMMA OwnsType ==
  ASSUME NEW lead, NEW parts \in Seq(Chunks(lead))
  PROVE  /\ OwnsOfParts(parts) \in Seq(Seq(Written) \ {<<>>}) /\ OwnsOfParts(parts) \in Seq(Seq(Written))
         /\ Len(OwnsOfParts(parts)) = Len(parts)
         /\ \A k \in 1 .. Len(parts) : OwnsOfParts(parts)[k] = Own(parts[k].list)
<1> DEFINE A == Seq(Written) \ {<<>>}
           O(k) == Own(parts[k].list)
<1>1. \A k \in 1 .. Len(parts) : O(k) \in A
  <2>1. \A k \in 1 .. Len(parts) : parts[k] \in Chunks(lead)
    OBVIOUS
  <2> QED
    BY <2>1 DEF Chunks
<1>2. Len(parts) \in Nat
  OBVIOUS
<1> HIDE DEF O
<1>3. [k \in 1 .. Len(parts) |-> O(k)] \in Seq(A)
  <2> HIDE DEF A
  <2> QED
    BY <1>1, <1>2
<1>4. Seq(A) \subseteq Seq(Seq(Written))
  <2>1. \A q \in Seq(A) : q \in Seq(Seq(Written))
    <3>1. A \subseteq Seq(Written)
      OBVIOUS
    <3> HIDE DEF A
    <3> QED
      BY <3>1, SeqMonotonic
  <2> QED
    BY <2>1
<1>5. OwnsOfParts(parts) = [k \in 1 .. Len(parts) |-> O(k)]
  BY DEF OwnsOfParts, O
<1> DEFINE c == [k \in 1 .. Len(parts) |-> O(k)]
<1>6. Len(c) = Len(parts) /\ \A k \in 1 .. Len(parts) : c[k] = O(k)
  BY <1>2
<1> HIDE DEF c, A
<1>7. c \in Seq(A) /\ c \in Seq(Seq(Written))
  BY <1>3, <1>4 DEF c
<1> QED
  BY <1>5, <1>6, <1>7 DEF c, A, O

LEMMA OwnsEqual ==
  ASSUME NEW lead, NEW parts \in Seq(Chunks(lead)), NEW c \in Seq(Seq(Written)), Len(c) = Len(parts),
         \A k \in 1 .. Len(parts) : c[k] = Own(parts[k].list)
  PROVE  OwnsOfParts(parts) = c
<1> DEFINE o == OwnsOfParts(parts)
<1>1. o \in Seq(Seq(Written)) /\ Len(o) = Len(parts) /\ \A k \in 1 .. Len(parts) : o[k] = Own(parts[k].list)
  BY OwnsType
<1> HIDE DEF o
<1>2. o = c
  BY <1>1, SeqEqual
<1> QED
  BY <1>2 DEF o

(* A paragraph is put into the last part, or begins one. *)
LEMMA PutStep ==
  ASSUME NEW lead \in Written, NEW parts \in Seq(Chunks(lead)) \ {<<>>}, NEW p \in Written
  PROVE  /\ PutIntoParts(parts, lead, p) \in Seq(Chunks(lead)) \ {<<>>}
         /\ FlattenSeq(OwnsOfParts(PutIntoParts(parts, lead, p))) = Append(FlattenSeq(OwnsOfParts(parts)), p)
<1> DEFINE n == Len(parts)
           last == parts[n]
           o == OwnsOfParts(parts)
           next == PutIntoParts(parts, lead, p)
           fresh == NewPart(lead, p)
           grown == AddToPart(last, p)
<1>1. n \in Nat /\ n \in 1 .. n /\ last \in Chunks(lead)
  OBVIOUS
<1>2. /\ o \in Seq(Seq(Written)) /\ Len(o) = n /\ \A k \in 1 .. n : o[k] = Own(parts[k].list)
      /\ FlattenSeq(o) \in Seq(Written)
  BY OwnsType, FlattenType
<1>3. last.size \in Nat /\ p.size \in Nat /\ last.list \in Seq(Paragraphs)
  <2>1. last \in Part /\ p \in Paragraphs
    BY <1>1, WrittenIsParagraph DEF Chunks
  <2> QED
    BY <2>1 DEF Part, Paragraphs
<1> HIDE DEF o
<1>4. CASE last.size + p.size > ChunkMax /\ Len(last.list) > 1
  <2>1. next = Append(parts, fresh)
    BY <1>4 DEF PutIntoParts
  <2>2. fresh \in Chunks(lead) /\ Own(fresh.list) = <<p>>
    BY NewChunk
  <2> DEFINE one == <<p>>
             c == Append(o, one)
  <2>3. one \in Seq(Written)
    OBVIOUS
  <2> HIDE DEF fresh, one, next
  <2>4. next \in Seq(Chunks(lead)) /\ Len(next) = n + 1 /\ next[n + 1] = fresh /\ next # <<>>
    BY <2>1, <2>2
  <2>5. \A k \in 1 .. n : next[k] = parts[k]
    BY <2>1, <2>2
  <2>6. c \in Seq(Seq(Written)) /\ Len(c) = n + 1 /\ c[n + 1] = one /\ \A k \in 1 .. n : c[k] = o[k]
    BY <1>2, <2>3
  <2> HIDE DEF c, n
  <2>7. \A k \in 1 .. n + 1 : c[k] = Own(next[k].list)
    <3>1. ASSUME NEW k \in 1 .. n + 1
          PROVE  c[k] = Own(next[k].list)
      <4>1. CASE k = n + 1
        BY <2>2, <2>4, <2>6, <4>1 DEF one
      <4>2. CASE k \in 1 .. n
        BY <1>2, <2>5, <2>6, <4>2
      <4> QED
        BY <1>1, <4>1, <4>2
    <3> QED
      BY <3>1
  <2>8. OwnsOfParts(next) = c
    BY <2>4, <2>6, <2>7, OwnsEqual
  <2>9. FlattenSeq(c) = FlattenSeq(o) \o one
    BY <1>2, <2>3, FlattenAppends DEF c
  <2>10. FlattenSeq(o) \o one = Append(FlattenSeq(o), p)
    BY <1>2 DEF one
  <2> QED
    BY <2>4, <2>8, <2>9, <2>10 DEF next, o
<1>5. CASE ~ (last.size + p.size > ChunkMax /\ Len(last.list) > 1)
  <2>1. next = [parts EXCEPT ![n] = grown]
    BY <1>5 DEF PutIntoParts
  <2>2. grown \in Chunks(lead) /\ Own(grown.list) = Append(Own(last.list), p)
    <3>1. last.size + p.size <= ChunkMax \/ Len(last.list) <= 1
      <4>1. ChunkMax \in Nat
        BY TutorAssumption
      <4>2. Len(last.list) \in Nat
        BY <1>3
      <4> QED
        BY <1>3, <1>5, <4>1, <4>2
    <3> HIDE DEF last
    <3> QED
      BY <1>1, <3>1, ChunkGrows
  <2> HIDE DEF grown, next
  <2>3. next \in Seq(Chunks(lead)) /\ Len(next) = n /\ next[n] = grown /\ \A k \in 1 .. n : k # n => next[k] = parts[k]
    BY <1>1, <2>1, <2>2
  <2>4. next # <<>>
    BY <1>1, <2>3
  <2> DEFINE c == [o EXCEPT ![Len(o)] = Append(o[Len(o)], p)]
  <2>5. o[n] \in Seq(Written) /\ o[n] = Own(last.list) /\ Append(o[n], p) \in Seq(Written) /\ o # <<>>
    BY <1>1, <1>2
  <2>6. c \in Seq(Seq(Written)) /\ Len(c) = n /\ c[n] = Append(o[n], p) /\ \A k \in 1 .. n : k # n => c[k] = o[k]
    <3> DEFINE x == Append(o[n], p)
    <3>1. x \in Seq(Written)
      BY <2>5
    <3> HIDE DEF x
    <3>2. c = [o EXCEPT ![n] = x]
      BY <1>2 DEF x
    <3> HIDE DEF c
    <3>3. c \in Seq(Seq(Written)) /\ Len(c) = n /\ c[n] = x /\ \A k \in 1 .. n : k # n => c[k] = o[k]
      <4>1. \A A : \A s \in Seq(A), y \in A : \A i \in 1 .. Len(s) :
              /\ [s EXCEPT ![i] = y] \in Seq(A) /\ Len([s EXCEPT ![i] = y]) = Len(s)
              /\ \A j \in 1 .. Len(s) : [s EXCEPT ![i] = y][j] = IF j = i THEN y ELSE s[j]
        BY ExceptSeq
      <4> HIDE DEF n
      <4> QED
        BY <1>1, <1>2, <3>1, <3>2, <4>1
    <3> QED
      BY <3>3 DEF x
  <2> HIDE DEF c, n
  <2>7. \A k \in 1 .. n : c[k] = Own(next[k].list)
    BY <1>2, <2>2, <2>3, <2>5, <2>6
  <2>8. OwnsOfParts(next) = c
    BY <2>3, <2>6, <2>7, OwnsEqual
  <2>9. FlattenSeq(c) = Append(FlattenSeq(o), p)
    BY <1>2, <2>5, FlattenGrows DEF c
  <2> QED
    BY <2>3, <2>4, <2>8, <2>9 DEF next, o
<1> QED
  BY <1>4, <1>5

LEMMA PartsAre ==
  ASSUME NEW group \in Seq(Written), group # <<>>
  PROVE  /\ Parts(group) \in Seq(Chunks(group[1]))
         /\ FlattenSeq(OwnsOfParts(Parts(group))) = group
<1> DEFINE n == Len(group) - 1
           lead == group[1]
           Q == Seq(Chunks(lead)) \ {<<>>}
<1>1. group \in Groups
  BY WrittenIsParagraph DEF Groups
<1>2. n \in Nat /\ lead \in Written /\ (\A i \in 0 .. n : group[i + 1] \in Written) /\ Len(group) = n + 1
  OBVIOUS
<1>3. PICK f : /\ f[0] = FirstPart(lead)
               /\ \A i \in 1 .. n : f[i] = PutIntoParts(f[i - 1], lead, group[i + 1])
               /\ Parts(group) = f[n]
  BY <1>1, PartsUnfold, Zenon
<1> DEFINE T == {i \in 0 .. n : f[i] \in Q /\ FlattenSeq(OwnsOfParts(f[i])) = SubSeq(group, 1, i + 1)}
<1> HIDE DEF n
<1>4. 0 \in T
  <2> DEFINE t == [start |-> lead, list |-> <<lead>>, size |-> lead.size]
             one == <<lead>>
             c == <<one>>
             parts == <<t>>
  <2>1. t \in Chunks(lead) /\ Own(one) = one /\ t.list = one
    BY <1>2, FirstChunk
  <2>2. one \in Seq(Written) /\ SubSeq(group, 1, 1) = one
    <3>1. one \in Seq(Written) /\ Len(one) = 1 /\ one[1] = lead
      BY <1>2
    <3> DEFINE s == SubSeq(group, 1, 1)
    <3>2. s \in Seq(Written) /\ Len(s) = 1 /\ s[1] = lead
      BY <1>2
    <3> HIDE DEF one, s, lead
    <3>3. s = one
      BY <3>1, <3>2
    <3> QED
      BY <3>1, <3>3 DEF s
  <2> HIDE DEF t, one
  <2>3. parts \in Q /\ Len(parts) = 1 /\ parts[1] = t
    BY <2>1
  <2>4. c \in Seq(Seq(Written)) /\ Len(c) = 1 /\ c[1] = one
    BY <2>2
  <2>5. FlattenSeq(c) = one
    BY <2>2, FlattenOne
  <2> HIDE DEF c, parts
  <2>6. OwnsOfParts(parts) = c
    <3>1. \A k \in 1 .. Len(parts) : c[k] = Own(parts[k].list)
      BY <2>1, <2>3, <2>4
    <3> QED
      BY <2>3, <2>4, <3>1, OwnsEqual
  <2>7. f[0] = parts
    BY <1>3 DEF FirstPart, t, parts
  <2> HIDE DEF Q
  <2> QED
    BY <1>2, <2>2, <2>3, <2>5, <2>6, <2>7
<1>5. ASSUME NEW i \in 1 .. n, i - 1 \in T
      PROVE  i \in T
  <2> DEFINE g == f[i - 1]
             p == group[i + 1]
  <2>1. g \in Q /\ FlattenSeq(OwnsOfParts(g)) = SubSeq(group, 1, i)
    <3>1. (i - 1) + 1 = i
      BY <1>2
    <3> QED
      BY <1>5, <3>1
  <2>2. p \in Written
    BY <1>2
  <2>3. f[i] = PutIntoParts(g, lead, p)
    BY <1>3
  <2> HIDE DEF g, p
  <2>4. f[i] \in Q /\ FlattenSeq(OwnsOfParts(f[i])) = Append(FlattenSeq(OwnsOfParts(g)), p)
    <3> HIDE DEF lead
    <3>1. /\ PutIntoParts(g, lead, p) \in Q
          /\ FlattenSeq(OwnsOfParts(PutIntoParts(g, lead, p))) = Append(FlattenSeq(OwnsOfParts(g)), p)
      BY <1>2, <2>1, <2>2, PutStep
    <3> HIDE DEF Q
    <3> QED
      BY <2>3, <3>1
  <2>5. SubSeq(group, 1, i + 1) = Append(SubSeq(group, 1, i), p)
    <3>1. 1 \in 1 .. Len(group) /\ i + 1 \in 1 .. Len(group) /\ (i + 1) - 1 = i
      BY <1>2
    <3>2. SubSeq(group, 1, i + 1) = SubSeq(group, 1, i) \o <<group[i + 1]>>
      BY <3>1, SubSeqRecursiveSecond
    <3>3. SubSeq(group, 1, i) \in Seq(Written)
      BY <1>2
    <3> DEFINE s == SubSeq(group, 1, i)
    <3> HIDE DEF s
    <3>4. s \o <<p>> = Append(s, p)
      BY <2>2, <3>3 DEF s
    <3> QED
      BY <3>2, <3>4 DEF s, p
  <2>6. i \in 0 .. n
    BY <1>2
  <2> HIDE DEF Q
  <2> QED
    BY <2>1, <2>4, <2>5, <2>6
<1>6. 0 .. n \subseteq T
  <2> HIDE DEF T
  <2> QED
    BY <1>2, <1>4, <1>5, Stepwise
<1>7. f[n] \in Q /\ FlattenSeq(OwnsOfParts(f[n])) = SubSeq(group, 1, n + 1)
  <2>1. n \in 0 .. n
    BY <1>2
  <2> HIDE DEF Q
  <2> QED
    BY <1>6, <2>1
<1>8. SubSeq(group, 1, n + 1) = group
  BY <1>2, SubSeqFull
<1> QED
  BY <1>3, <1>7, <1>8


(* Passages named by the first paragraph they add, and as short as may be. *)
GoodPassages ==
  {s \in RulePassages :
     /\ Own(s.text) \in Seq(Written) \ {<<>>} /\ s.id = Own(s.text)[1].id
     /\ Size(s.text) <= PassageMax \/ Cardinality(ToSet(s.text) \ {Ellipsis}) <= 2}

OwnTexts(passages) == [i \in DOMAIN passages |-> Own(passages[i].text)]

LEMMA OwnTextsType ==
  ASSUME NEW passages \in Seq(GoodPassages)
  PROVE  /\ OwnTexts(passages) \in Seq(Seq(Written)) /\ Len(OwnTexts(passages)) = Len(passages)
         /\ \A k \in 1 .. Len(passages) : /\ OwnTexts(passages)[k] = Own(passages[k].text)
                                          /\ OwnTexts(passages)[k] # <<>>
<1> DEFINE O(k) == Own(passages[k].text)
           c == [k \in 1 .. Len(passages) |-> O(k)]
           A == Seq(Written)
<1>1. \A k \in 1 .. Len(passages) : O(k) \in Seq(Written) \ {<<>>}
  <2>1. \A k \in 1 .. Len(passages) : passages[k] \in GoodPassages
    OBVIOUS
  <2> QED
    BY <2>1 DEF GoodPassages
<1>2. Len(passages) \in Nat /\ DOMAIN passages = 1 .. Len(passages)
  OBVIOUS
<1> HIDE DEF O
<1>3. c \in Seq(A)
  <2>1. \A k \in 1 .. Len(passages) : O(k) \in A
    BY <1>1
  <2> HIDE DEF A
  <2> QED
    BY <1>2, <2>1
<1>4. Len(c) = Len(passages) /\ \A k \in 1 .. Len(passages) : c[k] = O(k)
  BY <1>2
<1>5. OwnTexts(passages) = c
  BY <1>2 DEF OwnTexts, O
<1> HIDE DEF c
<1> QED
  BY <1>1, <1>3, <1>4, <1>5 DEF O

LEMMA OwnTextsEqual ==
  ASSUME NEW passages \in Seq(GoodPassages), NEW c \in Seq(Seq(Written)), Len(c) = Len(passages),
         \A k \in 1 .. Len(passages) : c[k] = Own(passages[k].text)
  PROVE  OwnTexts(passages) = c
<1> DEFINE o == OwnTexts(passages)
<1>1. o \in Seq(Seq(Written)) /\ Len(o) = Len(passages) /\ \A k \in 1 .. Len(passages) : o[k] = Own(passages[k].text)
  BY OwnTextsType
<1> HIDE DEF o
<1>2. o = c
  BY <1>1, SeqEqual
<1> QED
  BY <1>2 DEF o

LEMMA OwnTextsJoin ==
  ASSUME NEW a \in Seq(GoodPassages), NEW b \in Seq(GoodPassages)
  PROVE  OwnTexts(a \o b) = OwnTexts(a) \o OwnTexts(b)
<1> DEFINE oa == OwnTexts(a)
           ob == OwnTexts(b)
           ab == a \o b
           c == oa \o ob
<1>1. oa \in Seq(Seq(Written)) /\ Len(oa) = Len(a) /\ \A k \in 1 .. Len(a) : oa[k] = Own(a[k].text)
  BY OwnTextsType
<1>2. ob \in Seq(Seq(Written)) /\ Len(ob) = Len(b) /\ \A k \in 1 .. Len(b) : ob[k] = Own(b[k].text)
  BY OwnTextsType
<1> HIDE DEF oa, ob
<1>3. /\ ab \in Seq(GoodPassages) /\ Len(ab) = Len(a) + Len(b)
      /\ \A i \in 1 .. Len(a) + Len(b) : ab[i] = IF i <= Len(a) THEN a[i] ELSE b[i - Len(a)]
  BY ConcatProperties
<1>4. /\ c \in Seq(Seq(Written)) /\ Len(c) = Len(oa) + Len(ob)
      /\ \A i \in 1 .. Len(oa) + Len(ob) : c[i] = IF i <= Len(oa) THEN oa[i] ELSE ob[i - Len(oa)]
  <2>1. \A A : \A x, y \in Seq(A) : x \o y \in Seq(A) /\ Len(x \o y) = Len(x) + Len(y)
               /\ \A i \in 1 .. Len(x) + Len(y) : (x \o y)[i] = IF i <= Len(x) THEN x[i] ELSE y[i - Len(x)]
    BY ConcatProperties
  <2> DEFINE A == Seq(Written)
  <2>2. oa \in Seq(A) /\ ob \in Seq(A)
    BY <1>1, <1>2
  <2> HIDE DEF A
  <2>3. /\ c \in Seq(A) /\ Len(c) = Len(oa) + Len(ob)
        /\ \A i \in 1 .. Len(oa) + Len(ob) : c[i] = IF i <= Len(oa) THEN oa[i] ELSE ob[i - Len(oa)]
    BY <2>1, <2>2
  <2> QED
    BY <2>3 DEF A
<1>5. Len(a) \in Nat /\ Len(b) \in Nat
  OBVIOUS
<1> HIDE DEF ab, c
<1>6. ASSUME NEW k \in 1 .. Len(ab)
      PROVE  c[k] = Own(ab[k].text)
  <2>1. CASE k <= Len(a)
    <3>1. k \in 1 .. Len(a) /\ k \in 1 .. Len(a) + Len(b)
      BY <1>3, <1>5, <2>1
    <3>2. ab[k] = a[k] /\ c[k] = oa[k]
      BY <1>1, <1>2, <1>3, <1>4, <2>1, <3>1
    <3> QED
      BY <1>1, <3>1, <3>2
  <2>2. CASE ~ (k <= Len(a))
    <3>1. k - Len(a) \in 1 .. Len(b) /\ k \in 1 .. Len(a) + Len(b)
      BY <1>3, <1>5, <2>2
    <3>2. ab[k] = b[k - Len(a)] /\ c[k] = ob[k - Len(a)]
      BY <1>1, <1>2, <1>3, <1>4, <2>2, <3>1
    <3> QED
      BY <1>2, <3>1, <3>2
  <2> QED
    BY <2>1, <2>2
<1>7. OwnTexts(ab) = c
  BY <1>1, <1>2, <1>3, <1>4, <1>6, OwnTextsEqual
<1> QED
  BY <1>7 DEF ab, c, oa, ob

LEMMA FewParagraphs ==
  ASSUME NEW T, NEW lead, NEW p, T \subseteq {lead, Ellipsis, p}
  PROVE  Cardinality(T \ {Ellipsis}) <= 2
<1>1. IsFiniteSet({lead}) /\ Cardinality({lead}) = 1
  BY FS_Singleton
<1>2. IsFiniteSet({lead} \cup {p}) /\ Cardinality({lead} \cup {p}) \in {1, 2}
  BY <1>1, FS_AddElement
<1>3. T \ {Ellipsis} \subseteq {lead} \cup {p}
  OBVIOUS
<1>4. Cardinality(T \ {Ellipsis}) <= Cardinality({lead} \cup {p}) /\ Cardinality(T \ {Ellipsis}) \in Nat
  BY <1>2, <1>3, FS_Subset, FS_CardinalityType
<1> QED
  BY <1>2, <1>4

LEMMA ChunkIsPassage ==
  ASSUME ChunkMax <= PassageMax, NEW lead \in Written, NEW t \in Chunks(lead)
  PROVE  Passage(t.start, t.list) \in GoodPassages
<1> DEFINE s == Passage(t.start, t.list)
<1>1. t \in Part /\ t.start \in Paragraphs /\ t.list \in Seq(Paragraphs) /\ t.size \in Nat
  BY DEF Chunks, Part
<1>2. s \in RulePassages /\ s.id = t.start.id /\ s.text = t.list
  BY <1>1, PassageType DEF Passage
<1> HIDE DEF s
<1>3. Own(s.text) \in Seq(Written) \ {<<>>} /\ s.id = Own(s.text)[1].id
  BY <1>2 DEF Chunks
<1>4. Size(s.text) <= PassageMax \/ Cardinality(ToSet(s.text) \ {Ellipsis}) <= 2
  <2>1. CASE t.size <= ChunkMax
    <3>1. t.size = Size(t.list)
      BY DEF Chunks
    <3>2. ChunkMax \in Nat /\ PassageMax \in Nat
      BY TutorAssumption
    <3> QED
      BY <1>1, <1>2, <2>1, <3>1, <3>2
  <2>2. CASE \E p \in Written : ToSet(t.list) \subseteq {lead, Ellipsis, p}
    BY <1>2, <2>2, FewParagraphs
  <2>3. t.size <= ChunkMax \/ \E p \in Written : ToSet(t.list) \subseteq {lead, Ellipsis, p}
    BY DEF Chunks
  <2> QED
    BY <2>1, <2>2, <2>3
<1>5. s \in GoodPassages
  BY <1>2, <1>3, <1>4 DEF GoodPassages
<1> QED
  BY <1>5 DEF s

LEMMA PassagesAre ==
  ASSUME ChunkMax <= PassageMax, NEW group \in Seq(Written), group # <<>>
  PROVE  PassagesOf(group) \in Seq(GoodPassages) /\ FlattenSeq(OwnTexts(PassagesOf(group))) = group
<1>1. group \in Seq(Paragraphs) /\ group[1] \in Written /\ group[1] \in Paragraphs
  BY WrittenIsParagraph
<1>2. CASE Size(group) <= PassageMax
  <2> DEFINE s == Passage(group[1], group)
             all == <<s>>
             c == <<group>>
  <2>1. s \in RulePassages /\ s.id = group[1].id /\ s.text = group
    BY <1>1, PassageType DEF Passage
  <2>2. Own(group) = group
    BY OwnOfWhole
  <2> HIDE DEF s
  <2>3. s \in GoodPassages
    BY <1>2, <2>1, <2>2 DEF GoodPassages
  <2>4. all \in Seq(GoodPassages) /\ Len(all) = 1 /\ all[1] = s
    BY <2>3
  <2>5. c \in Seq(Seq(Written)) /\ Len(c) = 1 /\ c[1] = group
    OBVIOUS
  <2>6. FlattenSeq(c) = group
    BY FlattenOne
  <2> HIDE DEF all, c
  <2>7. OwnTexts(all) = c
    <3>1. \A k \in 1 .. Len(all) : c[k] = Own(all[k].text)
      BY <2>1, <2>2, <2>4, <2>5
    <3> QED
      BY <2>4, <2>5, <3>1, OwnTextsEqual
  <2>8. PassagesOf(group) = all
    BY <1>2 DEF PassagesOf, all, s
  <2> QED
    BY <2>4, <2>6, <2>7, <2>8
<1>3. CASE ~ (Size(group) <= PassageMax)
  <2> DEFINE lead == group[1]
             parts == Parts(group)
             P(n) == Passage(parts[n].start, parts[n].list)
             all == [n \in 1 .. Len(parts) |-> P(n)]
             o == OwnsOfParts(parts)
  <2>1. parts \in Seq(Chunks(lead)) /\ FlattenSeq(o) = group
    BY PartsAre
  <2>2. PassagesOf(group) = all
    BY <1>3 DEF PassagesOf
  <2> HIDE DEF parts, lead
  <2>3. /\ o \in Seq(Seq(Written)) /\ Len(o) = Len(parts)
        /\ \A k \in 1 .. Len(parts) : o[k] = Own(parts[k].list)
    BY <2>1, OwnsType
  <2>4. \A k \in 1 .. Len(parts) : P(k) \in GoodPassages /\ P(k).text = parts[k].list
    <3>1. ASSUME NEW k \in 1 .. Len(parts)
          PROVE  P(k) \in GoodPassages /\ P(k).text = parts[k].list
      <4>1. parts[k] \in Chunks(lead) /\ lead \in Written
        BY <1>1, <2>1 DEF lead
      <4>2. Passage(parts[k].start, parts[k].list) \in GoodPassages
        BY <4>1, ChunkIsPassage
      <4> QED
        BY <4>2 DEF Passage
    <3> QED
      BY <3>1
  <2>5. Len(parts) \in Nat
    BY <2>1
  <2> HIDE DEF P, o
  <2>6. all \in Seq(GoodPassages) /\ Len(all) = Len(parts) /\ \A k \in 1 .. Len(parts) : all[k] = P(k)
    BY <2>4, <2>5
  <2> HIDE DEF all
  <2>7. OwnTexts(all) = o
    <3>1. \A k \in 1 .. Len(all) : o[k] = Own(all[k].text)
      BY <2>3, <2>4, <2>6
    <3> QED
      BY <2>3, <2>6, <3>1, OwnTextsEqual
  <2> QED
    BY <2>1, <2>2, <2>6, <2>7
<1> QED
  BY <1>2, <1>3

LEMMA GroupsGrow ==
  ASSUME NEW groups \in Seq(Seq(Written) \ {<<>>}), NEW p \in Written
  PROVE  /\ PutIntoGroups(groups, p) \in Seq(Seq(Written) \ {<<>>})
         /\ FlattenSeq(PutIntoGroups(groups, p)) = Append(FlattenSeq(groups), p)
<1> DEFINE A == Seq(Written) \ {<<>>}
           last == groups[Len(groups)]
           grown == Append(last, p)
           one == <<p>>
<1>1. groups \in Seq(Seq(Written))
  <2>1. A \subseteq Seq(Written)
    OBVIOUS
  <2>2. groups \in Seq(A)
    OBVIOUS
  <2> HIDE DEF A
  <2> QED
    BY <2>1, <2>2, SeqMonotonic
<1>2. CASE groups # <<>> /\ last[1].clause = p.clause
  <2>1. PutIntoGroups(groups, p) = [groups EXCEPT ![Len(groups)] = grown]
    BY <1>2 DEF PutIntoGroups
  <2>2. Len(groups) \in 1 .. Len(groups) /\ last \in A
    BY <1>2
  <2>3. grown \in A
    BY <2>2
  <2>4. FlattenSeq([groups EXCEPT ![Len(groups)] = grown]) = Append(FlattenSeq(groups), p)
    BY <1>1, <1>2, FlattenGrows
  <2>5. [groups EXCEPT ![Len(groups)] = grown] \in Seq(A)
    <3>1. groups \in Seq(A)
      OBVIOUS
    <3> HIDE DEF A, grown
    <3> QED
      BY <2>2, <2>3, <3>1
  <2> QED
    BY <2>1, <2>4, <2>5
<1>3. CASE ~ (groups # <<>> /\ last[1].clause = p.clause)
  <2>1. PutIntoGroups(groups, p) = Append(groups, one)
    BY <1>3 DEF PutIntoGroups
  <2>2. one \in A /\ one \in Seq(Written)
    OBVIOUS
  <2>3. Append(groups, one) \in Seq(A)
    <3>1. groups \in Seq(A)
      OBVIOUS
    <3> HIDE DEF A, one
    <3> QED
      BY <2>2, <3>1
  <2>4. FlattenSeq(Append(groups, one)) = FlattenSeq(groups) \o one
    <3> HIDE DEF one
    <3> QED
      BY <1>1, <2>2, FlattenAppends
  <2>5. FlattenSeq(groups) \o one = Append(FlattenSeq(groups), p)
    <3>1. FlattenSeq(groups) \in Seq(Written)
      BY <1>1, FlattenType
    <3> DEFINE F == FlattenSeq(groups)
    <3> HIDE DEF F
    <3> QED
      BY <3>1 DEF F
  <2> QED
    BY <2>1, <2>3, <2>4, <2>5
<1> QED
  BY <1>2, <1>3

LEMMA ClausesAre ==
  ASSUME NEW list \in Seq(Written)
  PROVE  Clauses(list) \in Seq(Seq(Written) \ {<<>>}) /\ FlattenSeq(Clauses(list)) = list
<1> DEFINE n == Len(list)
           A == Seq(Written) \ {<<>>}
<1>1. n \in Nat /\ (\A i \in 1 .. n : list[i] \in Written) /\ list \in Seq(Paragraphs)
  BY WrittenIsParagraph
<1>2. PICK f : /\ f[0] = <<>> /\ \A i \in 1 .. n : f[i] = PutIntoGroups(f[i - 1], list[i])
               /\ Clauses(list) = f[n]
  BY <1>1, ClausesUnfold, Zenon
<1> DEFINE T == {i \in 0 .. n : f[i] \in Seq(A) /\ FlattenSeq(f[i]) = SubSeq(list, 1, i)}
<1> HIDE DEF n
<1>3. 0 \in T
  <2>1. f[0] \in Seq(A)
    BY <1>2
  <2>2. SubSeq(list, 1, 0) = <<>>
    BY SubSeqEmpty
  <2>3. FlattenSeq(f[0]) = f[0]
    <3>1. Len(f[0]) = 0
      BY <1>2
    <3> QED
      BY <3>1 DEF FlattenSeq
  <2>4. FlattenSeq(f[0]) = SubSeq(list, 1, 0)
    BY <1>2, <2>2, <2>3, Zenon
  <2>5. 0 \in 0 .. n
    BY <1>1
  <2> QED
    BY <2>1, <2>4, <2>5, Zenon
<1>4. ASSUME NEW i \in 1 .. n, i - 1 \in T
      PROVE  i \in T
  <2> DEFINE g == f[i - 1]
             p == list[i]
  <2>1. g \in Seq(A) /\ FlattenSeq(g) = SubSeq(list, 1, i - 1)
    BY <1>4
  <2>2. p \in Written /\ f[i] = PutIntoGroups(g, p)
    BY <1>1, <1>2
  <2>3. SubSeq(list, 1, i) = Append(SubSeq(list, 1, i - 1), p)
    <3>1. 1 \in 1 .. Len(list) /\ i \in 1 .. Len(list)
      BY <1>1 DEF n
    <3>2. SubSeq(list, 1, i) = SubSeq(list, 1, i - 1) \o <<list[i]>>
      BY <3>1, SubSeqRecursiveSecond
    <3>3. SubSeq(list, 1, i - 1) \in Seq(Written)
      BY <1>1, <3>1
    <3> DEFINE s == SubSeq(list, 1, i - 1)
    <3> HIDE DEF s, p
    <3>4. s \o <<p>> = Append(s, p)
      BY <2>2, <3>3 DEF s
    <3> QED
      BY <3>2, <3>4 DEF s, p
  <2> HIDE DEF g, p
  <2>4. f[i] \in Seq(A) /\ FlattenSeq(f[i]) = Append(FlattenSeq(g), p)
    BY <2>1, <2>2, GroupsGrow
  <2>5. i \in 0 .. n
    BY <1>1
  <2> HIDE DEF A
  <2> QED
    BY <2>1, <2>3, <2>4, <2>5
<1>5. 0 .. n \subseteq T
  <2> HIDE DEF T
  <2> QED
    BY <1>1, <1>3, <1>4, Stepwise
<1>6. f[n] \in Seq(A) /\ FlattenSeq(f[n]) = SubSeq(list, 1, n)
  <2>1. n \in 0 .. n
    BY <1>1
  <2> HIDE DEF A
  <2> QED
    BY <1>5, <2>1
<1>7. SubSeq(list, 1, n) = list
  BY SubSeqFull DEF n
<1> QED
  BY <1>2, <1>6, <1>7

LEMMA LegalPassagesAre ==
  ASSUME ChunkMax <= PassageMax, NEW list \in Seq(Written)
  PROVE  LegalPassages(list) \in Seq(GoodPassages) /\ FlattenSeq(OwnTexts(LegalPassages(list))) = list
<1> DEFINE groups == Clauses(list)
           P(i) == PassagesOf(groups[i])
           cut == [i \in 1 .. Len(groups) |-> P(i)]
           n == Len(groups)
<1>1. groups \in Seq(Seq(Written) \ {<<>>}) /\ FlattenSeq(groups) = list
  BY ClausesAre
<1>2. LegalPassages(list) = FlattenSeq(cut)
  BY DEF LegalPassages
<1> HIDE DEF groups
<1>3. n \in Nat /\ \A i \in 1 .. n : groups[i] \in Seq(Written) /\ groups[i] # <<>>
  BY <1>1
<1>4. \A i \in 1 .. n : P(i) \in Seq(GoodPassages) /\ FlattenSeq(OwnTexts(P(i))) = groups[i]
  BY <1>3, PassagesAre
<1>5. groups \in Seq(Seq(Written))
  <2> DEFINE A == Seq(Written) \ {<<>>}
  <2>1. A \subseteq Seq(Written) /\ groups \in Seq(A)
    BY <1>1
  <2> HIDE DEF A
  <2> QED
    BY <2>1, SeqMonotonic
<1> HIDE DEF P
<1>6. cut \in Seq(Seq(GoodPassages)) /\ Len(cut) = n /\ \A i \in 1 .. n : cut[i] = P(i)
  <2> DEFINE G == Seq(GoodPassages)
  <2>1. \A i \in 1 .. n : P(i) \in G
    BY <1>4
  <2> HIDE DEF G
  <2>2. cut \in Seq(G) /\ Len(cut) = n /\ \A i \in 1 .. n : cut[i] = P(i)
    BY <1>3, <2>1
  <2> QED
    BY <2>2 DEF G
<1> HIDE DEF cut
<1>7. PICK f \in [0 .. n -> Seq(GoodPassages)] :
             /\ f[0] = <<>> /\ \A i \in 1 .. n : f[i] = f[i - 1] \o cut[i]
             /\ FlattenSeq(cut) = f[n]
  <2>1. cut \in Seq(Seq(GoodPassages)) /\ Len(cut) = n
    BY <1>6
  <2>2. \E f \in [0 .. Len(cut) -> Seq(GoodPassages)] :
          /\ f[0] = <<>> /\ \A i \in 1 .. Len(cut) : f[i] = f[i - 1] \o cut[i]
          /\ FlattenSeq(cut) = f[Len(cut)]
    BY <2>1, FlattenUnfold, Zenon
  <2> QED
    BY <2>1, <2>2, Zenon
<1>8. PICK g \in [0 .. n -> Seq(Written)] :
             /\ g[0] = <<>> /\ \A i \in 1 .. n : g[i] = g[i - 1] \o groups[i]
             /\ FlattenSeq(groups) = g[n]
  BY <1>5, FlattenUnfold, Zenon
<1> HIDE DEF n
<1> DEFINE T == {i \in 0 .. n : FlattenSeq(OwnTexts(f[i])) = g[i]}
<1>9. 0 \in T
  <2> DEFINE none == <<>>
  <2>1. none \in Seq(GoodPassages) /\ none \in Seq(Seq(Written)) /\ Len(none) = 0
    OBVIOUS
  <2>2. FlattenSeq(none) = none
    BY <2>1 DEF FlattenSeq
  <2>3. f[0] = none /\ g[0] = none
    BY <1>7, <1>8
  <2> HIDE DEF none
  <2>4. OwnTexts(none) = none
    <3>1. \A k \in 1 .. Len(none) : none[k] = Own(none[k].text)
      BY <2>1
    <3> QED
      BY <2>1, <3>1, OwnTextsEqual
  <2> QED
    BY <1>3, <2>2, <2>3, <2>4
<1>10. ASSUME NEW i \in 1 .. n, i - 1 \in T
       PROVE  i \in T
  <2> DEFINE a == f[i - 1]
             b == cut[i]
             oa == OwnTexts(a)
             ob == OwnTexts(b)
  <2>1. i - 1 \in 0 .. n /\ i \in 0 .. n
    BY <1>3
  <2>2. a \in Seq(GoodPassages)
    BY <1>7, <2>1
  <2>3. b \in Seq(GoodPassages) /\ FlattenSeq(ob) = groups[i]
    BY <1>4, <1>6
  <2>4. f[i] = a \o b /\ g[i] = g[i - 1] \o groups[i] /\ FlattenSeq(oa) = g[i - 1]
    BY <1>7, <1>8, <1>10
  <2> HIDE DEF a, b
  <2>5. OwnTexts(a \o b) = oa \o ob
    BY <2>2, <2>3, OwnTextsJoin
  <2>6. oa \in Seq(Seq(Written)) /\ ob \in Seq(Seq(Written))
    BY <2>2, <2>3, OwnTextsType
  <2> HIDE DEF oa, ob
  <2>7. FlattenSeq(oa \o ob) = FlattenSeq(oa) \o FlattenSeq(ob)
    BY <2>6, FlattenJoins
  <2>8. FlattenSeq(OwnTexts(f[i])) = g[i]
    BY <2>3, <2>4, <2>5, <2>7
  <2> QED
    BY <2>1, <2>8
<1>11. 0 .. n \subseteq T
  <2> HIDE DEF T
  <2> QED
    BY <1>3, <1>9, <1>10, Stepwise
<1>12. FlattenSeq(OwnTexts(f[n])) = g[n] /\ f[n] \in Seq(GoodPassages)
  <2>1. n \in 0 .. n
    BY <1>3
  <2> QED
    BY <1>7, <1>11, <2>1
<1> QED
  BY <1>1, <1>2, <1>7, <1>8, <1>12

(* A document's paragraphs, as UNIQUE (document, source_element_id) keeps  *)
(* them: each has an id, and no two have one.                              *)
LawTexts ==
  {list \in Seq(Written) : \A i, k \in DOMAIN list : i # k => list[i].id # list[k].id}

(* LegalPassages, for any text of law, however long its clauses and its    *)
(* paragraphs are: every paragraph is in one passage, and in its order,    *)
(* but for the leads; no two passages have one id; and none is longer than *)
(* rulePassageMaxRunes but a lead with one paragraph.  The code's          *)
(* ruleChunkRunes is the smaller of its limits.                            *)
THEOREM LawIsCovered ==
  ASSUME ChunkMax <= PassageMax
  PROVE  \A list \in LawTexts : CoversTheLaw(list)
<1> SUFFICES ASSUME NEW list \in LawTexts
             PROVE  CoversTheLaw(list)
  OBVIOUS
<1> DEFINE passages == LegalPassages(list)
           o == OwnTexts(passages)
<1>1. /\ list \in Seq(Written) /\ DOMAIN list = 1 .. Len(list)
      /\ \A i, k \in DOMAIN list : i # k => list[i].id # list[k].id
  BY DEF LawTexts
<1>2. passages \in Seq(GoodPassages) /\ FlattenSeq(o) = list
  BY <1>1, LegalPassagesAre
<1>3. CoversTheLaw(list) <=>
        /\ FlattenSeq(o) = list
        /\ \A i, k \in DOMAIN passages : i # k => passages[i].id # passages[k].id
        /\ \A i \in DOMAIN passages :
             Size(passages[i].text) <= PassageMax \/ Cardinality(ToSet(passages[i].text) \ {Ellipsis}) <= 2
  BY DEF CoversTheLaw, OwnTexts, Own
<1> HIDE DEF passages
<1>4. DOMAIN passages = 1 .. Len(passages) /\ Len(passages) \in Nat
  BY <1>2
<1>5. /\ o \in Seq(Seq(Written)) /\ Len(o) = Len(passages)
      /\ \A k \in 1 .. Len(passages) : o[k] = Own(passages[k].text) /\ o[k] # <<>>
  BY <1>2, OwnTextsType
<1> HIDE DEF o
<1>6. \A k \in 1 .. Len(passages) : passages[k] \in GoodPassages
  BY <1>2
<1>7. \A k \in 1 .. Len(passages) : passages[k].id = o[k][1].id
  BY <1>5, <1>6 DEF GoodPassages
<1>8. ASSUME NEW i \in 1 .. Len(passages), NEW k \in 1 .. Len(passages), i < k
      PROVE  passages[i].id # passages[k].id
  <2>1. PICK a, b \in 1 .. Len(FlattenSeq(o)) :
               a < b /\ FlattenSeq(o)[a] = o[i][1] /\ FlattenSeq(o)[b] = o[k][1]
    BY <1>5, <1>8, FlattenParts
  <2>2. a \in DOMAIN list /\ b \in DOMAIN list /\ a # b /\ list[a] = o[i][1] /\ list[b] = o[k][1]
    BY <1>1, <1>2, <2>1
  <2> QED
    BY <1>1, <1>7, <2>2
<1>9. \A i, k \in DOMAIN passages : i # k => passages[i].id # passages[k].id
  <2>1. ASSUME NEW i \in DOMAIN passages, NEW k \in DOMAIN passages, i # k
        PROVE  passages[i].id # passages[k].id
    <3>1. i \in 1 .. Len(passages) /\ k \in 1 .. Len(passages) /\ (i < k \/ k < i)
      BY <1>4, <2>1
    <3> QED
      BY <1>8, <3>1
  <2> QED
    BY <2>1
<1>10. \A i \in DOMAIN passages :
         Size(passages[i].text) <= PassageMax \/ Cardinality(ToSet(passages[i].text) \ {Ellipsis}) <= 2
  BY <1>4, <1>6 DEF GoodPassages
<1> QED
  BY <1>2, <1>3, <1>9, <1>10

-----------------------------------------------------------------------------
(***************************************************************************)
(* Indexes.                                                                *)
(***************************************************************************)
OneText(S) == \A p, q \in S : p.text = q.text => p = q

(* An index has the passages with a text, one of each. *)
LEMMA IndexHolds ==
  ASSUME NEW S, NEW list \in Seq(S)
  PROVE  /\ NewTutorIndex(list) \subseteq {p \in S : HasText(p)}
         /\ IsFiniteSet(NewTutorIndex(list)) /\ OneText(NewTutorIndex(list))
         /\ \A p \in NewTutorIndex(list) : \E i \in DOMAIN list : p = list[i]
<1> DEFINE I == {n \in DOMAIN list : HasText(list[n]) /\ ~ Repeats(list, n)}
<1>1. I \subseteq 1 .. Len(list) /\ \A n \in I : list[n] \in S
  OBVIOUS
<1>2. IsFiniteSet(I)
  <2>1. IsFiniteSet(1 .. Len(list))
    BY FS_Interval
  <2> HIDE DEF I
  <2> QED
    BY <1>1, <2>1, FS_Subset
<1>3. NewTutorIndex(list) = {list[n] : n \in I}
  BY DEF NewTutorIndex
<1>4. IsFiniteSet({list[n] : n \in I})
  <2> DEFINE f == [n \in I |-> list[n]]
  <2>1. f \in Surjection(I, {list[n] : n \in I})
    BY DEF Surjection
  <2> HIDE DEF I, f
  <2> QED
    BY <1>2, <2>1, FS_Surjection
<1>5. ASSUME NEW m \in I, NEW n \in I, list[m].text = list[n].text
      PROVE  list[m] = list[n]
  <2>1. m \in Nat /\ n \in Nat /\ m >= 1 /\ n >= 1
    OBVIOUS
  <2>2. ~ (m < n)
    BY <1>5, <2>1 DEF Repeats
  <2>3. ~ (n < m)
    BY <1>5, <2>1 DEF Repeats
  <2> QED
    BY <2>1, <2>2, <2>3
<1>6. OneText({list[n] : n \in I})
  BY <1>5 DEF OneText
<1>7. {list[n] : n \in I} \subseteq {p \in S : HasText(p)}
  BY <1>1
<1> QED
  BY <1>3, <1>4, <1>6, <1>7

-----------------------------------------------------------------------------
CallPlaces  == {"client", "corpus", "pages", "law", "gather", "model", "replied"}
Corpora == [edition: Nat, rules: SUBSET RulePassages, questions: SUBSET Explained]
Sources == [passage: RulePassages \cup Explained, age: 0 .. CorpusTTL + 1]
Asks    == [about: 0 .. LastExplained, pages: Seq(QuestionPages), corpus: Corpora,
            failed: BOOLEAN, sources: Seq(Sources)]

IsCorpus(c) ==
  /\ c \in Corpora
  /\ IsFiniteSet(c.rules) /\ OneText(c.rules)
  /\ IsFiniteSet(c.questions) /\ OneText(c.questions)

(* No text that a corpus holds has been unofficial for more than n steps.  *)
Young(c, n) == gone[RuleFact(c.edition)] <= n /\ \A q \in c.questions : gone[q] <= n

StillNew(pages) == \A i \in DOMAIN pages : HasText(pages[i]) => gone[pages[i]] = 0

AgesFit(m) == m.failed \/ \A i \in DOMAIN m.sources : m.sources[i].age <= CorpusTTL

(* No explanation is the text of a passage of law. *)
NoneIsLaw == \A x \in Explanations : x \notin Seq(Paragraphs)

Differ(m) ==
  NoneIsLaw => \A i, k \in DOMAIN m.sources :
    i < k /\ m.sources[i].passage.text = m.sources[k].passage.text => i = 1 /\ m.about # 0

(* What a call holds, by its place. *)
Fits(place, m) ==
  /\ m \in Asks /\ IsCorpus(m.corpus)
  /\ place = "corpus" => m.pages = <<>>
  /\ place = "pages" => Len(m.pages) < LastExplained
  /\ place \in {"pages", "law"} => StillNew(m.pages)
  /\ place = "gather" => m.corpus.edition \in DOMAIN Editions
                         /\ (m.failed \/ Young(m.corpus, CorpusTTL))
  /\ place # "model" => m.sources = <<>>
  /\ AgesFit(m) /\ Differ(m)

Texts ==
  /\ edition \in DOMAIN Editions
  /\ explained \in [1 .. LastExplained -> Explanations \cup {NoExplanation}]
  /\ gone \in [Facts -> 0 .. CorpusTTL + 1] /\ edits \in 0 .. MaxEdits
  /\ \A f \in Facts : IsOfficial(f) => gone[f] = 0

Cached ==
  /\ freshFor \in 0 .. CorpusTTL /\ IsCorpus(corp)
  /\ corp # NoCorpus => corp.edition \in DOMAIN Editions
  /\ freshFor > 0 => corp # NoCorpus /\ Young(corp, CorpusTTL - freshFor)

Locked == \A a \in Askers : asking[a] \in {"pages", "law"} <=> lock = a

Called ==
  /\ asking \in [Askers -> CallPlaces] /\ ask \in [Askers -> Asks]
  /\ \A a \in Askers : Fits(asking[a], ask[a])

Replies == [oldest: 0 .. CorpusTTL + 1, failed: BOOLEAN]
Answered ==
  /\ reply \in [Askers -> Replies]
  /\ \A a \in Askers : reply[a].failed \/ reply[a].oldest <= CorpusTTL

TutorInv == Texts /\ Cached /\ Locked /\ Called /\ Answered

(***************************************************************************)
(* The world.                                                              *)
(***************************************************************************)
LEMMA Constants ==
  /\ DOMAIN Editions = 1 .. Len(Editions) /\ Len(Editions) \in Nat /\ 1 \in DOMAIN Editions
  /\ \A e \in DOMAIN Editions : Editions[e] \in Seq(Paragraphs)
  /\ CorpusTTL \in Nat /\ LastExplained \in Nat \ {0} /\ MaxEdits \in Nat
<1>1. Editions \in Seq(Seq(Paragraphs)) /\ Editions # <<>>
  BY TutorAssumption
<1>2. Len(Editions) # 0
  BY <1>1
<1>3. CorpusTTL \in Nat /\ LastExplained \in Nat \ {0} /\ MaxEdits \in Nat
  BY TutorAssumption
<1> QED
  BY <1>1, <1>2, <1>3

LEMMA FactsAre ==
  /\ \A e \in DOMAIN Editions : RuleFact(e) \in Facts
  /\ Explained \subseteq Facts
  /\ \A f \in Facts : \/ f.kind = "rule" /\ f.text \in DOMAIN Editions /\ f = RuleFact(f.text)
                      \/ f.kind = "question" /\ f \in Explained
BY DEF Facts, RuleFact, Explained

LEMMA YoungStays ==
  ASSUME NEW c, IsCorpus(c), c.edition \in DOMAIN Editions, NEW n \in Nat, Young(c, n),
         Texts, gone' \in [Facts -> 0 .. CorpusTTL + 1], \A f \in Facts : gone'[f] <= gone[f]
  PROVE  Young(c, n)'
<1>1. RuleFact(c.edition) \in Facts /\ \A q \in c.questions : q \in Facts
  BY FactsAre DEF IsCorpus, Corpora
<1>2. \A f \in Facts : gone[f] \in Nat /\ gone'[f] \in Nat
  BY Constants DEF Texts
<1>3. ASSUME NEW f \in Facts, gone[f] <= n
      PROVE  gone'[f] <= n
  BY <1>2, <1>3
<1> QED
  BY <1>1, <1>3 DEF Young, RuleFact

LEMMA StillNewStays ==
  ASSUME NEW pages \in Seq(QuestionPages), StillNew(pages),
         Texts, gone' \in [Facts -> 0 .. CorpusTTL + 1], \A f \in Facts : gone'[f] <= gone[f]
  PROVE  StillNew(pages)'
<1>1. ASSUME NEW i \in DOMAIN pages, HasText(pages[i])
      PROVE  gone'[pages[i]] = 0
  <2>1. pages[i] \in QuestionPages
    OBVIOUS
  <2>2. pages[i] \in Facts
    BY <1>1, <2>1, FactsAre DEF QuestionPages, Explained, HasText
  <2>3. gone[pages[i]] = 0
    BY <1>1 DEF StillNew
  <2>4. gone'[pages[i]] \in Nat /\ gone'[pages[i]] <= gone[pages[i]]
    BY <2>2, Constants
  <2> QED
    BY <2>3, <2>4
<1> QED
  BY <1>1 DEF StillNew, HasText

LEMMA FitsStays ==
  ASSUME NEW place, NEW m, Fits(place, m),
         Texts, gone' \in [Facts -> 0 .. CorpusTTL + 1], \A f \in Facts : gone'[f] <= gone[f]
  PROVE  Fits(place, m)'
<1>1. m \in Asks /\ IsCorpus(m.corpus)
  BY DEF Fits
<1>2. m.pages \in Seq(QuestionPages)
  BY <1>1 DEF Asks
<1>3. place \in {"pages", "law"} => StillNew(m.pages)'
  <2>1. CASE place \in {"pages", "law"}
    <3> DEFINE t == m.pages
    <3>1. t \in Seq(QuestionPages) /\ StillNew(t)
      BY <1>2, <2>1 DEF Fits
    <3> HIDE DEF t
    <3>2. StillNew(t)'
      BY <3>1, StillNewStays
    <3> QED
      BY <3>2 DEF t
  <2> QED
    BY <2>1
<1>4. ASSUME place = "gather", ~ m.failed
      PROVE  Young(m.corpus, CorpusTTL)'
  <2> DEFINE c == m.corpus
  <2>1. IsCorpus(c) /\ c.edition \in DOMAIN Editions /\ Young(c, CorpusTTL) /\ CorpusTTL \in Nat
    BY <1>1, <1>4, Constants DEF Fits
  <2> HIDE DEF c
  <2>2. Young(c, CorpusTTL)'
    BY <2>1, YoungStays
  <2> QED
    BY <2>2 DEF c
<1>5. IsCorpus(m.corpus)' /\ AgesFit(m)' /\ Differ(m)'
  BY DEF Fits, IsCorpus, OneText, AgesFit, Differ
<1> QED
  BY <1>3, <1>4, <1>5 DEF Fits

(* A text of law or an explanation is replaced. *)
LEMMA WorldTurns ==
  ASSUME TutorInv, UNCHANGED <<cache, asking, ask, reply>>,
         gone' \in [Facts -> 0 .. CorpusTTL + 1], \A f \in Facts : gone'[f] <= gone[f]
  PROVE  Cached' /\ Locked' /\ Called' /\ Answered'
<1>1. Texts /\ Cached /\ Locked /\ Called /\ Answered
  BY DEF TutorInv
<1>2. corp' = corp /\ freshFor' = freshFor /\ lock' = lock /\ asking' = asking /\ ask' = ask /\ reply' = reply
  BY DEF cache
<1>3. ASSUME NEW a \in Askers
      PROVE  Fits(asking[a], ask[a])'
  <2>1. PICK place, m : place = asking[a] /\ m = ask[a]
    OBVIOUS
  <2>2. Fits(place, m)
    BY <1>1, <2>1 DEF Called
  <2>3. Fits(place, m)'
    BY <1>1, <2>2, FitsStays
  <2>4. place = asking'[a] /\ m = ask'[a]
    BY <1>2, <2>1
  <2> QED
    BY <2>3, <2>4
<1>4. Called'
  BY <1>1, <1>2, <1>3 DEF Called
<1>5. ASSUME freshFor > 0
      PROVE  Young(corp, CorpusTTL - freshFor)'
  <2>1. PICK c, n : c = corp /\ n = CorpusTTL - freshFor
    OBVIOUS
  <2>2. IsCorpus(c) /\ c.edition \in DOMAIN Editions /\ Young(c, n)
    BY <1>1, <1>5, <2>1 DEF Cached
  <2>3. n \in Nat
    BY <1>1, <2>1, Constants DEF Cached
  <2>4. Young(c, n)'
    BY <1>1, <2>2, <2>3, YoungStays
  <2>5. c = corp' /\ n = CorpusTTL - freshFor'
    BY <1>2, <2>1
  <2> QED
    BY <2>4, <2>5
<1>6. Cached'
  <2>1. IsCorpus(corp)'
    BY <1>1, <1>2 DEF Cached, IsCorpus, OneText
  <2> QED
    BY <1>1, <1>2, <1>5, <2>1 DEF Cached
<1> QED
  BY <1>1, <1>2, <1>4, <1>6 DEF Locked, Answered

LEMMA OneIsOfficial ==
  ASSUME Texts, NEW f \in Facts, gone' = [gone EXCEPT ![f] = 0]
  PROVE  /\ gone' \in [Facts -> 0 .. CorpusTTL + 1]
         /\ \A g \in Facts : gone'[g] <= gone[g]
         /\ gone'[f] = 0 /\ \A g \in Facts : g # f => gone'[g] = gone[g]
<1>1. gone \in [Facts -> 0 .. CorpusTTL + 1] /\ CorpusTTL \in Nat
  BY Constants DEF Texts
<1>2. \A g \in Facts : gone'[g] = IF g = f THEN 0 ELSE gone[g]
  BY <1>1
<1>3. \A g \in Facts : gone[g] \in 0 .. CorpusTTL + 1
  BY <1>1
<1>4. gone' \in [Facts -> 0 .. CorpusTTL + 1]
  BY <1>1
<1> QED
  BY <1>1, <1>2, <1>3, <1>4

LEMMA LexImportStep ==
  ASSUME TutorInv, NEW e \in DOMAIN Editions, LexImport(e)
  PROVE  TutorInv'
<1>1. Texts
  BY DEF TutorInv
<1>2. /\ edition' = e /\ gone' = [gone EXCEPT ![RuleFact(e)] = 0] /\ edits' \in 0 .. MaxEdits
      /\ explained' = explained /\ UNCHANGED <<cache, asking, ask, reply>>
  BY <1>1, Constants DEF LexImport, ReplaceDocument, Texts
<1>3. RuleFact(e) \in Facts
  BY FactsAre
<1>4. /\ gone' \in [Facts -> 0 .. CorpusTTL + 1] /\ \A g \in Facts : gone'[g] <= gone[g]
      /\ gone'[RuleFact(e)] = 0 /\ \A g \in Facts : g # RuleFact(e) => gone'[g] = gone[g]
  BY <1>1, <1>2, <1>3, OneIsOfficial
<1>5. ASSUME NEW f \in Facts, IsOfficial(f)'
      PROVE  gone'[f] = 0
  <2>1. CASE f.kind = "rule"
    <3>1. f.text = e
      BY <1>2, <1>5, <2>1 DEF IsOfficial
    <3>2. f = RuleFact(e)
      BY <2>1, <3>1, FactsAre
    <3> QED
      BY <1>4, <3>2
  <2>2. CASE f.kind # "rule"
    <3>1. IsOfficial(f) /\ f # RuleFact(e)
      BY <1>2, <1>5, <2>2 DEF IsOfficial, RuleFact
    <3> QED
      BY <1>1, <1>4, <3>1 DEF Texts
  <2> QED
    BY <2>1, <2>2
<1>6. Texts'
  BY <1>1, <1>2, <1>4, <1>5 DEF Texts
<1>7. Cached' /\ Locked' /\ Called' /\ Answered'
  BY <1>2, <1>4, WorldTurns
<1> QED
  BY <1>6, <1>7 DEF TutorInv

LEMMA ExplainStep ==
  ASSUME TutorInv, NEW q \in 1 .. LastExplained, NEW x \in Explanations, Explain(q, x)
  PROVE  TutorInv'
<1> DEFINE new == [kind |-> "question", id |-> q, text |-> x]
<1>1. Texts
  BY DEF TutorInv
<1>2. /\ edition' = edition /\ gone' = [gone EXCEPT ![new] = 0] /\ edits' \in 0 .. MaxEdits
      /\ explained' = [explained EXCEPT ![q] = x] /\ UNCHANGED <<cache, asking, ask, reply>>
  BY <1>1, Constants DEF Explain, Texts
<1>3. new \in Facts
  BY FactsAre DEF Explained
<1>4. /\ gone' \in [Facts -> 0 .. CorpusTTL + 1] /\ \A g \in Facts : gone'[g] <= gone[g]
      /\ gone'[new] = 0 /\ \A g \in Facts : g # new => gone'[g] = gone[g]
  <2> HIDE DEF new
  <2> QED
    BY <1>1, <1>2, <1>3, OneIsOfficial
<1>5. ASSUME NEW f \in Facts, IsOfficial(f)'
      PROVE  gone'[f] = 0
  <2>1. CASE f = new
    BY <1>4, <2>1
  <2>2. CASE f # new
    <3>1. IsOfficial(f)
      <4>1. CASE f.kind = "rule"
        BY <1>2, <1>5, <4>1 DEF IsOfficial
      <4>2. CASE f.kind # "rule"
        <5>1. f \in Explained /\ f.text = explained'[f.id]
          BY <1>5, <4>2, FactsAre DEF IsOfficial
        <5>2. f.id # q
          <6> SUFFICES ASSUME f.id = q
                       PROVE  f = new
            BY <2>2
          <6>1. f.text = x
            BY <1>1, <1>2, <5>1 DEF Texts
          <6> QED
            BY <5>1, <6>1 DEF Explained
        <5>3. explained'[f.id] = explained[f.id]
          BY <1>1, <1>2, <5>1, <5>2 DEF Texts, Explained
        <5> QED
          BY <4>2, <5>1, <5>3 DEF IsOfficial
      <4> QED
        BY <4>1, <4>2
    <3> QED
      BY <1>1, <1>4, <2>2, <3>1 DEF Texts
  <2> QED
    BY <2>1, <2>2
<1>6. explained' \in [1 .. LastExplained -> Explanations \cup {NoExplanation}]
  BY <1>1, <1>2 DEF Texts
<1>7. Texts'
  BY <1>1, <1>2, <1>4, <1>5, <1>6 DEF Texts
<1>8. Cached' /\ Locked' /\ Called' /\ Answered'
  BY <1>2, <1>4, WorldTurns
<1> QED
  BY <1>7, <1>8 DEF TutorInv

LEMMA TickStep ==
  ASSUME TutorInv, TutorTick
  PROVE  TutorInv'
<1>1. Texts /\ Cached /\ Locked /\ Called /\ Answered
  BY DEF TutorInv
<1>2. /\ \A a \in Askers : asking[a] \notin {"pages", "law", "gather"}
      /\ freshFor' = IF freshFor = 0 THEN 0 ELSE freshFor - 1
      /\ gone' = [f \in Facts |-> IF Ages(f) THEN gone[f] + 1 ELSE gone[f]]
      /\ edition' = edition /\ explained' = explained /\ edits' = edits
      /\ corp' = corp /\ lock' = lock /\ asking' = asking /\ ask' = ask /\ reply' = reply
  BY DEF TutorTick, texts
<1>3. \A f \in Facts : gone[f] \in 0 .. CorpusTTL + 1 /\ CorpusTTL \in Nat
  BY <1>1, Constants DEF Texts
<1>4. gone' \in [Facts -> 0 .. CorpusTTL + 1] /\ \A f \in Facts : gone'[f] <= gone[f] + 1
  <2>1. \A f \in Facts : Ages(f) => gone[f] + 1 \in 0 .. CorpusTTL + 1
    BY <1>3 DEF Ages
  <2> QED
    BY <1>2, <1>3, <2>1
<1>5. \A f \in Facts : IsOfficial(f)' => gone'[f] = 0
  <2>1. \A f \in Facts : IsOfficial(f)' => IsOfficial(f)
    BY <1>2 DEF IsOfficial
  <2> QED
    BY <1>1, <1>2, <2>1 DEF Texts, Ages
<1>6. Texts'
  BY <1>1, <1>2, <1>4, <1>5 DEF Texts
<1>7. Cached'
  <2>1. freshFor' \in 0 .. CorpusTTL
    BY <1>1, <1>2, Constants DEF Cached
  <2>2. IsCorpus(corp)'
    BY <1>1, <1>2 DEF Cached, IsCorpus, OneText
  <2>3. ASSUME freshFor' > 0
        PROVE  corp' # NoCorpus /\ Young(corp, CorpusTTL - freshFor)'
    <3>1. freshFor > 0 /\ freshFor' = freshFor - 1 /\ freshFor \in Nat /\ CorpusTTL \in Nat
      BY <1>1, <1>2, <2>3, Constants DEF Cached
    <3>2. corp # NoCorpus /\ Young(corp, CorpusTTL - freshFor) /\ corp.edition \in DOMAIN Editions
      BY <1>1, <3>1 DEF Cached
    <3>3. RuleFact(corp.edition) \in Facts /\ \A q \in corp.questions : q \in Facts
      BY <1>1, <3>2, FactsAre DEF Cached, IsCorpus, Corpora
    <3>4. ASSUME NEW f \in Facts, gone[f] <= CorpusTTL - freshFor
          PROVE  gone'[f] <= CorpusTTL - freshFor'
      <4>1. gone[f] \in Nat /\ gone'[f] \in Nat /\ gone'[f] <= gone[f] + 1
        BY <1>3, <1>4
      <4> QED
        BY <3>1, <3>4, <4>1
    <3> QED
      BY <1>2, <3>2, <3>3, <3>4 DEF Young, RuleFact
  <2> QED
    BY <1>1, <1>2, <2>1, <2>2, <2>3 DEF Cached
<1>8. Called'
  <2>1. ASSUME NEW a \in Askers
        PROVE  Fits(asking[a], ask[a])'
    <3>1. Fits(asking[a], ask[a]) /\ asking[a] \notin {"pages", "law", "gather"}
      BY <1>1, <1>2 DEF Called
    <3> QED
      BY <1>2, <3>1 DEF Fits, IsCorpus, OneText, AgesFit, Differ
  <2> QED
    BY <1>1, <1>2, <2>1 DEF Called
<1>9. Locked' /\ Answered'
  BY <1>1, <1>2 DEF Locked, Answered
<1> QED
  BY <1>6, <1>7, <1>8, <1>9 DEF TutorInv

(***************************************************************************)
(* The calls.                                                              *)
(***************************************************************************)

LEMMA NoCorpusIsCorpus == IsCorpus(NoCorpus)
<1>1. NoCorpus \in Corpora /\ NoCorpus.rules = {} /\ NoCorpus.questions = {}
  BY DEF NoCorpus, Corpora
<1>2. IsFiniteSet({})
  BY FS_EmptySet
<1> QED
  BY <1>1, <1>2 DEF IsCorpus, OneText

(* A call that has nothing yet, or no more. *)
LEMMA NoAskFits ==
  ASSUME NEW q \in 0 .. LastExplained, NEW place \in {"client", "corpus", "replied"}
  PROVE  Fits(place, [NoAsk EXCEPT !.about = q]) /\ NoAsk = [NoAsk EXCEPT !.about = 0]
<1> DEFINE m == [NoAsk EXCEPT !.about = q]
<1>1. /\ m = [about |-> q, pages |-> <<>>, corpus |-> NoCorpus, failed |-> FALSE, sources |-> <<>>]
      /\ NoAsk = [NoAsk EXCEPT !.about = 0]
  <2>1. PICK n, z, c, no, none : n = NoAsk /\ z = 0 /\ c = NoCorpus /\ no = FALSE /\ none = <<>>
    OBVIOUS
  <2>2. n = [about |-> z, pages |-> none, corpus |-> c, failed |-> no, sources |-> none]
    BY <2>1, Zenon DEF NoAsk
  <2>3. n = [n EXCEPT !.about = z]
    BY <2>2
  <2>4. [n EXCEPT !.about = q] = [about |-> q, pages |-> none, corpus |-> c, failed |-> no, sources |-> none]
    BY <2>2
  <2> QED
    BY <2>1, <2>3, <2>4, Zenon
<1> HIDE DEF m
<1>2. m.pages = <<>> /\ m.corpus = NoCorpus /\ m.sources = <<>>
  BY <1>1
<1>3. IsCorpus(m.corpus)
  BY <1>2, NoCorpusIsCorpus
<1>4. m \in Asks
  BY <1>1, <1>2, <1>3 DEF Asks, IsCorpus
<1>5. AgesFit(m) /\ Differ(m)
  BY <1>2 DEF AgesFit, Differ
<1>6. Fits(place, m)
  BY <1>2, <1>3, <1>4, <1>5 DEF Fits
<1> QED
  BY <1>1, <1>6 DEF m

(* A call moves. *)
LEMMA CallMoves ==
  ASSUME TutorInv, UNCHANGED <<texts, gone>>, NEW a \in Askers, NEW place \in CallPlaces, NEW m,
         Fits(place, m),
         asking' = [asking EXCEPT ![a] = place], ask' = [ask EXCEPT ![a] = m]
  PROVE  Texts' /\ Called'
<1>1. Texts /\ Called
  BY DEF TutorInv
<1>2. edition' = edition /\ explained' = explained /\ edits' = edits /\ gone' = gone
  BY DEF texts
<1>3. Texts'
  BY <1>1, <1>2 DEF Texts, IsOfficial
<1>4. asking' \in [Askers -> CallPlaces] /\ ask' \in [Askers -> Asks]
  BY <1>1 DEF Called, Fits
<1>5. ASSUME NEW b \in Askers
      PROVE  Fits(asking[b], ask[b])'
  <2>1. PICK p, n : p = asking'[b] /\ n = ask'[b]
    OBVIOUS
  <2>2. Fits(p, n)
    BY <1>1, <2>1 DEF Called
  <2>3. Fits(p, n)'
    BY <1>2, <2>2 DEF Fits, IsCorpus, OneText, StillNew, HasText, Young, RuleFact, AgesFit, Differ
  <2> QED
    BY <2>1, <2>3
<1> QED
  BY <1>3, <1>4, <1>5 DEF Called

LEMMA CacheStays ==
  ASSUME Cached, UNCHANGED <<gone, corp, freshFor>>
  PROVE  Cached'
BY DEF Cached, IsCorpus, OneText, Young, RuleFact

(* The mutex, when nobody gets or gives it up. *)
LEMMA LockStays ==
  ASSUME TutorInv, NEW a \in Askers, NEW place \in CallPlaces,
         asking' = [asking EXCEPT ![a] = place], lock' = lock,
         place \in {"pages", "law"} <=> asking[a] \in {"pages", "law"}
  PROVE  Locked'
BY DEF TutorInv, Called, Locked

LEMMA LockFreed ==
  ASSUME TutorInv, NEW a \in Askers, NEW place \in CallPlaces, asking[a] \in {"pages", "law"},
         asking' = [asking EXCEPT ![a] = place], lock' = "nobody",
         place \notin {"pages", "law"}
  PROVE  Locked'
BY TutorAssumption DEF TutorInv, Called, Locked

(* What a call that gives no answer leaves. *)
LEMMA NoAnswerStep ==
  ASSUME TutorInv, UNCHANGED <<texts, gone>>, NEW a \in Askers, NoAnswer(a)
  PROVE  Texts' /\ Called' /\ Answered'
<1>1. asking' = [asking EXCEPT ![a] = "replied"] /\ ask' = [ask EXCEPT ![a] = NoAsk] /\ reply' = reply
  BY DEF NoAnswer, Leave
<1>2. Fits("replied", NoAsk)
  <2>1. 0 \in 0 .. LastExplained
    BY Constants
  <2>2. PICK m : m = [NoAsk EXCEPT !.about = 0]
    OBVIOUS
  <2>3. Fits("replied", m) /\ NoAsk = m
    BY <2>1, <2>2, NoAskFits
  <2> QED
    BY <2>3
<1>3. Texts' /\ Called'
  BY <1>1, <1>2, CallMoves DEF CallPlaces
<1> QED
  BY <1>1, <1>3 DEF TutorInv, Answered

LEMMA AskStep ==
  ASSUME TutorInv, NEW a \in Askers, Ask(a)
  PROVE  TutorInv'
<1>1. /\ asking[a] = "client" /\ UNCHANGED <<texts, gone, corp, freshFor>> /\ lock' = lock
      /\ \/ \E q \in 0 .. LastExplained : Turn(a, "corpus", [NoAsk EXCEPT !.about = q])
         \/ NoAnswer(a)
  BY DEF Ask, cache
<1>2. Cached'
  BY <1>1, CacheStays DEF TutorInv
<1>3. CASE NoAnswer(a)
  <2>1. Texts' /\ Called' /\ Answered'
    BY <1>1, <1>3, NoAnswerStep
  <2>2. Locked'
    BY <1>1, <1>3, LockStays DEF NoAnswer, Leave, CallPlaces
  <2> QED
    BY <1>2, <2>1, <2>2 DEF TutorInv
<1>4. ASSUME NEW q \in 0 .. LastExplained, Turn(a, "corpus", [NoAsk EXCEPT !.about = q])
      PROVE  TutorInv'
  <2>1. PICK m : m = [NoAsk EXCEPT !.about = q]
    OBVIOUS
  <2>2. Fits("corpus", m)
    BY <2>1, NoAskFits
  <2>3. asking' = [asking EXCEPT ![a] = "corpus"] /\ ask' = [ask EXCEPT ![a] = m] /\ reply' = reply
    BY <1>4, <2>1 DEF Turn
  <2>4. Texts' /\ Called'
    BY <1>1, <2>2, <2>3, CallMoves DEF CallPlaces
  <2>5. Locked'
    BY <1>1, <2>3, LockStays DEF CallPlaces
  <2> QED
    BY <1>2, <2>3, <2>4, <2>5 DEF TutorInv, Answered
<1> QED
  BY <1>1, <1>3, <1>4

LEMMA TakeFits ==
  ASSUME NEW p, NEW m, Fits(p, m), p # "model", NEW c, IsCorpus(c), c.edition \in DOMAIN Editions,
         NEW failed \in BOOLEAN, failed \/ Young(c, CorpusTTL)
  PROVE  Fits("gather", [m EXCEPT !.pages = <<>>, !.corpus = c, !.failed = failed])
<1> DEFINE n == [m EXCEPT !.pages = <<>>, !.corpus = c, !.failed = failed]
<1>1. m \in Asks /\ m.sources = <<>>
  BY DEF Fits
<1>2. n = [about |-> m.about, pages |-> <<>>, corpus |-> c, failed |-> failed, sources |-> <<>>]
  <2>1. PICK k : k = [m EXCEPT !.pages = <<>>]
    OBVIOUS
  <2>2. PICK l : l = [k EXCEPT !.corpus = c]
    OBVIOUS
  <2>3. n = [l EXCEPT !.failed = failed]
    BY <2>1, <2>2, Zenon
  <2>4. k = [about |-> m.about, pages |-> <<>>, corpus |-> m.corpus, failed |-> m.failed, sources |-> <<>>]
    BY <1>1, <2>1 DEF Asks
  <2>5. l = [about |-> m.about, pages |-> <<>>, corpus |-> c, failed |-> m.failed, sources |-> <<>>]
    BY <2>2, <2>4
  <2> HIDE DEF n
  <2> QED
    BY <2>3, <2>5
<1> HIDE DEF n
<1>3. n.pages = <<>> /\ n.corpus = c /\ n.failed = failed /\ n.sources = <<>>
  BY <1>2
<1>4. n \in Asks
  BY <1>1, <1>2 DEF Asks, IsCorpus
<1>5. AgesFit(n) /\ Differ(n)
  BY <1>3 DEF AgesFit, Differ
<1>6. Fits("gather", n)
  BY <1>3, <1>4, <1>5 DEF Fits
<1> QED
  BY <1>6 DEF n

LEMMA TakeCorpusStep ==
  ASSUME TutorInv, NEW a \in Askers, TakeCorpus(a)
  PROVE  TutorInv'
<1>0. Texts /\ Cached /\ Locked /\ Called /\ Answered
  BY DEF TutorInv
<1>1. asking[a] = "corpus" /\ lock = "nobody" /\ UNCHANGED <<texts, gone, corp, freshFor>>
  BY DEF TakeCorpus
<1>2. Cached'
  BY <1>0, <1>1, CacheStays
<1>3. PICK m : m = ask[a]
  OBVIOUS
<1>4. Fits("corpus", m)
  BY <1>0, <1>1, <1>3 DEF Called
<1>5. CASE UsableCorpus /\ Take(a, corp, FALSE) /\ UNCHANGED lock
  <2>1. PICK c, n : c = corp /\ n = CorpusTTL - freshFor
    OBVIOUS
  <2>2. IsCorpus(c) /\ c.edition \in DOMAIN Editions /\ Young(c, n)
    BY <1>0, <1>5, <2>1 DEF Cached, UsableCorpus
  <2>3. n <= CorpusTTL /\ n \in Nat /\ CorpusTTL \in Nat
    BY <1>0, <2>1, Constants DEF Cached
  <2>4. RuleFact(c.edition) \in Facts /\ \A q \in c.questions : q \in Facts
    BY <2>2, FactsAre DEF IsCorpus, Corpora
  <2>5. \A f \in Facts : gone[f] <= n => gone[f] <= CorpusTTL
    BY <1>0, <2>3 DEF Texts
  <2>6. Young(c, CorpusTTL)
    BY <2>2, <2>4, <2>5 DEF Young
  <2>7. PICK k : k = [m EXCEPT !.pages = <<>>, !.corpus = c, !.failed = FALSE]
    OBVIOUS
  <2>8. Fits("gather", k)
    BY <1>4, <2>2, <2>6, <2>7, TakeFits
  <2>9. asking' = [asking EXCEPT ![a] = "gather"] /\ ask' = [ask EXCEPT ![a] = k] /\ reply' = reply
    BY <1>3, <1>5, <2>1, <2>7 DEF Take, Turn
  <2>10. Texts' /\ Called'
    BY <1>1, <2>8, <2>9, CallMoves DEF CallPlaces
  <2>11. Locked'
    BY <1>1, <1>5, <2>9, LockStays DEF CallPlaces
  <2> QED
    BY <1>0, <1>2, <2>9, <2>10, <2>11 DEF TutorInv, Answered
<1>6. CASE Turn(a, "pages", ask[a]) /\ lock' = a
  <2>1. m.pages = <<>> /\ m.sources = <<>>
    BY <1>4 DEF Fits
  <2>2. Len(m.pages) < LastExplained /\ StillNew(m.pages)
    BY <2>1, Constants DEF StillNew
  <2>3. Fits("pages", m)
    BY <1>4, <2>1, <2>2 DEF Fits
  <2>4. asking' = [asking EXCEPT ![a] = "pages"] /\ ask' = [ask EXCEPT ![a] = m] /\ reply' = reply
    BY <1>3, <1>6 DEF Turn
  <2>5. Texts' /\ Called'
    BY <1>1, <2>3, <2>4, CallMoves DEF CallPlaces
  <2>6. Locked'
    BY <1>0, <1>1, <1>6, <2>4, TutorAssumption DEF Locked, Called
  <2> QED
    BY <1>0, <1>2, <2>4, <2>5, <2>6 DEF TutorInv, Answered
<1> QED
  BY <1>5, <1>6 DEF TakeCorpus

LEMMA QuestionPassagesStep ==
  ASSUME TutorInv, NEW a \in Askers, QuestionPassages(a)
  PROVE  TutorInv'
<1>0. Texts /\ Cached /\ Locked /\ Called /\ Answered
  BY DEF TutorInv
<1>1. PICK m : m = ask[a]
  OBVIOUS
<1>2. PICK read : read = Append(m.pages, PassageFromQuestion(Len(m.pages) + 1))
  OBVIOUS
<1>3. PICK k : k = [m EXCEPT !.pages = read]
  OBVIOUS
<1>4. PICK place : place = IF Len(read) = LastExplained THEN "law" ELSE "pages"
  OBVIOUS
<1>5. /\ asking[a] = "pages" /\ UNCHANGED <<texts, gone, corp, freshFor>> /\ lock' = lock /\ reply' = reply
      /\ asking' = [asking EXCEPT ![a] = place] /\ ask' = [ask EXCEPT ![a] = k]
  BY <1>1, <1>2, <1>3, <1>4 DEF QuestionPassages, Turn, cache
<1>6. Fits("pages", m)
  BY <1>0, <1>1, <1>5 DEF Called
<1>7. /\ m \in Asks /\ m.pages \in Seq(QuestionPages) /\ Len(m.pages) < LastExplained /\ StillNew(m.pages)
      /\ m.sources = <<>> /\ IsCorpus(m.corpus)
  BY <1>6 DEF Fits, Asks
<1>8. PICK q : q = Len(m.pages) + 1
  OBVIOUS
<1>9. q \in 1 .. LastExplained
  BY <1>7, <1>8, Constants
<1>10. PassageFromQuestion(q) \in QuestionPages
  BY <1>0, <1>9 DEF PassageFromQuestion, QuestionPages, Texts
<1>11. read \in Seq(QuestionPages) /\ Len(read) = q /\ \A i \in 1 .. q - 1 : read[i] = m.pages[i]
  BY <1>2, <1>7, <1>8, <1>10
<1>12. read[q] = PassageFromQuestion(q)
  BY <1>2, <1>7, <1>8, <1>10
<1>13. HasText(PassageFromQuestion(q)) => gone[PassageFromQuestion(q)] = 0
  <2> DEFINE f == PassageFromQuestion(q)
  <2>1. f.text = explained[f.id] /\ f.kind = "question"
    BY DEF PassageFromQuestion
  <2>2. HasText(f) => f \in Facts
    BY <1>10, FactsAre DEF HasText, QuestionPages, Explained
  <2>3. IsOfficial(f)
    BY <2>1 DEF IsOfficial
  <2> HIDE DEF f
  <2>4. HasText(f) => gone[f] = 0
    BY <1>0, <2>2, <2>3 DEF Texts
  <2> QED
    BY <2>4 DEF f
<1>14. StillNew(read)
  <2>1. ASSUME NEW i \in DOMAIN read, HasText(read[i])
        PROVE  gone[read[i]] = 0
    <3>1. i \in 1 .. q - 1 \/ i = q
      BY <1>9, <1>11
    <3>2. CASE i = q
      BY <1>12, <1>13, <2>1, <3>2
    <3>3. CASE i \in 1 .. q - 1
      <4>1. read[i] = m.pages[i] /\ i \in DOMAIN m.pages
        BY <1>7, <1>8, <1>11, <3>3
      <4> QED
        BY <1>7, <2>1, <4>1 DEF StillNew
    <3> QED
      BY <3>1, <3>2, <3>3
  <2> QED
    BY <2>1 DEF StillNew
<1>15. k = [about |-> m.about, pages |-> read, corpus |-> m.corpus, failed |-> m.failed, sources |-> <<>>]
  BY <1>3, <1>7 DEF Asks
<1>16. k \in Asks
  BY <1>7, <1>11, <1>15 DEF Asks
<1>17. AgesFit(k) /\ Differ(k)
  BY <1>15 DEF AgesFit, Differ
<1>18. place = "pages" => Len(k.pages) < LastExplained
  <2>1. Len(k.pages) = q
    BY <1>11, <1>15
  <2>2. place = "pages" => q # LastExplained
    BY <1>4, <1>11
  <2> QED
    BY <1>9, <2>1, <2>2, Constants
<1>19. Fits(place, k)
  BY <1>4, <1>7, <1>14, <1>15, <1>16, <1>17, <1>18 DEF Fits
<1>20. Texts' /\ Called'
  BY <1>4, <1>5, <1>19, CallMoves DEF CallPlaces
<1>21. Cached'
  BY <1>0, <1>5, CacheStays
<1>22. Locked'
  BY <1>4, <1>5, LockStays DEF CallPlaces
<1> QED
  BY <1>0, <1>5, <1>20, <1>21, <1>22 DEF TutorInv, Answered

LEMMA BuildFailsStep ==
  ASSUME TutorInv, NEW a \in Askers, BuildFails(a)
  PROVE  TutorInv'
<1>0. Texts /\ Cached /\ Locked /\ Called /\ Answered
  BY DEF TutorInv
<1>1. asking[a] \in {"pages", "law"} /\ lock' = "nobody" /\ UNCHANGED <<texts, gone, corp, freshFor>>
  BY DEF BuildFails
<1>2. Cached'
  BY <1>0, <1>1, CacheStays
<1>3. CASE corp # NoCorpus /\ Take(a, corp, TRUE)
  <2>1. PICK p, m, c : p = asking[a] /\ m = ask[a] /\ c = corp
    OBVIOUS
  <2>2. Fits(p, m) /\ p # "model" /\ IsCorpus(c) /\ c.edition \in DOMAIN Editions
    BY <1>0, <1>1, <1>3, <2>1 DEF Called, Cached
  <2>3. PICK k : k = [m EXCEPT !.pages = <<>>, !.corpus = c, !.failed = TRUE]
    OBVIOUS
  <2>4. Fits("gather", k)
    BY <2>2, <2>3, TakeFits
  <2>5. asking' = [asking EXCEPT ![a] = "gather"] /\ ask' = [ask EXCEPT ![a] = k] /\ reply' = reply
    BY <1>3, <2>1, <2>3 DEF Take, Turn
  <2>6. Texts' /\ Called'
    BY <1>1, <2>4, <2>5, CallMoves DEF CallPlaces
  <2>7. Locked'
    BY <1>1, <2>5, LockFreed DEF CallPlaces
  <2> QED
    BY <1>0, <1>2, <2>5, <2>6, <2>7 DEF TutorInv, Answered
<1>4. CASE NoAnswer(a)
  <2>1. Texts' /\ Called' /\ Answered'
    BY <1>1, <1>4, NoAnswerStep
  <2>2. Locked'
    BY <1>1, <1>4, LockFreed DEF NoAnswer, Leave, CallPlaces
  <2> QED
    BY <1>2, <2>1, <2>2 DEF TutorInv
<1> QED
  BY <1>3, <1>4 DEF BuildFails

LEMMA BuildCorpusStep ==
  ASSUME TutorInv, NEW a \in Askers, BuildCorpus(a)
  PROVE  TutorInv'
<1>0. Texts /\ Cached /\ Locked /\ Called /\ Answered
  BY DEF TutorInv
<1>1. PICK m, c : m = ask[a] /\ c = corp'
  OBVIOUS
<1>2. PICK k : k = [m EXCEPT !.pages = <<>>, !.corpus = c, !.failed = FALSE]
  OBVIOUS
<1>3. /\ asking[a] = "law" /\ lock' = "nobody" /\ UNCHANGED <<texts, gone>> /\ freshFor' = CorpusTTL
      /\ asking' = [asking EXCEPT ![a] = "gather"] /\ ask' = [ask EXCEPT ![a] = k] /\ reply' = reply
  BY <1>1, <1>2 DEF BuildCorpus, Take, Turn
<1>4. c = [edition   |-> edition,
           rules     |-> NewTutorIndex(LegalPassages(Editions[edition])),
           questions |-> NewTutorIndex(m.pages)]
  BY <1>1 DEF BuildCorpus
<1>5. Fits("law", m)
  BY <1>0, <1>1, <1>3 DEF Called
<1>6. m.pages \in Seq(QuestionPages) /\ StillNew(m.pages)
  BY <1>5 DEF Fits, Asks
<1>7. edition \in DOMAIN Editions /\ edition \in Nat /\ edition # 0
  BY <1>0, Constants DEF Texts
<1>8. PICK rules, questions : /\ rules = NewTutorIndex(LegalPassages(Editions[edition]))
                              /\ questions = NewTutorIndex(m.pages)
  OBVIOUS
<1>9. c = [edition |-> edition, rules |-> rules, questions |-> questions]
  BY <1>4, <1>8
<1>10. rules \subseteq RulePassages /\ IsFiniteSet(rules) /\ OneText(rules)
  <2>1. LegalPassages(Editions[edition]) \in Seq(RulePassages)
    BY <1>7, Constants, LegalPassagesType
  <2> QED
    BY <1>8, <2>1, IndexHolds
<1>11. /\ questions \subseteq {p \in QuestionPages : HasText(p)} /\ IsFiniteSet(questions) /\ OneText(questions)
       /\ \A q \in questions : \E i \in DOMAIN m.pages : q = m.pages[i]
  <2> DEFINE pages == m.pages
  <2>1. pages \in Seq(QuestionPages) /\ questions = NewTutorIndex(pages)
    BY <1>6, <1>8
  <2> HIDE DEF pages
  <2>2. /\ questions \subseteq {p \in QuestionPages : HasText(p)} /\ IsFiniteSet(questions) /\ OneText(questions)
        /\ \A q \in questions : \E i \in DOMAIN pages : q = pages[i]
    BY <2>1, IndexHolds
  <2> QED
    BY <2>2 DEF pages
<1>12. questions \subseteq Explained
  BY <1>11 DEF QuestionPages, Explained, HasText
<1>13. IsCorpus(c) /\ c.edition \in DOMAIN Editions
  BY <1>7, <1>9, <1>10, <1>11, <1>12 DEF IsCorpus, Corpora
<1>14. gone[RuleFact(c.edition)] = 0 /\ \A q \in c.questions : gone[q] = 0
  <2>1. RuleFact(edition) \in Facts /\ IsOfficial(RuleFact(edition))
    BY <1>7, FactsAre DEF RuleFact, IsOfficial
  <2>2. gone[RuleFact(edition)] = 0
    BY <1>0, <2>1 DEF Texts
  <2>3. \A q \in questions : gone[q] = 0
    BY <1>6, <1>11 DEF StillNew
  <2> QED
    BY <1>9, <2>2, <2>3
<1>15. \A n \in Nat : Young(c, n)
  BY <1>14 DEF Young
<1>16. c # NoCorpus
  BY <1>7, <1>9 DEF NoCorpus
<1>17. Fits("gather", k)
  BY <1>2, <1>5, <1>13, <1>15, Constants, TakeFits
<1>18. Texts' /\ Called'
  BY <1>3, <1>17, CallMoves DEF CallPlaces
<1>19. Locked'
  BY <1>3, LockFreed DEF CallPlaces
<1>20. Cached'
  <2>1. IsCorpus(c)' /\ \A n \in Nat : Young(c, n)'
    BY <1>3, <1>13, <1>15 DEF IsCorpus, OneText, Young, RuleFact
  <2>2. CorpusTTL - freshFor' \in Nat /\ freshFor' \in 0 .. CorpusTTL
    BY <1>3, Constants
  <2>3. IsCorpus(corp)' /\ Young(corp, CorpusTTL - freshFor)'
    BY <1>1, <2>1, <2>2
  <2> QED
    BY <1>1, <1>13, <1>16, <2>2, <2>3 DEF Cached
<1> QED
  BY <1>0, <1>3, <1>18, <1>19, <1>20 DEF TutorInv, Answered

(* What a search finds: passages of the index, each once. *)
LEMMA SearchFinds ==
  ASSUME NEW index, IsFiniteSet(index), NEW limit, NEW exclude, NEW list \in Search(index, limit, exclude)
  PROVE  list \in Seq(index) /\ \A i, k \in DOMAIN list : list[i] = list[k] => i = k
<1>1. PICK S \in SUBSET index : list = SetToSeq(S)
  BY DEF Search
<1>2. IsFiniteSet(S)
  BY <1>1, FS_Subset
<1> DEFINE N == 1 .. Cardinality(S)
<1>3. Cardinality(S) \in Nat /\ ExistsBijection(N, S)
  BY <1>2, FS_CardinalityType
<1>4. PICK g \in Bijection(N, S) : TRUE
  BY <1>3 DEF ExistsBijection
<1>5. g \in [N -> S] /\ IsInjective(g)
  BY <1>4 DEF Bijection, Injection, IsInjective
<1>6. list \in [N -> S] /\ IsInjective(list)
  BY <1>1, <1>5 DEF SetToSeq
<1>7. list \in Seq(index)
  BY <1>3, <1>6
<1> QED
  BY <1>6, <1>7 DEF IsInjective

(* The age of a passage of a corpus. *)
LEMMA AgeOfPassage ==
  ASSUME Texts, NEW c, IsCorpus(c), c.edition \in DOMAIN Editions,
         NEW p \in c.rules \cup c.questions
  PROVE  /\ Age(Fact(p, c.edition)) \in 0 .. CorpusTTL + 1
         /\ Young(c, CorpusTTL) => Age(Fact(p, c.edition)) <= CorpusTTL
<1>1. CASE p \in c.rules
  <2>1. p.kind = "rule"
    BY <1>1 DEF IsCorpus, Corpora, RulePassages
  <2>2. Fact(p, c.edition) = RuleFact(c.edition)
    BY <2>1 DEF Fact
  <2>3. RuleFact(c.edition) \in Facts
    BY FactsAre
  <2>4. Age(RuleFact(c.edition)) \in {0, gone[RuleFact(c.edition)]}
    BY DEF Age
  <2>5. gone[RuleFact(c.edition)] \in 0 .. CorpusTTL + 1 /\ CorpusTTL \in Nat
    BY <2>3, Constants DEF Texts
  <2> QED
    BY <2>2, <2>4, <2>5 DEF Young
<1>2. CASE p \in c.questions
  <2>1. p \in Explained
    BY <1>2 DEF IsCorpus, Corpora
  <2>2. p \in Facts /\ Fact(p, c.edition) = p
    BY <2>1, FactsAre DEF Fact, Explained
  <2>3. Age(p) \in {0, gone[p]}
    BY DEF Age
  <2>4. gone[p] \in 0 .. CorpusTTL + 1 /\ CorpusTTL \in Nat
    BY <2>2, Constants DEF Texts
  <2> QED
    BY <1>2, <2>2, <2>3, <2>4 DEF Young
<1> QED
  BY <1>1, <1>2

(* What is listed from 1 to n is a sequence. *)
LEMMA IsSequence ==
  ASSUME NEW S, NEW n \in Nat, NEW s \in [1 .. n -> S]
  PROVE  s \in Seq(S)
OBVIOUS

(* Two sequences, one after the other. *)
Joins(list, x, y) ==
  /\ Len(list) = Len(x) + Len(y) /\ Len(x) \in Nat /\ Len(y) \in Nat
  /\ \A i \in DOMAIN list : \/ i \in 1 .. Len(x) /\ list[i] = x[i]
                           \/ \E j \in 1 .. Len(y) : i = Len(x) + j /\ list[i] = y[j]

LEMMA TwoInARow ==
  ASSUME NEW S, NEW x \in Seq(S), NEW y \in Seq(S), NEW list, list = x \o y
  PROVE  list \in Seq(S) /\ Joins(list, x, y)
<1>1. Len(x) \in Nat /\ Len(y) \in Nat
  OBVIOUS
<1>2. list \in Seq(S) /\ Len(list) = Len(x) + Len(y) /\ DOMAIN list = 1 .. Len(x) + Len(y)
  OBVIOUS
<1>3. \A i \in 1 .. Len(x) + Len(y) : list[i] = IF i <= Len(x) THEN x[i] ELSE y[i - Len(x)]
  OBVIOUS
<1>4. ASSUME NEW i \in DOMAIN list
      PROVE  \/ i \in 1 .. Len(x) /\ list[i] = x[i]
             \/ \E j \in 1 .. Len(y) : i = Len(x) + j /\ list[i] = y[j]
  <2> DEFINE p == Len(x)
             q == Len(y)
  <2>1. p \in Nat /\ q \in Nat /\ i \in 1 .. p + q /\ list[i] = IF i <= p THEN x[i] ELSE y[i - p]
    BY <1>1, <1>2, <1>3
  <2> HIDE DEF p, q
  <2>2. CASE i <= p
    BY <2>1, <2>2 DEF p
  <2>3. CASE ~ (i <= p)
    <3>1. i - p \in 1 .. q /\ i = p + (i - p) /\ list[i] = y[i - p]
      BY <2>1, <2>3
    <3> QED
      BY <3>1 DEF p, q
  <2> QED
    BY <2>2, <2>3
<1> QED
  BY <1>1, <1>2, <1>4 DEF Joins

(* Three. *)
FirstOf(i, list, x)       == i \in 1 .. Len(x) /\ list[i] = x[i]
SecondOf(i, list, x, y)   == \E j \in 1 .. Len(y) : i = Len(x) + j /\ list[i] = y[j]
ThirdOf(i, list, x, y, z) == \E j \in 1 .. Len(z) : i = Len(x) + Len(y) + j /\ list[i] = z[j]

LEMMA ThreeInARow ==
  ASSUME NEW S, NEW x \in Seq(S), NEW y \in Seq(S), NEW z \in Seq(S), NEW list, list = x \o y \o z
  PROVE  /\ list \in Seq(S)
         /\ Len(x) \in Nat /\ Len(y) \in Nat /\ Len(z) \in Nat
         /\ \A i \in DOMAIN list :
              FirstOf(i, list, x) \/ SecondOf(i, list, x, y) \/ ThirdOf(i, list, x, y, z)
<1>1. PICK t : t = x \o y
  OBVIOUS
<1>2. list = t \o z
  BY <1>1
<1>3. t \in Seq(S) /\ Joins(t, x, y)
  BY <1>1, TwoInARow, Zenon
<1>4. list \in Seq(S) /\ Joins(list, t, z)
  <2>1. t \in Seq(S)
    BY <1>3
  <2> QED
    BY <1>2, <2>1, TwoInARow, Zenon
<1>5. DOMAIN t = 1 .. Len(t)
  BY <1>3
<1>6. ASSUME NEW i \in DOMAIN list
      PROVE  \/ i \in 1 .. Len(x) /\ list[i] = x[i]
             \/ \E j \in 1 .. Len(y) : i = Len(x) + j /\ list[i] = y[j]
             \/ \E j \in 1 .. Len(z) : i = Len(x) + Len(y) + j /\ list[i] = z[j]
  <2>1. CASE i \in 1 .. Len(t) /\ list[i] = t[i]
    <3>1. i \in DOMAIN t
      BY <1>5, <2>1
    <3> QED
      BY <1>3, <2>1, <3>1, Zenon DEF Joins
  <2>2. CASE \E j \in 1 .. Len(z) : i = Len(t) + j /\ list[i] = z[j]
    <3>1. Len(t) = Len(x) + Len(y)
      BY <1>3 DEF Joins
    <3> QED
      BY <2>2, <3>1, Zenon
  <2> QED
    BY <1>4, <2>1, <2>2, Zenon DEF Joins
<1> QED
  BY <1>3, <1>4, <1>6, Zenon DEF Joins, FirstOf, SecondOf, ThirdOf

(* Passages of the law and explanations after a question's own explanation *)
(* are of different texts, but for the latter.                             *)
EachOnce(list)   == \A i, k \in DOMAIN list : list[i] = list[k] => i = k
Unlike(R, Q)     == \A p \in R, q \in Q : p.text # q.text
InARow(list, x, y, z) ==
  \A i \in DOMAIN list :
    i \in Nat \ {0} /\ (FirstOf(i, list, x) \/ SecondOf(i, list, x, y) \/ ThirdOf(i, list, x, y, z))

Drawn(R, Q, own, rules, others, list) ==
  /\ OneText(R) /\ OneText(Q) /\ Unlike(R, Q) /\ Len(own) \in {0, 1}
  /\ rules \in Seq(R) /\ EachOnce(rules) /\ others \in Seq(Q) /\ EachOnce(others)
  /\ InARow(list, own, rules, others)

ApartButFor(list, own) ==
  \A i, k \in DOMAIN list : i < k /\ list[i].text = list[k].text => i = 1 /\ Len(own) = 1

LEMMA Apart ==
  ASSUME NEW R, NEW Q, NEW own, NEW rules, NEW others, NEW list, Drawn(R, Q, own, rules, others, list)
  PROVE  ApartButFor(list, own)
<1> USE DEF ApartButFor
<1> SUFFICES ASSUME NEW i \in DOMAIN list, NEW k \in DOMAIN list, i < k, list[i].text = list[k].text
             PROVE  i = 1 /\ Len(own) = 1
  OBVIOUS
<1> USE DEF Drawn
<1>0. /\ i \in Nat \ {0} /\ (FirstOf(i, list, own) \/ SecondOf(i, list, own, rules)
                                 \/ ThirdOf(i, list, own, rules, others))
      /\ k \in Nat \ {0} /\ (FirstOf(k, list, own) \/ SecondOf(k, list, own, rules)
                                 \/ ThirdOf(k, list, own, rules, others))
  BY Zenon DEF InARow
<1>1. PICK x, y : x = Len(own) /\ y = Len(rules)
  OBVIOUS
<1>2. ASSUME NEW j, SecondOf(j, list, own, rules)
      PROVE  list[j] \in R /\ \E l \in DOMAIN rules : j = x + l /\ list[j] = rules[l]
  <2>1. PICK l \in 1 .. Len(rules) : j = x + l /\ list[j] = rules[l]
    BY <1>1, <1>2 DEF SecondOf
  <2>2. l \in DOMAIN rules /\ rules[l] \in R
    BY <2>1
  <2> QED
    BY <2>1, <2>2, Zenon DEF Unlike
<1>3. ASSUME NEW j, ThirdOf(j, list, own, rules, others)
      PROVE  list[j] \in Q /\ \E l \in DOMAIN others : j = x + y + l /\ list[j] = others[l]
  <2>1. PICK l \in 1 .. Len(others) : j = x + y + l /\ list[j] = others[l]
    BY <1>1, <1>3 DEF ThirdOf
  <2>2. l \in DOMAIN others /\ others[l] \in Q
    BY <2>1
  <2> QED
    BY <2>1, <2>2, Zenon DEF Unlike
<1>4. ~ FirstOf(k, list, own)
  <2>1. k # 1
    BY <1>0
  <2> QED
    BY <2>1 DEF FirstOf
<1>5. CASE FirstOf(i, list, own)
  BY <1>5 DEF FirstOf
<1>6. CASE SecondOf(i, list, own, rules) /\ SecondOf(k, list, own, rules)
  <2>1. list[i] \in R /\ list[k] \in R
    BY <1>2, <1>6, Zenon
  <2>2. list[i] = list[k]
    BY <2>1, Zenon DEF OneText
  <2>3. PICK j \in DOMAIN rules : i = x + j /\ list[i] = rules[j]
    BY <1>2, <1>6, Zenon
  <2>4. PICK l \in DOMAIN rules : k = x + l /\ list[k] = rules[l]
    BY <1>2, <1>6, Zenon
  <2>5. j = l
    BY <2>2, <2>3, <2>4, Zenon DEF EachOnce
  <2>6. i = k
    BY <2>3, <2>4, <2>5, Zenon
  <2> QED
    BY <1>0, <2>6
<1>7. CASE ThirdOf(i, list, own, rules, others) /\ ThirdOf(k, list, own, rules, others)
  <2>1. list[i] \in Q /\ list[k] \in Q
    BY <1>3, <1>7, Zenon
  <2>2. list[i] = list[k]
    BY <2>1, Zenon DEF OneText
  <2>3. PICK j \in DOMAIN others : i = x + y + j /\ list[i] = others[j]
    BY <1>3, <1>7, Zenon
  <2>4. PICK l \in DOMAIN others : k = x + y + l /\ list[k] = others[l]
    BY <1>3, <1>7, Zenon
  <2>5. j = l
    BY <2>2, <2>3, <2>4, Zenon DEF EachOnce
  <2>6. i = k
    BY <2>3, <2>4, <2>5, Zenon
  <2> QED
    BY <1>0, <2>6
<1>8. /\ ~ (SecondOf(i, list, own, rules) /\ ThirdOf(k, list, own, rules, others))
      /\ ~ (ThirdOf(i, list, own, rules, others) /\ SecondOf(k, list, own, rules))
  <2>1. list[i].text = list[k].text
    OBVIOUS
  <2>2. ASSUME list[i] \in R, list[k] \in Q
        PROVE  FALSE
    BY <2>1, <2>2, Zenon DEF Unlike
  <2>3. ASSUME list[i] \in Q, list[k] \in R
        PROVE  FALSE
    BY <2>1, <2>3, Zenon DEF Unlike
  <2> QED
    BY <1>2, <1>3, <2>2, <2>3, Zenon
<1> QED
  BY <1>0, <1>4, <1>5, <1>6, <1>7, <1>8, Zenon

(* The sources of an answer: the question's own explanation, if any, then  *)
(* passages of the law and other explanations.                             *)
Sourced(list, e) == [i \in DOMAIN list |-> [passage |-> list[i], age |-> Age(Fact(list[i], e))]]

LEMMA SourcedType ==
  ASSUME NEW e, NEW list \in Seq(RulePassages \cup Explained),
         \A i \in DOMAIN list : Age(Fact(list[i], e)) \in 0 .. CorpusTTL + 1
  PROVE  Sourced(list, e) \in Seq(Sources) /\ DOMAIN Sourced(list, e) = DOMAIN list
<1>1. DOMAIN list = 1 .. Len(list) /\ Len(list) \in Nat /\ \A i \in DOMAIN list : list[i] \in RulePassages \cup Explained
  OBVIOUS
<1>2. ASSUME NEW i \in DOMAIN list
      PROVE  [passage |-> list[i], age |-> Age(Fact(list[i], e))] \in Sources
  BY <1>1, <1>2, Zenon DEF Sources
<1>3. Sourced(list, e) \in [1 .. Len(list) -> Sources]
  BY <1>1, <1>2, Zenon DEF Sourced
<1>4. Sourced(list, e) \in Seq(Sources)
  BY <1>1, <1>3, IsSequence, Zenon
<1> QED
  BY <1>4, Zenon DEF Sourced

LEMMA SourcesPut ==
  ASSUME NEW m \in Asks, NEW c, NEW sources, NEW n, n = [m EXCEPT !.corpus = c, !.sources = sources]
  PROVE  n = [about |-> m.about, pages |-> m.pages, corpus |-> c, failed |-> m.failed, sources |-> sources]
<1>1. PICK k : k = [m EXCEPT !.corpus = c]
  OBVIOUS
<1>2. k = [about |-> m.about, pages |-> m.pages, corpus |-> c, failed |-> m.failed, sources |-> m.sources]
  <2>1. m \in [about: 0 .. LastExplained, pages: Seq(QuestionPages), corpus: Corpora,
               failed: BOOLEAN, sources: Seq(Sources)]
    BY Zenon DEF Asks
  <2> QED
    BY <1>1, <2>1
<1>3. n = [k EXCEPT !.sources = sources]
  BY <1>1, Zenon
<1> HIDE DEF Asks
<1> QED
  BY <1>2, <1>3

Gathered(m, own, rules, others, list, sources, n) ==
  /\ own = IF m.about # 0 /\ explained[m.about] # NoExplanation THEN <<PassageFromQuestion(m.about)>> ELSE <<>>
  /\ rules \in Seq(m.corpus.rules) /\ EachOnce(rules)
  /\ others \in Seq(m.corpus.questions) /\ EachOnce(others)
  /\ list = own \o rules \o others
  /\ sources = [i \in DOMAIN list |-> [passage |-> list[i], age |-> Age(Fact(list[i], m.corpus.edition))]]
  /\ n = [m EXCEPT !.corpus = NoCorpus, !.sources = sources]

LEMMA SourcesFit ==
  ASSUME Texts, NEW m, Fits("gather", m),
         NEW own, NEW rules, NEW others, NEW list, NEW sources, NEW n,
         Gathered(m, own, rules, others, list, sources, n)
  PROVE  Fits("model", n)
<1> USE DEF Gathered
<1> DEFINE c == m.corpus
           P == RulePassages \cup Explained
           x == Len(own)
<1>1. m \in Asks /\ IsCorpus(c) /\ c.edition \in DOMAIN Editions /\ (m.failed \/ Young(c, CorpusTTL))
  BY DEF Fits
<1>2. c.rules \subseteq RulePassages /\ c.questions \subseteq Explained /\ OneText(c.rules) /\ OneText(c.questions)
  BY <1>1 DEF IsCorpus, Corpora
<1>3. /\ own \in Seq(Explained) /\ x \in {0, 1} /\ (x = 1 => m.about # 0)
      /\ \A i \in 1 .. x : own[i] = PassageFromQuestion(m.about) /\ IsOfficial(own[i]) /\ own[i] \in Explained
  <2>1. CASE m.about # 0 /\ explained[m.about] # NoExplanation
    <3>1. PICK q : q = m.about
      OBVIOUS
    <3>2. q \in 1 .. LastExplained
      BY <1>1, <2>1, <3>1, Constants DEF Asks
    <3>3. PassageFromQuestion(q) \in Explained
      BY <2>1, <3>1, <3>2 DEF PassageFromQuestion, Explained, Texts
    <3>4. IsOfficial(PassageFromQuestion(q))
      BY DEF IsOfficial, PassageFromQuestion
    <3>5. own = <<PassageFromQuestion(q)>>
      BY <2>1, <3>1
    <3> QED
      BY <2>1, <3>1, <3>3, <3>4, <3>5
  <2>2. CASE ~ (m.about # 0 /\ explained[m.about] # NoExplanation)
    <3>1. own = <<>>
      BY <2>2
    <3> QED
      BY <3>1
  <2> QED
    BY <2>1, <2>2
<1>4. own \in Seq(P) /\ rules \in Seq(P) /\ others \in Seq(P)
  <2>1. Explained \subseteq P /\ c.rules \subseteq P /\ c.questions \subseteq P
    BY <1>2
  <2>2. rules \in Seq(c.rules) /\ others \in Seq(c.questions)
    OBVIOUS
  <2> HIDE DEF P, c
  <2> QED
    BY <1>3, <2>1, <2>2
<1>5. /\ list \in Seq(P)
      /\ \A i \in DOMAIN list :
           FirstOf(i, list, own) \/ SecondOf(i, list, own, rules) \/ ThirdOf(i, list, own, rules, others)
  <2> HIDE DEF P
  <2> QED
    BY <1>4, ThreeInARow, Zenon
<1> HIDE DEF P
<1>6. DOMAIN list = 1 .. Len(list) /\ Len(list) \in Nat /\ \A i \in DOMAIN list : i \in Nat \ {0}
  <2>1. list \in Seq(P)
    BY <1>5
  <2> QED
    BY <2>1
<1>7. ASSUME NEW i \in DOMAIN list
      PROVE  \/ list[i] \in Explained /\ IsOfficial(list[i])
             \/ list[i] \in c.rules \cup c.questions
  <2>1. CASE FirstOf(i, list, own)
    BY <1>3, <2>1 DEF FirstOf
  <2>2. CASE SecondOf(i, list, own, rules)
    <3>1. \A j \in 1 .. Len(rules) : rules[j] \in c.rules
      OBVIOUS
    <3> QED
      BY <2>2, <3>1, Zenon DEF SecondOf
  <2>3. CASE ThirdOf(i, list, own, rules, others)
    <3>1. \A j \in 1 .. Len(others) : others[j] \in c.questions
      OBVIOUS
    <3> QED
      BY <2>3, <3>1, Zenon DEF ThirdOf
  <2> QED
    BY <1>5, <2>1, <2>2, <2>3, Zenon
<1>8. NoneIsLaw => Unlike(c.rules, c.questions)
  BY <1>2 DEF Unlike, RulePassages, Explained, NoneIsLaw
<1>9. PICK R, Q : R = c.rules /\ Q = c.questions
  BY Zenon
<1>10. ASSUME NEW i \in DOMAIN list
      PROVE  /\ Age(Fact(list[i], c.edition)) \in 0 .. CorpusTTL + 1
             /\ m.failed \/ Age(Fact(list[i], c.edition)) <= CorpusTTL
  <2>1. CASE list[i] \in Explained /\ IsOfficial(list[i])
    <3>1. list[i].kind = "question"
      BY <2>1, Zenon DEF Explained
    <3>2. Fact(list[i], c.edition) = list[i]
      BY <3>1, Zenon DEF Fact
    <3>3. Age(list[i]) = 0
      BY <2>1, Zenon DEF Age
    <3>4. 0 \in 0 .. CorpusTTL + 1 /\ 0 <= CorpusTTL
      BY Constants
    <3> QED
      BY <3>2, <3>3, <3>4, Zenon
  <2>2. CASE list[i] \in c.rules \cup c.questions
    <3> HIDE DEF c
    <3> QED
      BY <1>1, <2>2, AgeOfPassage
  <2> QED
    BY <1>7, <2>1, <2>2, Zenon
<1>11. ASSUME NoneIsLaw, NEW i \in DOMAIN list, NEW k \in DOMAIN list, i < k, list[i].text = list[k].text
      PROVE  i = 1 /\ m.about # 0
  <2>1. OneText(R) /\ OneText(Q) /\ Unlike(R, Q)
    BY <1>2, <1>8, <1>9, <1>11, Zenon
  <2>2. rules \in Seq(R) /\ others \in Seq(Q)
    BY <1>9
  <2>3. Len(own) \in {0, 1}
    BY <1>3
  <2>4. InARow(list, own, rules, others)
    BY <1>5, <1>6, Zenon DEF InARow
  <2>5. EachOnce(rules) /\ EachOnce(others)
    BY Zenon
  <2>6. ApartButFor(list, own)
    <3>1. Drawn(R, Q, own, rules, others, list)
      BY <2>1, <2>2, <2>3, <2>4, <2>5, Zenon DEF Drawn
    <3> QED
      BY <3>1, Apart, Zenon
  <2>7. i = 1 /\ Len(own) = 1
    BY <1>11, <2>6, Zenon DEF ApartButFor
  <2> QED
    BY <1>3, <2>7
<1>12. sources \in Seq(Sources) /\ DOMAIN sources = DOMAIN list
  <2>1. sources = Sourced(list, c.edition)
    BY Zenon DEF Sourced
  <2>2. list \in Seq(RulePassages \cup Explained)
    BY <1>5 DEF P
  <2>3. PICK e : e = c.edition
    OBVIOUS
  <2>4. \A i \in DOMAIN list : Age(Fact(list[i], e)) \in 0 .. CorpusTTL + 1
    BY <1>10, <2>3, Zenon
  <2>5. sources = Sourced(list, e)
    BY <2>1, <2>3, Zenon
  <2>6. Sourced(list, e) \in Seq(Sources) /\ DOMAIN Sourced(list, e) = DOMAIN list
    BY <2>2, <2>4, SourcedType, Zenon
  <2> QED
    BY <2>5, <2>6, Zenon
<1>13. n = [about |-> m.about, pages |-> m.pages, corpus |-> NoCorpus, failed |-> m.failed, sources |-> sources]
  BY <1>1, SourcesPut, Zenon
<1>14. n.corpus = NoCorpus /\ n.sources = sources /\ n.failed = m.failed /\ n.about = m.about
  BY <1>13
<1>15. IsCorpus(n.corpus)
  BY <1>14, NoCorpusIsCorpus
<1>16. n \in Asks
  BY <1>1, <1>12, <1>13, <1>14, <1>15 DEF Asks, IsCorpus
<1>17. AgesFit(n)
  <2>1. \A i \in DOMAIN list : sources[i].age = Age(Fact(list[i], c.edition))
    BY DEF c
  <2>2. \A i \in DOMAIN sources : m.failed \/ sources[i].age <= CorpusTTL
    BY <1>10, <1>12, <2>1
  <2> QED
    BY <1>14, <2>2, Zenon DEF AgesFit
<1>18. Differ(n)
  <2>1. \A i \in DOMAIN list : sources[i].passage = list[i]
    BY DEF c
  <2>2. ASSUME NoneIsLaw, NEW i \in DOMAIN sources, NEW k \in DOMAIN sources,
               i < k, sources[i].passage.text = sources[k].passage.text
        PROVE  i = 1 /\ m.about # 0
    <3>1. i \in DOMAIN list /\ k \in DOMAIN list
      BY <1>12, <2>2
    <3>2. list[i].text = list[k].text
      BY <2>1, <2>2, <3>1
    <3> QED
      BY <1>11, <2>2, <3>1, <3>2
  <2>3. PICK t, about : t = n.sources /\ about = n.about
    BY Zenon
  <2>4. t = sources /\ about = m.about
    BY <1>14, <2>3, Zenon
  <2>5. NoneIsLaw => \A i, k \in DOMAIN t : i < k /\ t[i].passage.text = t[k].passage.text => i = 1 /\ about # 0
    <3>1. SUFFICES ASSUME NoneIsLaw, NEW i \in DOMAIN t, NEW k \in DOMAIN t, i < k, t[i].passage.text = t[k].passage.text
                   PROVE  i = 1 /\ about # 0
      OBVIOUS
    <3>2. i \in DOMAIN sources /\ k \in DOMAIN sources /\ sources[i].passage.text = sources[k].passage.text
      BY <2>4, <3>1, Zenon
    <3>3. i = 1 /\ m.about # 0
      BY <2>2, <3>1, <3>2, Zenon
    <3> QED
      BY <2>4, <3>3, Zenon
  <2> QED
    BY <2>3, <2>5, Zenon DEF Differ
<1> QED
  BY <1>15, <1>16, <1>17, <1>18 DEF Fits

(* A search puts together the sources, or finds none. *)
LEMMA GatherStep ==
  ASSUME TutorInv, NEW a \in Askers, Gather(a)
  PROVE  TutorInv'
<1>0. Texts /\ Cached /\ Locked /\ Called /\ Answered
  BY DEF TutorInv
<1>1. asking[a] = "gather" /\ UNCHANGED <<texts, gone, cache>>
  BY Zenon DEF Gather
<1>2. UNCHANGED <<gone, corp, freshFor>> /\ lock' = lock
  BY <1>1 DEF cache
<1>3. Cached'
  BY <1>0, <1>2, CacheStays
<1>4. CASE NoAnswer(a)
  <2>1. Texts' /\ Called' /\ Answered'
    BY <1>1, <1>4, NoAnswerStep
  <2>2. asking' = [asking EXCEPT ![a] = "replied"]
    BY <1>4 DEF NoAnswer, Leave
  <2>3. Locked'
    BY <1>1, <1>2, <2>2, LockStays DEF CallPlaces
  <2> QED
    BY <1>3, <2>1, <2>3 DEF TutorInv
<1>5. CASE ~ NoAnswer(a)
  <2> DEFINE m   == ask[a]
             c   == ask[a].corpus
             own == IF m.about # 0 /\ explained[m.about] # NoExplanation
                    THEN <<PassageFromQuestion(m.about)>> ELSE <<>>
             Read(list) == [i \in DOMAIN list |->
                              [passage |-> list[i], age |-> Age(Fact(list[i], m.corpus.edition))]]
  <2>1. \E rules \in Search(c.rules, RuleSources, 0),
           others \in Search(c.questions, QuestionSources, IF own = <<>> THEN 0 ELSE m.about) :
          Turn(a, "model", [m EXCEPT !.corpus = NoCorpus, !.sources = Read(own \o rules \o others)])
    BY <1>5, Zenon DEF Gather
  <2>2. Fits("gather", m)
    BY <1>0, <1>1 DEF Called
  <2>3. IsCorpus(c)
    BY <2>2 DEF Fits
  <2>4. PICK rules \in Search(c.rules, RuleSources, 0),
             others \in Search(c.questions, QuestionSources, IF own = <<>> THEN 0 ELSE m.about) :
          Turn(a, "model", [m EXCEPT !.corpus = NoCorpus, !.sources = Read(own \o rules \o others)])
    BY <2>1
  <2>5. PICK list, sources, n : /\ list = own \o rules \o others /\ sources = Read(list)
                                /\ n = [m EXCEPT !.corpus = NoCorpus, !.sources = sources]
    BY Zenon
  <2>6. Turn(a, "model", n)
    BY <2>4, <2>5, Zenon
  <2> HIDE DEF m, c, own, Read
  <2>7. /\ rules \in Seq(m.corpus.rules) /\ EachOnce(rules)
        /\ others \in Seq(m.corpus.questions) /\ EachOnce(others)
    <3>1. IsFiniteSet(c.rules) /\ IsFiniteSet(c.questions)
      BY <2>3 DEF IsCorpus
    <3>2. PICK index, limit, exclude : index = c.rules /\ limit = RuleSources /\ exclude = 0
      BY Zenon
    <3>3. rules \in Seq(index) /\ EachOnce(rules)
      <4>1. rules \in Search(index, limit, exclude) /\ IsFiniteSet(index)
        BY <2>4, <3>1, <3>2, Zenon
      <4> QED
        BY <4>1, SearchFinds, Zenon DEF EachOnce
    <3>4. PICK pages, most, q : /\ pages = c.questions /\ most = QuestionSources
                                /\ q = IF own = <<>> THEN 0 ELSE m.about
      BY Zenon
    <3>5. others \in Seq(pages) /\ EachOnce(others)
      <4>1. others \in Search(pages, most, q) /\ IsFiniteSet(pages)
        BY <2>4, <3>1, <3>4, Zenon
      <4> QED
        BY <4>1, SearchFinds, Zenon DEF EachOnce
    <3> QED
      BY <3>2, <3>3, <3>4, <3>5, Zenon DEF m, c
  <2>8. Gathered(m, own, rules, others, list, sources, n)
    BY <2>5, <2>7, Zenon DEF Gathered, own, Read
  <2>9. Fits("model", n)
    BY <1>0, <2>2, <2>8, SourcesFit, Zenon
  <2>10. asking' = [asking EXCEPT ![a] = "model"] /\ ask' = [ask EXCEPT ![a] = n] /\ reply' = reply
    BY <2>6, Zenon DEF Turn
  <2>11. Texts' /\ Called'
    <3>1. "model" \in CallPlaces /\ UNCHANGED <<texts, gone>>
      BY <1>1 DEF CallPlaces
    <3> QED
      BY <2>9, <2>10, <3>1, CallMoves, Zenon
  <2>12. Locked'
    BY <1>1, <1>2, <2>10, LockStays DEF CallPlaces
  <2> QED
    BY <1>0, <1>3, <2>10, <2>11, <2>12 DEF TutorInv, Answered
<1> QED
  BY <1>4, <1>5

(* The greatest of some ages is one of them. *)
LEMMA MaxIsOne ==
  ASSUME NEW b \in Nat, NEW T \in SUBSET (0 .. b), T # {}
  PROVE  Max(T) \in T
<1>1. T \in SUBSET Nat /\ \A n \in T : n <= b
  OBVIOUS
<1>2. PICK m \in T : \A n \in T : n <= m
  BY <1>1, Greatest
<1>3. \A n \in T : m >= n
  BY <1>1, <1>2
<1> QED
  BY <1>3 DEF Max

(* The answer is as old as its oldest source. *)
LEMMA AnswerStep ==
  ASSUME TutorInv, NEW a \in Askers, Answer(a)
  PROVE  TutorInv'
<1>0. Texts /\ Cached /\ Locked /\ Called /\ Answered
  BY DEF TutorInv
<1>1. asking[a] = "model" /\ UNCHANGED <<texts, gone, cache>>
  BY DEF Answer
<1>2. UNCHANGED <<gone, corp, freshFor>> /\ lock' = lock
  BY <1>1 DEF cache
<1>3. Cached'
  BY <1>0, <1>2, CacheStays
<1>4. asking' = [asking EXCEPT ![a] = "replied"] /\ ask' = [ask EXCEPT ![a] = NoAsk]
  BY DEF Answer, Reply, NoAnswer, Leave
<1>5. Locked'
  BY <1>1, <1>2, <1>4, LockStays DEF CallPlaces
<1>6. CASE NoAnswer(a)
  BY <1>1, <1>3, <1>5, <1>6, NoAnswerStep DEF TutorInv
<1>7. ASSUME NEW used \in SUBSET (1 .. Len(ask[a].sources) + 1),
             used \cap DOMAIN ask[a].sources # {},
             Reply(a, {ask[a].sources[n] : n \in used \cap DOMAIN ask[a].sources})
      PROVE  TutorInv'
  <2>1. PICK m, t, cited, ages : /\ m = ask[a] /\ t = m.sources /\ cited = used \cap DOMAIN t
                                 /\ ages = {s.age : s \in {t[n] : n \in cited}}
    BY Zenon
  <2>2. Fits("model", m)
    BY <1>0, <1>1, <2>1 DEF Called
  <2>3. t \in Seq(Sources) /\ m.failed \in BOOLEAN /\ (m.failed \/ \A i \in DOMAIN t : t[i].age <= CorpusTTL)
    BY <2>1, <2>2 DEF Fits, Asks, AgesFit
  <2>4. cited # {} /\ \A i \in cited : i \in DOMAIN t /\ t[i] \in Sources
    BY <1>7, <2>1, <2>3
  <2>5. ages # {} /\ \A x \in ages : \E i \in cited : x = t[i].age
    <3>1. ages = {s.age : s \in {t[n] : n \in cited}} /\ cited # {}
      BY <2>1, <2>4, Zenon
    <3> QED
      BY <3>1, Zenon
  <2>6. ages \in SUBSET (0 .. CorpusTTL + 1) /\ CorpusTTL + 1 \in Nat
    BY <2>4, <2>5, Constants DEF Sources
  <2>7. PICK oldest : oldest = Max(ages)
    OBVIOUS
  <2>8. oldest \in ages
    <3>1. PICK b \in Nat : b = CorpusTTL + 1
      BY <2>6
    <3> QED
      BY <2>5, <2>6, <2>7, <3>1, MaxIsOne
  <2>9. oldest \in 0 .. CorpusTTL + 1 /\ (m.failed \/ oldest <= CorpusTTL)
    BY <2>3, <2>4, <2>5, <2>6, <2>8
  <2>10. reply' = [reply EXCEPT ![a] = [oldest |-> oldest, failed |-> m.failed]]
    BY <1>7, <2>1, <2>7, Zenon DEF Reply
  <2>11. PICK given : given = [oldest |-> oldest, failed |-> m.failed]
    OBVIOUS
  <2>12. given \in Replies /\ (given.failed \/ given.oldest <= CorpusTTL)
    BY <2>3, <2>9, <2>11 DEF Replies
  <2>13. Answered'
    BY <1>0, <2>10, <2>11, <2>12 DEF Answered
  <2>14. Fits("replied", NoAsk)
    <3>1. 0 \in 0 .. LastExplained
      BY Constants
    <3>2. PICK k : k = [NoAsk EXCEPT !.about = 0]
      OBVIOUS
    <3>3. Fits("replied", k) /\ NoAsk = k
      BY <3>1, <3>2, NoAskFits
    <3> QED
      BY <3>3
  <2>15. Texts' /\ Called'
    BY <1>1, <1>4, <2>14, CallMoves DEF CallPlaces
  <2> QED
    BY <1>3, <1>5, <2>13, <2>15 DEF TutorInv
<1> QED
  BY <1>6, <1>7 DEF Answer

(***************************************************************************)
(* All of it.                                                              *)
(***************************************************************************)
(* Initially nobody has called and there is no corpus. *)
LEMMA TutorBegins ==
  ASSUME TutorInit
  PROVE  TutorInv
<1>1. edition = 1 /\ explained \in [1 .. LastExplained -> Explanations \cup {NoExplanation}]
      /\ gone = [f \in Facts |-> 0] /\ edits = 0
      /\ corp = NoCorpus /\ freshFor = 0 /\ lock = "nobody"
      /\ asking = [a \in Askers |-> "client"]
  BY DEF TutorInit
<1>2. Texts
  BY <1>1, Constants DEF Texts
<1>3. Cached
  BY <1>1, Constants, NoCorpusIsCorpus DEF Cached
<1>4. Locked
  BY <1>1, TutorAssumption DEF Locked
<1>5. Fits("client", NoAsk)
  <2>1. 0 \in 0 .. LastExplained
    BY Constants
  <2>2. PICK m : m = [NoAsk EXCEPT !.about = 0]
    OBVIOUS
  <2>3. Fits("client", m) /\ NoAsk = m
    BY <2>1, <2>2, NoAskFits
  <2> QED
    BY <2>3
<1>6. Called
  <2>1. PICK n : n = NoAsk
    OBVIOUS
  <2>2. ask = [a \in Askers |-> n] /\ Fits("client", n)
    BY <1>5, <2>1, Zenon DEF TutorInit
  <2>3. n \in Asks
    BY <2>2 DEF Fits
  <2> QED
    BY <1>1, <2>2, <2>3 DEF Called, CallPlaces
<1>7. Answered
  <2>1. PICK r, z, no : r = NoReply /\ z = 0 /\ no = FALSE
    OBVIOUS
  <2>2. r = [oldest |-> z, failed |-> no] /\ reply = [a \in Askers |-> r]
    BY <2>1, Zenon DEF TutorInit, NoReply
  <2>3. r \in Replies /\ r.oldest = 0
    <3>1. z \in 0 .. CorpusTTL + 1
      BY <2>1, Constants
    <3>2. no \in BOOLEAN /\ z = 0
      BY <2>1, Zenon
    <3> QED
      BY <2>2, <3>1, <3>2 DEF Replies
  <2> QED
    BY <2>2, <2>3, Constants DEF Answered
<1> QED
  BY <1>2, <1>3, <1>4, <1>6, <1>7 DEF TutorInv

LEMMA TutorSteps ==
  ASSUME TutorInv, [TutorNext]_tutorVars
  PROVE  TutorInv'
<1>1. CASE UNCHANGED tutorVars
  <2>1. /\ edition' = edition /\ explained' = explained /\ edits' = edits /\ gone' = gone
        /\ UNCHANGED <<cache, asking, ask, reply>>
    BY <1>1 DEF tutorVars, texts
  <2>2. Texts /\ Texts'
    BY <2>1 DEF TutorInv, Texts, IsOfficial
  <2>3. gone' \in [Facts -> 0 .. CorpusTTL + 1] /\ \A f \in Facts : gone'[f] <= gone[f]
    <3>1. \A f \in Facts : gone[f] \in Nat
      BY <2>2, Constants DEF Texts
    <3> QED
      BY <2>1, <2>2, <3>1 DEF Texts
  <2>4. Cached' /\ Locked' /\ Called' /\ Answered'
    BY <2>1, <2>3, WorldTurns
  <2> QED
    BY <2>2, <2>4 DEF TutorInv
<1>2. ASSUME NEW a \in Askers, ServeAsker(a)
      PROVE  TutorInv'
  BY <1>2, AskStep, TakeCorpusStep, QuestionPassagesStep, BuildCorpusStep, BuildFailsStep, GatherStep,
     AnswerStep, Zenon DEF ServeAsker
<1>3. ASSUME NEW e \in DOMAIN Editions, LexImport(e)
      PROVE  TutorInv'
  BY <1>3, LexImportStep
<1>4. ASSUME NEW q \in 1 .. LastExplained, NEW x \in Explanations, Explain(q, x)
      PROVE  TutorInv'
  BY <1>4, ExplainStep
<1>5. CASE TutorTick
  BY <1>5, TickStep
<1> QED
  BY <1>1, <1>2, <1>3, <1>4, <1>5, Zenon DEF TutorNext

(* The invariant has the properties in it. *)
LEMMA TutorInvShows ==
  ASSUME TutorInv
  PROVE  TutorTypeOK /\ AnswersAreOfficial /\ (NoneIsLaw => SourcesDiffer)
<1>1. Texts /\ Cached /\ Locked /\ Called /\ Answered
  BY DEF TutorInv
<1>2. ASSUME NEW a \in Askers
      PROVE  ask[a].about \in 0 .. LastExplained /\ Differ(ask[a])
  BY <1>1 DEF Called, Fits, Asks
<1>3. TutorTypeOK
  BY <1>1, <1>2 DEF TutorTypeOK, Texts, Cached, Locked, Called, Answered, CallPlaces, Replies
<1>4. AnswersAreOfficial
  BY <1>1 DEF AnswersAreOfficial, Answered
<1>5. NoneIsLaw => SourcesDiffer
  BY <1>2, Zenon DEF SourcesDiffer, Differ
<1> QED
  BY <1>3, <1>4, <1>5

(* What the code relies on without a check: a corpus is there while it is  *)
(* fresh, and u.mu is held by the call that rebuilds it, for as long as it *)
(* does.                                                                   *)
THEOREM TutorTypeCorrect == TutorSpec => []TutorTypeOK
BY TutorBegins, TutorSteps, TutorInvShows, PTL DEF TutorSpec

(* "A re-import of the Rules or a newly published pack shows up without a  *)
(* restart": whatever calls overlap (corpus() is used after the mutex is   *)
(* released) and however a text changes while a corpus is built page by    *)
(* page, an answer cites none that was withdrawn longer ago than           *)
(* tutorCorpusTTL, unless the corpus could not be rebuilt.                 *)
THEOREM AnswersAreOfTheDay == TutorSpec => []AnswersAreOfficial
BY TutorBegins, TutorSteps, TutorInvShows, PTL DEF TutorSpec

(* gatherSources gives the model no text twice, but for the explanation of *)
(* the question asked about, if no explanation repeats a clause of the law *)
(* to the letter, which newTutorIndex, called for either, would not see.   *)
THEOREM SourcesAreApart ==
  ASSUME NoneIsLaw
  PROVE  TutorSpec => []SourcesDiffer
<1>1. TutorInv => SourcesDiffer
  BY NoneIsLaw, TutorInvShows
<1> QED
  BY <1>1, TutorBegins, TutorSteps, PTL DEF TutorSpec
=============================================================================
