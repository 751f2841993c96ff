----------------------------- MODULE ContentProofs -----------------------------
(***************************************************************************)
(* Proofs about QuestionBank, for any number of questions, versions, pages *)
(* and workers, any jobs and wordings, and whatever statements fail, with  *)
(* the histories of MCContent; and what TutorProofs proves, of MCContent.  *)
(*                                                                         *)
(* Each argument first sorts the steps of a job by what they do to what it *)
(* is about, the packs or the questions, and forgets the rest.  A version  *)
(* that no two jobs hold at once is held as it stands, so the row written  *)
(* back is as published as the one it replaces.  A walk through the pages  *)
(* has been given all that stayed before its cursor.  A job that marks     *)
(* duplicates has one of every two on its list for as long as no other job *)
(* writes a question.  And an upsert keeps the id of a question, by which  *)
(* the numbered tests are cut, so that a topic which loses none and gains  *)
(* none but later ones ranks its questions as before; the ranks are 0 to   *)
(* N - 1, each of one question, so that the tests partition the topic.     *)
(***************************************************************************)
EXTENDS MCContent, TutorProofs

-----------------------------------------------------------------------------
(* Any behaviour of the bank, with the histories: any jobs of any workers  *)
(* at once, page walks, tests and corrections of wordings, whatever        *)
(* templates the scraper has been through.  MCNext restricts which of them *)
(* a desk sees; the theorems do without that.                              *)
WatchedInit ==
  /\ \E list \in Seq(Nat) : Loaded(list)
  /\ NothingServed /\ NobodyWorks
  /\ shifted = {} /\ stayed = {} /\ fresh = {} /\ marked = FALSE /\ tidy = TRUE
  /\ known = {} /\ launched = {} /\ met = {}
Watched     == BankNext /\ Remember
WatchedSpec == WatchedInit /\ [][Watched]_<<bankVars, histories>>

(* The behaviours that TLC explores are among them, the tutor's and the    *)
(* law's with a bank where nothing happens.                                *)
THEOREM DesksAreWatched == MCSpec => WatchedSpec
<1>1. MCInit => WatchedInit
  <2> SUFFICES ASSUME MCInit
               PROVE  WatchedInit
    OBVIOUS
  <2>1. \A d \in DOMAIN JobsAt : LoadedAt[d] \in Seq(Nat)
    <3>1. DOMAIN JobsAt = {"tests", "pages", "tickets", "packs", "empty"}
      BY DEF JobsAt
    <3>2. /\ LoadedAt["tests"] = <<2, 3>> /\ LoadedAt["pages"] = <<2, 3>>
          /\ LoadedAt["tickets"] = <<2, 3, 1, 4>> /\ LoadedAt["packs"] = <<2, 3, 1, 4>>
          /\ LoadedAt["empty"] = <<>>
      BY DEF LoadedAt
    <3>3. <<2, 3>> \in Seq(Nat) /\ <<2, 3, 1, 4>> \in Seq(Nat) /\ <<>> \in Seq(Nat)
      OBVIOUS
    <3> QED
      BY <3>1, <3>2, <3>3
  <2>2. <<>> \in Seq(Nat)
    OBVIOUS
  <2>3. \E list \in Seq(Nat) : Loaded(list)
    BY <2>1, <2>2 DEF MCInit
  <2> QED
    BY <2>3 DEF MCInit, WatchedInit
<1>2. [MCNext]_<<desk, bankVars, histories, tutorVars>> => [Watched]_<<bankVars, histories>>
  BY DEF MCNext, AtTheBank, AtTheTutor, Watched
<1> QED
  BY <1>1, <1>2, PTL DEF MCSpec, WatchedSpec
-----------------------------------------------------------------------------

(* SetToSeq lists every element of a finite set.                           *)
LEMMA ListsAll ==
  ASSUME NEW S, IsFiniteSet(S)
  PROVE  /\ SetToSeq(S) \in [1 .. Cardinality(S) -> S]
         /\ \A x \in S : \E i \in 1 .. Cardinality(S) : SetToSeq(S)[i] = x
<1> DEFINE N == 1 .. Cardinality(S)
           f == SetToSeq(S)
<1>1. Cardinality(S) \in Nat /\ ExistsBijection(N, S)
  BY FS_CardinalityType
<1>2. PICK g \in Bijection(N, S) : TRUE
  BY <1>1 DEF ExistsBijection
<1>3. g \in [N -> S] /\ IsInjective(g)
  BY <1>2 DEF Bijection, Injection, IsInjective
<1>4. f \in [N -> S] /\ IsInjective(f)
  BY <1>3 DEF SetToSeq
<1>5. f \in Injection(N, S)
  BY <1>4 DEF Injection, IsInjective
<1>6. Cardinality(N) = Cardinality(S)
  BY <1>1, FS_Interval
<1>7. f \in Surjection(N, S)
  <2> HIDE DEF N, f
  <2> QED
    BY <1>5, <1>6, FS_Injection
<1> QED
  BY <1>4, <1>7 DEF Surjection

(* What a list has of a set: each place of it stands for another place of  *)
(* the list, and every place of the list with an element of the set has    *)
(* one.                                                                    *)
PickedFrom(list, S, some, g) ==
  /\ g \in [1 .. Len(some) -> 1 .. Len(list)]
  /\ \A k, l \in 1 .. Len(some) : g[k] = g[l] => k = l
  /\ \A k \in 1 .. Len(some) : some[k] = list[g[k]] /\ some[k] \in S
  /\ \A i \in 1 .. Len(list) : list[i] \in S => \E k \in 1 .. Len(some) : g[k] = i

LEMMA OnlyPicks ==
  ASSUME NEW X, NEW list \in Seq(X), NEW S
  PROVE  /\ Only(list, S) \in Seq(X)
         /\ \E g : PickedFrom(list, S, Only(list, S), g)
<1> DEFINE n == Len(list)
           bits == [i \in 1 .. n |-> IF list[i] \in S THEN <<list[i]>> ELSE <<>>]
<1>1. n \in Nat /\ DOMAIN list = 1 .. n /\ \A i \in 1 .. n : list[i] \in X
  OBVIOUS
<1>2. bits \in Seq(Seq(X)) /\ Len(bits) = n
  <2>1. \A i \in 1 .. n : (IF list[i] \in S THEN <<list[i]>> ELSE <<>>) \in Seq(X)
    BY <1>1
  <2>2. bits \in [1 .. n -> Seq(X)]
    BY <2>1
  <2> HIDE DEF n, bits
  <2> QED
    BY <1>1, <2>2
<1>3. Only(list, S) = FlattenSeq(bits)
  BY <1>1 DEF Only
<1>4. \A i \in 1 .. n : bits[i] = IF list[i] \in S THEN <<list[i]>> ELSE <<>>
  OBVIOUS
<1> HIDE DEF bits, n
<1>5. PICK f \in [0 .. n -> Seq(X)] :
        /\ f[0] = <<>> /\ \A i \in 1 .. n : f[i] = f[i - 1] \o bits[i]
        /\ FlattenSeq(bits) = f[n]
  BY <1>2, FlattenUnfold
<1> DEFINE Fine(i, t, g) == /\ g \in [1 .. Len(t) -> 1 .. i]
                            /\ \A k, l \in 1 .. Len(t) : g[k] = g[l] => k = l
                            /\ \A k \in 1 .. Len(t) : t[k] = list[g[k]] /\ t[k] \in S
                            /\ \A j \in 1 .. i : list[j] \in S => \E k \in 1 .. Len(t) : g[k] = j
           Good(i, g) == Fine(i, f[i], g)
           T == {i \in 0 .. n : \E g : Good(i, g)}
<1>6. 0 \in T
  <2>1. PICK none \in Seq(X) : none = f[0] /\ Len(none) = 0
    BY <1>1, <1>5
  <2>2. Good(0, [k \in 1 .. 0 |-> k])
    BY <2>1
  <2> QED
    BY <1>1, <2>2
<1>7. ASSUME NEW i \in 1 .. n, i - 1 \in T
      PROVE  i \in T
  <2>1. i \in 0 .. n /\ i - 1 \in 0 .. n /\ i \in Nat /\ i - 1 \in Nat
    BY <1>1
  <2>2. PICK s \in Seq(X) : s = f[i - 1]
    BY <1>5, <2>1
  <2>3. PICK t \in Seq(X) : t = f[i]
    BY <1>5, <2>1
  <2>4. PICK g : Good(i - 1, g)
    BY <1>7
  <2>5. /\ g \in [1 .. Len(s) -> 1 .. i - 1]
        /\ \A k, l \in 1 .. Len(s) : g[k] = g[l] => k = l
        /\ \A k \in 1 .. Len(s) : s[k] = list[g[k]] /\ s[k] \in S
        /\ \A j \in 1 .. i - 1 : list[j] \in S => \E k \in 1 .. Len(s) : g[k] = j
    BY <2>2, <2>4
  <2>6. t = s \o bits[i]
    BY <1>5, <2>2, <2>3
  <2>7. SUFFICES \E h : Fine(i, t, h)
    <3> HIDE DEF Fine
    <3> QED
      BY <2>1, <2>3
  <2>8. CASE list[i] \in S
    <3>1. PICK x \in X : x = list[i]
      BY <1>1
    <3>2. t = s \o <<x>>
      BY <1>4, <2>6, <2>8, <3>1
    <3>3. Len(t) = Len(s) + 1 /\ t[Len(s) + 1] = x /\ \A k \in 1 .. Len(s) : t[k] = s[k]
      BY <3>2
    <3> DEFINE h == [k \in 1 .. Len(t) |-> IF k = Len(s) + 1 THEN i ELSE g[k]]
    <3>4. PICK m \in Nat : m = Len(s)
      OBVIOUS
    <3>5. h \in [1 .. Len(t) -> 1 .. i]
      <4>1. ASSUME NEW k \in 1 .. m + 1
            PROVE  (IF k = m + 1 THEN i ELSE g[k]) \in 1 .. i
        <5>1. CASE k = m + 1
          BY <2>1, <5>1
        <5>2. CASE k # m + 1
          <6>1. k \in 1 .. m
            BY <5>2
          <6>2. g[k] \in 1 .. i - 1
            BY <2>5, <3>4, <6>1
          <6> QED
            BY <2>1, <5>2, <6>2
        <5> QED
          BY <5>1, <5>2
      <4> QED
        BY <3>3, <3>4, <4>1
    <3>6. \A k \in 1 .. m : h[k] = g[k] /\ h[k] \in 1 .. i - 1
      BY <2>5, <3>3, <3>4
    <3>7. h[m + 1] = i /\ Len(t) = m + 1
      BY <3>3, <3>4
    <3> HIDE DEF h
    <3>8. \A k, l \in 1 .. m + 1 : h[k] = h[l] => k = l
      BY <2>1, <2>5, <3>4, <3>6, <3>7
    <3>9. \A k \in 1 .. m + 1 : t[k] = list[h[k]] /\ t[k] \in S
      BY <2>5, <2>8, <3>1, <3>3, <3>4, <3>6, <3>7
    <3>10. \A j \in 1 .. i : list[j] \in S => \E k \in 1 .. m + 1 : h[k] = j
      <4> SUFFICES ASSUME NEW j \in 1 .. i, list[j] \in S
                   PROVE  \E k \in 1 .. m + 1 : h[k] = j
        OBVIOUS
      <4>1. CASE j = i
        BY <3>7, <4>1
      <4>2. CASE j # i
        <5>1. j \in 1 .. i - 1
          BY <2>1, <4>2
        <5>2. PICK k \in 1 .. m : g[k] = j
          BY <2>5, <3>4, <5>1
        <5>3. k \in 1 .. m + 1 /\ h[k] = j
          BY <3>6, <5>2
        <5> QED
          BY <5>3
      <4> QED
        BY <4>1, <4>2
    <3>11. Fine(i, t, h)
      BY <3>5, <3>7, <3>8, <3>9, <3>10
    <3> QED
      BY <3>11
  <2>9. CASE list[i] \notin S
    <3>1. t = s \o <<>>
      BY <1>4, <2>6, <2>9
    <3>2. t = s
      BY <3>1
    <3>3. g \in [1 .. Len(t) -> 1 .. i]
      BY <2>1, <2>5, <3>2
    <3>4. \A j \in 1 .. i : list[j] \in S => \E k \in 1 .. Len(t) : g[k] = j
      <4> SUFFICES ASSUME NEW j \in 1 .. i, list[j] \in S
                   PROVE  \E k \in 1 .. Len(t) : g[k] = j
        OBVIOUS
      <4>1. j \in 1 .. i - 1
        BY <2>1, <2>9
      <4> QED
        BY <2>5, <3>2, <4>1
    <3>5. /\ \A k, l \in 1 .. Len(t) : g[k] = g[l] => k = l
          /\ \A k \in 1 .. Len(t) : t[k] = list[g[k]] /\ t[k] \in S
      BY <2>5, <3>2
    <3>6. Fine(i, t, g)
      BY <3>3, <3>4, <3>5
    <3> QED
      BY <3>6
  <2> QED
    BY <2>8, <2>9
<1>8. n \in T
  <2> HIDE DEF T
  <2>1. 0 .. n \subseteq T
    BY <1>1, <1>6, <1>7, Stepwise
  <2> QED
    BY <1>1, <2>1
<1>9. PICK g : Good(n, g)
  BY <1>8
<1>10. f[n] \in Seq(X) /\ PickedFrom(list, S, f[n], g)
  <2>1. f[n] \in Seq(X)
    BY <1>1, <1>5
  <2> QED
    BY <1>9, <2>1 DEF PickedFrom, n
<1> QED
  BY <1>3, <1>5, <1>10

(***************************************************************************)
(* Steps of the bank.                                                      *)
(***************************************************************************)

(* What a worker holds, a pack and a question are records of their fields. *)
IsMind(m) == m = [version |-> m.version, row |-> m.row, todo |-> m.todo,
                  text |-> m.text, found |-> m.found]
IsRow(r)  == r = [status |-> r.status, count |-> r.count, since |-> r.since]
IsQuestion(r) == r = [id |-> r.id, topic |-> r.topic, status |-> r.status, wording |-> r.wording]

Staffed ==
  /\ at   = [w \in Workers |-> at[w]]
  /\ mind = [w \in Workers |-> mind[w]]
  /\ \A w \in Workers : IsMind(mind[w])

(* The fields of a mind that had one of them changed.                      *)
LEMMA MindFields ==
  ASSUME NEW m, IsMind(m), NEW x
  PROVE  /\ [m EXCEPT !.todo = x]
              = [version |-> m.version, row |-> m.row, todo |-> x, text |-> m.text, found |-> m.found]
         /\ [m EXCEPT !.text = x]
              = [version |-> m.version, row |-> m.row, todo |-> m.todo, text |-> x, found |-> m.found]
         /\ [m EXCEPT !.found = x]
              = [version |-> m.version, row |-> m.row, todo |-> m.todo, text |-> m.text, found |-> x]
BY DEF IsMind

LEMMA MindRows ==
  ASSUME NEW m, IsMind(m), NEW v, NEW r
  PROVE  Holding(m, v, r) = [version |-> v, row |-> r, todo |-> m.todo, text |-> m.text, found |-> m.found]
<1> DEFINE k == [m EXCEPT !.version = v]
           n == Holding(m, v, r)
<1>1. k = [version |-> v, row |-> m.row, todo |-> m.todo, text |-> m.text, found |-> m.found]
  BY DEF IsMind
<1>2. n = [k EXCEPT !.row = r]
  BY Zenon DEF Holding
<1> HIDE DEF k, n
<1>3. n = [version |-> v, row |-> r, todo |-> m.todo, text |-> m.text, found |-> m.found]
  BY <1>1, <1>2
<1> QED
  BY <1>3 DEF n

(* A worker moves, and at one of these posts it still holds what m does.   *)
Posts == {"row", "text", "look", "recount", "write"}
Moves(w, m) ==
  /\ at'   = [at EXCEPT ![w] = at'[w]]
  /\ mind' = [mind EXCEPT ![w] = mind'[w]]
  /\ IsMind(mind'[w])
  /\ at'[w] \in Posts => mind'[w].version = m.version /\ mind'[w].row = m.row

LEMMA GoMoves ==
  ASSUME Staffed, NEW w \in Workers, NEW place, NEW m, NEW n, IsMind(n), Go(w, place, n),
         place \in Posts => n.version = m.version /\ n.row = m.row
  PROVE  Moves(w, m) /\ at'[w] = place /\ mind'[w] = n
BY DEF Staffed, Go, Moves

LEMMA EndMoves ==
  ASSUME Staffed, NEW w \in Workers, NEW m, End(w)
  PROVE  Moves(w, m) /\ at'[w] = "idle"
<1>1. at'[w] = "idle" /\ mind'[w] = EmptyMind
  BY DEF Staffed, End
<1>2. IsMind(EmptyMind)
  BY DEF IsMind, EmptyMind
<1> QED
  BY <1>1, <1>2 DEF Staffed, End, Moves, Posts

LEMMA ContinueMoves ==
  ASSUME Staffed, NEW w \in Workers, NEW m, IsMind(m), NEW list,
         Continue(w, [m EXCEPT !.todo = list])
  PROVE  Moves(w, m) /\ at'[w] \in {"idle", "recount", "look"}
<1> DEFINE n == [m EXCEPT !.todo = list]
<1>1. IsMind(n) /\ n.version = m.version /\ n.row = m.row
  BY MindFields DEF IsMind
<1>2. CASE End(w)
  BY <1>2, EndMoves
<1>3. CASE \E place \in {"recount", "look"} : Go(w, place, n)
  <2> HIDE DEF n
  <2> QED
    BY <1>1, <1>3, GoMoves
<1>4. End(w) \/ \E place \in {"recount", "look"} : Go(w, place, n)
  BY DEF Continue
<1> QED
  BY <1>2, <1>3, <1>4

LEMMA StartBatchMoves ==
  ASSUME Staffed, NEW w \in Workers, NEW m, IsMind(m), StartBatch(w, m)
  PROVE  Moves(w, m) /\ at'[w] \in {"idle", "recount", "look"}
<1>1. CASE Seed(w, m)
  BY <1>1, ContinueMoves DEF Seed
<1>2. CASE Scrape(w, m)
  BY <1>2, ContinueMoves DEF Scrape
<1> QED
  BY <1>1, <1>2 DEF StartBatch

(***************************************************************************)
(* Versions.                                                               *)
(***************************************************************************)
Stands(r) == IsRow(r) /\ r.status \in {"draft", "published"}

Catalogued ==
  /\ packs = [v \in Versions |-> packs[v]]
  /\ \A v \in Versions : packs[v] = NoPack \/ Stands(packs[v])

(* At a post a worker has a version that is there, and a row of it.        *)
HoldersHaveRows ==
  \A w \in Workers : at[w] \in Posts =>
    /\ mind[w].version \in Versions /\ Stands(mind[w].row)
    /\ packs[mind[w].version] # NoPack

(* A version that two hold was met; one that was not is held as it stands, *)
(* or at least as published as it is.                                      *)
MeetingsAreSeen ==
  \A v \in Versions : \A u, w \in Workers : u # w /\ Holds(u, v) /\ Holds(w, v) => v \in met
HeldAsPublished ==
  \A v \in Versions \ met : \A w \in Workers :
    Holds(w, v) /\ packs[v].status = "published" => mind[w].row.status = "published"

PacksInv == /\ Staffed /\ Catalogued /\ HoldersHaveRows /\ MeetingsAreSeen /\ HeldAsPublished
            /\ launched \subseteq Versions
            /\ OrderlyPacks

(* What a step does to the packs, and to the row of the worker that takes  *)
(* it.                                                                     *)
Turns(w) == /\ at'   = [at EXCEPT ![w] = at'[w]]
            /\ mind' = [mind EXCEPT ![w] = mind'[w]]
            /\ IsMind(mind'[w])
KeepsRow(w) ==
  /\ packs' = packs
  /\ at'[w] \in Posts => /\ at[w] \in Posts
                         /\ mind'[w].version = mind[w].version /\ mind'[w].row = mind[w].row
ReadsRow(w) ==
  /\ packs' = packs
  /\ at'[w] \in Posts => /\ mind'[w].version \in Versions /\ packs[mind'[w].version] # NoPack
                         /\ mind'[w].row = packs[mind'[w].version]
MakesRow(w) ==
  \E v \in Versions, r \in {mind'[w].row} \cup {ToolPack(w), [NoPack EXCEPT !.status = "draft"]} :
    /\ packs[v] = NoPack /\ packs' = [packs EXCEPT ![v] = r] /\ Stands(r)
    /\ at'[w] \in Posts => mind'[w].version = v /\ mind'[w].row = r
WritesRow(w) ==
  /\ at[w] = "write" /\ at'[w] \notin Posts
  /\ packs' = [packs EXCEPT ![mind[w].version] = NewRow(w)]

PackStep(w) == Turns(w) /\ (KeepsRow(w) \/ ReadsRow(w) \/ MakesRow(w) \/ WritesRow(w))

LEMMA MovesKeep ==
  ASSUME NEW w \in Workers, Moves(w, mind[w]), packs' = packs,
         at[w] \in Posts \/ at'[w] \notin Posts
  PROVE  PackStep(w)
BY DEF PackStep, Turns, KeepsRow, Moves

(* The version that is found is one that is there.                         *)
LEMMA LatestIsThere ==
  ASSUME Latest > 0
  PROVE  Latest \in Versions /\ packs[Latest] # NoPack
<1> DEFINE There == {v \in Versions : packs[v] # NoPack}
           Tops(v) == /\ v > 0 => packs[v] # NoPack
                      /\ \A u \in Versions : packs[u] # NoPack => u <= v
<1>1. LastVersion \in Nat /\ Versions \in SUBSET Nat /\ \A v \in Versions : v > 0
  BY BankAssumption DEF Versions
<1>2. \E v \in Versions \cup {0} : Tops(v)
  <2>1. CASE There = {}
    BY <1>1, <2>1
  <2>2. CASE There # {}
    <3>1. There \in SUBSET Nat /\ \A v \in There : v <= LastVersion
      BY <1>1 DEF Versions
    <3>2. PICK m \in There : \A v \in There : v <= m
      <4> HIDE DEF There
      <4> QED
        BY <1>1, <2>2, <3>1, Greatest
    <3> QED
      BY <3>2
  <2> QED
    BY <2>1, <2>2
<1>3. Latest \in Versions \cup {0} /\ Tops(Latest)
  <2>1. Latest = CHOOSE v \in Versions \cup {0} : Tops(v)
    BY DEF Latest
  <2> HIDE DEF Tops
  <2> QED
    BY <1>2, <2>1
<1> QED
  BY <1>1, <1>3

(* The rows that jobs write stand.                                         *)
LEMMA RowsStand ==
  ASSUME NEW w \in Workers
  PROVE  /\ Stands(ToolPack(w)) /\ Stands([NoPack EXCEPT !.status = "draft"])
         /\ Stands(mind[w].row) => /\ Stands(NewRow(w))
                                   /\ mind[w].row.status = "published" => NewRow(w).status = "published"
<1>1. Stands(ToolPack(w)) /\ Stands([NoPack EXCEPT !.status = "draft"])
  BY DEF Stands, IsRow, ToolPack, NoPack
<1>2. ASSUME NEW row, Stands(row), NEW x, NEW y
      PROVE  /\ Stands([row EXCEPT !.count = x]) /\ [row EXCEPT !.count = x].status = row.status
             /\ Stands([row EXCEPT !.status = "published", !.since = y])
             /\ [row EXCEPT !.status = "published", !.since = y].status = "published"
  <2> DEFINE n == [row EXCEPT !.status = "published"]
             c == [row EXCEPT !.count = x]
  <2>1. n = [status |-> "published", count |-> row.count, since |-> row.since]
    BY <1>2 DEF Stands, IsRow
  <2>2. [row EXCEPT !.status = "published", !.since = y] = [n EXCEPT !.since = y]
    BY Zenon
  <2>3. c = [status |-> row.status, count |-> x, since |-> row.since]
    BY <1>2 DEF Stands, IsRow
  <2>4. Stands(c) /\ c.status = row.status
    <3> HIDE DEF c
    <3> QED
      BY <1>2, <2>3 DEF Stands, IsRow
  <2>5. [n EXCEPT !.since = y] = [status |-> "published", count |-> row.count, since |-> y]
    <3> HIDE DEF n
    <3> QED
      BY <2>1
  <2> QED
    BY <2>2, <2>4, <2>5 DEF Stands, IsRow
<1>3. ASSUME Stands(mind[w].row)
      PROVE  /\ Stands(NewRow(w))
             /\ mind[w].row.status = "published" => NewRow(w).status = "published"
  <2> DEFINE row == mind[w].row
             p   == [row EXCEPT !.status = "published", !.since = clock + 1]
             c   == [row EXCEPT !.count = @ + 1]
             f   == [row EXCEPT !.count = mind[w].found[1]]
  <2>1. NewRow(w) \in {c, p, f}
    <3>1. CASE Adds(w)
      <4>1. job[w].op # "publish"
        BY <3>1 DEF Adds
      <4> QED
        BY <3>1, <4>1, Zenon DEF NewRow
    <3>2. CASE ~ Adds(w) /\ job[w].op = "publish"
      BY <3>2, Zenon DEF NewRow
    <3>3. CASE ~ Adds(w) /\ job[w].op # "publish"
      BY <3>3, Zenon DEF NewRow
    <3> QED
      BY <3>1, <3>2, <3>3
  <2>2. Stands(p) /\ p.status = "published"
    BY <1>2, <1>3
  <2>3. Stands(c) /\ c.status = row.status /\ Stands(f) /\ f.status = row.status
    BY <1>2, <1>3
  <2> HIDE DEF p, c, f
  <2> QED
    BY <2>1, <2>2, <2>3
<1> QED
  BY <1>1, <1>3

LEMMA GetPackStep ==
  ASSUME Staffed, Catalogued, NEW w \in Workers, GetPackByID(w)
  PROVE  PackStep(w)
<1> DEFINE m == Holding(mind[w], Latest, packs[Latest])
           n == [m EXCEPT !.text = job[w].wording]
<1>1. IsMind(m) /\ m.version = Latest /\ m.row = packs[Latest]
  BY MindRows DEF Staffed, IsMind
<1> HIDE DEF m
<1>2. IsMind(n) /\ n.version = Latest /\ n.row = packs[Latest]
  BY <1>1, MindFields DEF IsMind
<1> HIDE DEF n
<1>3. packs' = packs
  BY DEF GetPackByID, catalog
<1>4. CASE Latest > 0 /\ Moves(w, m)
  BY <1>1, <1>3, <1>4, LatestIsThere DEF PackStep, Turns, ReadsRow, Moves
<1>5. CASE Moves(w, mind[w]) /\ at'[w] \notin Posts
  BY <1>3, <1>5, MovesKeep
<1>6. CASE /\ Latest > 0
           /\ \/ \E place \in {"row", "write", "log"} : \E k \in {m, n} : Go(w, place, k)
              \/ StartBatch(w, m)
  <2>1. CASE \E place \in {"row", "write", "log"} : \E k \in {m, n} : Go(w, place, k)
    BY <1>1, <1>2, <1>4, <1>6, <2>1, GoMoves
  <2>2. CASE StartBatch(w, m)
    BY <1>1, <1>4, <1>6, <2>2, StartBatchMoves
  <2> QED
    BY <1>6, <2>1, <2>2
<1>7. CASE Go(w, "create", mind[w]) \/ End(w)
  <2>1. CASE Go(w, "create", mind[w])
    <3>1. IsMind(mind[w])
      BY DEF Staffed
    <3>2. Moves(w, mind[w]) /\ at'[w] = "create"
      BY <2>1, <3>1, GoMoves
    <3> QED
      BY <1>5, <3>2 DEF Posts
  <2>2. CASE End(w)
    BY <1>5, <2>2, EndMoves DEF Posts
  <2> QED
    BY <1>7, <2>1, <2>2
<1>8. \/ Latest > 0 /\ (\/ \E place \in {"row", "write", "log"} : \E k \in {m, n} : Go(w, place, k)
                        \/ StartBatch(w, m))
      \/ Go(w, "create", mind[w]) \/ End(w)
  BY Zenon DEF GetPackByID, m, n
<1> QED
  BY <1>6, <1>7, <1>8

LEMMA CreatePackStep ==
  ASSUME Staffed, Catalogued, NEW w \in Workers, CreatePack(w)
  PROVE  PackStep(w)
<1> DEFINE v   == IF IsTool(w) THEN 1 ELSE job[w].version
           row == IF IsTool(w) THEN ToolPack(w) ELSE [NoPack EXCEPT !.status = "draft"]
           m   == Holding(mind[w], v, row)
<1>1. Stands(row)
  BY RowsStand
<1>2. row \in {ToolPack(w), [NoPack EXCEPT !.status = "draft"]}
  OBVIOUS
<1>3. IsTool(w) => v \in Versions
  BY BankAssumption DEF Versions
<1>4. /\ at[w] = "create"
      /\ \/ /\ packs[v] = NoPack /\ packs' = [packs EXCEPT ![v] = row]
            /\ IF IsTool(w) THEN StartBatch(w, m) ELSE Go(w, "log", m)
         \/ End(w) /\ packs' = packs
  BY DEF CreatePack
<1> HIDE DEF v, row
<1>5. IsMind(m) /\ m.version = v /\ m.row = row
  BY MindRows DEF Staffed, IsMind
<1> HIDE DEF m
<1>6. CASE End(w) /\ packs' = packs
  BY <1>6, EndMoves, MovesKeep DEF Posts
<1>7. CASE /\ packs[v] = NoPack /\ packs' = [packs EXCEPT ![v] = row]
           /\ IF IsTool(w) THEN StartBatch(w, m) ELSE Go(w, "log", m)
  <2>1. Moves(w, m) /\ (~ IsTool(w) => at'[w] = "log")
    BY <1>5, <1>7, GoMoves, StartBatchMoves
  <2>2. CASE v \in Versions
    BY <1>1, <1>2, <1>5, <1>7, <2>1, <2>2 DEF PackStep, Turns, Moves, MakesRow
  <2>3. CASE v \notin Versions
    BY <1>3, <1>7, <2>1, <2>3 DEF PackStep, Turns, Moves, KeepsRow, Catalogued, Posts
  <2> QED
    BY <2>2, <2>3
<1> QED
  BY <1>4, <1>6, <1>7

(* A worker goes on with the version it has.                               *)
LEMMA GoesOn ==
  ASSUME Staffed, NEW w \in Workers, NEW x, NEW place
  PROVE  /\ Go(w, place, mind[w]) => Moves(w, mind[w])
         /\ Go(w, place, [mind[w] EXCEPT !.todo = x]) => Moves(w, mind[w])
         /\ Go(w, place, [mind[w] EXCEPT !.text = x]) => Moves(w, mind[w])
         /\ Go(w, place, [mind[w] EXCEPT !.found = x]) => Moves(w, mind[w])
         /\ Continue(w, [mind[w] EXCEPT !.todo = x]) => Moves(w, mind[w])
         /\ End(w) => Moves(w, mind[w])
<1> DEFINE m == mind[w]
           t == [m EXCEPT !.todo = x]
           u == [m EXCEPT !.text = x]
           f == [m EXCEPT !.found = x]
<1>1. IsMind(m)
  BY DEF Staffed
<1>2. IsMind(t) /\ t.version = m.version /\ t.row = m.row
  BY <1>1 DEF IsMind
<1>3. IsMind(u) /\ u.version = m.version /\ u.row = m.row
  BY <1>1 DEF IsMind
<1>4. IsMind(f) /\ f.version = m.version /\ f.row = m.row
  BY <1>1 DEF IsMind
<1>5. (Continue(w, t) => Moves(w, m)) /\ (End(w) => Moves(w, m))
  BY <1>1, ContinueMoves, EndMoves
<1>6. \A n : IsMind(n) /\ n.version = m.version /\ n.row = m.row /\ Go(w, place, n) => Moves(w, m)
  BY GoMoves
<1> HIDE DEF m, t, u, f
<1>7. /\ Go(w, place, m) => Moves(w, m)
      /\ Go(w, place, t) => Moves(w, m)
      /\ Go(w, place, u) => Moves(w, m)
      /\ Go(w, place, f) => Moves(w, m)
  BY <1>1, <1>2, <1>3, <1>4, <1>6
<1> QED
  BY <1>5, <1>7 DEF m, t, u, f

LEMMA FillPackStep ==
  ASSUME Staffed, NEW w \in Workers, FillPack(w) \/ CreateQuestion(w)
  PROVE  PackStep(w)
<1>1. packs' = packs /\ at[w] \in Posts
  BY DEF FillPack, CreateQuestion, LookAtQuestion, CountQuestions, UpsertQuestion,
         UpsertTranslations, catalog, Posts
<1>2. ASSUME LookAtQuestion(w)
      PROVE  Moves(w, mind[w])
  <2>1. PICK x : Continue(w, [mind[w] EXCEPT !.todo = x]) \/ Go(w, "row", [mind[w] EXCEPT !.text = x])
    BY <1>2 DEF LookAtQuestion
  <2> QED
    BY <2>1, GoesOn
<1>3. ASSUME CountQuestions(w)
      PROVE  Moves(w, mind[w])
  <2>1. PICK x : Go(w, "write", [mind[w] EXCEPT !.found = x]) \/ End(w)
    BY <1>3 DEF CountQuestions
  <2> QED
    BY <2>1, GoesOn
<1>4. ASSUME UpsertQuestion(w)
      PROVE  Moves(w, mind[w])
  <2>1. PICK x : Go(w, "text", mind[w]) \/ End(w) \/ Continue(w, [mind[w] EXCEPT !.todo = x])
    BY <1>4 DEF UpsertQuestion, Abandon
  <2> QED
    BY <2>1, GoesOn
<1>5. ASSUME UpsertTranslations(w)
      PROVE  Moves(w, mind[w])
  <2>1. PICK x : Go(w, "write", mind[w]) \/ End(w) \/ Continue(w, [mind[w] EXCEPT !.todo = x])
    BY <1>5 DEF UpsertTranslations, Abandon
  <2> QED
    BY <2>1, GoesOn
<1>6. Moves(w, mind[w])
  BY <1>2, <1>3, <1>4, <1>5, Zenon DEF FillPack, CreateQuestion
<1> QED
  BY <1>1, <1>6, MovesKeep

LEMMA UpdatePackStep ==
  ASSUME Staffed, NEW w \in Workers, UpdatePack(w)
  PROVE  PackStep(w)
<1>1. at[w] = "write" /\ (Go(w, "log", mind[w]) \/ End(w))
  BY DEF UpdatePack
<1>2. Moves(w, mind[w]) /\ at'[w] \in {"log", "idle"}
  BY <1>1, GoMoves, EndMoves DEF Staffed, Posts
<1>3. packs' \in {packs, [packs EXCEPT ![mind[w].version] = NewRow(w)]}
  BY DEF UpdatePack
<1> QED
  BY <1>1, <1>2, <1>3 DEF PackStep, Turns, Moves, KeepsRow, WritesRow, Posts

LEMMA OtherSteps ==
  ASSUME Staffed, NEW w \in Workers,
         Begin(w) \/ LogAction(w) \/ ImportTickets(w) \/ ClassifyTopics(w) \/ Die(w)
  PROVE  PackStep(w)
<1>1. packs' = packs
  BY DEF Begin, LogAction, ImportTickets, FindDuplicates, MarkDuplicate, ReplaceTickets,
         ClassifyTopics, ListQuestionTexts, SetCategories, Die, catalog
<1>2. CASE Begin(w)
  <2>1. PICK place \in {"create", "duplicates", "texts", "pack"} : at' = [at EXCEPT ![w] = place]
    BY <1>2 DEF Begin
  <2>2. mind' = mind
    BY <1>2 DEF Begin
  <2> QED
    BY <1>1, <2>1, <2>2 DEF PackStep, Turns, KeepsRow, Staffed, Posts
<1>3. CASE LogAction(w) \/ ReplaceTickets(w) \/ SetCategories(w) \/ Die(w)
  <2>1. End(w)
    BY <1>3 DEF LogAction, ReplaceTickets, SetCategories, Die
  <2> QED
    BY <1>1, <2>1, EndMoves, MovesKeep DEF Posts
<1>4. CASE MarkDuplicate(w)
  <2>1. End(w) \/ \E x : Go(w, "mark", [mind[w] EXCEPT !.todo = x])
    BY <1>4 DEF MarkDuplicate
  <2>2. at[w] = "mark"
    BY <1>4 DEF MarkDuplicate
  <2>3. CASE End(w)
    BY <1>1, <2>3, EndMoves, MovesKeep DEF Posts
  <2>4. CASE \E x : Go(w, "mark", [mind[w] EXCEPT !.todo = x])
    <3>1. PICK x : Go(w, "mark", [mind[w] EXCEPT !.todo = x])
      BY <2>4
    <3>2. Moves(w, mind[w])
      BY <3>1, GoesOn
    <3>3. at'[w] = "mark"
      BY <3>1 DEF Go, Staffed
    <3> QED
      BY <1>1, <3>2, <3>3, MovesKeep DEF Posts
  <2> QED
    BY <2>1, <2>3, <2>4
<1>5. CASE ListQuestionTexts(w)
  <2>1. PICK x : End(w) \/ Go(w, "file", [mind[w] EXCEPT !.found = x])
    BY <1>5 DEF ListQuestionTexts
  <2>2. Moves(w, mind[w])
    BY <2>1, GoesOn
  <2>3. at'[w] \in {"idle", "file"}
    BY <2>1, EndMoves DEF Go, Staffed
  <2> QED
    BY <1>1, <2>2, <2>3, MovesKeep DEF Posts
<1>6. CASE FindDuplicates(w)
  <2> DEFINE kept == [q \in Duplicates |-> Kept(q)]
             list == SetToSeq(Duplicates)
             n    == [mind[w] EXCEPT !.found = kept]
  <2>1. End(w) \/ Go(w, "mark", [mind[w] EXCEPT !.found = kept, !.todo = list])
    BY <1>6 DEF FindDuplicates
  <2>2. [mind[w] EXCEPT !.found = kept, !.todo = list] = [n EXCEPT !.todo = list]
    BY Zenon
  <2>3. IsMind(mind[w])
    BY DEF Staffed
  <2> HIDE DEF kept, list
  <2>4. IsMind(n)
    BY <2>3, MindFields DEF IsMind
  <2> HIDE DEF n
  <2> DEFINE k == [n EXCEPT !.todo = list]
  <2>5. IsMind(k)
    BY <2>4 DEF IsMind
  <2>6. End(w) \/ Go(w, "mark", k)
    BY <2>1, <2>2, Zenon
  <2> HIDE DEF k
  <2>7. Moves(w, mind[w]) /\ at'[w] \in {"idle", "mark"}
    <3>1. CASE End(w)
      BY <3>1, EndMoves
    <3>2. CASE Go(w, "mark", k)
      <4>1. "mark" \notin Posts
        BY DEF Posts
      <4> QED
        BY <2>5, <3>2, <4>1, GoMoves
    <3> QED
      BY <2>6, <3>1, <3>2
  <2> QED
    BY <1>1, <2>7, MovesKeep DEF Posts
<1> QED
  BY <1>2, <1>3, <1>4, <1>5, <1>6 DEF ImportTickets, ClassifyTopics

LEMMA WorkIsPackStep ==
  ASSUME Staffed, Catalogued, NEW w \in Workers, Work(w)
  PROVE  PackStep(w)
<1>1. CASE GetPackByID(w) \/ CreatePack(w)
  BY <1>1, GetPackStep, CreatePackStep
<1>2. CASE FillPack(w) \/ CreateQuestion(w)
  BY <1>2, FillPackStep
<1>3. CASE UpdatePack(w)
  BY <1>3, UpdatePackStep
<1>4. CASE Begin(w) \/ LogAction(w) \/ ImportTickets(w) \/ ClassifyTopics(w) \/ Die(w)
  BY <1>4, OtherSteps
<1> QED
  BY <1>1, <1>2, <1>3, <1>4, Zenon DEF Work, WorkOnPack

(* Every step of the bank is a worker's, or one of those it does not see.  *)
LEMMA KindOfStep ==
  ASSUME BankNext
  PROVE  \/ \E w \in Workers : Work(w)
         \/ /\ UNCHANGED <<catalog, table, tickets, work>>
            /\ \/ UNCHANGED walk
               \/ GetQuestionsByPack /\ UNCHANGED <<prepdrive, attempts>>
BY DEF BankNext, Reword, OpenTest, GetQuestionsByPack, learner

(* Two elements make more than one.                                        *)
LEMMA TwoAreMore ==
  ASSUME NEW S, IsFiniteSet(S), NEW x \in S, NEW y \in S, x # y
  PROVE  Cardinality(S) > 1
<1>1. Cardinality({x, y}) = 2
  <2>1. IsFiniteSet({x}) /\ Cardinality({x}) = 1
    BY FS_Singleton
  <2>2. {x, y} = {x} \cup {y} /\ y \notin {x}
    OBVIOUS
  <2>3. Cardinality({x} \cup {y}) = 2
    BY <2>1, <2>2, FS_AddElement
  <2> QED
    BY <2>2, <2>3
<1>2. {x, y} \in SUBSET S /\ Cardinality(S) \in Nat
  BY FS_CardinalityType
<1>3. Cardinality({x, y}) <= Cardinality(S)
  BY <1>2, FS_Subset
<1> QED
  BY <1>1, <1>2, <1>3

(* The history of meetings is kept.                                        *)
LEMMA MeetingsAreKept ==
  ASSUME Remember, NEW v \in Versions
  PROVE  /\ v \in met => v \in met'
         /\ \A u, w \in Workers : u # w /\ Holds(u, v)' /\ Holds(w, v)' => v \in met'
<1>1. ASSUME NEW u \in Workers, NEW w \in Workers, u # w, Holds(u, v)', Holds(w, v)'
      PROVE  v \in met'
  <2> DEFINE S == {o \in Workers : Holds(o, v)'}
  <2>1. S \in SUBSET Workers /\ IsFiniteSet(Workers) /\ u \in S /\ w \in S
    BY <1>1, BankAssumption
  <2>2. IsFiniteSet(S)
    BY <2>1, FS_Subset
  <2>3. Cardinality(S) > 1
    <3> HIDE DEF S
    <3> QED
      BY <1>1, <2>1, <2>2, TwoAreMore
  <2> QED
    BY <2>3 DEF Remember
<1> QED
  BY <1>1 DEF Remember

(* A worker's step keeps all this.                                         *)
LEMMA PackStepIsSound ==
  ASSUME PacksInv, NEW w \in Workers, PackStep(w), Remember
  PROVE  PacksInv'
<1> USE DEF PacksInv
<1>1. Staffed'
  BY DEF Staffed, PackStep, Turns
<1>2. \A u \in Workers : u # w => at'[u] = at[u] /\ mind'[u] = mind[u]
  BY DEF PackStep, Turns, Staffed
<1>3. Stands(mind[w].row) => Stands(NewRow(w))
  BY RowsStand
<1>4. Catalogued' /\ \A v \in Versions : packs[v] # NoPack => packs'[v] # NoPack
  <2>1. CASE packs' = packs
    BY <2>1 DEF Catalogued
  <2>2. CASE MakesRow(w)
    <3>1. PICK v \in Versions, r \in {mind'[w].row} \cup {ToolPack(w), [NoPack EXCEPT !.status = "draft"]} :
                 packs[v] = NoPack /\ packs' = [packs EXCEPT ![v] = r] /\ Stands(r)
      BY <2>2 DEF MakesRow
    <3> QED
      BY <3>1 DEF Catalogued
  <2>3. CASE WritesRow(w)
    <3>1. mind[w].version \in Versions /\ Stands(NewRow(w))
      BY <1>3, <2>3 DEF WritesRow, HoldersHaveRows, Posts
    <3>2. NewRow(w) # NoPack
      BY <3>1 DEF Stands, NoPack
    <3> QED
      BY <2>3, <3>1, <3>2 DEF WritesRow, Catalogued
  <2> QED
    BY <2>1, <2>2, <2>3 DEF PackStep, KeepsRow, ReadsRow
<1>5. HoldersHaveRows'
  <2>1. ASSUME NEW u \in Workers, at'[u] \in Posts
        PROVE  /\ mind'[u].version \in Versions /\ Stands(mind'[u].row)
               /\ packs'[mind'[u].version] # NoPack
    <3>1. CASE u # w
      BY <1>2, <1>4, <2>1, <3>1 DEF HoldersHaveRows
    <3>2. CASE u = w /\ KeepsRow(w)
      BY <2>1, <3>2 DEF HoldersHaveRows, KeepsRow
    <3>3. CASE u = w /\ ReadsRow(w)
      BY <2>1, <3>3 DEF ReadsRow, Catalogued
    <3>4. CASE u = w /\ MakesRow(w)
      <4>1. PICK v \in Versions, r \in {mind'[w].row} \cup {ToolPack(w), [NoPack EXCEPT !.status = "draft"]} :
                   /\ packs' = [packs EXCEPT ![v] = r] /\ Stands(r)
                   /\ mind'[w].version = v /\ mind'[w].row = r
        BY <2>1, <3>4 DEF MakesRow
      <4> QED
        BY <3>4, <4>1 DEF Catalogued, Stands, NoPack
    <3> QED
      BY <2>1, <3>1, <3>2, <3>3, <3>4 DEF PackStep, WritesRow
  <2> QED
    BY <2>1 DEF HoldersHaveRows
<1>6. MeetingsAreSeen'
  BY MeetingsAreKept DEF MeetingsAreSeen
<1>7. launched' \subseteq Versions
  BY DEF Remember
(* What stood published stands so, but for a version that was met.         *)
<1>8. ASSUME NEW v \in Versions, v \notin met, packs[v].status = "published"
      PROVE  packs'[v].status = "published"
  <2>1. CASE packs' = packs
    BY <1>8, <2>1
  <2>2. CASE MakesRow(w)
    BY <1>8, <2>2 DEF MakesRow, Catalogued, NoPack
  <2>3. CASE WritesRow(w) /\ mind[w].version # v
    BY <1>8, <2>3 DEF WritesRow, Catalogued
  <2>4. CASE WritesRow(w) /\ mind[w].version = v
    <3>1. Holds(w, v) /\ Stands(mind[w].row)
      BY <2>4 DEF Holds, WritesRow, HoldersHaveRows, Posts
    <3>2. mind[w].row.status = "published"
      BY <1>8, <3>1 DEF HeldAsPublished
    <3> QED
      BY <2>4, <3>1, <3>2, RowsStand DEF WritesRow, Catalogued
  <2> QED
    BY <2>1, <2>2, <2>3, <2>4 DEF PackStep, KeepsRow, ReadsRow
<1>9. HeldAsPublished'
  <2>1. ASSUME NEW v \in Versions, v \notin met', NEW u \in Workers, Holds(u, v)',
               packs'[v].status = "published"
        PROVE  mind'[u].row.status = "published"
    <3>1. v \notin met
      BY <2>1, MeetingsAreKept
    <3>2. at'[u] \in Posts /\ mind'[u].version = v
      BY <2>1 DEF Holds, Posts
    <3>3. CASE Holds(u, v) /\ mind'[u] = mind[u] /\ u # w
      <4>1. packs[v].status = "published"
        <5>1. CASE WritesRow(w) /\ mind[w].version = v
          <6>1. Holds(w, v)
            BY <5>1 DEF Holds, WritesRow
          <6> QED
            BY <3>1, <3>3, <6>1 DEF MeetingsAreSeen
        <5>2. CASE WritesRow(w) /\ mind[w].version # v
          BY <2>1, <5>2 DEF WritesRow, Catalogued
        <5>3. CASE MakesRow(w)
          <6>1. packs[v] # NoPack
            BY <3>3 DEF HoldersHaveRows, Holds, Posts
          <6> QED
            BY <2>1, <5>3, <6>1 DEF MakesRow, Catalogued
        <5>4. CASE packs' = packs
          BY <2>1, <5>4
        <5> QED
          BY <5>1, <5>2, <5>3, <5>4 DEF PackStep, KeepsRow, ReadsRow
      <4> QED
        BY <3>1, <3>3, <4>1 DEF HeldAsPublished
    <3>4. CASE u = w
      <4>1. CASE KeepsRow(w)
        <5>1. Holds(w, v) /\ mind'[w].row = mind[w].row /\ packs' = packs
          BY <3>2, <3>4, <4>1 DEF KeepsRow, Holds, Posts
        <5> QED
          BY <2>1, <3>1, <3>4, <5>1 DEF HeldAsPublished
      <4>2. CASE ReadsRow(w)
        BY <2>1, <3>2, <3>4, <4>2 DEF ReadsRow
      <4>3. CASE MakesRow(w)
        <5>1. PICK r \in {mind'[w].row} \cup {ToolPack(w), [NoPack EXCEPT !.status = "draft"]} :
                     packs' = [packs EXCEPT ![v] = r] /\ mind'[w].row = r
          BY <3>2, <3>4, <4>3 DEF MakesRow
        <5> QED
          BY <2>1, <3>4, <5>1 DEF Catalogued
      <4> QED
        BY <3>2, <3>4, <4>1, <4>2, <4>3 DEF PackStep, WritesRow
    <3> QED
      BY <1>2, <2>1, <3>3, <3>4 DEF Holds
  <2> QED
    BY <2>1 DEF HeldAsPublished
<1>10. OrderlyPacks'
  <2>1. ASSUME NEW v \in launched', v \notin met'
        PROVE  packs'[v].status = "published"
    <3>1. v \in Versions /\ v \notin met
      BY <1>7, <2>1, MeetingsAreKept
    <3>2. v \in launched \/ packs'[v].status = "published"
      BY <2>1 DEF Remember
    <3> QED
      BY <1>8, <3>1, <3>2 DEF OrderlyPacks
  <2> QED
    BY <2>1 DEF OrderlyPacks
<1> QED
  BY <1>1, <1>4, <1>5, <1>6, <1>7, <1>9, <1>10

LEMMA InitPacks == WatchedInit => PacksInv
<1> SUFFICES ASSUME WatchedInit
             PROVE  PacksInv
  OBVIOUS
<1>1. PICK list : Loaded(list) /\ NobodyWorks
  BY DEF WatchedInit
<1>2. Staffed /\ \A w \in Workers : at[w] = "idle"
  BY <1>1 DEF NobodyWorks, Staffed, IsMind, EmptyMind
<1>3. Catalogued
  BY <1>1 DEF Loaded, Catalogued, Stands, IsRow, NoPack
<1>4. launched = {}
  BY DEF WatchedInit
<1> QED
  BY <1>2, <1>3, <1>4
     DEF PacksInv, HoldersHaveRows, MeetingsAreSeen, HeldAsPublished, OrderlyPacks, Holds, Posts

LEMMA PacksStep == PacksInv /\ [Watched]_<<bankVars, histories>> => PacksInv'
<1> SUFFICES ASSUME PacksInv, [Watched]_<<bankVars, histories>>
             PROVE  PacksInv'
  OBVIOUS
<1>1. CASE UNCHANGED <<packs, at, mind, launched, met>>
  BY <1>1 DEF PacksInv, Staffed, Catalogued, HoldersHaveRows, MeetingsAreSeen, HeldAsPublished,
              OrderlyPacks, Holds
<1>2. CASE Watched
  <2>1. Remember
    BY <1>2 DEF Watched
  <2>2. CASE \E w \in Workers : Work(w)
    <3>1. PICK w \in Workers : Work(w)
      BY <2>2
    <3>2. PackStep(w)
      BY <3>1, WorkIsPackStep DEF PacksInv
    <3> QED
      BY <2>1, <3>2, PackStepIsSound
  <2>3. CASE UNCHANGED <<packs, at, mind>>
    <3>1. launched' \subseteq Versions
      BY <2>1 DEF PacksInv, Remember
    <3>2. \A v \in Versions : v \notin met' => v \notin met
      BY <2>1, MeetingsAreKept
    <3>3. MeetingsAreSeen'
      BY <2>1, MeetingsAreKept DEF MeetingsAreSeen
    <3>4. HeldAsPublished'
      BY <2>3, <3>2 DEF PacksInv, HeldAsPublished, Holds
    <3>5. OrderlyPacks'
      BY <2>1, <2>3, <3>1, <3>2 DEF PacksInv, OrderlyPacks, Remember
    <3>6. Staffed' /\ Catalogued' /\ HoldersHaveRows'
      BY <2>3 DEF PacksInv, Staffed, Catalogued, HoldersHaveRows
    <3> QED
      BY <3>1, <3>3, <3>4, <3>5, <3>6 DEF PacksInv
  <2> QED
    BY <1>2, <2>2, <2>3, KindOfStep DEF Watched, catalog, work
<1> QED
  BY <1>1, <1>2 DEF bankVars, catalog, work, histories

(* A version that was published stays published, whatever is added to it   *)
(* or counted, unless two jobs held it at once (UpdatePack writes the      *)
(* whole row, as the job read it).                                         *)
THEOREM PublishedVersionsStay == WatchedSpec => []OrderlyPacks
<1>1. PacksInv => OrderlyPacks
  BY DEF PacksInv
<1> QED
  BY <1>1, InitPacks, PacksStep, PTL DEF WatchedSpec

(***************************************************************************)
(* Pages.                                                                  *)
(***************************************************************************)

(* What a client was given lies before its cursor, and so much of what was *)
(* there all the while as lies before it was given; when the walk is over  *)
(* everything was.                                                         *)
WalkInv ==
  /\ walk.at \in {"idle", "on", "over"} /\ walk.cursor \in Nat
  /\ walk.listed \subseteq Questions /\ ~ walk.twice
  /\ walk.at = "idle" => walk.listed = {} /\ walk.cursor = 0
  /\ walk.at # "over" => \A q \in walk.listed : q <= walk.cursor
  /\ walk.at = "on"   => \A q \in stayed : q <= walk.cursor => q \in walk.listed
  /\ walk.at = "over" => stayed \subseteq walk.listed

Rows    == {q \in Published : q > walk.cursor}
Page    == {q \in Rows : Cardinality({p \in Rows : p < q}) < PageLimit}

(* A page that leaves something out ends before what it leaves out.        *)
LEMMA PagesAreCutInOrder ==
  ASSUME walk.cursor \in Nat, Page # Rows
  PROVE  /\ NextCursor(Rows, Page) \in Page
         /\ \A q \in Rows : q <= NextCursor(Rows, Page) <=> q \in Page
<1>1. LastQuestion \in Nat /\ PageLimit \in Nat \ {0} /\ Questions \in SUBSET Nat
  BY BankAssumption DEF Questions
<1>2. Rows \in SUBSET Questions /\ Rows \in SUBSET Nat
  BY <1>1 DEF Rows, Published
<1>3. IsFiniteSet(Rows)
  <2>1. IsFiniteSet(Questions)
    BY <1>1, FS_Interval DEF Questions
  <2> QED
    BY <1>2, <2>1, FS_Subset
<1> DEFINE Lower(q) == {p \in Rows : p < q}
<1>4. \A q \in Rows : IsFiniteSet(Lower(q)) /\ Cardinality(Lower(q)) \in Nat
  BY <1>3, FS_Subset, FS_CardinalityType
<1>5. ASSUME NEW p \in Rows, NEW q \in Rows, p <= q
      PROVE  Cardinality(Lower(p)) <= Cardinality(Lower(q))
  <2>1. ASSUME NEW r \in Rows, r < p
        PROVE  r < q
    <3>1. p \in Nat /\ q \in Nat /\ r \in Nat
      BY <1>2
    <3> QED
      BY <1>5, <2>1, <3>1
  <2>2. Lower(p) \in SUBSET Lower(q)
    BY <2>1
  <2> QED
    BY <1>4, <2>2, FS_Subset
<1>6. Page = {q \in Rows : Cardinality(Lower(q)) < PageLimit}
  BY DEF Page
<1>7. Page # {}
  <2>1. PICK q \in Rows : \A p \in Rows : q <= p
    <3>1. Rows # {}
      BY <1>6
    <3> QED
      BY <1>2, <3>1, Least
  <2>2. Lower(q) = {}
    <3>1. \A p \in Rows : p \in Nat /\ q \in Nat /\ q <= p
      BY <1>2, <2>1
    <3> QED
      BY <3>1
  <2>3. Cardinality(Lower(q)) = 0
    BY <2>2, FS_EmptySet
  <2> QED
    BY <1>1, <1>6, <2>3
<1>8. \E q \in Page : \A p \in Page : p <= q
  <2>1. ASSUME NEW q \in Page
        PROVE  q \in Nat /\ q <= LastQuestion
    <3>1. q \in Questions
      BY <1>2, <1>6
    <3> QED
      BY <1>1, <3>1 DEF Questions
  <2>2. Page \in SUBSET Nat /\ \A q \in Page : q <= LastQuestion
    BY <2>1
  <2> QED
    BY <1>1, <1>7, <2>2, Greatest
<1> DEFINE c == NextCursor(Rows, Page)
<1>9. c \in Page /\ \A p \in Page : p <= c
  BY <1>8 DEF NextCursor
<1> HIDE DEF c, Lower
<1>10. ASSUME NEW q \in Rows, q <= c
       PROVE  q \in Page
  <2>1. c \in Rows /\ Cardinality(Lower(q)) <= Cardinality(Lower(c)) /\ Cardinality(Lower(c)) < PageLimit
    BY <1>5, <1>6, <1>9, <1>10
  <2>2. Cardinality(Lower(q)) < PageLimit
    BY <1>1, <1>4, <2>1
  <2> QED
    BY <1>6, <2>2
<1> QED
  BY <1>9, <1>10 DEF c

LEMMA PageKeeps ==
  ASSUME WalkInv, GetQuestionsByPack, Remember
  PROVE  WalkInv'
<1> USE DEF WalkInv
<1>1. Questions \in SUBSET Nat /\ Published \subseteq Questions /\ Rows \subseteq Published /\ Page \subseteq Rows
  BY BankAssumption DEF Questions, Published, Rows, Page
<1> DEFINE c == NextCursor(Rows, Page)
<1>2. /\ walk.at # "over"
      /\ walk' = [at     |-> IF c = 0 THEN "over" ELSE "on",
                  cursor |-> c,
                  listed |-> walk.listed \cup Page,
                  twice  |-> walk.twice \/ walk.listed \cap Page # {}]
  BY DEF GetQuestionsByPack, Rows, Page
<1>3. Published' = Published
  BY DEF GetQuestionsByPack, table, Published
<1>4. stayed' \subseteq Published /\ (walk.at = "on" => stayed' \subseteq stayed)
  BY <1>3 DEF Remember
<1>5. walk.listed \cap Page = {}
  <2>1. \A q \in walk.listed : q <= walk.cursor
    BY <1>2
  <2>2. \A q \in Page : q > walk.cursor
    BY DEF Page, Rows
  <2>3. \A q \in Page : q \in Nat
    BY <1>1
  <2> QED
    BY <2>1, <2>2, <2>3
(* What was there all the while and lies before the cursor was given.      *)
<1>6. \A q \in stayed' : q <= walk.cursor => q \in walk.listed
  <2>1. CASE walk.at = "idle"
    BY <1>1, <1>4, <2>1 DEF Questions
  <2>2. CASE walk.at = "on"
    BY <1>4, <2>2
  <2> QED
    BY <1>2, <2>1, <2>2
<1>7. \A q \in stayed' : q \in walk.listed \/ q \in Rows
  BY <1>1, <1>4, <1>6 DEF Rows
<1>8. CASE Page = Rows
  <2>1. c = 0
    BY <1>8 DEF NextCursor
  <2> HIDE DEF c
  <2> QED
    BY <1>1, <1>2, <1>5, <1>7, <1>8, <2>1
<1>9. CASE Page # Rows
  <2>1. c \in Page /\ \A q \in Rows : q <= c <=> q \in Page
    BY <1>9, PagesAreCutInOrder
  <2>2. c # 0 /\ c \in Nat /\ walk.cursor < c
    <3> HIDE DEF c
    <3>1. c \in Rows /\ c \in Questions
      BY <1>1, <2>1
    <3> QED
      BY <1>1, <3>1 DEF Rows, Questions
  <2>3. \A q \in walk.listed \cup Page : q <= c
    <3> HIDE DEF c
    <3>1. ASSUME NEW q \in walk.listed
          PROVE  q <= c
      <4>1. q \in Nat /\ q <= walk.cursor
        BY <1>1, <1>2
      <4> QED
        BY <2>2, <4>1
    <3>2. \A q \in Page : q <= c
      BY <1>1, <2>1
    <3> QED
      BY <3>1, <3>2
  <2> HIDE DEF c
  <2> QED
    BY <1>1, <1>2, <1>5, <1>7, <2>1, <2>2, <2>3
<1> QED
  BY <1>8, <1>9

LEMMA WalkStep == WalkInv /\ [Watched]_<<bankVars, histories>> => WalkInv'
<1> SUFFICES ASSUME WalkInv, [Watched]_<<bankVars, histories>>
             PROVE  WalkInv'
  OBVIOUS
<1>1. CASE UNCHANGED <<walk, stayed>>
  BY <1>1 DEF WalkInv
<1>2. CASE Watched
  <2>1. Remember
    BY <1>2 DEF Watched
  <2>2. CASE GetQuestionsByPack
    BY <2>1, <2>2, PageKeeps
  <2>3. CASE UNCHANGED walk
    <3>1. walk.at # "idle" => stayed' \subseteq stayed
      BY <2>1 DEF Remember
    <3> QED
      BY <2>3, <3>1 DEF WalkInv
  <2>4. (\E w \in Workers : Work(w)) => UNCHANGED walk
    <3> SUFFICES ASSUME NEW w \in Workers, Work(w)
                 PROVE  UNCHANGED walk
      OBVIOUS
    <3>1. CASE WorkOnPack(w)
      BY <3>1 DEF WorkOnPack, GetPackByID, CreatePack, UpdatePack, LogAction, learner
    <3>2. CASE Begin(w) \/ FillPack(w) \/ CreateQuestion(w) \/ Die(w)
      BY <3>2 DEF Begin, FillPack, LookAtQuestion, CountQuestions, CreateQuestion, UpsertQuestion,
                  UpsertTranslations, Die, learner
    <3>3. CASE ImportTickets(w) \/ ClassifyTopics(w)
      BY <3>3 DEF ImportTickets, FindDuplicates, MarkDuplicate, ReplaceTickets, ClassifyTopics,
                  ListQuestionTexts, SetCategories, learner
    <3> QED
      BY <3>1, <3>2, <3>3 DEF Work
  <2> QED
    BY <1>2, <2>2, <2>3, <2>4, KindOfStep DEF Watched
<1> QED
  BY <1>1, <1>2 DEF bankVars, learner, histories

(* A client that walks the pages of a pack to their end is given every     *)
(* question that was published all the while and none twice, whatever is   *)
(* written between two pages (GetQuestionsByPack cuts by the public id it  *)
(* orders by).                                                             *)
THEOREM PagesSkipAndRepeatNothing == WatchedSpec => []PagesCoverThePack
<1>1. WatchedInit => WalkInv
  BY DEF WatchedInit, NothingServed, WalkInv
<1>2. WalkInv => PagesCoverThePack
  BY DEF WalkInv, PagesCoverThePack
<1> QED
  BY <1>1, <1>2, WalkStep, PTL DEF WatchedSpec

(***************************************************************************)
(* Questions.                                                              *)
(***************************************************************************)
Filed ==
  /\ questions = [q \in Questions |-> questions[q]]
  /\ \A q \in Questions : IsQuestion(questions[q])

(* Ways of writing them: a row, which keeps its wording; its text; its     *)
(* mark; and the topics of some.                                           *)
RowIsWritten(w) ==
  /\ at[w] = "row" /\ at'[w] = "text"
  /\ mind'[w] = mind[w] /\ job' = job
  /\ lastRow' = IF Exists(QuestionOf(w)) THEN lastRow ELSE lastRow + 1
  /\ \E t : \E s \in {"draft", "published"} :
       /\ ~ Adds(w) => s = "published"
       /\ questions' = [questions EXCEPT ![QuestionOf(w)] =
            [id |-> RowId(QuestionOf(w)), topic |-> t, status |-> s, wording |-> @.wording]]
TextIsWritten(w) ==
  /\ at[w] = "text" /\ at'[w] \notin {"text", "mark", "file"} /\ lastRow' = lastRow
  /\ questions' = [questions EXCEPT ![QuestionOf(w)] =
                     [id |-> @.id, topic |-> @.topic, status |-> @.status, wording |-> mind[w].text]]
MarkIsWritten(w) ==
  /\ at[w] = "mark" /\ at'[w] = "mark" /\ lastRow' = lastRow /\ mind'[w].found = mind[w].found
  /\ \E i \in DOMAIN mind[w].todo :
       /\ questions' = [questions EXCEPT ![mind[w].todo[i]] =
                          [id |-> @.id, topic |-> @.topic, status |-> "duplicate", wording |-> @.wording]]
       /\ mind'[w].todo = RemoveAt(mind[w].todo, i)
TopicsAreWritten(w) ==
  /\ at[w] = "file" /\ at'[w] = "idle" /\ lastRow' = lastRow
  /\ \E t : questions' = [q \in Questions |->
                IF q \in DOMAIN mind[w].found
                THEN [id |-> questions[q].id, topic |-> t[q], status |-> questions[q].status,
                      wording |-> questions[q].wording]
                ELSE questions[q]]
DuplicatesAreRead(w) ==
  /\ at[w] = "duplicates" /\ at'[w] = "mark" /\ UNCHANGED table
  /\ mind'[w].todo = SetToSeq(Duplicates) /\ mind'[w].found = [q \in Duplicates |-> Kept(q)]
TextsAreRead(w) ==
  /\ at[w] = "texts" /\ at'[w] = "file" /\ UNCHANGED table
  /\ DOMAIN mind'[w].found = {p \in Questions : Exists(p)}
NothingIsWritten(w) ==
  /\ UNCHANGED table /\ at'[w] \notin {"text", "mark", "file"}
  /\ at[w] = "mark" => at'[w] = "idle"

QuestionStep(w) ==
  \/ RowIsWritten(w) \/ TextIsWritten(w) \/ MarkIsWritten(w) \/ TopicsAreWritten(w)
  \/ DuplicatesAreRead(w) \/ TextsAreRead(w) \/ NothingIsWritten(w)

(* A field of a question written is the question written.                  *)
LEMMA OneField ==
  ASSUME NEW r, IsQuestion(r), NEW a
  PROVE  /\ [r EXCEPT !.id = a] = [id |-> a, topic |-> r.topic, status |-> r.status, wording |-> r.wording]
         /\ [r EXCEPT !.topic = a] = [id |-> r.id, topic |-> a, status |-> r.status, wording |-> r.wording]
         /\ [r EXCEPT !.status = a] = [id |-> r.id, topic |-> r.topic, status |-> a, wording |-> r.wording]
         /\ [r EXCEPT !.wording = a] = [id |-> r.id, topic |-> r.topic, status |-> r.status, wording |-> a]
BY DEF IsQuestion

(* Who writes where there is nothing writes nothing.                       *)
LEMMA SameWrites ==
  ASSUME NEW f, NEW S, f = [p \in S |-> f[p]], NEW q, NEW x, NEW y, q \in S => x = y
  PROVE  [f EXCEPT ![q] = x] = [f EXCEPT ![q] = y]
OBVIOUS

LEMMA FieldsAreWritten ==
  ASSUME Filed, NEW q, NEW a
  PROVE  /\ [questions EXCEPT ![q].wording = a] = [questions EXCEPT ![q] =
              [id |-> @.id, topic |-> @.topic, status |-> @.status, wording |-> a]]
         /\ [questions EXCEPT ![q].status = a] = [questions EXCEPT ![q] =
              [id |-> @.id, topic |-> @.topic, status |-> a, wording |-> @.wording]]
<1> DEFINE r == questions[q]
           n == [r EXCEPT !.wording = a]
           k == [r EXCEPT !.status = a]
<1>1. questions = [p \in Questions |-> questions[p]] /\ (q \in Questions => IsQuestion(r))
  BY DEF Filed
<1>2. /\ [questions EXCEPT ![q].wording = a] = [questions EXCEPT ![q] = n]
      /\ [questions EXCEPT ![q].status = a] = [questions EXCEPT ![q] = k]
  OBVIOUS
<1>3. q \in Questions => /\ n = [id |-> r.id, topic |-> r.topic, status |-> r.status, wording |-> a]
                         /\ k = [id |-> r.id, topic |-> r.topic, status |-> a, wording |-> r.wording]
  <2> HIDE DEF r
  <2> QED
    BY <1>1, OneField
<1> HIDE DEF n, k
<1>4. [questions EXCEPT ![q] = n] = [questions EXCEPT ![q] =
        [id |-> r.id, topic |-> r.topic, status |-> r.status, wording |-> a]]
  BY <1>1, <1>3, SameWrites
<1>5. [questions EXCEPT ![q] = k] = [questions EXCEPT ![q] =
        [id |-> r.id, topic |-> r.topic, status |-> a, wording |-> r.wording]]
  BY <1>1, <1>3, SameWrites
<1> QED
  BY <1>2, <1>4, <1>5, Zenon

(* Where a worker is after a step.                                         *)
LEMMA Places ==
  ASSUME Staffed, NEW w \in Workers, NEW place, NEW m
  PROVE  /\ Go(w, place, m) => at'[w] = place /\ mind'[w] = m /\ job' = job
         /\ End(w) => at'[w] = "idle"
         /\ Continue(w, m) => at'[w] \in {"idle", "recount", "look"}
         /\ StartBatch(w, m) => at'[w] \in {"idle", "recount", "look"}
         /\ Abandon(w) => at'[w] \in {"idle", "recount", "look"}
<1>1. \A p, n : Go(w, p, n) => at'[w] = p /\ mind'[w] = n /\ job' = job
  BY DEF Go, Staffed
<1>2. End(w) => at'[w] = "idle"
  BY DEF End, Staffed
<1>3. ASSUME NEW n, Continue(w, n)
      PROVE  at'[w] \in {"idle", "recount", "look"}
  <2>1. End(w) \/ \E p \in {"recount", "look"} : Go(w, p, n)
    BY <1>3 DEF Continue
  <2> QED
    BY <1>1, <1>2, <2>1
<1>4. StartBatch(w, m) => at'[w] \in {"idle", "recount", "look"}
  <2>1. StartBatch(w, m) => \E n : Continue(w, n)
    BY DEF StartBatch, Seed, Scrape
  <2> QED
    BY <1>3, <2>1
<1>5. Abandon(w) => at'[w] \in {"idle", "recount", "look"}
  <2>1. Abandon(w) => End(w) \/ \E n : Continue(w, n)
    BY DEF Abandon
  <2> QED
    BY <1>2, <1>3, <2>1
<1> QED
  BY <1>1, <1>2, <1>3, <1>4, <1>5

(* Every job's step is one of these.                                       *)
LEMMA WorkIsQuestionStep ==
  ASSUME Staffed, Filed, NEW w \in Workers, Work(w)
  PROVE  QuestionStep(w)
<1>1. CASE UpsertQuestion(w)
  <2> DEFINE q == QuestionOf(w)
             t == IF Adds(w) THEN job[w].topic ELSE DetectCategory[mind[w].text]
             s == IF Adds(w) THEN "draft" ELSE "published"
  <2>1. CASE /\ questions' = [questions EXCEPT ![q] =
                                 [id |-> RowId(q), topic |-> t, status |-> s, wording |-> @.wording]]
             /\ lastRow' = IF Exists(q) THEN lastRow ELSE lastRow + 1
             /\ Go(w, "text", mind[w])
    <3>2. s \in {"draft", "published"} /\ (~ Adds(w) => s = "published")
      OBVIOUS
    <3>3. at[w] = "row" /\ at'[w] = "text" /\ mind'[w] = mind[w] /\ job' = job
      BY <1>1, <2>1 DEF UpsertQuestion, Go, Staffed
    <3> HIDE DEF q, t, s
    <3>4. \E tt : \E ss \in {"draft", "published"} :
            /\ ~ Adds(w) => ss = "published"
            /\ questions' = [questions EXCEPT ![q] =
                 [id |-> RowId(q), topic |-> tt, status |-> ss, wording |-> @.wording]]
      BY <2>1, <3>2
    <3> QED
      BY <2>1, <3>3, <3>4 DEF QuestionStep, RowIsWritten, q
  <2>2. CASE Abandon(w) /\ UNCHANGED table
    BY <1>1, <2>2, Places DEF UpsertQuestion, QuestionStep, NothingIsWritten
  <2> QED
    BY <1>1, <2>1, <2>2, Zenon DEF UpsertQuestion
<1>2. CASE UpsertTranslations(w)
  <2>1. CASE UNCHANGED questions /\ Abandon(w)
    <3>1. lastRow' = lastRow /\ at[w] = "text"
      BY <1>2 DEF UpsertTranslations
    <3> QED
      BY <2>1, <3>1, Places DEF QuestionStep, NothingIsWritten, table
  <2>2. CASE /\ questions' = [questions EXCEPT ![QuestionOf(w)].wording = mind[w].text]
             /\ IF Adds(w) THEN Go(w, "write", mind[w])
                           ELSE Continue(w, [mind[w] EXCEPT !.todo = Tail(@)])
    <3>1. questions' = [questions EXCEPT ![QuestionOf(w)] =
            [id |-> @.id, topic |-> @.topic, status |-> @.status, wording |-> mind[w].text]]
      BY <2>2, FieldsAreWritten, Zenon
    <3>2. at[w] = "text" /\ lastRow' = lastRow
      BY <1>2 DEF UpsertTranslations
    <3>3. at'[w] \notin {"text", "mark", "file"}
      BY <2>2, Places
    <3> QED
      BY <3>1, <3>2, <3>3 DEF QuestionStep, TextIsWritten
  <2> QED
    BY <1>2, <2>1, <2>2 DEF UpsertTranslations
<1>3. CASE MarkDuplicate(w)
  <2>1. CASE End(w) /\ UNCHANGED questions
    <3>1. lastRow' = lastRow
      BY <1>3 DEF MarkDuplicate
    <3> QED
      BY <2>1, <3>1, Places DEF QuestionStep, NothingIsWritten, table
  <2>2. CASE \E i \in DOMAIN mind[w].todo :
               /\ questions' = [questions EXCEPT ![mind[w].todo[i]].status = "duplicate"]
               /\ Go(w, "mark", [mind[w] EXCEPT !.todo = RemoveAt(@, i)])
    <3>1. PICK i \in DOMAIN mind[w].todo :
               /\ questions' = [questions EXCEPT ![mind[w].todo[i]].status = "duplicate"]
               /\ Go(w, "mark", [mind[w] EXCEPT !.todo = RemoveAt(@, i)])
      BY <2>2
    <3>2. questions' = [questions EXCEPT ![mind[w].todo[i]] =
            [id |-> @.id, topic |-> @.topic, status |-> "duplicate", wording |-> @.wording]]
      BY <3>1, FieldsAreWritten, Zenon
    <3>3. at'[w] = "mark" /\ mind'[w] = [mind[w] EXCEPT !.todo = RemoveAt(@, i)]
      BY <3>1, Places
    <3>4. mind'[w].todo = RemoveAt(mind[w].todo, i) /\ mind'[w].found = mind[w].found
      BY <3>3 DEF Staffed, IsMind
    <3>5. at[w] = "mark" /\ lastRow' = lastRow
      BY <1>3 DEF MarkDuplicate
    <3> QED
      BY <3>1, <3>2, <3>3, <3>4, <3>5 DEF QuestionStep, MarkIsWritten
  <2> QED
    BY <1>3, <2>1, <2>2 DEF MarkDuplicate
<1>4. CASE SetCategories(w)
  <2>1. at[w] = "file" /\ at'[w] = "idle" /\ lastRow' = lastRow
    BY <1>4, Places DEF SetCategories
  <2>2. CASE UNCHANGED questions
    BY <2>1, <2>2 DEF QuestionStep, NothingIsWritten, table
  <2>3. CASE questions' = [q \in Questions |->
               IF q \in DOMAIN mind[w].found
               THEN [questions[q] EXCEPT !.topic = mind[w].found[q]] ELSE questions[q]]
    <3>1. \A q \in Questions : [questions[q] EXCEPT !.topic = mind[w].found[q]]
            = [id |-> questions[q].id, topic |-> mind[w].found[q], status |-> questions[q].status,
               wording |-> questions[q].wording]
      BY OneField DEF Filed
    <3>2. questions' = [q \in Questions |->
                IF q \in DOMAIN mind[w].found
                THEN [id |-> questions[q].id, topic |-> mind[w].found[q], status |-> questions[q].status,
                      wording |-> questions[q].wording]
                ELSE questions[q]]
      BY <2>3, <3>1
    <3> QED
      BY <2>1, <3>2 DEF QuestionStep, TopicsAreWritten
  <2> QED
    BY <1>4, <2>2, <2>3 DEF SetCategories
<1>5. CASE FindDuplicates(w)
  <2> DEFINE kept == [q \in Duplicates |-> Kept(q)]
             list == SetToSeq(Duplicates)
             n    == [mind[w] EXCEPT !.found = kept]
             k    == [mind[w] EXCEPT !.found = kept, !.todo = list]
  <2>1. at[w] = "duplicates" /\ UNCHANGED table /\ (End(w) \/ Go(w, "mark", k))
    BY <1>5 DEF FindDuplicates
  <2>2. k = [n EXCEPT !.todo = list]
    BY Zenon
  <2> HIDE DEF kept, list, k
  <2>3. IsMind(n)
    BY MindFields DEF Staffed, IsMind
  <2> HIDE DEF n
  <2>4. k.todo = list /\ k.found = kept
    <3>1. n.found = kept
      BY MindFields DEF n, Staffed
    <3> QED
      BY <2>2, <2>3, <3>1, MindFields
  <2>5. CASE End(w)
    BY <2>1, <2>5, Places DEF QuestionStep, NothingIsWritten
  <2>6. CASE Go(w, "mark", k)
    <3>1. at'[w] = "mark" /\ mind'[w] = k
      BY <2>6, Places
    <3> QED
      BY <2>1, <2>4, <3>1 DEF QuestionStep, DuplicatesAreRead, list, kept
  <2> QED
    BY <2>1, <2>5, <2>6
<1>6. CASE ListQuestionTexts(w)
  <2> DEFINE found == [q \in {p \in Questions : Exists(p)} |-> Classify[questions[q].wording]]
  <2>1. at[w] = "texts" /\ UNCHANGED table /\ (End(w) \/ Go(w, "file", [mind[w] EXCEPT !.found = found]))
    BY <1>6 DEF ListQuestionTexts
  <2>2. CASE End(w)
    BY <2>1, <2>2, Places DEF QuestionStep, NothingIsWritten
  <2>3. CASE Go(w, "file", [mind[w] EXCEPT !.found = found])
    <3>1. at'[w] = "file" /\ mind'[w] = [mind[w] EXCEPT !.found = found]
      BY <2>3, Places
    <3>2. DOMAIN found = {p \in Questions : Exists(p)}
      OBVIOUS
    <3> HIDE DEF found
    <3>3. mind'[w].found = found
      BY <3>1 DEF Staffed, IsMind
    <3> QED
      BY <2>1, <3>1, <3>2, <3>3 DEF QuestionStep, TextsAreRead
  <2> QED
    BY <2>1, <2>2, <2>3
<1>7. ASSUME UNCHANGED table, at'[w] \notin {"text", "mark", "file"}, at[w] = "mark" => at'[w] = "idle"
      PROVE  QuestionStep(w)
  BY <1>7 DEF QuestionStep, NothingIsWritten
<1>8. CASE Begin(w)
  <2>1. \E place \in {"create", "duplicates", "texts", "pack"} : at' = [at EXCEPT ![w] = place]
    BY <1>8 DEF Begin
  <2>2. at[w] = "idle" /\ UNCHANGED table
    BY <1>8 DEF Begin
  <2> QED
    BY <1>7, <2>1, <2>2 DEF Staffed
<1>9. CASE WorkOnPack(w)
  <2>1. UNCHANGED table
    BY <1>9 DEF WorkOnPack, GetPackByID, CreatePack, UpdatePack, LogAction
  <2>3. at[w] # "mark"
    BY <1>9 DEF WorkOnPack, GetPackByID, CreatePack, UpdatePack, LogAction
  <2>2. at'[w] \notin {"text", "mark", "file"}
    <3>1. \/ \E n, place : place \in {"row", "write", "log", "create"} /\ Go(w, place, n)
          \/ \E n : StartBatch(w, n)
          \/ End(w)
      <4>1. CASE GetPackByID(w)
        BY <4>1, Zenon DEF GetPackByID
      <4>2. CASE CreatePack(w)
        BY <4>2, Zenon DEF CreatePack
      <4>3. CASE UpdatePack(w) \/ LogAction(w)
        BY <4>3, Zenon DEF UpdatePack, LogAction
      <4> QED
        BY <1>9, <4>1, <4>2, <4>3 DEF WorkOnPack
    <3> QED
      BY <3>1, Places
  <2> QED
    BY <1>7, <2>1, <2>2, <2>3
<1>10. CASE LookAtQuestion(w) \/ CountQuestions(w) \/ ReplaceTickets(w) \/ Die(w)
  <2>1. UNCHANGED table
    BY <1>10 DEF LookAtQuestion, CountQuestions, ReplaceTickets, Die
  <2>2. \/ \E n, place : place \in {"row", "write"} /\ Go(w, place, n)
        \/ \E n : Continue(w, n)
        \/ End(w)
    BY <1>10, Zenon DEF LookAtQuestion, CountQuestions, ReplaceTickets, Die
  <2>3. at'[w] \notin {"text", "mark", "file"}
    BY <2>2, Places
  <2>4. at[w] = "mark" => End(w)
    BY <1>10 DEF LookAtQuestion, CountQuestions, ReplaceTickets, Die
  <2> QED
    BY <1>7, <2>1, <2>3, <2>4, Places
<1> QED
  BY <1>1, <1>2, <1>3, <1>4, <1>5, <1>6, <1>8, <1>9, <1>10, Zenon
     DEF Work, FillPack, CreateQuestion, ImportTickets, ClassifyTopics


(***************************************************************************)
(* Duplicates.                                                             *)
(***************************************************************************)

(* Two published questions of one wording, and a list that has one of      *)
(* every such two.                                                         *)
Twins(p, q)   == /\ p \in Published /\ q \in Published /\ p # q
                 /\ questions[p].wording = questions[q].wording /\ questions[p].wording # NoText
Covers(list)  == \A p, q \in Questions : Twins(p, q) => \E i \in DOMAIN list : list[i] \in {p, q}

MarkInv ==
  /\ Filed
  /\ fresh \subseteq {w \in Workers : at[w] = "mark"}
  /\ \A w \in Workers : at[w] = "mark" => mind[w].todo \in Seq(Questions)
  /\ \A w \in fresh : Covers(mind[w].todo)
  /\ marked \in BOOLEAN /\ (marked => AskedOnce)

(* The question kept of a wording is one.                                  *)
LEMMA OneIsKept ==
  ASSUME NEW p \in Candidates, NEW q \in Candidates, questions[p].wording = questions[q].wording, p # q
  PROVE  p \in Duplicates \/ q \in Duplicates
<1> DEFINE Keeps(x) == CHOOSE r \in Candidates :
                          /\ questions[r].wording = x
                          /\ \A o \in Candidates : questions[o].wording = x => questions[r].id <= questions[o].id
<1>1. Kept(p) = Keeps(questions[p].wording)
  BY Zenon DEF Kept, Same
<1>2. Kept(q) = Keeps(questions[q].wording)
  BY Zenon DEF Kept, Same
<1> HIDE DEF Keeps
<1>3. Kept(p) = Kept(q)
  BY <1>1, <1>2
<1> QED
  BY <1>3 DEF Duplicates

(* The duplicates that are found have one of every two.                    *)
LEMMA FoundCovers ==
  ASSUME Filed
  PROVE  /\ SetToSeq(Duplicates) \in Seq(Questions) /\ SetToSeq(Duplicates) \in Seq(Duplicates)
         /\ Covers(SetToSeq(Duplicates))
<1> DEFINE list == SetToSeq(Duplicates)
           n    == Cardinality(Duplicates)
<1>1. IsFiniteSet(Duplicates) /\ Duplicates \subseteq Questions
  <2>1. LastQuestion \in Nat
    BY BankAssumption
  <2>2. IsFiniteSet(Questions)
    BY <2>1, FS_Interval DEF Questions
  <2>3. Duplicates \in SUBSET Questions
    BY DEF Duplicates, Candidates
  <2> QED
    BY <2>2, <2>3, FS_Subset
<1>2. n \in Nat
  BY <1>1, FS_CardinalityType
<1>3. list \in [1 .. n -> Duplicates] /\ \A x \in Duplicates : \E i \in 1 .. n : list[i] = x
  BY <1>1, ListsAll
<1>4. list \in Seq(Questions) /\ list \in Seq(Duplicates) /\ DOMAIN list = 1 .. n
  <2> HIDE DEF list, n
  <2>1. list \in [1 .. n -> Questions]
    BY <1>1, <1>3
  <2>2. list \in Seq(Duplicates)
    BY <1>2, <1>3
  <2> QED
    BY <1>2, <2>1, <2>2
<1>5. ASSUME NEW p \in Questions, NEW q \in Questions, Twins(p, q)
      PROVE  \E i \in DOMAIN list : list[i] \in {p, q}
  <2>1. p \in Candidates /\ q \in Candidates
    BY <1>5 DEF Twins, Candidates, Published
  <2>2. p \in Duplicates \/ q \in Duplicates
    BY <1>5, <2>1, OneIsKept DEF Twins
  <2> HIDE DEF list
  <2> QED
    BY <1>3, <1>4, <2>2
<1> QED
  BY <1>4, <1>5 DEF Covers

(* A list with an element removed has all others.                          *)
LEMMA RemovedAlone ==
  ASSUME NEW S, NEW list \in Seq(S), NEW i \in DOMAIN list
  PROVE  /\ RemoveAt(list, i) \in Seq(S)
         /\ \A k \in DOMAIN list : k # i => \E j \in DOMAIN RemoveAt(list, i) : RemoveAt(list, i)[j] = list[k]
<1> DEFINE a == SubSeq(list, 1, i - 1)
           b == SubSeq(list, i + 1, Len(list))
<1>1. i \in 1 .. Len(list) /\ Len(list) \in Nat
  OBVIOUS
<1>2. /\ a \in Seq(S) /\ Len(a) = i - 1 /\ \A k \in 1 .. i - 1 : a[k] = list[k]
  BY <1>1
<1>3. /\ b \in Seq(S) /\ Len(b) = Len(list) - i /\ \A k \in 1 .. Len(list) - i : b[k] = list[k + i]
  BY <1>1
<1> HIDE DEF a, b
<1>4. a \o b \in Seq(S) /\ Len(a \o b) = Len(list) - 1
  BY <1>1, <1>2, <1>3
<1>5. a \in Seq(S) /\ b \in Seq(S) /\ Len(a) \in Nat /\ Len(b) \in Nat
  BY <1>2, <1>3
<1>6. ASSUME NEW k \in DOMAIN list, k # i
      PROVE  \E j \in DOMAIN (a \o b) : (a \o b)[j] = list[k]
  <2>1. CASE k < i
    <3>1. k \in 1 .. Len(a \o b) /\ (a \o b)[k] = a[k]
      BY <1>1, <1>2, <1>3, <1>4, <2>1
    <3> QED
      BY <1>1, <1>2, <1>4, <2>1, <3>1
  <2>2. CASE k > i
    <3>1. PICK j \in 1 .. Len(b) : k = i + j
      <4>1. k \in Nat /\ i \in Nat /\ k <= Len(list) /\ k - i \in 1 .. Len(list) - i /\ k = i + (k - i)
        BY <1>1, <2>2
      <4> QED
        BY <1>3, <4>1
    <3>2. Len(a) + j \in 1 .. Len(a) + Len(b) /\ Len(a) + j > Len(a) /\ Len(a) + j - Len(a) = j
      BY <1>5
    <3>3. Len(a \o b) = Len(a) + Len(b) /\ DOMAIN (a \o b) = 1 .. Len(a) + Len(b)
      BY <1>5
    <3>4. (a \o b)[Len(a) + j] = b[j]
      BY <1>5, <3>2
    <3>5. b[j] = list[j + i] /\ j + i = k
      BY <1>1, <1>3, <3>1
    <3> QED
      BY <3>2, <3>3, <3>4, <3>5
  <2> QED
    BY <1>1, <1>6, <2>1, <2>2
<1>7. RemoveAt(list, i) = a \o b
  BY DEF RemoveAt, a, b
<1> QED
  BY <1>4, <1>6, <1>7

(* Marking one of a list leaves a list that has one of every two.          *)
LEMMA MarkingCovers ==
  ASSUME Filed, NEW list \in Seq(Questions), NEW i \in DOMAIN list, NEW other, Covers(list),
         questions' = [questions EXCEPT ![list[i]] =
                         [id |-> @.id, topic |-> @.topic, status |-> "duplicate", wording |-> @.wording]]
  PROVE  /\ Covers(RemoveAt(list, i))'
         /\ Covers(other) => Covers(other)'
<1>1. list[i] \in Questions
  OBVIOUS
<1>2. ASSUME NEW p \in Questions, NEW q \in Questions, Twins(p, q)'
      PROVE  Twins(p, q) /\ p # list[i] /\ q # list[i]
  BY <1>1, <1>2 DEF Twins, Published, Filed
<1>3. Covers(other) => Covers(other)'
  BY <1>2 DEF Covers
<1>4. ASSUME NEW p \in Questions, NEW q \in Questions, Twins(p, q)'
      PROVE  \E j \in DOMAIN RemoveAt(list, i) : RemoveAt(list, i)[j] \in {p, q}
  <2>1. PICK k \in DOMAIN list : list[k] \in {p, q}
    BY <1>2, <1>4 DEF Covers
  <2>2. k # i
    BY <1>2, <1>4, <2>1
  <2>3. \E j \in DOMAIN RemoveAt(list, i) : RemoveAt(list, i)[j] = list[k]
    BY <2>2, RemovedAlone
  <2> QED
    BY <2>1, <2>3
<1> QED
  BY <1>3, <1>4 DEF Covers

(* A worker's step keeps all this.                                         *)
LEMMA FiledStays ==
  ASSUME Filed, NEW w \in Workers, QuestionStep(w)
  PROVE  Filed'
<1>1. CASE UNCHANGED questions
  BY <1>1 DEF Filed
<1>2. ASSUME NEW q, NEW r, IsQuestion(r), questions' = [questions EXCEPT ![q] = r]
      PROVE  Filed'
  BY <1>2 DEF Filed
<1>3. CASE RowIsWritten(w)
  BY <1>2, <1>3 DEF RowIsWritten, IsQuestion
<1>4. CASE TextIsWritten(w)
  BY <1>2, <1>4 DEF TextIsWritten, IsQuestion
<1>5. CASE MarkIsWritten(w)
  BY <1>2, <1>5 DEF MarkIsWritten, IsQuestion
<1>6. CASE TopicsAreWritten(w)
  BY <1>6 DEF TopicsAreWritten, Filed, IsQuestion
<1> QED
  BY <1>1, <1>3, <1>4, <1>5, <1>6
     DEF QuestionStep, DuplicatesAreRead, TextsAreRead, NothingIsWritten, table

LEMMA MarkingIsSound ==
  ASSUME Staffed, MarkInv, NEW w \in Workers, Turns(w), QuestionStep(w), Remember
  PROVE  MarkInv'
<1> USE DEF MarkInv
<1>1. \A u \in Workers : u # w => at'[u] = at[u] /\ mind'[u] = mind[u]
  BY DEF Turns, Staffed
<1>2. Filed'
  BY FiledStays
<1>3. /\ fresh' = ((IF questions' = questions \/ \E u \in fresh : Marks(u) THEN fresh ELSE {})
                     \cap Busy') \cup {u \in Workers : at[u] = "duplicates" /\ at'[u] = "mark"}
      /\ marked' = ((questions' = questions /\ marked) \/ \E u \in fresh' : mind'[u].todo = <<>>)
  BY DEF Remember
<1>4. \A u \in fresh' : u \in Workers /\ at'[u] # "idle" /\ (u \in fresh \/ (at[u] = "duplicates" /\ at'[u] = "mark"))
  <2>1. ASSUME NEW u \in fresh'
        PROVE  \/ u \in fresh /\ u \in Busy'
               \/ u \in Workers /\ at[u] = "duplicates" /\ at'[u] = "mark"
    BY <1>3, <2>1, Zenon
  <2>2. ASSUME NEW u \in fresh'
        PROVE  u \in Workers /\ at'[u] # "idle" /\ (u \in fresh \/ (at[u] = "duplicates" /\ at'[u] = "mark"))
    <3>1. CASE u \in fresh /\ u \in Busy'
      <4>1. u \in Workers
        BY <3>1
      <4>2. at'[u] # "idle"
        BY <3>1, Zenon DEF Busy
      <4> QED
        BY <3>1, <4>1, <4>2, Zenon
    <3>2. CASE u \in Workers /\ at[u] = "duplicates" /\ at'[u] = "mark"
      BY <3>2
    <3> QED
      BY <2>1, <2>2, <3>1, <3>2
  <2> QED
    BY <2>2
<1>5. questions' = questions => (AskedOnce <=> AskedOnce')
  BY DEF AskedOnce, Published
<1>6. questions' = questions => \A list : Covers(list) <=> Covers(list)'
  BY DEF Covers, Twins, Published
(* Who marks marks on, leaves or has come from reading.                    *)
<1>7. /\ \A u \in Workers : at'[u] = "mark" => mind'[u].todo \in Seq(Questions)
      /\ \A u \in fresh' : at'[u] = "mark" /\ Covers(mind[u].todo)'
  <2>1. CASE MarkIsWritten(w)
    <3>1. PICK list \in Seq(Questions) : list = mind[w].todo
      BY <2>1 DEF MarkIsWritten
    <3>2. PICK i \in DOMAIN list :
            /\ questions' = [questions EXCEPT ![list[i]] =
                 [id |-> @.id, topic |-> @.topic, status |-> "duplicate", wording |-> @.wording]]
            /\ mind'[w].todo = RemoveAt(list, i)
      BY <2>1, <3>1 DEF MarkIsWritten
    <3>3. RemoveAt(list, i) \in Seq(Questions) /\ at[w] = "mark" /\ at'[w] = "mark"
      BY <2>1, RemovedAlone DEF MarkIsWritten
    <3>4. \A u \in Workers : at'[u] = "mark" => mind'[u].todo \in Seq(Questions)
      BY <1>1, <3>2, <3>3
    <3>5. ASSUME NEW u \in fresh'
          PROVE  u \in fresh /\ at'[u] = "mark"
      BY <1>1, <1>4, <3>3, <3>5
    <3>6. CASE w \in fresh
      <4>1. Covers(list)
        BY <3>1, <3>6
      <4>2. Covers(RemoveAt(list, i))' /\ \A other : Covers(other) => Covers(other)'
        BY <3>2, <4>1, MarkingCovers
      <4>3. ASSUME NEW u \in fresh'
            PROVE  Covers(mind[u].todo)'
        <5>1. PICK other : other = mind[u].todo
          OBVIOUS
        <5>2. CASE u = w
          BY <3>2, <4>2, <5>2
        <5>3. CASE u # w
          <6>1. Covers(other)'
            BY <3>5, <4>2, <4>3, <5>1
          <6>2. mind'[u].todo = other
            BY <1>1, <1>4, <4>3, <5>1, <5>3
          <6> QED
            BY <6>1, <6>2
        <5> QED
          BY <5>2, <5>3
      <4> QED
        BY <3>4, <3>5, <4>3
    <3>7. CASE w \notin fresh
      <4>1. ASSUME NEW u \in fresh'
            PROVE  Covers(mind[u].todo)'
        <5>1. u \in fresh /\ u # w /\ u \in Workers /\ mind'[u] = mind[u]
          BY <1>1, <1>4, <3>5, <3>7, <4>1
        <5>2. \A o \in fresh : ~ Marks(o)
          BY <1>1, <3>7 DEF Marks
        <5>3. questions' = questions
          BY <1>3, <3>3, <4>1, <5>1, <5>2
        <5>4. PICK other : other = mind[u].todo
          OBVIOUS
        <5>5. Covers(other)'
          BY <1>6, <5>1, <5>3, <5>4
        <5> QED
          BY <5>1, <5>4, <5>5
      <4> QED
        BY <3>4, <3>5, <4>1
    <3> QED
      BY <3>6, <3>7
  <2>2. CASE DuplicatesAreRead(w)
    <3>1. PICK list \in Seq(Questions) : list = SetToSeq(Duplicates) /\ Covers(list)
      BY FoundCovers
    <3>2. questions' = questions /\ mind'[w].todo = list
      BY <2>2, <3>1 DEF DuplicatesAreRead, table
    <3>3. ASSUME NEW u \in fresh', u # w
          PROVE  at'[u] = "mark" /\ Covers(mind[u].todo)'
      <4>1. u \in fresh /\ mind'[u] = mind[u] /\ at'[u] = "mark"
        BY <1>1, <1>4, <3>3
      <4>2. PICK other : other = mind[u].todo
        OBVIOUS
      <4> QED
        BY <1>6, <3>2, <4>1, <4>2
    <3>4. Covers(list)'
      BY <1>6, <3>1, <3>2
    <3> QED
      BY <1>1, <2>2, <3>2, <3>3, <3>4 DEF DuplicatesAreRead
  <2>3. CASE at'[w] # "mark"
    <3>1. ASSUME NEW u \in fresh'
          PROVE  at'[u] = "mark" /\ Covers(mind[u].todo)'
      <4>1. u \in Workers /\ u # w
        BY <1>4, <2>3, <3>1 DEF QuestionStep, RowIsWritten, TextIsWritten, MarkIsWritten,
           TopicsAreWritten, DuplicatesAreRead, TextsAreRead, NothingIsWritten
      <4>2. u \in fresh /\ mind'[u] = mind[u] /\ at'[u] = "mark"
        BY <1>1, <1>4, <3>1, <4>1
      <4>3. \A o \in fresh : ~ Marks(o)
        BY <1>1, <2>3 DEF Marks
      <4>4. questions' = questions
        BY <1>1, <1>3, <3>1, <4>1, <4>2, <4>3
      <4>5. PICK other : other = mind[u].todo
        OBVIOUS
      <4> QED
        BY <1>6, <4>2, <4>4, <4>5
    <3> QED
      BY <1>1, <2>3, <3>1
  <2> QED
    BY <2>1, <2>2, <2>3 DEF QuestionStep, RowIsWritten, TextIsWritten, TopicsAreWritten,
       TextsAreRead, NothingIsWritten
<1>8. marked' \in BOOLEAN /\ (marked' => AskedOnce')
  <2>1. ASSUME NEW u \in fresh', mind'[u].todo = <<>>
        PROVE  AskedOnce'
    <3>1. \A p, q \in Questions : ~ Twins(p, q)'
      BY <1>7, <2>1 DEF Covers
    <3> QED
      BY <3>1 DEF Twins, AskedOnce, Published
  <2> QED
    BY <1>3, <1>5, <2>1
<1> QED
  BY <1>2, <1>4, <1>7, <1>8

LEMMA MarkStep ==
  PacksInv /\ MarkInv /\ [Watched]_<<bankVars, histories>> => MarkInv'
<1> SUFFICES ASSUME PacksInv, MarkInv, [Watched]_<<bankVars, histories>>
             PROVE  MarkInv'
  OBVIOUS
<1>1. CASE UNCHANGED <<questions, at, mind, fresh, marked>>
  BY <1>1 DEF MarkInv, Filed, Covers, Twins, Published, AskedOnce
<1>2. CASE Watched
  <2>1. Remember
    BY <1>2 DEF Watched
  <2>2. CASE \E w \in Workers : Work(w)
    <3>1. PICK w \in Workers : Work(w)
      BY <2>2
    <3>2. Turns(w) /\ QuestionStep(w)
      BY <3>1, WorkIsPackStep, WorkIsQuestionStep DEF PacksInv, MarkInv, PackStep
    <3> QED
      BY <2>1, <3>2, MarkingIsSound DEF PacksInv
  <2>3. CASE UNCHANGED <<questions, at, mind>>
    <3>1. \A u \in fresh' : u \in fresh
      BY <2>1, <2>3 DEF Remember
    <3>2. marked' = (marked \/ \E u \in fresh' : mind[u].todo = <<>>)
      BY <2>1, <2>3 DEF Remember
    <3>3. AskedOnce' <=> AskedOnce
      BY <2>3 DEF AskedOnce, Published
    <3>4. \A u \in fresh : Covers(mind[u].todo)'
      BY <2>3 DEF MarkInv, Covers, Twins, Published
    <3>5. ASSUME NEW u \in fresh', mind[u].todo = <<>>
          PROVE  AskedOnce
      <4>1. \A p, q \in Questions : ~ Twins(p, q)
        BY <3>1, <3>5 DEF MarkInv, Covers
      <4> QED
        BY <4>1 DEF Twins, AskedOnce, Published
    <3> QED
      BY <2>3, <3>1, <3>2, <3>3, <3>4, <3>5 DEF MarkInv, Filed
  <2> QED
    BY <1>2, <2>2, <2>3, KindOfStep DEF Watched, table, work
<1> QED
  BY <1>1, <1>2 DEF bankVars, table, work, histories

LEMMA InitMarks == WatchedInit => MarkInv
<1> SUFFICES ASSUME WatchedInit
             PROVE  MarkInv
  OBVIOUS
<1>1. PICK list : Loaded(list) /\ NobodyWorks
  BY DEF WatchedInit
<1>2. Filed
  BY <1>1 DEF Loaded, Filed, IsQuestion, NoQuestion
<1> QED
  BY <1>1, <1>2 DEF MarkInv, WatchedInit, NobodyWorks

(* Once the duplicates are marked, no job having written meanwhile, no two *)
(* published questions have one wording (MarkContentDuplicates reads all   *)
(* sets and then marks one question at a time).                            *)
THEOREM MarkedQuestionsDiffer == WatchedSpec => []MarkedIsAskedOnce
<1>1. MarkInv => MarkedIsAskedOnce
  BY DEF MarkInv, MarkedIsAskedOnce
<1> QED
  BY <1>1, InitPacks, PacksStep, InitMarks, MarkStep, PTL DEF WatchedSpec


(***************************************************************************)
(* Numbered tests.                                                         *)
(***************************************************************************)

(* A question that is there has an id of its own, which was given out.     *)
IdsAreGiven ==
  /\ Filed /\ lastRow \in Nat
  /\ \A q \in Questions : questions[q].status = "none" => ~ Exists(q)
  /\ \A q \in Questions : Exists(q) => questions[q].id \in 1 .. lastRow
  /\ \A p, q \in Questions : Exists(p) /\ Exists(q) /\ p # q => questions[p].id # questions[q].id

(* What a worker is about to write to is there.                            *)
WriterFinds(w) ==
  /\ at[w] = "text" /\ QuestionOf(w) \in Questions => Exists(QuestionOf(w))
  /\ at[w] = "mark" => /\ mind[w].todo \in Seq(Questions)
                       /\ \A i \in DOMAIN mind[w].todo : Exists(mind[w].todo[i])
  /\ at[w] = "file" => \A q \in Questions : q \in DOMAIN mind[w].found => Exists(q)
WritersFindRows ==
  /\ job = [w \in Workers |-> job[w]]
  /\ \A w \in Workers : WriterFinds(w)

(* A step keeps the ids, and what is there.                                *)
KeepsIds ==
  \A q \in Questions : Exists(q) => Exists(q)' /\ questions'[q].id = questions[q].id

LEMMA JobsStay ==
  ASSUME job = [w \in Workers |-> job[w]], NEW w \in Workers, Work(w)
  PROVE  /\ job' = [u \in Workers |-> job'[u]]
         /\ \A u \in Workers : u # w => job'[u] = job[u]
<1>1. job' = job \/ \E j : job' = [job EXCEPT ![w] = j]
  <2>1. (\E p, n : Go(w, p, n)) \/ End(w) => job' = job \/ \E j : job' = [job EXCEPT ![w] = j]
    BY DEF Go, End
  <2>2. \A n : Continue(w, n) => (\E p, k : Go(w, p, k)) \/ End(w)
    BY DEF Continue
  <2>3. \A n : StartBatch(w, n) => \E k : Continue(w, k)
    BY DEF StartBatch, Seed, Scrape
  <2>4. Abandon(w) => End(w) \/ \E k : Continue(w, k)
    BY DEF Abandon
  <2>5. CASE Begin(w)
    BY <2>5 DEF Begin
  <2>6. CASE GetPackByID(w)
    <3>1. (\E p, n : Go(w, p, n)) \/ End(w) \/ \E n : StartBatch(w, n)
      BY <2>6, Zenon DEF GetPackByID
    <3> QED
      BY <2>1, <2>2, <2>3, <3>1
  <2>7. CASE CreatePack(w)
    <3>1. (\E p, n : Go(w, p, n)) \/ End(w) \/ \E n : StartBatch(w, n)
      BY <2>7, Zenon DEF CreatePack
    <3> QED
      BY <2>1, <2>2, <2>3, <3>1
  <2>8. CASE UpdatePack(w) \/ LogAction(w) \/ CountQuestions(w) \/ Die(w) \/ SetCategories(w)
             \/ ReplaceTickets(w) \/ ListQuestionTexts(w) \/ FindDuplicates(w) \/ MarkDuplicate(w)
    <3>1. (\E p, n : Go(w, p, n)) \/ End(w)
      BY <2>8, Zenon DEF UpdatePack, LogAction, CountQuestions, Die, SetCategories, ReplaceTickets,
                  ListQuestionTexts, FindDuplicates, MarkDuplicate
    <3> QED
      BY <2>1, <3>1
  <2>9. CASE LookAtQuestion(w) \/ UpsertQuestion(w) \/ UpsertTranslations(w)
    <3>1. (\E p, n : Go(w, p, n)) \/ Abandon(w) \/ \E n : Continue(w, n)
      BY <2>9, Zenon DEF LookAtQuestion, UpsertQuestion, UpsertTranslations
    <3> QED
      BY <2>1, <2>2, <2>4, <3>1
  <2> QED
    BY <2>5, <2>6, <2>7, <2>8, <2>9, Zenon
       DEF Work, WorkOnPack, FillPack, CreateQuestion, ImportTickets, ClassifyTopics
<1> QED
  BY <1>1

(* Every write keeps the ids that are there and gives a new one.           *)
LEMMA IdsStay ==
  ASSUME Staffed, IdsAreGiven, WritersFindRows, NEW w \in Workers, Turns(w), QuestionStep(w)
  PROVE  IdsAreGiven' /\ KeepsIds
<1> USE DEF IdsAreGiven
<1>1. Filed'
  BY FiledStays
<1>2. CASE UNCHANGED table
  <2>1. \A q \in Questions : Exists(q)' <=> Exists(q)
    BY <1>2 DEF table, Exists
  <2> QED
    BY <1>1, <1>2, <2>1 DEF table, KeepsIds
(* One that stays as it is but for what is not its id.                     *)
<1>3. ASSUME lastRow' = lastRow,
             \A q \in Questions : \/ questions'[q] = questions[q]
                                  \/ /\ Exists(q) /\ questions'[q].id = questions[q].id
                                     /\ questions'[q].status # "none"
      PROVE  IdsAreGiven' /\ KeepsIds
  <2>1. \A q \in Questions : questions'[q].status # "none" => Exists(q)'
    BY DEF Exists, NoQuestion
  <2>2. \A q \in Questions : /\ Exists(q)' <=> Exists(q)
                             /\ questions'[q].id = questions[q].id
                             /\ questions'[q].status = "none" => ~ Exists(q)'
    BY <1>3, <2>1 DEF Exists
  <2> QED
    BY <1>1, <1>3, <2>2 DEF KeepsIds
<1>4. CASE TextIsWritten(w)
  <2> DEFINE q == QuestionOf(w)
  <2>1. PICK x : questions' = [questions EXCEPT ![q] =
                   [id |-> @.id, topic |-> @.topic, status |-> @.status, wording |-> x]]
    BY <1>4 DEF TextIsWritten
  <2>2. at[w] = "text" /\ lastRow' = lastRow
    BY <1>4 DEF TextIsWritten
  <2>3. q \in Questions => Exists(q) /\ questions[q].status # "none"
    BY <2>2 DEF WritersFindRows, WriterFinds
  <2> HIDE DEF q
  <2> QED
    BY <1>3, <2>1, <2>2, <2>3 DEF Filed
<1>5. CASE MarkIsWritten(w)
  <2>1. PICK i \in DOMAIN mind[w].todo : questions' = [questions EXCEPT ![mind[w].todo[i]] =
                   [id |-> @.id, topic |-> @.topic, status |-> "duplicate", wording |-> @.wording]]
    BY <1>5 DEF MarkIsWritten
  <2>2. Exists(mind[w].todo[i]) /\ lastRow' = lastRow
    BY <1>5 DEF MarkIsWritten, WritersFindRows, WriterFinds
  <2> QED
    BY <1>3, <2>1, <2>2 DEF Filed
<1>6. CASE TopicsAreWritten(w)
  <2>1. \A q \in Questions : q \in DOMAIN mind[w].found => Exists(q) /\ questions[q].status # "none"
    BY <1>6 DEF TopicsAreWritten, WritersFindRows, WriterFinds
  <2>2. \A q \in Questions : q \in DOMAIN mind[w].found =>
          questions'[q].id = questions[q].id /\ questions'[q].status = questions[q].status
    BY <1>6 DEF TopicsAreWritten
  <2>3. \A q \in Questions : q \notin DOMAIN mind[w].found => questions'[q] = questions[q]
    BY <1>6 DEF TopicsAreWritten
  <2> QED
    BY <1>3, <1>6, <2>1, <2>2, <2>3 DEF TopicsAreWritten
<1>7. CASE RowIsWritten(w)
  <2>0. PICK q : q = QuestionOf(w)
    OBVIOUS
  <2>1. PICK t : \E s \in {"draft", "published"} : questions' = [questions EXCEPT ![q] =
            [id |-> RowId(q), topic |-> t, status |-> s, wording |-> @.wording]]
    BY <1>7, <2>0 DEF RowIsWritten
  <2>2. PICK s \in {"draft", "published"} : questions' = [questions EXCEPT ![q] =
            [id |-> RowId(q), topic |-> t, status |-> s, wording |-> @.wording]]
    BY <2>1
  <2>3. lastRow' = IF Exists(q) THEN lastRow ELSE lastRow + 1
    BY <1>7, <2>0 DEF RowIsWritten
  <2>4. CASE q \notin Questions
    <3>1. questions' = questions
      BY <2>2, <2>4 DEF Filed
    <3>2. \A p \in Questions : Exists(p)' <=> Exists(p)
      BY <3>1 DEF Exists
    <3>3. lastRow' \in Nat /\ lastRow <= lastRow'
      BY <2>3
    <3> QED
      BY <1>1, <3>1, <3>2, <3>3 DEF KeepsIds
  <2>5. CASE q \in Questions /\ Exists(q)
    <3>1. RowId(q) = questions[q].id /\ lastRow' = lastRow
      BY <2>3, <2>5 DEF RowId
    <3> QED
      BY <1>3, <2>2, <2>5, <3>1 DEF Filed
  <2>6. CASE q \in Questions /\ ~ Exists(q)
    <3>1. /\ questions'[q].id = lastRow + 1 /\ questions'[q].status # "none" /\ lastRow' = lastRow + 1
          /\ \A p \in Questions : p # q => questions'[p] = questions[p]
      BY <2>2, <2>3, <2>6 DEF RowId, Filed
    <3>2. Exists(q)' /\ \A p \in Questions : p # q => (Exists(p)' <=> Exists(p))
      <4>1. Exists(q)'
        <5>1. NoQuestion.status = "none"
          BY DEF NoQuestion
        <5>2. questions'[q] # NoQuestion
          BY <3>1, <5>1
        <5> QED
          BY <5>2 DEF Exists
      <4>2. \A p \in Questions : p # q => (Exists(p)' <=> Exists(p))
        BY <3>1 DEF Exists
      <4> QED
        BY <4>1, <4>2
    <3>3. \A p \in Questions : p # q /\ Exists(p)' => questions'[p].id \in 1 .. lastRow
      BY <3>1, <3>2
    <3>4. \A p \in Questions : Exists(p)' => questions'[p].id \in 1 .. lastRow'
      BY <3>1, <3>3
    <3>5. ASSUME NEW p \in Questions, NEW o \in Questions, Exists(p)', Exists(o)', p # o
          PROVE  questions'[p].id # questions'[o].id
      <4>1. CASE p # q /\ o # q
        BY <3>1, <3>2, <3>5, <4>1
      <4>2. CASE p = q \/ o = q
        BY <3>1, <3>3, <3>5, <4>2
      <4> QED
        BY <4>1, <4>2
    <3> QED
      BY <1>1, <2>6, <3>1, <3>2, <3>4, <3>5 DEF KeepsIds
  <2> QED
    BY <2>4, <2>5, <2>6
<1> QED
  BY <1>2, <1>4, <1>5, <1>6, <1>7
     DEF QuestionStep, DuplicatesAreRead, TextsAreRead, NothingIsWritten

(* What a worker is about to write to it has found there.                  *)
LEMMA WritersStay ==
  ASSUME Staffed, IdsAreGiven, WritersFindRows, NEW w \in Workers, Turns(w), Work(w), QuestionStep(w)
  PROVE  WritersFindRows'
<1>1. job' = [u \in Workers |-> job'[u]] /\ \A u \in Workers : u # w => job'[u] = job[u]
  BY JobsStay DEF WritersFindRows
<1>2. \A u \in Workers : u # w => at'[u] = at[u] /\ mind'[u] = mind[u]
  BY DEF Turns, Staffed
<1>3. \A q \in Questions : Exists(q) => Exists(q)'
  BY IdsStay DEF KeepsIds
<1>4. ASSUME NEW u \in Workers, u # w
      PROVE  WriterFinds(u)'
  <2>1. QuestionOf(u)' = QuestionOf(u)
    BY <1>1, <1>2, <1>4 DEF QuestionOf, Adds
  <2>2. PICK list : list = mind[u].todo
    OBVIOUS
  <2>3. mind'[u].todo = list /\ mind'[u].found = mind[u].found /\ at'[u] = at[u]
    BY <1>2, <1>4, <2>2
  <2>4. WriterFinds(u)
    BY DEF WritersFindRows
  <2> QED
    BY <1>3, <2>1, <2>2, <2>3, <2>4 DEF WriterFinds
<1>5. WriterFinds(w)'
  <2>1. CASE RowIsWritten(w)
    <3>1. at'[w] = "text" /\ QuestionOf(w)' = QuestionOf(w)
      BY <2>1 DEF RowIsWritten, QuestionOf, Adds
    <3>2. PICK q : q = QuestionOf(w)
      OBVIOUS
    <3>3. PICK t, s : s \in {"draft", "published"} /\ questions' = [questions EXCEPT ![q] =
             [id |-> RowId(q), topic |-> t, status |-> s, wording |-> @.wording]]
      BY <2>1, <3>2 DEF RowIsWritten
    <3>4. ASSUME q \in Questions
          PROVE  Exists(q)'
      <4>1. questions'[q].status # "none"
        BY <3>3, <3>4 DEF IdsAreGiven, Filed
      <4>2. NoQuestion.status = "none"
        BY DEF NoQuestion
      <4> QED
        BY <4>1, <4>2 DEF Exists
    <3> QED
      BY <3>1, <3>2, <3>4 DEF WriterFinds
  <2>2. CASE MarkIsWritten(w)
    <3>1. at[w] = "mark" /\ at'[w] = "mark"
      BY <2>2 DEF MarkIsWritten
    <3>2. PICK list : list = mind[w].todo
      OBVIOUS
    <3>3. list \in Seq(Questions) /\ \A k \in DOMAIN list : Exists(list[k]) /\ list[k] \in Questions
      BY <3>1, <3>2 DEF WritersFindRows, WriterFinds
    <3>4. PICK i \in DOMAIN list : mind'[w].todo = RemoveAt(list, i)
      BY <2>2, <3>2 DEF MarkIsWritten
    <3>5. RemoveAt(list, i) \in Seq({q \in Questions : Exists(q)})
      <4>1. list \in Seq({q \in Questions : Exists(q)})
        BY <3>3
      <4> QED
        BY <4>1, RemovedAlone
    <3>6. PICK rest : rest = RemoveAt(list, i)
      OBVIOUS
    <3>7. rest \in Seq(Questions) /\ \A k \in DOMAIN rest : rest[k] \in Questions /\ Exists(rest[k])
      BY <3>5, <3>6
    <3>8. mind'[w].todo = rest /\ \A k \in DOMAIN rest : Exists(rest[k])'
      BY <1>3, <3>4, <3>6, <3>7
    <3> QED
      BY <3>1, <3>7, <3>8 DEF WriterFinds
  <2>3. CASE DuplicatesAreRead(w)
    <3>1. at'[w] = "mark" /\ questions' = questions
      BY <2>3 DEF DuplicatesAreRead, table
    <3>2. PICK list \in Seq(Duplicates) : list = SetToSeq(Duplicates)
      BY FoundCovers DEF IdsAreGiven
    <3>3. Duplicates \subseteq Questions /\ \A q \in Duplicates : Exists(q)
      <4>1. \A q \in Questions : questions[q].status \in {"published", "duplicate"} => Exists(q)
        <5>1. NoQuestion.status = "none"
          BY DEF NoQuestion
        <5> QED
          BY <5>1 DEF Exists
      <4> QED
        BY <4>1 DEF Duplicates, Candidates
    <3>4. list \in Seq(Questions) /\ \A k \in DOMAIN list : list[k] \in Questions /\ Exists(list[k])
      <4>1. \A k \in DOMAIN list : list[k] \in Duplicates
        OBVIOUS
      <4>2. list \in Seq(Questions)
        BY <3>3
      <4> QED
        BY <3>3, <4>1, <4>2
    <3>5. mind'[w].todo = list
      BY <2>3, <3>2 DEF DuplicatesAreRead
    <3> QED
      BY <1>3, <3>1, <3>4, <3>5 DEF WriterFinds
  <2>4. CASE TextsAreRead(w)
    <3>1. at'[w] = "file" /\ DOMAIN mind'[w].found = {p \in Questions : Exists(p)}
      BY <2>4 DEF TextsAreRead
    <3> QED
      BY <1>3, <3>1 DEF WriterFinds
  <2>5. CASE TextIsWritten(w) \/ TopicsAreWritten(w) \/ NothingIsWritten(w)
    <3>1. at'[w] \notin {"text", "mark", "file"}
      BY <2>5 DEF TextIsWritten, TopicsAreWritten, NothingIsWritten
    <3> QED
      BY <3>1 DEF WriterFinds
  <2> QED
    BY <2>1, <2>2, <2>3, <2>4, <2>5 DEF QuestionStep
<1> QED
  BY <1>1, <1>4, <1>5 DEF WritersFindRows

(* How many there are of so many to a test.                                *)
LEMMA DivLaw ==
  ASSUME NEW x \in Nat, NEW p \in Nat \ {0}
  PROVE  /\ x \div p \in Nat
         /\ (x \div p) * p <= x
         /\ x < (x \div p) * p + p
<1>1. x \div p \in Nat
  OBVIOUS
<1>2. (x \div p) * p <= x
  OBVIOUS
<1>3. x < (x \div p) * p + p
  OBVIOUS
<1> QED
  BY <1>1, <1>2, <1>3

LEMMA Scales ==
  ASSUME NEW a \in Nat, NEW b \in Nat, NEW p \in Nat \ {0}, a <= b
  PROVE  a * p \in Nat /\ a * p <= b * p
OBVIOUS

(* The n-th window of p ends at n * p, and the last of the TestCount holds *)
(* the last question.                                                      *)
LEMMA Windows ==
  ASSUME NEW count \in Nat, NEW n \in Nat \ {0}, NEW p \in Nat \ {0}, p = PerTest
  PROVE  /\ TestCount(count) \in Nat
         /\ (n - 1) * p \in Nat /\ (n - 1) * p + p = n * p
         /\ n <= TestCount(count) <=> (n - 1) * p < count
<1> DEFINE k == TestCount(count)
<1>1. count + p - 1 \in Nat
  OBVIOUS
<1>2. k = (count + p - 1) \div p
  BY DEF TestCount
<1> HIDE DEF k
<1>3. k \in Nat /\ k * p <= count + p - 1 /\ count + p - 1 < k * p + p
  BY <1>1, <1>2, DivLaw
<1>4. (n - 1) * p \in Nat /\ (n - 1) * p + p = n * p /\ n * p \in Nat
  <2>1. n - 1 \in Nat
    OBVIOUS
  <2> QED
    BY <2>1
<1>5. k * p \in Nat
  BY <1>3
<1>6. CASE n <= k
  <2>1. n * p <= k * p
    BY <1>3, <1>6, Scales
  <2>2. (n - 1) * p < count
    BY <1>3, <1>4, <1>5, <2>1
  <2> QED
    BY <1>3, <1>4, <1>6, <2>2 DEF k
<1>7. CASE ~ (n <= k)
  <2>1. k <= n - 1 /\ n - 1 \in Nat
    BY <1>3, <1>7
  <2>2. k * p <= (n - 1) * p
    BY <1>3, <2>1, Scales
  <2>3. ~ ((n - 1) * p < count)
    BY <1>3, <1>4, <1>5, <2>2
  <2> QED
    BY <1>3, <1>4, <1>7, <2>3 DEF k
<1> QED
  BY <1>6, <1>7

(* The ranks of a topic's questions are 0 .. N - 1, each of one question.  *)
LEMMA RanksNumber ==
  ASSUME IdsAreGiven, NEW S \in SUBSET Questions, \A q \in S : Exists(q)
  PROVE  /\ IsFiniteSet(S) /\ Cardinality(S) \in Nat
         /\ [q \in S |-> Rank(q, S)] \in Bijection(S, 0 .. Cardinality(S) - 1)
<1> DEFINE N == Cardinality(S)
           Lower(q) == {o \in S : Before(o, q)}
           r == [q \in S |-> Cardinality(Lower(q))]
<1>1. IsFiniteSet(S) /\ N \in Nat
  <2>1. LastQuestion \in Nat
    BY BankAssumption
  <2>2. IsFiniteSet(Questions)
    BY <2>1, FS_Interval DEF Questions
  <2> QED
    BY <2>2, FS_Subset, FS_CardinalityType
<1>2. \A q \in S : questions[q].id \in Nat
  BY DEF IdsAreGiven
<1>3. \A p, q \in S : p # q => Before(p, q) \/ Before(q, p)
  BY <1>2 DEF IdsAreGiven, Before
<1>4. \A q \in S : ~ Before(q, q)
  BY <1>2 DEF Before
<1>5. \A o, p, q \in S : Before(o, p) /\ Before(p, q) => Before(o, q)
  BY <1>2 DEF Before
<1>6. \A q \in S : IsFiniteSet(Lower(q)) /\ Cardinality(Lower(q)) \in Nat
  BY <1>1, FS_Subset, FS_CardinalityType
<1>7. ASSUME NEW q \in S
      PROVE  r[q] \in 0 .. N - 1
  <2>1. Lower(q) \in SUBSET S /\ Lower(q) # S
    BY <1>4
  <2> DEFINE L == Lower(q)
  <2>2. Cardinality(L) \in Nat /\ L \in SUBSET S /\ L # S /\ r[q] = Cardinality(L)
    BY <1>6, <2>1
  <2> HIDE DEF L, r
  <2>3. Cardinality(L) <= N /\ Cardinality(L) # N
    BY <1>1, <2>2, FS_Subset
  <2> HIDE DEF N
  <2> QED
    BY <1>1, <2>2, <2>3
<1>8. ASSUME NEW p \in S, NEW q \in S, Before(p, q)
      PROVE  r[p] # r[q]
  <2> DEFINE K == Lower(p)
             L == Lower(q)
  <2>1. K \in SUBSET L /\ p \in L /\ p \notin K
    BY <1>4, <1>5, <1>8
  <2>2. r[p] = Cardinality(K) /\ r[q] = Cardinality(L) /\ IsFiniteSet(L)
    BY <1>6
  <2> HIDE DEF K, L, r
  <2>3. Cardinality(K) # Cardinality(L)
    BY <2>1, <2>2, FS_Subset
  <2> QED
    BY <2>2, <2>3
<1>9. r \in [S -> 0 .. N - 1]
  BY <1>7
<1> HIDE DEF r, N
<1>10. r \in Injection(S, 0 .. N - 1)
  BY <1>3, <1>8, <1>9 DEF Injection, IsInjective
<1>11. IsFiniteSet(0 .. N - 1) /\ Cardinality(0 .. N - 1) = N
  <2>1. 0 \in Int /\ N - 1 \in Int /\ (IF 0 > N - 1 THEN 0 ELSE N - 1 - 0 + 1) = N
    BY <1>1
  <2> QED
    BY <2>1, FS_Interval
<1>12. r \in Surjection(S, 0 .. N - 1)
  BY <1>1, <1>10, <1>11, FS_Injection DEF N
<1>13. r = [q \in S |-> Rank(q, S)]
  BY DEF r, Rank
<1> QED
  BY <1>1, <1>10, <1>12, <1>13 DEF Bijection, N

(* A window of what is numbered has as many as fit.                        *)
LEMMA WindowSize ==
  ASSUME NEW S, IsFiniteSet(S), NEW N \in Nat, NEW r \in Bijection(S, 0 .. N - 1),
         NEW a \in Nat, NEW p \in Nat \ {0}, a < N
  PROVE  Cardinality({q \in S : a <= r[q] /\ r[q] < a + p}) = IF N - a < p THEN N - a ELSE p
<1> DEFINE T == {q \in S : a <= r[q] /\ r[q] < a + p}
           b == IF N - a < p THEN N - 1 ELSE a + p - 1
           g == [q \in T |-> r[q]]
<1>1. r \in [S -> 0 .. N - 1] /\ IsInjective(r) /\ \A i \in 0 .. N - 1 : \E q \in S : r[q] = i
  BY DEF Bijection, Injection, Surjection, IsInjective
<1>2. b \in Int /\ a <= b /\ b <= N - 1 /\ b <= a + p - 1 /\ (b = N - 1 \/ b = a + p - 1)
  OBVIOUS
<1>3. b - a + 1 = IF N - a < p THEN N - a ELSE p
  OBVIOUS
<1> HIDE DEF b
<1>4. ASSUME NEW q \in S
      PROVE  a <= r[q] /\ r[q] < a + p <=> r[q] \in a .. b
  <2>1. r[q] \in Nat /\ r[q] <= N - 1
    BY <1>1
  <2> QED
    BY <1>2, <2>1
<1>5. g \in [T -> a .. b] /\ IsInjective(g)
  BY <1>1, <1>4 DEF IsInjective
<1>6. ASSUME NEW i \in a .. b
      PROVE  \E q \in T : g[q] = i
  <2>1. i \in 0 .. N - 1
    BY <1>2
  <2>2. PICK q \in S : r[q] = i
    BY <1>1, <2>1
  <2>3. q \in T
    BY <1>4, <2>2
  <2> QED
    BY <2>2, <2>3
<1>7. IsFiniteSet(T)
  <2>1. T \in SUBSET S
    OBVIOUS
  <2> HIDE DEF T
  <2> QED
    BY <2>1, FS_Subset
<1> HIDE DEF T, g
<1>8. g \in Bijection(T, a .. b)
  BY <1>5, <1>6 DEF Bijection, Injection, Surjection, IsInjective
<1>9. Cardinality(a .. b) = Cardinality(T)
  BY <1>7, <1>8, FS_Bijection DEF ExistsBijection
<1>10. Cardinality(a .. b) = b - a + 1
  BY <1>2, FS_Interval
<1> QED
  BY <1>3, <1>9, <1>10 DEF T

(* So the tests of a topic are what they are listed as.                    *)
LEMMA TestsCover ==
  ASSUME IdsAreGiven, NEW t
  PROVE  TestsCoverTheTopic(t)
<1> DEFINE S == InTopic(t)
           N == Cardinality(S)
           r == [q \in S |-> Rank(q, S)]
<1>1. S \in SUBSET Questions /\ \A q \in S : Exists(q)
  <2>1. NoQuestion.status = "none"
    BY DEF NoQuestion
  <2>2. \A q \in Questions : questions[q].status = "published" => Exists(q)
    BY <2>1 DEF Exists
  <2> QED
    BY <2>2 DEF InTopic, Published
<1> HIDE DEF S
<1>2. IsFiniteSet(S) /\ N \in Nat /\ r \in Bijection(S, 0 .. N - 1)
  BY <1>1, RanksNumber
<1>3. PICK p \in Nat \ {0} : p = PerTest
  BY BankAssumption
<1>4. ASSUME NEW n \in Nat \ {0}
      PROVE  NumberedTest(t, n) = {q \in S : (n - 1) * p <= r[q] /\ r[q] < (n - 1) * p + p}
  BY <1>3 DEF NumberedTest, GetQuestionSlice, S
<1>5. \A q \in S : r[q] \in Nat /\ r[q] < N
  <2>1. r \in [S -> 0 .. N - 1]
    BY <1>2 DEF Bijection, Injection
  <2> HIDE DEF r, N
  <2> QED
    BY <1>2, <2>1
<1> HIDE DEF r, N
<1>6. ASSUME NEW n \in Nat \ {0}
      PROVE  /\ TestCount(N) \in Nat /\ (n - 1) * p \in Nat
             /\ n <= TestCount(N) <=> (n - 1) * p < N
  BY <1>2, <1>3, Windows
<1>7. ASSUME NEW n \in Nat \ {0}, n <= TestCount(N)
      PROVE  Cardinality(NumberedTest(t, n)) = TestSize(N, n)
  <2> DEFINE a == (n - 1) * p
  <2>1. a \in Nat /\ a < N
    BY <1>6, <1>7
  <2>2. TestSize(N, n) = IF N - a < p THEN N - a ELSE p
    BY <1>3 DEF TestSize
  <2>3. NumberedTest(t, n) = {q \in S : a <= r[q] /\ r[q] < a + p}
    BY <1>4
  <2> HIDE DEF a
  <2> QED
    BY <1>2, <2>1, <2>2, <2>3, WindowSize
<1>8. ASSUME NEW n \in Nat \ {0}, ~ (n <= TestCount(N))
      PROVE  NumberedTest(t, n) = {}
  <2> DEFINE a == (n - 1) * p
  <2>1. a \in Nat /\ ~ (a < N)
    BY <1>6, <1>8
  <2>2. NumberedTest(t, n) = {q \in S : a <= r[q] /\ r[q] < a + p}
    BY <1>4
  <2> HIDE DEF a
  <2>3. \A q \in S : ~ (a <= r[q])
    BY <1>2, <1>5, <2>1
  <2> QED
    BY <2>2, <2>3
<1>9. ASSUME NEW q \in S
      PROVE  \E n \in 1 .. TestCount(N) : q \in NumberedTest(t, n)
  <2> DEFINE x == r[q]
             k == x \div p
  <2>1. x \in Nat /\ x < N
    BY <1>5
  <2> HIDE DEF x
  <2>2. k \in Nat /\ k * p <= x /\ x < k * p + p /\ k * p \in Nat
    <3>1. k \in Nat /\ k * p <= x /\ x < k * p + p
      BY <2>1, DivLaw
    <3> HIDE DEF k
    <3> QED
      BY <3>1
  <2> HIDE DEF k
  <2>3. k + 1 \in Nat \ {0} /\ (k + 1) - 1 = k
    BY <2>2
  <2>4. k * p < N
    BY <1>2, <2>1, <2>2
  <2>5. k + 1 <= TestCount(N) /\ TestCount(N) \in Nat
    BY <1>6, <2>3, <2>4
  <2>6. q \in NumberedTest(t, k + 1)
    BY <1>4, <2>2, <2>3 DEF x
  <2>7. k + 1 \in 1 .. TestCount(N)
    BY <2>3, <2>5
  <2> QED
    BY <2>6, <2>7
<1>10. \A n \in Questions : n \in Nat \ {0}
  <2>1. LastQuestion \in Nat
    BY BankAssumption
  <2> QED
    BY <2>1 DEF Questions
<1>11. UNION {NumberedTest(t, n) : n \in 1 .. TestCount(N)} = S
  <2>1. \A n : NumberedTest(t, n) \subseteq S
    BY DEF NumberedTest, GetQuestionSlice, S
  <2> QED
    BY <1>9, <2>1
<1>12. \A n \in 1 .. TestCount(N) : n \in Nat \ {0} /\ n <= TestCount(N)
  <2>1. TestCount(N) \in Nat
    BY <1>6
  <2> QED
    BY <2>1
<1>13. \A n \in Questions : n > TestCount(N) => ~ (n <= TestCount(N))
  <2>1. TestCount(N) \in Nat
    BY <1>6
  <2> QED
    BY <1>10, <2>1
<1>14. /\ \A n \in 1 .. TestCount(N) : Cardinality(NumberedTest(t, n)) = TestSize(N, n)
       /\ \A n \in Questions : n > TestCount(N) => NumberedTest(t, n) = {}
  BY <1>7, <1>8, <1>10, <1>12, <1>13
<1> QED
  BY <1>11, <1>14, Zenon DEF TestsCoverTheTopic, N, S

(* A topic that loses none, and gains none but later ones, numbers the     *)
(* questions it had as before.                                             *)
LEMMA RanksStay ==
  ASSUME IdsAreGiven, IdsAreGiven', KeepsIds, NEW t, ~ Shifts(t)
  PROVE  /\ InTopic(t) \subseteq InTopic(t)'
         /\ \A q \in InTopic(t) : Rank(q, InTopic(t))' = Rank(q, InTopic(t))
         /\ \A p, q \in InTopic(t) : Before(p, q)' <=> Before(p, q)
         /\ \A p \in InTopic(t), q \in InTopic(t)' : q \notin InTopic(t) => Before(p, q)'
<1> PICK S : S = InTopic(t)
  OBVIOUS
<1> PICK K : K = InTopic(t)'
  OBVIOUS
<1>1. NoQuestion.status = "none"
  BY DEF NoQuestion
<1>2. \A q \in S : q \in Questions /\ Exists(q)
  BY <1>1 DEF InTopic, Published, Exists
<1>3. \A q \in K : q \in Questions /\ Exists(q)'
  BY <1>1 DEF InTopic, Published, Exists
<1>4. S \subseteq K /\ \A q \in K, p \in S : q \notin S => ~ (questions'[q].id < questions[p].id)
  BY DEF Shifts
<1>5. \A q \in S : questions'[q].id = questions[q].id /\ questions[q].id \in Nat
  BY <1>2 DEF KeepsIds, IdsAreGiven
<1>6. \A q \in K : questions'[q].id \in Nat
  BY <1>3 DEF IdsAreGiven
<1>7. \A p, q \in S : Before(p, q)' <=> Before(p, q)
  BY <1>5 DEF Before
<1>8. ASSUME NEW p \in S, NEW q \in K, q \notin S
      PROVE  Before(p, q)' /\ ~ Before(q, p)'
  <2>1. questions'[p].id # questions'[q].id
    BY <1>3, <1>4, <1>8 DEF IdsAreGiven
  <2>2. ~ (questions'[q].id < questions'[p].id)
    BY <1>4, <1>5, <1>8
  <2>3. questions'[p].id \in Nat /\ questions'[q].id \in Nat
    BY <1>5, <1>6, <1>8
  <2> QED
    BY <2>1, <2>2, <2>3 DEF Before
<1>9. ASSUME NEW q \in S
      PROVE  Rank(q, InTopic(t))' = Rank(q, InTopic(t))
  <2>1. {p \in K : Before(p, q)'} = {p \in S : Before(p, q)}
    BY <1>4, <1>7, <1>8
  <2> QED
    BY <2>1 DEF Rank
<1> QED
  BY <1>4, <1>7, <1>8, <1>9

(* Every test keeps the questions it had when it was opened, or its topic  *)
(* has shifted.                                                            *)
TestsInv ==
  /\ IdsAreGiven /\ WritersFindRows
  /\ \A t \in Topics : t \in shifted \/ TestsKeepTheirQuestions(t)

LEMMA TestsStay ==
  ASSUME TestsInv, IdsAreGiven', KeepsIds, attempts' = attempts, Remember,
         NEW t \in Topics, t \notin shifted'
  PROVE  TestsKeepTheirQuestions(t)'
<1>1. t \notin shifted /\ ~ Shifts(t)
  BY DEF Remember
<1> PICK S : S = InTopic(t)
  OBVIOUS
<1> PICK K : K = InTopic(t)'
  OBVIOUS
<1>2. /\ S \subseteq K
      /\ \A q \in S : Rank(q, S) = Rank(q, K)'
      /\ \A p, q \in S : Before(p, q)' <=> Before(p, q)
      /\ \A p \in S, q \in K : q \notin S => Before(p, q)'
  <2>1. \A q : Rank(q, K)' = Rank(q, InTopic(t))'
    OBVIOUS
  <2> QED
    BY <1>1, <2>1, RanksStay DEF TestsInv
<1>3. ASSUME NEW n
      PROVE  /\ NumberedTest(t, n) \subseteq S /\ NumberedTest(t, n)' \subseteq K
             /\ \A q \in S : q \in NumberedTest(t, n) <=> q \in NumberedTest(t, n)'
  BY <1>2 DEF NumberedTest, GetQuestionSlice
<1>4. ASSUME NEW a \in attempts, a.topic = t
      PROVE  /\ a.questions \subseteq NumberedTest(t, a.index)'
             /\ \A q \in NumberedTest(t, a.index)' \ a.questions, p \in a.questions : Before(p, q)'
  <2>1. /\ a.questions \subseteq NumberedTest(t, a.index)
        /\ \A q \in NumberedTest(t, a.index) \ a.questions, p \in a.questions : Before(p, q)
    BY <1>1, <1>4 DEF TestsInv, TestsKeepTheirQuestions
  <2>2. a.questions \subseteq S /\ a.questions \subseteq NumberedTest(t, a.index)'
    BY <1>3, <2>1
  <2>3. ASSUME NEW q \in NumberedTest(t, a.index)' \ a.questions, NEW p \in a.questions
        PROVE  Before(p, q)'
    <3>1. q \in K /\ p \in S
      BY <1>3, <2>2
    <3>2. CASE q \in S
      BY <1>2, <1>3, <2>1, <3>1, <3>2
    <3>3. CASE q \notin S
      BY <1>2, <3>1, <3>3
    <3> QED
      BY <3>2, <3>3
  <2> QED
    BY <2>2, <2>3
<1> QED
  BY <1>4 DEF TestsKeepTheirQuestions

(* A test that is opened has its questions.                                *)
LEMMA TestsOpen ==
  ASSUME TestsInv, NEW o, NEW n, OpenTest(o, n), shifted \subseteq shifted'
  PROVE  TestsInv'
<1>1. UNCHANGED <<questions, lastRow, at, job, mind>>
  BY DEF OpenTest, table, work
<1>2. IdsAreGiven' /\ WritersFindRows'
  <2>1. \A q : Exists(q)' <=> Exists(q)
    BY <1>1 DEF Exists
  <2>2. IdsAreGiven'
    BY <1>1, <2>1 DEF TestsInv, IdsAreGiven, Filed
  <2>3. \A w : QuestionOf(w)' = QuestionOf(w)
    BY <1>1 DEF QuestionOf, Adds
  <2>4. \A w \in Workers : WriterFinds(w)'
    BY <1>1, <2>1, <2>3 DEF TestsInv, WritersFindRows, WriterFinds
  <2> QED
    BY <1>1, <2>2, <2>4 DEF TestsInv, WritersFindRows
<1>3. ASSUME NEW t
      PROVE  /\ \A k : NumberedTest(t, k)' = NumberedTest(t, k)
             /\ \A p, q : Before(p, q)' <=> Before(p, q)
  BY <1>1 DEF NumberedTest, GetQuestionSlice, InTopic, Published, Rank, Before
<1>4. attempts' = attempts \cup {[topic |-> o, index |-> n, questions |-> NumberedTest(o, n)]}
  BY DEF OpenTest
<1>5. ASSUME NEW t \in Topics, TestsKeepTheirQuestions(t)
      PROVE  TestsKeepTheirQuestions(t)'
  <2>1. ASSUME NEW a \in attempts', a.topic = t
        PROVE  /\ a.questions \subseteq NumberedTest(t, a.index)
               /\ \A q \in NumberedTest(t, a.index) \ a.questions, p \in a.questions : Before(p, q)
    <3>1. CASE a \in attempts
      BY <1>5, <2>1, <3>1 DEF TestsKeepTheirQuestions
    <3>2. CASE a = [topic |-> o, index |-> n, questions |-> NumberedTest(o, n)]
      <4>1. a.index = n /\ a.topic = o /\ a.questions = NumberedTest(o, n)
        BY <3>2
      <4> QED
        BY <2>1, <4>1
    <3> QED
      BY <1>4, <2>1, <3>1, <3>2
  <2> QED
    BY <1>3, <2>1 DEF TestsKeepTheirQuestions
<1> QED
  BY <1>2, <1>5 DEF TestsInv

LEMMA TestsStep ==
  PacksInv /\ TestsInv /\ [Watched]_<<bankVars, histories>> => TestsInv'
<1> SUFFICES ASSUME PacksInv, TestsInv, [Watched]_<<bankVars, histories>>
             PROVE  TestsInv'
  OBVIOUS
<1>1. ASSUME UNCHANGED <<questions, lastRow, at, job, mind>>
      PROVE  IdsAreGiven' /\ WritersFindRows' /\ KeepsIds
  <2>1. \A q : Exists(q)' <=> Exists(q)
    BY <1>1 DEF Exists
  <2>2. IdsAreGiven' /\ KeepsIds
    BY <1>1, <2>1 DEF TestsInv, IdsAreGiven, KeepsIds, Filed
  <2>3. \A w : QuestionOf(w)' = QuestionOf(w)
    BY <1>1 DEF QuestionOf, Adds
  <2>4. \A w \in Workers : WriterFinds(w)'
    BY <1>1, <2>1, <2>3 DEF TestsInv, WritersFindRows, WriterFinds
  <2> QED
    BY <1>1, <2>2, <2>4 DEF TestsInv, WritersFindRows
<1>2. CASE UNCHANGED <<questions, lastRow, at, job, mind, attempts, shifted>>
  <2>1. ASSUME NEW t \in Topics, TestsKeepTheirQuestions(t)
        PROVE  TestsKeepTheirQuestions(t)'
    BY <1>2, <2>1 DEF TestsKeepTheirQuestions, NumberedTest, GetQuestionSlice, InTopic, Published, Rank, Before
  <2> QED
    BY <1>1, <1>2, <2>1 DEF TestsInv
<1>3. CASE Watched
  <2>1. Remember /\ BankNext
    BY <1>3 DEF Watched
  <2>2. ASSUME IdsAreGiven', WritersFindRows', KeepsIds, attempts' = attempts
        PROVE  TestsInv'
    BY <2>1, <2>2, TestsStay DEF TestsInv
  <2>3. CASE \E w \in Workers : Work(w)
    <3>1. PICK w \in Workers : Work(w)
      BY <2>3
    <3>2. Turns(w) /\ QuestionStep(w)
      BY <3>1, WorkIsPackStep, WorkIsQuestionStep DEF PacksInv, TestsInv, IdsAreGiven, PackStep
    <3>3. IdsAreGiven' /\ KeepsIds /\ WritersFindRows'
      BY <3>1, <3>2, IdsStay, WritersStay DEF PacksInv, TestsInv
    <3>4. attempts' = attempts
      BY <3>1 DEF Work, Begin, WorkOnPack, GetPackByID, CreatePack, UpdatePack, LogAction,
                  FillPack, LookAtQuestion, CountQuestions, CreateQuestion, UpsertQuestion, UpsertTranslations,
                  ImportTickets, FindDuplicates, MarkDuplicate, ReplaceTickets,
                  ClassifyTopics, ListQuestionTexts, SetCategories, Die, learner
    <3> QED
      BY <2>2, <3>3, <3>4
  <2>4. CASE \E t \in Topics, n \in Questions : OpenTest(t, n)
    BY <2>1, <2>4, TestsOpen DEF Remember
  <2>5. CASE UNCHANGED <<questions, lastRow, at, job, mind, attempts>>
    BY <1>1, <2>2, <2>5
  <2>6. \/ \E w \in Workers : Work(w)
        \/ \E t \in Topics, n \in Questions : OpenTest(t, n)
        \/ UNCHANGED <<questions, lastRow, at, job, mind, attempts>>
    BY <2>1 DEF BankNext, Reword, GetQuestionsByPack, table, work, learner
  <2> QED
    BY <2>3, <2>4, <2>5, <2>6
<1> QED
  BY <1>2, <1>3 DEF bankVars, table, work, learner, histories

LEMMA InitTests == WatchedInit => TestsInv
<1> SUFFICES ASSUME WatchedInit
             PROVE  TestsInv
  OBVIOUS
<1>1. PICK list \in Seq(Nat) : Loaded(list)
  BY DEF WatchedInit
<1>2. NothingServed /\ NobodyWorks
  BY DEF WatchedInit
<1>3. NoQuestion.status = "none"
  BY DEF NoQuestion
<1>4. lastRow = Len(list) /\ Filed
  BY <1>1 DEF Loaded, Filed, IsQuestion, NoQuestion
<1>5. \A q \in Questions : Exists(q) => /\ questions[q].status = "published"
                                        /\ questions[q].id \in DOMAIN list /\ list[questions[q].id] = q
  BY <1>1 DEF Loaded, Exists
<1>6. \A q \in Questions : ~ Exists(q) => questions[q].status = "none"
  BY <1>3 DEF Exists
<1>7. IdsAreGiven
  <2>1. DOMAIN list = 1 .. lastRow /\ lastRow \in Nat
    BY <1>4
  <2>2. \A q \in Questions : questions[q].status = "none" => ~ Exists(q)
    BY <1>5
  <2>3. \A p, q \in Questions : Exists(p) /\ Exists(q) /\ p # q => questions[p].id # questions[q].id
    BY <1>5
  <2>4. \A q \in Questions : Exists(q) => questions[q].id \in 1 .. lastRow
    BY <1>5, <2>1
  <2> QED
    BY <1>4, <2>1, <2>2, <2>3, <2>4 DEF IdsAreGiven
<1>8. WritersFindRows
  BY <1>2 DEF WritersFindRows, WriterFinds, NobodyWorks
<1>9. \A t : TestsKeepTheirQuestions(t)
  BY <1>2 DEF TestsKeepTheirQuestions, NothingServed
<1> QED
  BY <1>7, <1>8, <1>9 DEF TestsInv

(* A topic's tests partition it, as many and as large as they are listed,  *)
(* and a test keeps the questions it had when the learner opened it        *)
(* (GetQuestionSlice orders a topic by row id, which an upsert keeps),     *)
(* unless one of the topic is withdrawn, or one comes in that was inserted *)
(* earlier.                                                                *)
THEOREM TestsAreNumberedForGood == WatchedSpec => [](TestsAreStable /\ NumberedTestsAreStable)
<1>1. TestsInv => TestsAreStable /\ NumberedTestsAreStable
  BY TestsCover DEF TestsInv, TestsAreStable, NumberedTestsAreStable
<1> QED
  BY <1>1, InitPacks, PacksStep, InitTests, TestsStep, PTL DEF WatchedSpec

(***************************************************************************)
(* Types of the bank.                                                      *)
(***************************************************************************)

(* The job of a worker that is somewhere, by its op.                       *)
Serves(place, op) ==
  CASE place = "idle"                      -> op = "none"
    [] place = "pack"                      -> op \in {"add", "publish", "rollback"} \cup Tools
    [] place = "create"                    -> op \in {"draft"} \cup Tools
    [] place \in {"look", "recount"}       -> op \in Tools
    [] place \in {"row", "text"}           -> op \in {"add"} \cup Tools
    [] place = "write"                     -> op \in {"add", "publish"} \cup Tools
    [] place = "log"                       -> op \in {"draft", "add", "publish", "rollback"}
    [] place \in {"duplicates", "mark"}    -> op = "tickets"
    [] place \in {"texts", "file"}         -> op = "classify"
    [] OTHER                               -> FALSE

WorkPlaces == {"idle", "pack", "create", "look", "row", "text", "recount", "write", "log",
               "duplicates", "mark", "texts", "file"}

(* What it holds there.                                                    *)
Held(m) == /\ m.version \in 0 .. LastVersion /\ m.todo \in Seq(Questions)
           /\ m.text \in Wordings \cup {NoText}
HeldAt(place, op, m) ==
  /\ place \in Posts \cup {"log"} => m.version \in Versions
  /\ place = "look" => m.todo # <<>>
  /\ place \in {"row", "text"} => m.text \in Wordings /\ (op # "add" => m.todo # <<>>)
  /\ place = "write" /\ op \in Tools => m.found[1] \in Nat
  /\ place = "mark" => /\ DOMAIN m.found \subseteq Questions
                       /\ \A q \in DOMAIN m.found : m.found[q] \in Questions
  /\ place = "file" => \A q \in DOMAIN m.found : m.found[q] \in Topics

Suits(w) ==
  /\ job[w] \in Jobs \cup {NoJob} /\ at[w] \in WorkPlaces /\ Serves(at[w], job[w].op)
  /\ Held(mind[w]) /\ HeldAt(at[w], job[w].op, mind[w]) /\ mind[w].row \in PackRows

(* There are as many questions as ids were given.                          *)
Counted == lastRow = Cardinality({q \in Questions : Exists(q)})

RowsTyped == /\ clock \in Nat /\ packs \in [Versions -> PackRows]
         /\ questions \in [Questions -> QuestionRows]
RestTyped == /\ tickets \in [Numbers -> Seq(Questions)]
         /\ audit \subseteq [op: {"draft", "add", "publish", "rollback"}, version: Versions]
         /\ prepdrive \in [Questions -> Wordings] /\ begun \in 0 .. MaxJobs
         /\ attempts \subseteq [topic: Topics, index: Questions, questions: SUBSET Questions]
         /\ walk \in [at: {"idle", "on", "over"}, cursor: 0 .. LastQuestion,
                      listed: SUBSET Questions, twice: BOOLEAN]

BankInv ==
  /\ Staffed /\ IdsAreGiven /\ WritersFindRows
  /\ Counted /\ RowsTyped /\ RestTyped
  /\ \A w \in Workers : Suits(w)

(* Jobs have the fields of their op.                                       *)
LEMMA JobsHave ==
  ASSUME NEW j \in Jobs
  PROVE  /\ j.op \in {"draft", "add", "publish", "rollback", "scrape", "refetch", "seed", "tickets",
                      "classify"}
         /\ j.op = "draft" => j.version \in Versions
         /\ j.op = "add" => j.question \in Questions /\ j.wording \in Wordings /\ j.topic \in Topics
<1>1. j \in AllJobs
  BY BankAssumption
<1>2. CASE j \in [op: {"draft"}, version: Versions]
  BY <1>2
<1>3. CASE j \in [op: {"add"}, question: Questions, wording: Wordings, topic: Topics]
  BY <1>3
<1>4. CASE j \in [op: {"publish", "rollback", "scrape", "refetch", "seed", "tickets", "classify"}]
  BY <1>4
<1> QED
  BY <1>1, <1>2, <1>3, <1>4 DEF AllJobs

(***************************************************************************)
(* A worker's moves.                                                       *)
(***************************************************************************)

(* What a worker that moves must come to.                                  *)
ComesTo(w, place, m) ==
  /\ place \in WorkPlaces /\ Serves(place, job[w].op)
  /\ Held(m) /\ HeldAt(place, job[w].op, m) /\ m.row \in PackRows'

(* A step of a worker after which it suits.                                *)
Works(w) == /\ Staffed' /\ Suits(w)'
            /\ job' = [u \in Workers |-> job'[u]]
            /\ begun' \in 0 .. MaxJobs
            /\ \A u \in Workers : u # w => at'[u] = at[u] /\ mind'[u] = mind[u] /\ job'[u] = job[u]

LEMMA GoWorks ==
  ASSUME BankInv, NEW w \in Workers, NEW place, NEW m, IsMind(m), Go(w, place, m), ComesTo(w, place, m)
  PROVE  Works(w)
<1>1. /\ at'[w] = place /\ mind'[w] = m /\ job'[w] = job[w] /\ Staffed' /\ job' = job /\ begun' = begun
      /\ \A u \in Workers : u # w => at'[u] = at[u] /\ mind'[u] = mind[u]
  BY DEF Go, BankInv, Staffed
<1>2. PICK n : n = m
  OBVIOUS
<1>3. mind'[w] = n /\ ComesTo(w, place, n)
  BY <1>1, <1>2
<1>4. Suits(w) /\ begun \in 0 .. MaxJobs /\ job = [u \in Workers |-> job[u]]
  BY DEF BankInv, RestTyped, WritersFindRows
<1> QED
  BY <1>1, <1>3, <1>4 DEF Suits, ComesTo, Works, Held, HeldAt, Serves

LEMMA EndWorks ==
  ASSUME BankInv, NEW w \in Workers, End(w), clock' \in Nat
  PROVE  Works(w)
<1>1. /\ at'[w] = "idle" /\ mind'[w] = EmptyMind /\ job'[w] = NoJob /\ begun' = begun
      /\ \A u \in Workers : u # w => at'[u] = at[u] /\ mind'[u] = mind[u] /\ job'[u] = job[u]
      /\ at' = [u \in Workers |-> at'[u]] /\ mind' = [u \in Workers |-> mind'[u]]
      /\ job' = [u \in Workers |-> job'[u]]
  BY DEF End, BankInv, Staffed, WritersFindRows
<1>2. IsMind(EmptyMind) /\ Held(EmptyMind) /\ EmptyMind.row = NoPack
  <2>1. <<>> \in Seq(Questions) /\ 0 \in 0 .. LastVersion
    BY BankAssumption
  <2> QED
    BY <2>1 DEF IsMind, EmptyMind, Held
<1>3. NoPack \in PackRows'
  BY DEF NoPack, PackRows
<1>4. Staffed'
  BY <1>1, <1>2 DEF Staffed, BankInv
<1>5. PICK n : n = EmptyMind
  OBVIOUS
<1>6. PICK none : none = NoJob
  OBVIOUS
<1>7. none.op = "none" /\ Held(n) /\ n.row \in PackRows'
  BY <1>2, <1>3, <1>5, <1>6 DEF NoJob
<1>8. Suits(w)'
  <2>1. at'[w] = "idle" /\ mind'[w] = n /\ job'[w] = none
    BY <1>1, <1>5, <1>6
  <2>2. none \in Jobs \cup {NoJob}
    BY <1>6
  <2>3. "idle" \in WorkPlaces /\ Serves("idle", none.op) /\ HeldAt("idle", none.op, n)
    BY <1>7 DEF WorkPlaces, Serves, HeldAt, Posts
  <2> QED
    BY <1>7, <2>1, <2>2, <2>3 DEF Suits, Held, HeldAt, Serves
<1>9. begun \in 0 .. MaxJobs
  BY DEF BankInv, RestTyped
<1> QED
  BY <1>1, <1>4, <1>8, <1>9 DEF Works

LEMMA ContinueWorks ==
  ASSUME BankInv, NEW w \in Workers, job[w].op \in Tools, NEW m, IsMind(m), Held(m), m.row \in PackRows',
         m.version \in Versions, Continue(w, m), clock' \in Nat
  PROVE  Works(w)
<1>1. CASE m.todo = <<>> /\ job[w].op = "seed"
  BY <1>1, EndWorks DEF Continue
<1>2. CASE ~ (m.todo = <<>> /\ job[w].op = "seed") /\ m.todo = <<>>
  <2>1. Go(w, "recount", m)
    BY <1>2 DEF Continue
  <2>2. ComesTo(w, "recount", m)
    BY DEF ComesTo, WorkPlaces, Serves, HeldAt
  <2> QED
    BY <2>1, <2>2, GoWorks
<1>3. CASE m.todo # <<>>
  <2>1. Go(w, "look", m)
    BY <1>3 DEF Continue
  <2>2. ComesTo(w, "look", m)
    BY <1>3 DEF ComesTo, WorkPlaces, Serves, HeldAt
  <2> QED
    BY <2>1, <2>2, GoWorks
<1> QED
  BY <1>1, <1>2, <1>3

(* A mind with other questions before it.                                  *)
LEMMA TodoHeld ==
  ASSUME NEW m, IsMind(m), Held(m), NEW list \in Seq(Questions)
  PROVE  /\ IsMind([m EXCEPT !.todo = list]) /\ Held([m EXCEPT !.todo = list])
         /\ [m EXCEPT !.todo = list].row = m.row /\ [m EXCEPT !.todo = list].version = m.version
<1> DEFINE n == [m EXCEPT !.todo = list]
<1>1. n = [version |-> m.version, row |-> m.row, todo |-> list, text |-> m.text, found |-> m.found]
  BY MindFields
<1> HIDE DEF n
<1>2. IsMind(n) /\ Held(n) /\ n.row = m.row /\ n.version = m.version
  BY <1>1 DEF IsMind, Held
<1> QED
  BY <1>2 DEF n

LEMMA BatchesHave ==
  /\ Samples \in Seq(Questions)
  /\ \A first, last \in Numbers : FlattenSeq(SubSeq(Templates, first, last)) \in Seq(Questions)
<1>1. Samples \in Seq(Questions) /\ Templates \in Seq(Seq(Questions))
  BY BankAssumption
<1> SUFFICES ASSUME NEW first \in Numbers, NEW last \in Numbers
             PROVE  FlattenSeq(SubSeq(Templates, first, last)) \in Seq(Questions)
  BY <1>1
<1>2. first \in 1 .. Len(Templates) /\ last \in 1 .. Len(Templates)
  BY <1>1 DEF Numbers
<1>3. SubSeq(Templates, first, last) \in Seq(Seq(Questions))
  BY <1>1, <1>2
<1> QED
  BY <1>3, FlattenType

LEMMA StartBatchWorks ==
  ASSUME BankInv, NEW w \in Workers, job[w].op \in Tools, NEW m, IsMind(m), Held(m), m.row \in PackRows',
         m.version \in Versions, StartBatch(w, m), clock' \in Nat
  PROVE  Works(w)
<1>1. \E list \in Seq(Questions) : Continue(w, [m EXCEPT !.todo = list])
  BY BatchesHave DEF StartBatch, Seed, Scrape
<1>2. PICK list \in Seq(Questions) : Continue(w, [m EXCEPT !.todo = list])
  BY <1>1
<1>3. PICK n : n = [m EXCEPT !.todo = list]
  OBVIOUS
<1>4. IsMind(n) /\ Held(n) /\ n.row = m.row /\ n.version = m.version
  BY <1>3, TodoHeld
<1> QED
  BY <1>2, <1>3, <1>4, ContinueWorks

(* Rows stay rows while the clock runs on.                                 *)
LEMMA RowsStayRows ==
  ASSUME clock \in Nat, clock' \in Nat, clock <= clock', NEW r \in PackRows
  PROVE  r \in PackRows'
BY DEF PackRows

(* Of a mind that holds a version.                                         *)
LEMMA VersionHeld ==
  ASSUME NEW m, IsMind(m), Held(m), NEW v \in Versions, NEW r
  PROVE  /\ IsMind(Holding(m, v, r)) /\ Held(Holding(m, v, r))
         /\ Holding(m, v, r).version = v /\ Holding(m, v, r).row = r
<1>1. PICK n : n = Holding(m, v, r)
  OBVIOUS
<1>2. n = [version |-> v, row |-> r, todo |-> m.todo, text |-> m.text, found |-> m.found]
  BY <1>1, MindRows
<1>3. v \in 0 .. LastVersion
  BY BankAssumption DEF Versions
<1> QED
  BY <1>1, <1>2, <1>3 DEF IsMind, Held

LEMMA TextHeld ==
  ASSUME NEW m, IsMind(m), Held(m), NEW x \in Wordings
  PROVE  /\ IsMind([m EXCEPT !.text = x]) /\ Held([m EXCEPT !.text = x])
         /\ [m EXCEPT !.text = x].row = m.row /\ [m EXCEPT !.text = x].text = x
         /\ [m EXCEPT !.text = x].version = m.version /\ [m EXCEPT !.text = x].todo = m.todo
<1>1. PICK n : n = [m EXCEPT !.text = x]
  OBVIOUS
<1>2. n = [version |-> m.version, row |-> m.row, todo |-> m.todo, text |-> x, found |-> m.found]
  BY <1>1, MindFields
<1> QED
  BY <1>1, <1>2 DEF IsMind, Held

LEMMA FoundHeld ==
  ASSUME NEW m, IsMind(m), Held(m), NEW x
  PROVE  /\ IsMind([m EXCEPT !.found = x]) /\ Held([m EXCEPT !.found = x])
         /\ [m EXCEPT !.found = x].row = m.row /\ [m EXCEPT !.found = x].found = x
         /\ [m EXCEPT !.found = x].version = m.version /\ [m EXCEPT !.found = x].todo = m.todo
<1>1. PICK n : n = [m EXCEPT !.found = x]
  OBVIOUS
<1>2. n = [version |-> m.version, row |-> m.row, todo |-> m.todo, text |-> m.text, found |-> x]
  BY <1>1, MindFields
<1> QED
  BY <1>1, <1>2 DEF IsMind, Held

(***************************************************************************)
(* Jobs.                                                                   *)
(***************************************************************************)

(* What is known of the worker that takes a step.                          *)
LEMMA AtWork ==
  ASSUME BankInv, NEW w \in Workers
  PROVE  /\ IsMind(mind[w]) /\ Held(mind[w]) /\ HeldAt(at[w], job[w].op, mind[w])
         /\ mind[w].row \in PackRows /\ Serves(at[w], job[w].op) /\ at[w] \in WorkPlaces
         /\ at[w] # "idle" => job[w] \in Jobs
         /\ clock \in Nat /\ packs \in [Versions -> PackRows] /\ lastRow \in Nat
         /\ questions \in [Questions -> QuestionRows]
<1>1. Suits(w) /\ RowsTyped /\ IsMind(mind[w]) /\ lastRow \in Nat
  BY DEF BankInv, Staffed, IdsAreGiven
<1>2. at[w] # "idle" => job[w] \in Jobs
  <2>1. PICK none : none = NoJob
    OBVIOUS
  <2>2. none.op = "none"
    BY <2>1 DEF NoJob
  <2>3. job[w] = none /\ at[w] # "idle" => FALSE
    BY <1>1, <2>2 DEF Suits, Serves, WorkPlaces, Tools
  <2> QED
    BY <1>1, <2>1, <2>3 DEF Suits
<1> QED
  BY <1>1, <1>2 DEF Suits, RowsTyped

LEMMA BeginWorks ==
  ASSUME BankInv, NEW w \in Workers, Begin(w)
  PROVE  Works(w)
<1>1. PICK j \in Jobs :
        /\ job' = [job EXCEPT ![w] = j]
        /\ at' = [at EXCEPT ![w] = CASE j.op = "draft"    -> "create"
                                     [] j.op = "tickets"  -> "duplicates"
                                     [] j.op = "classify" -> "texts"
                                     [] OTHER             -> "pack"]
  BY DEF Begin
<1>2. PICK place \in {"create", "duplicates", "texts", "pack"} :
        /\ at' = [at EXCEPT ![w] = place] /\ Serves(place, j.op)
  <2>1. CASE j.op = "draft"
    BY <1>1, <2>1 DEF Serves, Tools
  <2>2. CASE j.op = "tickets"
    BY <1>1, <2>2 DEF Serves, Tools
  <2>3. CASE j.op = "classify"
    BY <1>1, <2>3 DEF Serves, Tools
  <2>4. CASE j.op \notin {"draft", "tickets", "classify"}
    <3>1. at' = [at EXCEPT ![w] = "pack"]
      BY <1>1, <2>4
    <3>2. j.op \in {"add", "publish", "rollback", "scrape", "refetch", "seed"}
      BY <2>4, JobsHave
    <3>3. Serves("pack", j.op)
      BY <3>2 DEF Serves, Tools
    <3> QED
      BY <3>1, <3>3
  <2> QED
    BY <2>1, <2>2, <2>3, <2>4
<1>3. /\ mind' = mind /\ clock' = clock /\ begun' = begun + 1 /\ begun < MaxJobs
      /\ at' = [at EXCEPT ![w] = place] /\ job' = [job EXCEPT ![w] = j]
  BY <1>1, <1>2 DEF Begin, catalog
<1>4. begun' \in 0 .. MaxJobs
  BY <1>3, BankAssumption DEF BankInv, RestTyped
<1>5. Staffed' /\ at'[w] = place /\ job'[w] = j /\ job' = [u \in Workers |-> job'[u]]
      /\ \A u \in Workers : u # w => at'[u] = at[u] /\ mind'[u] = mind[u] /\ job'[u] = job[u]
  BY <1>3 DEF BankInv, Staffed, WritersFindRows
<1>6. Held(mind[w]) /\ mind[w].row \in PackRows
  BY AtWork
<1>7. PICK m : m = mind[w]
  OBVIOUS
<1>8. mind'[w] = m /\ Held(m) /\ m.row \in PackRows'
  BY <1>3, <1>6, <1>7 DEF PackRows
<1>9. HeldAt(place, j.op, m) /\ place \in WorkPlaces
  BY DEF HeldAt, Posts, WorkPlaces
<1>10. Suits(w)'
  BY <1>2, <1>5, <1>8, <1>9 DEF Suits, Held, HeldAt, Serves
<1> QED
  BY <1>4, <1>5, <1>10 DEF Works

LEMMA GetPackWorks ==
  ASSUME BankInv, NEW w \in Workers, GetPackByID(w)
  PROVE  Works(w) /\ UNCHANGED <<clock, packs, questions, lastRow, audit, tickets>>
<1>1. UNCHANGED <<clock, packs, questions, lastRow, audit, tickets>> /\ at[w] = "pack"
  BY DEF GetPackByID, catalog, table
<1> SUFFICES Works(w)
  BY <1>1
<1>2. /\ IsMind(mind[w]) /\ Held(mind[w]) /\ mind[w].row \in PackRows' /\ clock' \in Nat
      /\ job[w].op \in {"add", "publish", "rollback"} \cup Tools /\ job[w] \in Jobs
      /\ packs \in [Versions -> PackRows]
  BY <1>1, AtWork DEF Serves, PackRows
<1>3. CASE Latest > 0
  <2> DEFINE m == Holding(mind[w], Latest, packs[Latest])
  <2>1. Latest \in Versions /\ packs[Latest] \in PackRows'
    <3>1. Latest \in Versions
      BY <1>3, LatestIsThere
    <3> QED
      BY <1>1, <1>2, <3>1 DEF PackRows
  <2>2. IsMind(m) /\ Held(m) /\ m.version \in Versions /\ m.row \in PackRows'
    BY <1>2, <2>1, VersionHeld
  <2>3. \/ CASE Adds(w)               -> Go(w, "row", [m EXCEPT !.text = job[w].wording])
             [] job[w].op = "publish"  -> Go(w, "write", m)
             [] job[w].op = "rollback" -> Go(w, "log", m)
             [] OTHER                  -> StartBatch(w, m)
        \/ IF IsTool(w) THEN Go(w, "create", mind[w]) ELSE End(w)
    BY <1>3 DEF GetPackByID
  <2> HIDE DEF m
  <2>4. CASE IsTool(w) /\ Go(w, "create", mind[w])
    BY <1>2, <2>4, GoWorks DEF ComesTo, WorkPlaces, Serves, HeldAt, IsTool, Posts
  <2>5. CASE End(w)
    BY <1>2, <2>5, EndWorks
  <2>6. CASE Adds(w) /\ Go(w, "row", [m EXCEPT !.text = job[w].wording])
    <3>1. job[w].wording \in Wordings /\ job[w].op = "add"
      BY <1>2, <2>6, JobsHave DEF Adds
    <3>2. PICK n : n = [m EXCEPT !.text = job[w].wording]
      OBVIOUS
    <3>3. IsMind(n) /\ Held(n) /\ n.version \in Versions /\ n.row \in PackRows' /\ n.text \in Wordings
      BY <2>2, <3>1, <3>2, TextHeld
    <3>4. ComesTo(w, "row", n)
      BY <3>1, <3>3 DEF ComesTo, WorkPlaces, Serves, HeldAt, Posts
    <3> QED
      BY <2>6, <3>2, <3>3, <3>4, GoWorks
  <2>7. CASE ~ Adds(w) /\ job[w].op = "publish" /\ Go(w, "write", m)
    <3>1. ComesTo(w, "write", m)
      BY <2>2, <2>7 DEF ComesTo, WorkPlaces, Serves, HeldAt, Posts, Tools
    <3> QED
      BY <2>2, <2>7, <3>1, GoWorks
  <2>8. CASE ~ Adds(w) /\ job[w].op = "rollback" /\ Go(w, "log", m)
    <3>1. ComesTo(w, "log", m)
      BY <2>2, <2>8 DEF ComesTo, WorkPlaces, Serves, HeldAt, Posts, Tools
    <3> QED
      BY <2>2, <2>8, <3>1, GoWorks
  <2>9. CASE ~ Adds(w) /\ job[w].op \notin {"publish", "rollback"} /\ StartBatch(w, m)
    <3>1. job[w].op \in Tools
      BY <1>2, <2>9 DEF Adds
    <3> QED
      BY <1>2, <2>2, <2>9, <3>1, StartBatchWorks
  <2>10. CASE Adds(w) \/ job[w].op \in {"publish", "rollback"}
    <3>1. Adds(w) => job[w].op \notin {"publish", "rollback"}
      BY DEF Adds
    <3> QED
      BY <1>1, <2>3, <2>4, <2>5, <2>6, <2>7, <2>8, <2>10, <3>1
  <2> QED
    BY <1>1, <2>3, <2>4, <2>5, <2>9, <2>10
<1>4. CASE ~ (Latest > 0)
  <2>1. IF IsTool(w) THEN Go(w, "create", mind[w]) ELSE End(w)
    BY <1>4 DEF GetPackByID
  <2>2. CASE IsTool(w)
    BY <1>1, <1>2, <2>1, <2>2, GoWorks DEF ComesTo, WorkPlaces, Serves, HeldAt, IsTool, Posts
  <2>3. CASE ~ IsTool(w)
    BY <1>1, <1>2, <2>1, <2>3, EndWorks
  <2> QED
    BY <2>2, <2>3
<1> QED
  BY <1>3, <1>4

PacksTyped     == clock' \in Nat /\ clock <= clock' /\ packs' \in [Versions -> PackRows']
QuestionsTyped == questions' \in [Questions -> QuestionRows']

LEMMA CreatePackWorks ==
  ASSUME BankInv, NEW w \in Workers, CreatePack(w)
  PROVE  Works(w) /\ PacksTyped
<1>1. /\ IsMind(mind[w]) /\ Held(mind[w]) /\ mind[w].row \in PackRows /\ clock \in Nat
      /\ job[w].op \in {"draft"} \cup Tools /\ job[w] \in Jobs
      /\ packs \in [Versions -> PackRows] /\ at[w] = "create"
  BY AtWork DEF Serves, CreatePack
<1> DEFINE v   == IF IsTool(w) THEN 1 ELSE job[w].version
           row == IF IsTool(w) THEN ToolPack(w) ELSE [NoPack EXCEPT !.status = "draft"]
           m   == Holding(mind[w], v, row)
<1>2. v \in Versions
  <2>1. CASE IsTool(w)
    BY <2>1, BankAssumption DEF Versions
  <2>2. CASE ~ IsTool(w)
    BY <1>1, <2>2, JobsHave DEF IsTool
  <2> QED
    BY <2>1, <2>2
<1>3. CASE /\ packs' = [packs EXCEPT ![v] = row]
           /\ clock' = IF IsTool(w) THEN clock + 1 ELSE clock
           /\ IF IsTool(w) THEN StartBatch(w, m) ELSE Go(w, "log", m)
  <2>1. clock' \in Nat /\ clock <= clock'
    BY <1>1, <1>3
  <2>2. row \in PackRows'
    <3>1. CASE IsTool(w)
      <4>1. PICK n \in Nat : n = IF job[w].op = "seed" THEN 7 ELSE 0
        OBVIOUS
      <4>2. row = [status |-> "published", count |-> n, since |-> clock + 1] /\ clock' = clock + 1
        BY <1>3, <3>1, <4>1 DEF ToolPack
      <4> QED
        BY <1>1, <4>2 DEF PackRows
    <3>2. CASE ~ IsTool(w)
      <4>1. row = [status |-> "draft", count |-> 0, since |-> 0]
        BY <3>2 DEF NoPack
      <4> QED
        BY <2>1, <4>1 DEF PackRows
    <3> QED
      BY <3>1, <3>2
  <2>3. \A r \in PackRows : r \in PackRows'
    BY <1>1, <2>1, RowsStayRows
  <2> HIDE DEF row, v
  <2>4. packs' \in [Versions -> PackRows']
    BY <1>1, <1>3, <2>2, <2>3
  <2>5. IsMind(m) /\ Held(m) /\ m.version \in Versions /\ m.row \in PackRows'
    BY <1>1, <1>2, <2>2, VersionHeld
  <2> HIDE DEF m
  <2>6. CASE IsTool(w) /\ StartBatch(w, m)
    <3>1. Works(w)
      BY <2>1, <2>5, <2>6, StartBatchWorks DEF IsTool
    <3> QED
      BY <2>1, <2>4, <3>1 DEF PacksTyped
  <2>7. CASE ~ IsTool(w) /\ Go(w, "log", m)
    <3>1. ComesTo(w, "log", m)
      BY <1>1, <2>5, <2>7 DEF ComesTo, WorkPlaces, Serves, HeldAt, Posts, Tools, IsTool
    <3>2. Works(w)
      BY <2>5, <2>7, <3>1, GoWorks
    <3> QED
      BY <2>1, <2>4, <3>2 DEF PacksTyped
  <2> QED
    BY <1>3, <2>6, <2>7
<1>4. CASE End(w) /\ UNCHANGED <<packs, clock>>
  <2>1. Works(w)
    BY <1>1, <1>4, EndWorks
  <2>2. packs' \in [Versions -> PackRows']
    BY <1>1, <1>4 DEF PackRows
  <2> QED
    BY <1>1, <1>4, <2>1, <2>2 DEF PacksTyped
<1> QED
  BY <1>3, <1>4, Zenon DEF CreatePack

LEMMA UpdatePackWorks ==
  ASSUME BankInv, NEW w \in Workers, UpdatePack(w)
  PROVE  Works(w) /\ PacksTyped
<1>1. /\ IsMind(mind[w]) /\ Held(mind[w]) /\ mind[w].row \in PackRows /\ clock \in Nat
      /\ job[w].op \in {"add", "publish"} \cup Tools /\ job[w] \in Jobs
      /\ packs \in [Versions -> PackRows] /\ at[w] = "write" /\ mind[w].version \in Versions
      /\ job[w].op \in Tools => mind[w].found[1] \in Nat
  BY AtWork DEF Serves, UpdatePack, HeldAt, Posts
<1>2. clock' \in Nat /\ clock <= clock' /\ (job[w].op = "publish" => clock' = clock \/ clock' = clock + 1)
  BY <1>1 DEF UpdatePack
<1>3. \A r \in PackRows : r \in PackRows'
  BY <1>1, <1>2, RowsStayRows
<1>4. Works(w)
  <2>1. CASE End(w)
    BY <1>2, <2>1, EndWorks
  <2>2. CASE ~ IsTool(w) /\ Go(w, "log", mind[w])
    <3>1. ComesTo(w, "log", mind[w])
      BY <1>1, <1>3, <2>2 DEF ComesTo, WorkPlaces, Serves, HeldAt, Posts, Tools, IsTool
    <3> QED
      BY <1>1, <2>2, <3>1, GoWorks
  <2>3. Adds(w) => ~ IsTool(w)
    BY DEF Adds, IsTool, Tools
  <2> QED
    BY <2>1, <2>2, <2>3 DEF UpdatePack
<1>5. packs' \in [Versions -> PackRows']
  <2>1. CASE packs' = packs
    BY <1>1, <1>3, <2>1
  <2>2. CASE /\ packs' = [packs EXCEPT ![mind[w].version] = NewRow(w)]
             /\ clock' = IF job[w].op = "publish" THEN clock + 1 ELSE clock
    <3>1. NewRow(w) \in PackRows'
      <4>1. PICK r \in PackRows : r = mind[w].row
        BY <1>1
      <4>2. r = [status |-> r.status, count |-> r.count, since |-> r.since] /\ r.count \in Nat
            /\ r.status \in {"none", "draft", "published"} /\ r.since \in 0 .. clock
        BY DEF PackRows
      <4>3. CASE Adds(w)
        <5>1. NewRow(w) = [r EXCEPT !.count = @ + 1]
          BY <4>1, <4>3, Zenon DEF NewRow, Adds
        <5>2. NewRow(w) = [status |-> r.status, count |-> r.count + 1, since |-> r.since]
          BY <4>2, <5>1
        <5> QED
          BY <1>1, <1>2, <4>2, <5>2 DEF PackRows
      <4>4. CASE ~ Adds(w) /\ job[w].op = "publish"
        <5>1. NewRow(w) = [r EXCEPT !.status = "published", !.since = clock + 1]
          BY <4>1, <4>4, Zenon DEF NewRow
        <5>2. PICK p : p = [r EXCEPT !.status = "published"]
          OBVIOUS
        <5>3. NewRow(w) = [p EXCEPT !.since = clock + 1]
          BY <5>1, <5>2, Zenon
        <5>4. p = [status |-> "published", count |-> r.count, since |-> r.since]
          BY <4>2, <5>2
        <5>5. NewRow(w) = [status |-> "published", count |-> r.count, since |-> clock + 1]
          BY <5>3, <5>4
        <5> QED
          BY <1>1, <2>2, <4>2, <4>4, <5>5 DEF PackRows
      <4>5. CASE ~ Adds(w) /\ job[w].op # "publish"
        <5>1. NewRow(w) = [r EXCEPT !.count = mind[w].found[1]] /\ mind[w].found[1] \in Nat
          BY <1>1, <4>1, <4>5, Zenon DEF NewRow, Adds
        <5>2. NewRow(w) = [status |-> r.status, count |-> mind[w].found[1], since |-> r.since]
          BY <4>2, <5>1
        <5> QED
          BY <1>1, <1>2, <4>2, <5>1, <5>2 DEF PackRows
      <4> QED
        BY <4>3, <4>4, <4>5
    <3>2. packs \in [Versions -> PackRows']
      BY <1>1, <1>3
    <3> QED
      BY <1>1, <2>2, <3>1, <3>2
  <2> QED
    BY <2>1, <2>2 DEF UpdatePack
<1> QED
  BY <1>2, <1>4, <1>5 DEF PacksTyped

LEMMA LogActionWorks ==
  ASSUME BankInv, NEW w \in Workers, LogAction(w)
  PROVE  /\ Works(w) /\ UNCHANGED <<packs, clock, table, tickets>>
         /\ audit' \subseteq [op: {"draft", "add", "publish", "rollback"}, version: Versions]
<1>1. UNCHANGED <<packs, clock, table, tickets>> /\ End(w) /\ at[w] = "log"
  BY DEF LogAction
<1>2. clock \in Nat /\ mind[w].version \in Versions /\ job[w].op \in {"draft", "add", "publish", "rollback"}
  BY <1>1, AtWork DEF Serves, HeldAt
<1>3. Works(w)
  BY <1>1, <1>2, EndWorks
<1>4. audit \subseteq [op: {"draft", "add", "publish", "rollback"}, version: Versions]
  BY DEF BankInv, RestTyped
<1>5. audit' \subseteq [op: {"draft", "add", "publish", "rollback"}, version: Versions]
  BY <1>2, <1>4 DEF LogAction
<1> QED
  BY <1>1, <1>3, <1>5

(* A tool that goes on to the questions left, at a place where it has one. *)
LEMMA TailWorks ==
  ASSUME BankInv, NEW w \in Workers, at[w] \in {"look", "row", "text"}, job[w].op # "add", clock' = clock,
         Continue(w, [mind[w] EXCEPT !.todo = Tail(@)])
  PROVE  Works(w)
<1>1. /\ IsMind(mind[w]) /\ Held(mind[w]) /\ mind[w].row \in PackRows /\ clock \in Nat
      /\ mind[w].version \in Versions /\ mind[w].todo # <<>> /\ job[w].op \in Tools
  BY AtWork DEF Serves, HeldAt, Posts
<1>2. PICK m : m = mind[w]
  OBVIOUS
<1>3. PICK list : list = m.todo
  OBVIOUS
<1>4. Tail(list) \in Seq(Questions)
  BY <1>1, <1>2, <1>3 DEF Held
<1>5. PICK rest \in Seq(Questions) : rest = Tail(list)
  BY <1>4
<1>6. PICK n : n = [m EXCEPT !.todo = rest]
  OBVIOUS
<1>7. [mind[w] EXCEPT !.todo = Tail(@)] = n
  BY <1>2, <1>3, <1>5, <1>6
<1>8. Continue(w, n)
  BY <1>7, Zenon
<1>9. IsMind(n) /\ Held(n) /\ n.row \in PackRows' /\ n.version \in Versions
  BY <1>1, <1>2, <1>6, TodoHeld DEF PackRows
<1> QED
  BY <1>1, <1>8, <1>9, ContinueWorks

LEMMA AbandonWorks ==
  ASSUME BankInv, NEW w \in Workers, at[w] \in {"row", "text"}, clock' = clock, Abandon(w)
  PROVE  Works(w)
<1>1. clock \in Nat
  BY AtWork
<1> QED
  BY <1>1, EndWorks, TailWorks DEF Abandon, Adds

(* The question it writes is one.                                          *)
LEMMA WritesQuestion ==
  ASSUME BankInv, NEW w \in Workers, at[w] \in {"row", "text"}
  PROVE  /\ QuestionOf(w) \in Questions /\ mind[w].text \in Wordings
         /\ Adds(w) => job[w].topic \in Topics
<1>1. /\ Held(mind[w]) /\ mind[w].text \in Wordings /\ job[w] \in Jobs
      /\ job[w].op # "add" => mind[w].todo # <<>>
  BY AtWork DEF Serves, HeldAt
<1>2. CASE Adds(w)
  BY <1>1, <1>2, JobsHave DEF QuestionOf, Adds
<1>3. CASE ~ Adds(w)
  <2>1. mind[w].todo \in Seq(Questions) /\ mind[w].todo # <<>>
    BY <1>1, <1>3 DEF Held, Adds
  <2>2. PICK list \in Seq(Questions) : list = mind[w].todo
    BY <2>1
  <2>3. Head(list) \in Questions
    BY <2>1, <2>2
  <2> QED
    BY <1>1, <1>3, <2>2, <2>3 DEF QuestionOf
<1> QED
  BY <1>1, <1>2, <1>3

LEMMA LookWorks ==
  ASSUME BankInv, NEW w \in Workers, LookAtQuestion(w)
  PROVE  Works(w) /\ UNCHANGED <<packs, clock, table, tickets, audit>>
<1>1. UNCHANGED <<packs, clock, table, tickets, audit>> /\ at[w] = "look"
  BY DEF LookAtQuestion, catalog
<1>2. /\ IsMind(mind[w]) /\ Held(mind[w]) /\ mind[w].row \in PackRows /\ clock \in Nat
      /\ mind[w].version \in Versions /\ mind[w].todo # <<>> /\ job[w].op \in Tools
  BY <1>1, AtWork DEF Serves, HeldAt, Posts
<1>3. CASE Continue(w, [mind[w] EXCEPT !.todo = Tail(@)])
  <2>1. job[w].op # "add"
    BY <1>2 DEF Tools
  <2> QED
    BY <1>1, <1>3, <2>1, TailWorks
<1>4. CASE Go(w, "row", [mind[w] EXCEPT !.text = prepdrive[Head(mind[w].todo)]])
  <2>1. PICK list \in Seq(Questions) : list = mind[w].todo
    BY <1>2 DEF Held
  <2>2. Head(list) \in Questions /\ prepdrive \in [Questions -> Wordings]
    BY <1>2, <2>1 DEF BankInv, RestTyped
  <2>3. PICK x \in Wordings : x = prepdrive[Head(mind[w].todo)]
    BY <2>1, <2>2
  <2>4. PICK n : n = [mind[w] EXCEPT !.text = x]
    OBVIOUS
  <2>5. /\ IsMind(n) /\ Held(n) /\ n.row \in PackRows' /\ n.version \in Versions /\ n.text \in Wordings
        /\ n.todo # <<>>
    BY <1>1, <1>2, <2>4, TextHeld DEF PackRows
  <2>6. ComesTo(w, "row", n)
    BY <1>2, <2>5 DEF ComesTo, WorkPlaces, Serves, HeldAt, Posts
  <2>7. Works(w)
    BY <1>4, <2>3, <2>4, <2>5, <2>6, GoWorks
  <2> QED
    BY <1>1, <2>7
<1> QED
  BY <1>1, <1>3, <1>4, Zenon DEF LookAtQuestion

LEMMA CountWorks ==
  ASSUME BankInv, NEW w \in Workers, CountQuestions(w)
  PROVE  Works(w) /\ UNCHANGED <<packs, clock, table, tickets, audit>>
<1>1. UNCHANGED <<packs, clock, table, tickets, audit>> /\ at[w] = "recount"
  BY DEF CountQuestions, catalog
<1> SUFFICES Works(w)
  BY <1>1
<1>2. /\ IsMind(mind[w]) /\ Held(mind[w]) /\ mind[w].row \in PackRows /\ clock \in Nat
      /\ mind[w].version \in Versions /\ job[w].op \in Tools
  BY <1>1, AtWork DEF Serves, HeldAt, Posts
<1>3. CASE End(w)
  BY <1>1, <1>2, <1>3, EndWorks
<1>4. CASE Go(w, "write", [mind[w] EXCEPT !.found = <<Cardinality(Published)>>])
  <2>1. Cardinality(Published) \in Nat
    <3>1. IsFiniteSet(Questions) /\ Published \subseteq Questions
      BY FS_Interval, BankAssumption DEF Questions, Published
    <3> QED
      BY <3>1, FS_Subset, FS_CardinalityType
  <2>2. PICK c \in Nat : c = Cardinality(Published)
    BY <2>1
  <2>3. PICK x : x = <<c>>
    OBVIOUS
  <2>4. PICK n : n = [mind[w] EXCEPT !.found = x]
    OBVIOUS
  <2>5. /\ IsMind(n) /\ Held(n) /\ n.row \in PackRows' /\ n.version \in Versions /\ n.found = x
    BY <1>1, <1>2, <2>4, FoundHeld DEF PackRows
  <2>6. x[1] \in Nat
    BY <2>3
  <2>7. ComesTo(w, "write", n)
    BY <1>2, <2>5, <2>6 DEF ComesTo, WorkPlaces, Serves, HeldAt, Posts
  <2> QED
    BY <1>4, <2>2, <2>3, <2>4, <2>5, <2>7, GoWorks
<1> QED
  BY <1>3, <1>4, Zenon DEF CountQuestions

LEMMA UpsertQuestionWorks ==
  ASSUME BankInv, NEW w \in Workers, UpsertQuestion(w)
  PROVE  Works(w) /\ UNCHANGED <<packs, clock, tickets, audit>> /\ QuestionsTyped
<1>1. UNCHANGED <<packs, clock, tickets, audit>> /\ at[w] = "row"
  BY DEF UpsertQuestion, catalog
<1>2. /\ IsMind(mind[w]) /\ Held(mind[w]) /\ mind[w].row \in PackRows' /\ clock \in Nat
      /\ mind[w].version \in Versions /\ job[w].op \in {"add"} \cup Tools /\ lastRow \in Nat
      /\ questions \in [Questions -> QuestionRows] /\ mind[w].text \in Wordings
      /\ job[w].op # "add" => mind[w].todo # <<>>
  BY <1>1, AtWork DEF Serves, HeldAt, Posts, PackRows
<1>3. PICK q \in Questions : q = QuestionOf(w)
  BY <1>1, WritesQuestion
<1> DEFINE t == IF Adds(w) THEN job[w].topic ELSE DetectCategory[mind[w].text]
           s == IF Adds(w) THEN "draft" ELSE "published"
<1>4. CASE /\ questions' = [questions EXCEPT ![q] =
                              [id |-> RowId(q), topic |-> t, status |-> s, wording |-> @.wording]]
           /\ lastRow' = IF Exists(q) THEN lastRow ELSE lastRow + 1
           /\ Go(w, "text", mind[w])
  <2>1. t \in Topics
    <3>1. CASE Adds(w)
      BY <1>1, <3>1, WritesQuestion
    <3>2. CASE ~ Adds(w)
      BY <1>2, <3>2, BankAssumption
    <3> QED
      BY <3>1, <3>2
  <2>2. s \in {"none", "draft", "published", "duplicate"}
    OBVIOUS
  <2>3. lastRow' \in Nat /\ lastRow <= lastRow' /\ RowId(q) \in 0 .. lastRow'
    <3>1. questions[q].id \in 0 .. lastRow
      BY <1>2 DEF QuestionRows
    <3> QED
      BY <1>2, <1>4, <3>1 DEF RowId
  <2>4. questions[q].wording \in Wordings \cup {NoText}
    BY <1>2 DEF QuestionRows
  <2> HIDE DEF t, s
  <2>5. [id |-> RowId(q), topic |-> t, status |-> s, wording |-> questions[q].wording] \in QuestionRows'
    BY <2>1, <2>2, <2>3, <2>4 DEF QuestionRows
  <2>6. \A r \in QuestionRows : r \in QuestionRows'
    BY <1>2, <2>3 DEF QuestionRows
  <2>7. questions' \in [Questions -> QuestionRows']
    BY <1>2, <1>4, <2>5, <2>6
  <2>8. ComesTo(w, "text", mind[w])
    BY <1>2 DEF ComesTo, WorkPlaces, Serves, HeldAt, Posts
  <2>9. Works(w)
    BY <1>2, <1>4, <2>8, GoWorks
  <2> QED
    BY <1>1, <2>7, <2>9 DEF QuestionsTyped
<1>5. CASE Abandon(w) /\ UNCHANGED table
  <2>1. Works(w)
    BY <1>1, <1>5, AbandonWorks
  <2>2. questions' \in [Questions -> QuestionRows']
    BY <1>2, <1>5 DEF table, QuestionRows
  <2> QED
    BY <1>1, <2>1, <2>2 DEF QuestionsTyped
<1> QED
  BY <1>3, <1>4, <1>5, Zenon DEF UpsertQuestion

LEMMA UpsertTranslationsWorks ==
  ASSUME BankInv, NEW w \in Workers, UpsertTranslations(w)
  PROVE  Works(w) /\ UNCHANGED <<packs, clock, tickets, audit>> /\ QuestionsTyped
<1>1. UNCHANGED <<packs, clock, tickets, audit, lastRow>> /\ at[w] = "text"
  BY DEF UpsertTranslations, catalog
<1>2. /\ IsMind(mind[w]) /\ Held(mind[w]) /\ mind[w].row \in PackRows' /\ clock \in Nat
      /\ mind[w].version \in Versions /\ job[w].op \in {"add"} \cup Tools
      /\ questions \in [Questions -> QuestionRows] /\ mind[w].text \in Wordings
  BY <1>1, AtWork DEF Serves, HeldAt, Posts, PackRows
<1>3. QuestionRows' = QuestionRows
  BY <1>1 DEF QuestionRows
<1>4. PICK q \in Questions : q = QuestionOf(w)
  BY <1>1, WritesQuestion
<1>5. questions' \in [Questions -> QuestionRows]
  <2>1. PICK x \in Wordings : x = mind[w].text
    BY <1>2
  <2>2. CASE questions' = [questions EXCEPT ![q].wording = x]
    <3>1. questions' = [questions EXCEPT ![q] =
              [id |-> @.id, topic |-> @.topic, status |-> @.status, wording |-> x]]
      <4>1. Filed
        BY DEF BankInv, IdsAreGiven
      <4> QED
        BY <2>2, <4>1, FieldsAreWritten, Zenon
    <3> QED
      BY <1>2, <3>1 DEF QuestionRows
  <2>3. CASE questions' = questions
    BY <1>2, <2>3
  <2> QED
    BY <1>4, <2>1, <2>2, <2>3 DEF UpsertTranslations
<1>6. Works(w)
  <2>1. CASE Adds(w) /\ Go(w, "write", mind[w])
    <3>1. ComesTo(w, "write", mind[w])
      BY <1>2, <2>1 DEF ComesTo, WorkPlaces, Serves, HeldAt, Posts, Adds, Tools
    <3> QED
      BY <1>2, <2>1, <3>1, GoWorks
  <2>2. CASE ~ Adds(w) /\ Continue(w, [mind[w] EXCEPT !.todo = Tail(@)])
    BY <1>1, <2>2, TailWorks DEF Adds
  <2>3. CASE Abandon(w)
    BY <1>1, <2>3, AbandonWorks
  <2> QED
    BY <2>1, <2>2, <2>3, Zenon DEF UpsertTranslations
<1> QED
  BY <1>1, <1>3, <1>5, <1>6 DEF QuestionsTyped

(* Candidates are there.                                                   *)
LEMMA CandidatesExist ==
  ASSUME IdsAreGiven, NEW q \in Candidates
  PROVE  q \in Questions /\ Exists(q) /\ questions[q].id \in Nat
<1>1. q \in Questions /\ questions[q].status # "none"
  BY DEF Candidates
<1>2. NoQuestion.status = "none"
  BY DEF NoQuestion
<1>3. Exists(q)
  BY <1>1, <1>2 DEF Exists
<1> QED
  BY <1>1, <1>3 DEF IdsAreGiven

(* Of the candidates of a wording the one kept is there, and the oldest.   *)
LEMMA OldestIsKept ==
  ASSUME IdsAreGiven, NEW q \in Candidates
  PROVE  /\ Kept(q) \in Candidates /\ questions[Kept(q)].wording = questions[q].wording
         /\ \A o \in Candidates : questions[o].wording = questions[q].wording
                                    => questions[Kept(q)].id <= questions[o].id
<1> DEFINE Is(p) == /\ questions[p].wording = questions[q].wording
                    /\ \A o \in Candidates : questions[o].wording = questions[q].wording
                                               => questions[p].id <= questions[o].id
           S == {o \in Candidates : questions[o].wording = questions[q].wording}
           T == {questions[o].id : o \in S}
<1>1. T \in SUBSET Nat /\ T # {}
  BY CandidatesExist
<1>2. PICK m \in T : \A n \in T : m <= n
  <2> HIDE DEF T
  <2> QED
    BY <1>1, Least
<1>3. PICK p \in S : questions[p].id = m
  BY <1>2
<1>4. p \in Candidates /\ Is(p)
  BY <1>2, <1>3
<1>5. Kept(q) = CHOOSE r \in Candidates : Is(r)
  BY Zenon DEF Kept, Same
<1>6. Kept(q) \in Candidates /\ Is(Kept(q))
  <2> HIDE DEF Is
  <2> QED
    BY <1>4, <1>5
<1> QED
  BY <1>6

LEMMA FindDuplicatesWorks ==
  ASSUME BankInv, NEW w \in Workers, FindDuplicates(w)
  PROVE  Works(w) /\ UNCHANGED <<packs, clock, table, tickets, audit>>
<1>1. UNCHANGED <<packs, clock, table, tickets, audit>> /\ at[w] = "duplicates"
  BY DEF FindDuplicates, catalog
<1> SUFFICES Works(w)
  BY <1>1
<1>2. /\ IsMind(mind[w]) /\ Held(mind[w]) /\ mind[w].row \in PackRows' /\ clock \in Nat
      /\ job[w].op = "tickets" /\ IdsAreGiven
  BY <1>1, AtWork DEF Serves, PackRows, BankInv
<1>3. PICK found : found = [q \in Duplicates |-> Kept(q)]
  OBVIOUS
<1>4. DOMAIN found \subseteq Questions /\ \A q \in DOMAIN found : found[q] \in Questions
  <2>1. \A q \in Duplicates : q \in Questions /\ Kept(q) \in Questions
    BY <1>2, OldestIsKept, CandidatesExist DEF Duplicates
  <2> QED
    BY <1>3, <2>1
<1>5. PICK list \in Seq(Questions) : list = SetToSeq(Duplicates)
  BY <1>2, FoundCovers DEF IdsAreGiven
<1>6. CASE End(w)
  BY <1>1, <1>2, <1>6, EndWorks
<1>7. CASE Go(w, "mark", [mind[w] EXCEPT !.found = [q \in Duplicates |-> Kept(q)],
                                         !.todo  = SetToSeq(Duplicates)])
  <2>1. PICK k : k = [mind[w] EXCEPT !.found = found]
    OBVIOUS
  <2>2. PICK n : n = [k EXCEPT !.todo = list]
    OBVIOUS
  <2>3. Go(w, "mark", n)
    BY <1>3, <1>5, <1>7, <2>1, <2>2, Zenon
  <2>4. IsMind(k) /\ Held(k) /\ k.row \in PackRows' /\ k.found = found
    BY <1>2, <2>1, FoundHeld
  <2>5. n = [version |-> k.version, row |-> k.row, todo |-> list, text |-> k.text, found |-> k.found]
    BY <2>2, <2>4, MindFields
  <2>6. IsMind(n) /\ Held(n) /\ n.row \in PackRows' /\ n.found = found
    BY <2>4, <2>5 DEF IsMind, Held
  <2>7. ComesTo(w, "mark", n)
    BY <1>2, <1>4, <2>6 DEF ComesTo, WorkPlaces, Serves, HeldAt, Posts
  <2> QED
    BY <2>3, <2>6, <2>7, GoWorks
<1> QED
  BY <1>6, <1>7, Zenon DEF FindDuplicates

LEMMA MarkDuplicateWorks ==
  ASSUME BankInv, NEW w \in Workers, MarkDuplicate(w)
  PROVE  Works(w) /\ UNCHANGED <<packs, clock, tickets, audit>> /\ QuestionsTyped
<1>1. UNCHANGED <<packs, clock, tickets, audit, lastRow>> /\ at[w] = "mark"
  BY DEF MarkDuplicate, catalog
<1>2. /\ IsMind(mind[w]) /\ Held(mind[w]) /\ mind[w].row \in PackRows' /\ clock \in Nat
      /\ job[w].op = "tickets" /\ questions \in [Questions -> QuestionRows] /\ Filed
      /\ DOMAIN mind[w].found \subseteq Questions
      /\ \A q \in DOMAIN mind[w].found : mind[w].found[q] \in Questions
  BY <1>1, AtWork DEF Serves, HeldAt, PackRows, BankInv, IdsAreGiven
<1>3. QuestionRows' = QuestionRows
  BY <1>1 DEF QuestionRows
<1>4. CASE End(w) /\ UNCHANGED questions
  <2>1. Works(w)
    BY <1>1, <1>2, <1>4, EndWorks
  <2> QED
    BY <1>1, <1>2, <1>3, <1>4, <2>1 DEF QuestionsTyped
<1>5. CASE \E i \in DOMAIN mind[w].todo :
             /\ questions' = [questions EXCEPT ![mind[w].todo[i]].status = "duplicate"]
             /\ Go(w, "mark", [mind[w] EXCEPT !.todo = RemoveAt(@, i)])
  <2>1. PICK list \in Seq(Questions) : list = mind[w].todo
    BY <1>2 DEF Held
  <2>2. PICK i \in DOMAIN list :
             /\ questions' = [questions EXCEPT ![list[i]].status = "duplicate"]
             /\ Go(w, "mark", [mind[w] EXCEPT !.todo = RemoveAt(@, i)])
    BY <1>5, <2>1
  <2>3. questions' = [questions EXCEPT ![list[i]] =
          [id |-> @.id, topic |-> @.topic, status |-> "duplicate", wording |-> @.wording]]
    BY <1>2, <2>2, FieldsAreWritten, Zenon
  <2>4. questions' \in [Questions -> QuestionRows]
    BY <1>2, <2>3 DEF QuestionRows
  <2>5. PICK rest \in Seq(Questions) : rest = RemoveAt(list, i)
    BY RemovedAlone
  <2>6. PICK n : n = [mind[w] EXCEPT !.todo = rest]
    OBVIOUS
  <2>7. [mind[w] EXCEPT !.todo = RemoveAt(@, i)] = n
    BY <2>1, <2>5, <2>6
  <2>8. Go(w, "mark", n)
    BY <2>2, <2>7, Zenon
  <2>9. IsMind(n) /\ Held(n) /\ n.row \in PackRows'
    BY <1>2, <2>6, TodoHeld
  <2>10. n.found = mind[w].found
    <3>1. n = [version |-> mind[w].version, row |-> mind[w].row, todo |-> rest, text |-> mind[w].text,
               found |-> mind[w].found]
      BY <1>2, <2>6, MindFields
    <3> QED
      BY <3>1
  <2>11. ComesTo(w, "mark", n)
    BY <1>2, <2>9, <2>10 DEF ComesTo, WorkPlaces, Serves, HeldAt, Posts
  <2>12. Works(w)
    BY <2>8, <2>9, <2>11, GoWorks
  <2> QED
    BY <1>1, <1>3, <2>4, <2>12 DEF QuestionsTyped
<1> QED
  BY <1>4, <1>5, Zenon DEF MarkDuplicate

LEMMA ReplaceTicketsWorks ==
  ASSUME BankInv, NEW w \in Workers, ReplaceTickets(w)
  PROVE  /\ Works(w) /\ UNCHANGED <<packs, clock, table, audit>>
         /\ tickets' \in [Numbers -> Seq(Questions)]
<1>1. UNCHANGED <<packs, clock, table, audit>> /\ End(w) /\ at[w] = "mark"
  BY DEF ReplaceTickets, catalog
<1>2. /\ clock \in Nat /\ DOMAIN mind[w].found \subseteq Questions
      /\ \A q \in DOMAIN mind[w].found : mind[w].found[q] \in Questions
  BY <1>1, AtWork DEF HeldAt
<1>3. Works(w)
  BY <1>1, <1>2, EndWorks
<1>4. CASE UNCHANGED tickets
  BY <1>1, <1>3, <1>4 DEF BankInv, RestTyped
<1>5. CASE tickets' = [n \in Numbers |->
             Only([i \in DOMAIN Templates[n] |-> PointsAt(w, Templates[n][i])], {q \in Questions : Exists(q)})]
  <2>1. ASSUME NEW n \in Numbers, NEW S
        PROVE  Only([i \in DOMAIN Templates[n] |-> PointsAt(w, Templates[n][i])], S) \in Seq(Questions)
    <3>1. PICK list \in Seq(Questions) : list = Templates[n]
      BY BankAssumption DEF Numbers
    <3>2. \A i \in 1 .. Len(list) : PointsAt(w, list[i]) \in Questions
      BY <1>2 DEF PointsAt
    <3>3. [i \in 1 .. Len(list) |-> PointsAt(w, list[i])] \in Seq(Questions)
      BY <3>2
    <3>4. [i \in DOMAIN Templates[n] |-> PointsAt(w, Templates[n][i])] \in Seq(Questions)
      BY <3>1, <3>3
    <3> QED
      BY <3>4, OnlyPicks
  <2>2. tickets' \in [Numbers -> Seq(Questions)]
    BY <1>5, <2>1
  <2> QED
    BY <1>1, <1>3, <2>2
<1> QED
  BY <1>4, <1>5 DEF ReplaceTickets

LEMMA ListTextsWorks ==
  ASSUME BankInv, NEW w \in Workers, ListQuestionTexts(w)
  PROVE  Works(w) /\ UNCHANGED <<packs, clock, table, tickets, audit>>
<1>1. UNCHANGED <<packs, clock, table, tickets, audit>> /\ at[w] = "texts"
  BY DEF ListQuestionTexts, catalog
<1> SUFFICES Works(w)
  BY <1>1
<1>2. /\ IsMind(mind[w]) /\ Held(mind[w]) /\ mind[w].row \in PackRows' /\ clock \in Nat
      /\ job[w].op = "classify" /\ questions \in [Questions -> QuestionRows]
  BY <1>1, AtWork DEF Serves, PackRows
<1>3. PICK found : found = [q \in {p \in Questions : Exists(p)} |-> Classify[questions[q].wording]]
  OBVIOUS
<1>4. \A q \in DOMAIN found : found[q] \in Topics
  BY <1>2, <1>3, BankAssumption DEF QuestionRows
<1>5. CASE End(w)
  BY <1>1, <1>2, <1>5, EndWorks
<1>6. CASE Go(w, "file", [mind[w] EXCEPT !.found = found])
  <2>1. PICK n : n = [mind[w] EXCEPT !.found = found]
    OBVIOUS
  <2>2. IsMind(n) /\ Held(n) /\ n.row \in PackRows' /\ n.found = found
    BY <1>2, <2>1, FoundHeld
  <2>3. ComesTo(w, "file", n)
    BY <1>2, <1>4, <2>2 DEF ComesTo, WorkPlaces, Serves, HeldAt, Posts
  <2> QED
    BY <1>6, <2>1, <2>2, <2>3, GoWorks
<1> QED
  BY <1>3, <1>5, <1>6, Zenon DEF ListQuestionTexts

LEMMA SetCategoriesWorks ==
  ASSUME BankInv, NEW w \in Workers, SetCategories(w)
  PROVE  Works(w) /\ UNCHANGED <<packs, clock, tickets, audit>> /\ QuestionsTyped
<1>1. UNCHANGED <<packs, clock, tickets, audit, lastRow>> /\ at[w] = "file" /\ End(w)
  BY DEF SetCategories, catalog
<1>2. /\ clock \in Nat /\ questions \in [Questions -> QuestionRows] /\ Filed
      /\ \A q \in DOMAIN mind[w].found : mind[w].found[q] \in Topics
  BY <1>1, AtWork DEF HeldAt, BankInv, IdsAreGiven
<1>3. Works(w)
  BY <1>1, <1>2, EndWorks
<1>4. QuestionRows' = QuestionRows
  BY <1>1 DEF QuestionRows
<1>5. CASE UNCHANGED questions
  BY <1>1, <1>2, <1>3, <1>4, <1>5 DEF QuestionsTyped
<1>6. CASE questions' = [q \in Questions |->
             IF q \in DOMAIN mind[w].found THEN [questions[q] EXCEPT !.topic = mind[w].found[q]]
             ELSE questions[q]]
  <2>1. ASSUME NEW q \in Questions, q \in DOMAIN mind[w].found
        PROVE  [questions[q] EXCEPT !.topic = mind[w].found[q]] \in QuestionRows
    <3>1. PICK r \in QuestionRows : r = questions[q]
      BY <1>2
    <3>2. PICK t \in Topics : t = mind[w].found[q]
      BY <1>2, <2>1
    <3>3. [r EXCEPT !.topic = t] \in QuestionRows
      BY DEF QuestionRows
    <3> QED
      BY <3>1, <3>2, <3>3
  <2>2. questions' \in [Questions -> QuestionRows]
    BY <1>2, <1>6, <2>1
  <2> QED
    BY <1>1, <1>3, <1>4, <2>2 DEF QuestionsTyped
<1> QED
  BY <1>5, <1>6 DEF SetCategories

LEMMA WorkTypes ==
  ASSUME BankInv, NEW w \in Workers, Work(w)
  PROVE  /\ Works(w) /\ PacksTyped /\ QuestionsTyped
         /\ tickets' \in [Numbers -> Seq(Questions)]
         /\ audit' \subseteq [op: {"draft", "add", "publish", "rollback"}, version: Versions]
         /\ UNCHANGED <<prepdrive, attempts, walk>>
<1> DEFINE Goal == /\ Works(w) /\ PacksTyped /\ QuestionsTyped
                   /\ tickets' \in [Numbers -> Seq(Questions)]
                   /\ audit' \subseteq [op: {"draft", "add", "publish", "rollback"}, version: Versions]
<1>1. /\ clock \in Nat /\ packs \in [Versions -> PackRows] /\ questions \in [Questions -> QuestionRows]
      /\ tickets \in [Numbers -> Seq(Questions)]
      /\ audit \subseteq [op: {"draft", "add", "publish", "rollback"}, version: Versions]
  BY DEF BankInv, RowsTyped, RestTyped
<1>2. packs' = packs /\ clock' = clock => PacksTyped
  BY <1>1 DEF PacksTyped, PackRows
<1>3. questions' = questions /\ lastRow' = lastRow => QuestionsTyped
  BY <1>1 DEF QuestionsTyped, QuestionRows
<1>4. Begin(w) => Goal
  <2>1. Begin(w) => UNCHANGED <<packs, clock, questions, lastRow, tickets, audit>>
    BY DEF Begin, catalog, table
  <2> QED
    BY <1>1, <1>2, <1>3, <2>1, BeginWorks
<1>5. WorkOnPack(w) => Goal
  <2>1. GetPackByID(w) => Goal
    BY <1>1, <1>2, <1>3, GetPackWorks
  <2>2. CreatePack(w) => Goal
    <3>1. CreatePack(w) => UNCHANGED <<questions, lastRow, tickets, audit>>
      BY DEF CreatePack, table
    <3> QED
      BY <1>1, <1>3, <3>1, CreatePackWorks
  <2>3. UpdatePack(w) => Goal
    <3>1. UpdatePack(w) => UNCHANGED <<questions, lastRow, tickets, audit>>
      BY DEF UpdatePack, table
    <3> QED
      BY <1>1, <1>3, <3>1, UpdatePackWorks
  <2>4. LogAction(w) => Goal
    BY <1>1, <1>2, <1>3, LogActionWorks DEF table
  <2> QED
    BY <2>1, <2>2, <2>3, <2>4 DEF WorkOnPack
<1>6. FillPack(w) => Goal
  BY <1>1, <1>2, <1>3, LookWorks, CountWorks DEF FillPack, table
<1>7. CreateQuestion(w) => Goal
  BY <1>1, <1>2, UpsertQuestionWorks, UpsertTranslationsWorks DEF CreateQuestion
<1>8. ImportTickets(w) => Goal
  <2>1. FindDuplicates(w) => Goal
    BY <1>1, <1>2, <1>3, FindDuplicatesWorks DEF table
  <2>2. MarkDuplicate(w) => Goal
    BY <1>1, <1>2, MarkDuplicateWorks
  <2>3. ReplaceTickets(w) => Goal
    BY <1>1, <1>2, <1>3, ReplaceTicketsWorks DEF table
  <2> QED
    BY <2>1, <2>2, <2>3 DEF ImportTickets
<1>9. ClassifyTopics(w) => Goal
  BY <1>1, <1>2, <1>3, ListTextsWorks, SetCategoriesWorks DEF ClassifyTopics, table
<1>10. Die(w) => Goal
  <2>1. Die(w) => End(w) /\ UNCHANGED <<packs, clock, questions, lastRow, tickets, audit>>
    BY DEF Die, catalog, table
  <2> QED
    BY <1>1, <1>2, <1>3, <2>1, EndWorks
<1>11. UNCHANGED <<prepdrive, attempts, walk>>
  BY DEF Work, Begin, WorkOnPack, GetPackByID, CreatePack, UpdatePack, LogAction,
         FillPack, LookAtQuestion, CountQuestions, CreateQuestion, UpsertQuestion, UpsertTranslations,
         ImportTickets, FindDuplicates, MarkDuplicate, ReplaceTickets,
         ClassifyTopics, ListQuestionTexts, SetCategories, Die, learner
<1> QED
  BY <1>4, <1>5, <1>6, <1>7, <1>8, <1>9, <1>10, <1>11 DEF Work

(* The questions that are there.                                           *)
There == {q \in Questions : Exists(q)}

LEMMA ThereIsFinite ==
  IsFiniteSet(There) /\ Cardinality(There) \in 0 .. LastQuestion
<1>1. IsFiniteSet(Questions) /\ Cardinality(Questions) = LastQuestion /\ LastQuestion \in Nat
  <2>1. LastQuestion \in Nat \ {0}
    BY BankAssumption
  <2>2. IsFiniteSet(1 .. LastQuestion) /\ Cardinality(1 .. LastQuestion) = LastQuestion
    BY <2>1, FS_Interval
  <2> QED
    BY <2>1, <2>2 DEF Questions
<1>2. There \in SUBSET Questions
  BY DEF There
<1>3. IsFiniteSet(There) /\ Cardinality(There) <= Cardinality(Questions)
  BY <1>1, <1>2, FS_Subset
<1> QED
  BY <1>1, <1>3, FS_CardinalityType

(* Only a row written anew makes a question, and it takes one id.          *)
LEMMA CountStays ==
  ASSUME Counted, IdsAreGiven, WritersFindRows, NEW w \in Workers, QuestionStep(w), KeepsIds,
         at[w] = "row" => QuestionOf(w) \in Questions
  PROVE  Counted'
<1>1. ASSUME lastRow' = lastRow, \A q \in Questions : ~ Exists(q) => questions'[q] = questions[q]
      PROVE  Counted'
  <2>1. There' = There
    BY <1>1 DEF There, Exists, KeepsIds
  <2> QED
    BY <1>1, <2>1 DEF Counted, There
<1>2. CASE RowIsWritten(w)
  <2>1. PICK q : q = QuestionOf(w)
    OBVIOUS
  <2>2. PICK t, s : questions' = [questions EXCEPT ![q] =
           [id |-> RowId(q), topic |-> t, status |-> s, wording |-> @.wording]] /\ s \in {"draft", "published"}
    BY <1>2, <2>1 DEF RowIsWritten
  <2>3. q \in Questions /\ lastRow' = IF Exists(q) THEN lastRow ELSE lastRow + 1
    BY <1>2, <2>1 DEF RowIsWritten
  <2>4. questions'[q].status = s /\ \A p \in Questions : p # q => questions'[p] = questions[p]
    BY <2>2, <2>3 DEF IdsAreGiven, Filed
  <2>5. Exists(q)'
    <3>1. NoQuestion.status = "none"
      BY DEF NoQuestion
    <3> QED
      BY <2>2, <2>4, <3>1 DEF Exists
  <2>6. There' = There \cup {q}
    BY <2>3, <2>4, <2>5 DEF There, Exists
  <2>7. q \in There <=> Exists(q)
    BY <2>3 DEF There
  <2>8. Cardinality(There') = IF q \in There THEN Cardinality(There) ELSE Cardinality(There) + 1
    BY <2>6, ThereIsFinite, FS_AddElement
  <2>9. lastRow = Cardinality(There)
    BY DEF Counted, There
  <2> QED
    BY <2>3, <2>7, <2>8, <2>9 DEF Counted, There
<1>3. CASE TextIsWritten(w)
  <2>1. PICK q : q = QuestionOf(w)
    OBVIOUS
  <2>2. q \in Questions => Exists(q)
    BY <1>3, <2>1 DEF TextIsWritten, WritersFindRows, WriterFinds
  <2>3. lastRow' = lastRow /\ \E r : questions' = [questions EXCEPT ![q] = r]
    BY <1>3, <2>1 DEF TextIsWritten
  <2> QED
    BY <1>1, <2>2, <2>3 DEF IdsAreGiven, Filed
<1>4. CASE MarkIsWritten(w)
  <2>1. PICK i \in DOMAIN mind[w].todo : \E r : questions' = [questions EXCEPT ![mind[w].todo[i]] = r]
    BY <1>4 DEF MarkIsWritten
  <2>2. Exists(mind[w].todo[i]) /\ lastRow' = lastRow
    BY <1>4 DEF MarkIsWritten, WritersFindRows, WriterFinds
  <2> QED
    BY <1>1, <2>1, <2>2 DEF IdsAreGiven, Filed
<1>5. CASE TopicsAreWritten(w)
  <2>1. \A q \in Questions : q \in DOMAIN mind[w].found => Exists(q)
    BY <1>5 DEF TopicsAreWritten, WritersFindRows, WriterFinds
  <2>2. \A q \in Questions : q \notin DOMAIN mind[w].found => questions'[q] = questions[q]
    BY <1>5 DEF TopicsAreWritten
  <2> QED
    BY <1>1, <1>5, <2>1, <2>2 DEF TopicsAreWritten
<1>6. CASE UNCHANGED table
  BY <1>1, <1>6 DEF table
<1> QED
  BY <1>2, <1>3, <1>4, <1>5, <1>6
     DEF QuestionStep, DuplicatesAreRead, TextsAreRead, NothingIsWritten

(* A worker that works keeps all this.                                     *)
LEMMA WorkKeepsTypes ==
  ASSUME BankInv, NEW w \in Workers, Work(w)
  PROVE  BankInv'
<1>1. /\ Works(w) /\ PacksTyped /\ QuestionsTyped
      /\ tickets' \in [Numbers -> Seq(Questions)]
      /\ audit' \subseteq [op: {"draft", "add", "publish", "rollback"}, version: Versions]
      /\ UNCHANGED <<prepdrive, attempts, walk>>
  BY WorkTypes
<1>2. /\ Staffed /\ IdsAreGiven /\ WritersFindRows /\ Counted /\ clock \in Nat /\ Filed
      /\ \A u \in Workers : Suits(u)
  BY DEF BankInv, RowsTyped, IdsAreGiven
<1>3. Turns(w)
  <2>1. Staffed' /\ \A u \in Workers : u # w => at'[u] = at[u] /\ mind'[u] = mind[u]
    BY <1>1 DEF Works
  <2> QED
    BY <1>2, <2>1 DEF Turns, Staffed
<1>4. QuestionStep(w)
  BY <1>2, WorkIsQuestionStep
<1>5. IdsAreGiven' /\ KeepsIds
  BY <1>2, <1>3, <1>4, IdsStay
<1>6. WritersFindRows'
  BY <1>2, <1>3, <1>4, WritersStay
<1>7. Counted'
  BY <1>2, <1>4, <1>5, WritesQuestion, CountStays
<1>8. RowsTyped' /\ RestTyped'
  <2>1. begun' \in 0 .. MaxJobs
    BY <1>1 DEF Works
  <2> QED
    BY <1>1, <2>1 DEF BankInv, RowsTyped, RestTyped, PacksTyped, QuestionsTyped
<1>9. ASSUME NEW u \in Workers
      PROVE  Suits(u)'
  <2>1. CASE u = w
    BY <1>1, <2>1 DEF Works
  <2>2. CASE u # w
    <3>1. at'[u] = at[u] /\ mind'[u] = mind[u] /\ job'[u] = job[u] /\ Suits(u)
      BY <1>1, <1>2, <2>2 DEF Works
    <3>2. PICK place, j, m : place = at[u] /\ j = job[u] /\ m = mind[u]
      OBVIOUS
    <3>3. at'[u] = place /\ job'[u] = j /\ mind'[u] = m
      BY <3>1, <3>2
    <3>4. /\ j \in Jobs \cup {NoJob} /\ place \in WorkPlaces /\ Serves(place, j.op)
          /\ Held(m) /\ HeldAt(place, j.op, m) /\ m.row \in PackRows
      BY <3>1, <3>2 DEF Suits
    <3>5. m.row \in PackRows'
      BY <1>1, <1>2, <3>4, RowsStayRows DEF PacksTyped
    <3> QED
      BY <3>3, <3>4, <3>5 DEF Suits, Held, HeldAt, Serves
  <2> QED
    BY <2>1, <2>2
<1>10. Staffed'
  BY <1>1 DEF Works
<1> QED
  BY <1>5, <1>6, <1>7, <1>8, <1>9, <1>10 DEF BankInv

(* A page moves the client on, and only it.                                *)
LEMMA PageKeepsTypes ==
  ASSUME RestTyped, GetQuestionsByPack
  PROVE  walk' \in [at: {"idle", "on", "over"}, cursor: 0 .. LastQuestion,
                    listed: SUBSET Questions, twice: BOOLEAN]
<1>1. /\ walk.cursor \in 0 .. LastQuestion /\ walk.listed \subseteq Questions /\ walk.twice \in BOOLEAN
      /\ LastQuestion \in Nat
  BY BankAssumption DEF RestTyped
<1>2. Page \subseteq Rows /\ Rows \subseteq Questions
  BY DEF Page, Rows, Published
<1>3. NextCursor(Rows, Page) \in 0 .. LastQuestion
  <2>1. CASE Rows = Page
    <3>1. NextCursor(Rows, Page) = 0
      BY <2>1 DEF NextCursor
    <3> QED
      BY <1>1, <3>1
  <2>2. CASE Rows # Page
    <3>1. walk.cursor \in Nat
      BY <1>1
    <3>2. NextCursor(Rows, Page) \in Page
      BY <2>2, <3>1, PagesAreCutInOrder
    <3>3. NextCursor(Rows, Page) \in Questions
      BY <1>2, <3>2
    <3> QED
      BY <1>1, <3>3 DEF Questions
  <2> QED
    BY <2>1, <2>2
<1>4. walk' = [at     |-> IF NextCursor(Rows, Page) = 0 THEN "over" ELSE "on",
               cursor |-> NextCursor(Rows, Page),
               listed |-> walk.listed \cup Page,
               twice  |-> walk.twice \/ walk.listed \cap Page # {}]
  BY DEF GetQuestionsByPack, Rows, Page
<1>5. PICK c, p : c = NextCursor(Rows, Page) /\ p = Page
  OBVIOUS
<1>6. /\ walk' = [at |-> IF c = 0 THEN "over" ELSE "on", cursor |-> c, listed |-> walk.listed \cup p,
                  twice |-> walk.twice \/ walk.listed \cap p # {}]
      /\ c \in 0 .. LastQuestion /\ p \subseteq Questions
  BY <1>2, <1>3, <1>4, <1>5
<1>7. (walk.twice \/ walk.listed \cap p # {}) \in BOOLEAN
  OBVIOUS
<1> QED
  BY <1>1, <1>6, <1>7

(* What others do leaves the jobs and the rows alone.                      *)
LEMMA OthersKeepTypes ==
  ASSUME BankInv, UNCHANGED <<catalog, table, work>>, RestTyped'
  PROVE  BankInv'
<1>1. UNCHANGED <<packs, clock, questions, lastRow, at, job, mind, begun>>
  BY DEF catalog, table, work
<1>2. \A q : Exists(q)' <=> Exists(q)
  BY <1>1 DEF Exists
<1>3. IdsAreGiven' /\ RowsTyped'
  BY <1>1, <1>2 DEF BankInv, IdsAreGiven, Filed, RowsTyped, PackRows, QuestionRows
<1>4. WritersFindRows'
  <2>1. \A w : QuestionOf(w)' = QuestionOf(w)
    BY <1>1 DEF QuestionOf, Adds
  <2> QED
    BY <1>1, <1>2, <2>1 DEF BankInv, WritersFindRows, WriterFinds
<1>5. Counted'
  <2>1. There' = There
    BY <1>2 DEF There
  <2> QED
    BY <1>1, <2>1 DEF BankInv, Counted, There
<1>6. Staffed' /\ \A w \in Workers : Suits(w)'
  BY <1>1 DEF BankInv, Staffed, Suits, Held, HeldAt, PackRows
<1> QED
  BY <1>3, <1>4, <1>5, <1>6 DEF BankInv

LEMMA BankKeepsTypes == BankInv /\ [BankNext]_bankVars => BankInv'
<1> SUFFICES ASSUME BankInv, [BankNext]_bankVars
             PROVE  BankInv'
  OBVIOUS
<1>1. RestTyped
  BY DEF BankInv
<1>2. ASSUME NEW w \in Workers, Work(w)
      PROVE  BankInv'
  BY <1>2, WorkKeepsTypes
<1>3. ASSUME NEW q \in Questions, NEW x \in Wordings, Reword(q, x)
      PROVE  BankInv'
  <2>1. UNCHANGED <<catalog, table, tickets, work, learner>> /\ prepdrive' = [prepdrive EXCEPT ![q] = x]
    BY <1>3 DEF Reword
  <2>2. RestTyped'
    BY <1>1, <2>1 DEF RestTyped, catalog, work, learner
  <2> QED
    BY <2>1, <2>2, OthersKeepTypes
<1>4. ASSUME NEW t \in Topics, NEW n \in Questions, OpenTest(t, n)
      PROVE  BankInv'
  <2>1. /\ UNCHANGED <<catalog, table, tickets, prepdrive, work, walk>>
        /\ attempts' = attempts \cup {[topic |-> t, index |-> n, questions |-> NumberedTest(t, n)]}
    BY <1>4 DEF OpenTest
  <2>2. NumberedTest(t, n) \subseteq Questions
    BY DEF NumberedTest, GetQuestionSlice, InTopic, Published
  <2>3. RestTyped'
    BY <1>1, <2>1, <2>2 DEF RestTyped, catalog, work
  <2> QED
    BY <2>1, <2>3, OthersKeepTypes
<1>5. ASSUME GetQuestionsByPack
      PROVE  BankInv'
  <2>1. UNCHANGED <<catalog, table, tickets, prepdrive, work, attempts>>
    BY <1>5 DEF GetQuestionsByPack
  <2>2. RestTyped'
    BY <1>1, <1>5, <2>1, PageKeepsTypes DEF RestTyped, catalog, work
  <2> QED
    BY <2>1, <2>2, OthersKeepTypes
<1>6. ASSUME UNCHANGED bankVars
      PROVE  BankInv'
  <2>1. UNCHANGED <<catalog, table, tickets, prepdrive, work, learner>>
    BY <1>6 DEF bankVars
  <2>2. RestTyped'
    BY <1>1, <2>1 DEF RestTyped, catalog, work, learner
  <2> QED
    BY <2>1, <2>2, OthersKeepTypes
<1> QED
  BY <1>2, <1>3, <1>4, <1>5, <1>6 DEF BankNext

(* It says the types.                                                      *)
LEMMA BankInvShows == BankInv => BankTypeOK
<1> SUFFICES ASSUME BankInv
             PROVE  BankTypeOK
  OBVIOUS
<1>1. lastRow \in 0 .. LastQuestion
  BY ThereIsFinite DEF BankInv, Counted, There
<1>2. /\ packs \in [Versions -> PackRows] /\ questions \in [Questions -> QuestionRows]
      /\ \A p, q \in Questions : Exists(p) /\ Exists(q) /\ p # q => questions[p].id # questions[q].id
  BY DEF BankInv, RowsTyped, IdsAreGiven
<1>3. at \in [Workers -> WorkPlaces]
  BY DEF BankInv, Staffed, Suits
<1>4. \A w \in Workers : /\ job[w] \in Jobs \cup {NoJob}
                         /\ mind[w].version \in 0 .. LastVersion /\ mind[w].row \in PackRows
                         /\ mind[w].todo \in Seq(Questions) /\ mind[w].text \in Wordings \cup {NoText}
  BY DEF BankInv, Suits, Held
<1> QED
  BY <1>1, <1>2, <1>3, <1>4 DEF BankInv, RestTyped, BankTypeOK, WorkPlaces

(* Before anything is served or begun.                                     *)
LEMMA NobodyHolds ==
  ASSUME NothingServed, NobodyWorks, clock \in Nat
  PROVE  Staffed /\ WritersFindRows /\ RestTyped /\ \A w \in Workers : Suits(w)
<1>1. PICK none, empty : none = NoJob /\ empty = EmptyMind
  OBVIOUS
<1>2. /\ at = [w \in Workers |-> "idle"] /\ job = [w \in Workers |-> none]
      /\ mind = [w \in Workers |-> empty] /\ begun = 0
  BY <1>1 DEF NobodyWorks
<1>3. IsMind(empty) /\ Held(empty) /\ empty.row \in PackRows /\ none.op = "none"
  <2>1. <<>> \in Seq(Questions) /\ 0 \in 0 .. LastVersion
    BY BankAssumption
  <2>2. PICK no : no = NoPack
    OBVIOUS
  <2>3. EmptyMind.row = no
    BY <2>2 DEF EmptyMind
  <2>4. no \in PackRows
    BY <2>2 DEF NoPack, PackRows
  <2> QED
    BY <1>1, <2>1, <2>3, <2>4 DEF IsMind, EmptyMind, Held, NoJob
<1>4. Staffed /\ WritersFindRows
  BY <1>2, <1>3 DEF Staffed, WritersFindRows, WriterFinds
<1>5. RestTyped
  <2>1. MaxJobs \in Nat /\ Prepdrive \in [Questions -> Wordings] /\ LastQuestion \in Nat
    BY BankAssumption
  <2>2. walk = [at |-> "idle", cursor |-> 0, listed |-> {}, twice |-> FALSE] /\ 0 \in 0 .. LastQuestion
    BY <2>1 DEF NothingServed
  <2>3. PICK no : no = FALSE
    OBVIOUS
  <2>4. walk = [at |-> "idle", cursor |-> 0, listed |-> {}, twice |-> no] /\ no \in BOOLEAN
    BY <2>2, <2>3
  <2>5. walk \in [at: {"idle", "on", "over"}, cursor: 0 .. LastQuestion,
                  listed: SUBSET Questions, twice: BOOLEAN]
    BY <2>2, <2>4
  <2>6. tickets \in [Numbers -> Seq(Questions)]
    <3>1. PICK nothing \in Seq(Questions) : nothing = <<>>
      <4>1. <<>> \in Seq(Questions)
        OBVIOUS
      <4> QED
        BY <4>1, Zenon
    <3>2. tickets = [n \in Numbers |-> nothing]
      BY <3>1 DEF NothingServed
    <3> QED
      BY <3>2
  <2>7. begun \in 0 .. MaxJobs /\ audit = {} /\ attempts = {} /\ prepdrive = Prepdrive
    BY <1>2, <2>1 DEF NothingServed
  <2> QED
    BY <2>1, <2>5, <2>6, <2>7 DEF RestTyped
<1>6. ASSUME NEW w \in Workers
      PROVE  Suits(w)
  <2>1. at[w] = "idle" /\ mind[w] = empty /\ job[w] = none /\ none \in Jobs \cup {NoJob}
    BY <1>1, <1>2
  <2>2. "idle" \in WorkPlaces /\ Serves("idle", none.op) /\ HeldAt("idle", none.op, empty)
    BY <1>3 DEF WorkPlaces, Serves, HeldAt, Posts
  <2> QED
    BY <1>3, <2>1, <2>2 DEF Suits
<1> QED
  BY <1>4, <1>5, <1>6

(* A bank with no questions in it.                                         *)
LEMMA BankBegins == BankInit => BankInv
<1> SUFFICES ASSUME BankInit
             PROVE  BankInv
  OBVIOUS
<1>1. PICK no, row : no = NoQuestion /\ row = NoPack
  OBVIOUS
<1>2. /\ packs = [v \in Versions |-> row] /\ clock = 0
      /\ questions = [q \in Questions |-> no] /\ lastRow = 0
  BY <1>1 DEF BankInit, EmptyBank
<1>3. row \in PackRows
  BY <1>1, <1>2 DEF NoPack, PackRows
<1>4. no \in QuestionRows /\ IsQuestion(no)
  BY <1>1, <1>2 DEF NoQuestion, QuestionRows, IsQuestion
<1>5. \A q \in Questions : ~ Exists(q)
  BY <1>1, <1>2 DEF Exists
<1>6. RowsTyped
  BY <1>2, <1>3, <1>4 DEF RowsTyped
<1>7. IdsAreGiven
  BY <1>2, <1>4, <1>5 DEF IdsAreGiven, Filed
<1>8. Counted
  <2>1. {q \in Questions : Exists(q)} = {}
    BY <1>5
  <2> QED
    BY <1>2, <2>1, FS_EmptySet DEF Counted
<1> QED
  BY <1>2, <1>6, <1>7, <1>8, NobodyHolds DEF BankInit, BankInv

(* Or with those of a list, which it repeats none of.                      *)
LEMMA LoadedBegins ==
  ASSUME NEW list \in Seq(Questions), Distinct(list),
         Loaded(list), NothingServed, NobodyWorks
  PROVE  BankInv
<1> DEFINE Asked(q) == \E i \in DOMAIN list : list[i] = q
           id(q)    == CHOOSE i \in DOMAIN list : list[i] = q
           Row(q)   == [id |-> id(q), topic |-> DetectCategory[Prepdrive[q]],
                        status |-> "published", wording |-> Prepdrive[q]]
<1>1. lastRow = Len(list) /\ lastRow \in Nat /\ DOMAIN list = 1 .. lastRow
  BY DEF Loaded
<1>2. questions = [q \in Questions |-> IF Asked(q) THEN Row(q) ELSE NoQuestion]
  BY DEF Loaded
<1>3. \A q \in Questions : Asked(q) => id(q) \in DOMAIN list /\ list[id(q)] = q
  OBVIOUS
<1>4. \A q \in Questions : Prepdrive[q] \in Wordings /\ DetectCategory[Prepdrive[q]] \in Topics
  BY BankAssumption
<1>5. PICK no : no = NoQuestion
  OBVIOUS
<1>6. no \in QuestionRows /\ IsQuestion(no) /\ no.status = "none"
  BY <1>1, <1>5 DEF NoQuestion, QuestionRows, IsQuestion
<1> HIDE DEF id, Asked
<1>7. ASSUME NEW q \in Questions
      PROVE  /\ Asked(q) => Exists(q) /\ questions[q].status = "published" /\ questions[q].id = id(q)
             /\ ~ Asked(q) => ~ Exists(q) /\ questions[q].status = "none"
             /\ IsQuestion(questions[q]) /\ questions[q] \in QuestionRows
  <2>1. CASE Asked(q)
    <3>1. questions[q] = Row(q)
      BY <1>2, <2>1
    <3>2. questions[q].status = "published" /\ questions[q].id = id(q) /\ IsQuestion(questions[q])
      BY <3>1 DEF IsQuestion
    <3>3. questions[q] \in QuestionRows
      BY <1>1, <1>3, <1>4, <2>1, <3>1 DEF QuestionRows
    <3>4. Exists(q)
      BY <1>5, <1>6, <3>2 DEF Exists
    <3> QED
      BY <2>1, <3>2, <3>3, <3>4
  <2>2. CASE ~ Asked(q)
    <3>1. questions[q] = no
      BY <1>2, <1>5, <2>2
    <3> QED
      BY <1>5, <1>6, <2>2, <3>1 DEF Exists
  <2> QED
    BY <2>1, <2>2
<1>8. \A q \in Questions : Exists(q) <=> Asked(q)
  BY <1>7
<1>9. IdsAreGiven
  <2>1. Filed
    BY <1>2, <1>7 DEF Filed
  <2>2. \A q \in Questions : Exists(q) => questions[q].id \in 1 .. lastRow /\ list[questions[q].id] = q
    BY <1>1, <1>3, <1>7
  <2>3. \A q \in Questions : questions[q].status = "none" => ~ Exists(q)
    BY <1>7
  <2> QED
    BY <1>1, <2>1, <2>2, <2>3 DEF IdsAreGiven
<1>10. Counted
  <2> DEFINE f == [i \in 1 .. lastRow |-> list[i]]
  <2>1. \A i \in 1 .. lastRow : list[i] \in There
    <3>1. \A i \in 1 .. lastRow : list[i] \in Questions
      BY <1>1
    <3>2. \A i \in 1 .. lastRow : Asked(list[i])
      BY <1>1 DEF Asked
    <3> QED
      BY <1>8, <3>1, <3>2 DEF There
  <2>2. \A i, j \in 1 .. lastRow : list[i] = list[j] => i = j
    BY <1>1 DEF Distinct
  <2>3. \A q \in There : \E i \in 1 .. lastRow : list[i] = q
    BY <1>1, <1>8 DEF There, Asked
  <2>4. f \in Bijection(1 .. lastRow, There)
    BY <2>1, <2>2, <2>3 DEF Bijection, Injection, Surjection, IsInjective
  <2>5. IsFiniteSet(1 .. lastRow) /\ Cardinality(1 .. lastRow) = lastRow
    <3>1. PICK n \in Nat : n = lastRow
      BY <1>1
    <3>2. IsFiniteSet(1 .. n) /\ Cardinality(1 .. n) = n
      BY FS_Interval
    <3> QED
      BY <3>1, <3>2
  <2>6. ExistsBijection(1 .. lastRow, There)
    BY <2>4 DEF ExistsBijection
  <2>7. Cardinality(There) = lastRow
    BY <2>5, <2>6, FS_Bijection
  <2> QED
    BY <2>7 DEF Counted, There
<1>11. RowsTyped
  <2>1. questions \in [Questions -> QuestionRows]
    BY <1>2, <1>7
  <2>2. PICK row : row = NoPack
    OBVIOUS
  <2>3. PICK full : full = [status |-> "published", count |-> Len(list), since |-> 1]
    OBVIOUS
  <2>4. /\ packs = [v \in Versions |-> IF v = 1 /\ list # <<>> THEN full ELSE row]
        /\ clock = packs[1].since /\ 1 \in Versions
    BY <2>2, <2>3, BankAssumption DEF Loaded, Versions
  <2>5. CASE list = <<>>
    <3>1. packs = [v \in Versions |-> row] /\ clock = row.since
      BY <2>4, <2>5
    <3>2. row \in PackRows /\ clock \in Nat
      BY <2>2, <3>1 DEF NoPack, PackRows
    <3> QED
      BY <2>1, <3>1, <3>2 DEF RowsTyped
  <2>6. CASE list # <<>>
    <3>1. packs = [v \in Versions |-> IF v = 1 THEN full ELSE row] /\ clock = full.since
      BY <2>4, <2>6
    <3>2. row \in PackRows /\ full \in PackRows /\ clock \in Nat
      BY <1>1, <2>2, <2>3, <3>1 DEF NoPack, PackRows
    <3> QED
      BY <2>1, <3>1, <3>2 DEF RowsTyped
  <2> QED
    BY <2>5, <2>6
<1> QED
  BY <1>9, <1>10, <1>11, NobodyHolds DEF BankInv, RowsTyped

(* The bank keeps its types, no two questions get one id and no more ids   *)
(* are given than there are questions, whatever jobs run, however they     *)
(* interleave, fail and die between two statements.                        *)
THEOREM BankTypesCorrect == BankSpec => []BankTypeOK
BY BankBegins, BankKeepsTypes, BankInvShows, PTL DEF BankSpec

(* So it does where TLC looks, whatever the other constants are, and the   *)
(* tutor keeps its own.                                                    *)
THEOREM ContentTypesCorrect ==
  ASSUME LastQuestion >= 4
  PROVE  MCSpec => []ContentTypeOK
<1>1. MCInit => BankInv /\ TutorInit
  <2> SUFFICES ASSUME MCInit
               PROVE  BankInv
    BY DEF MCInit
  <2>1. {1, 2, 3, 4} \subseteq Questions
    BY BankAssumption DEF Questions
  <2>2. \A d \in DOMAIN JobsAt : LoadedAt[d] \in {<<2, 3>>, <<2, 3, 1, 4>>, <<>>}
    BY DEF JobsAt, LoadedAt
  <2>3. PICK list \in {<<2, 3>>, <<2, 3, 1, 4>>, <<>>} : Loaded(list)
    BY <2>2 DEF MCInit
  <2>4. list \in Seq(Questions) /\ Distinct(list)
    <3>1. CASE list = <<2, 3>>
      BY <2>1, <3>1 DEF Distinct
    <3>2. CASE list = <<2, 3, 1, 4>>
      BY <2>1, <3>2 DEF Distinct
    <3>3. CASE list = <<>>
      BY <2>1, <3>3 DEF Distinct
    <3> QED
      BY <2>3, <3>1, <3>2, <3>3
  <2> QED
    BY <2>3, <2>4, LoadedBegins DEF MCInit
<1>2. [MCNext]_<<desk, bankVars, histories, tutorVars>> => [BankNext]_bankVars /\ [TutorNext]_tutorVars
  BY DEF MCNext, AtTheBank, AtTheTutor
<1>3. MCSpec => TutorSpec
  BY <1>1, <1>2, PTL DEF MCSpec, TutorSpec
<1>4. BankTypeOK /\ TutorTypeOK => ContentTypeOK
  BY DEF ContentTypeOK
<1> QED
  BY <1>1, <1>2, <1>3, <1>4, BankKeepsTypes, BankInvShows, TutorTypeCorrect, PTL DEF MCSpec


(***************************************************************************)
(* Tickets.                                                                *)
(***************************************************************************)

(* Nobody was given the wording of p before.                               *)
Oldest(p) == /\ p \in Candidates
             /\ \A o \in Candidates : questions[o].wording = questions[p].wording
                                        => questions[p].id <= questions[o].id

(* At most one works, and on no draft, and Prepdrive keeps its wordings.   *)
WorksAlone ==
  /\ prepdrive = Prepdrive
  /\ \A w \in Workers : job[w].op # "add"
  /\ \A u, w \in Workers : at[u] # "idle" /\ at[w] # "idle" => u = w

(* A question has Prepdrive's wording, unless it is the newest and about   *)
(* to get it.                                                              *)
Awaits(q) == /\ questions[q].wording = NoText /\ questions[q].id = lastRow
             /\ \E w \in Workers : at[w] = "text" /\ QuestionOf(w) = q
Worded ==
  /\ \A q \in Questions : Exists(q) => /\ questions[q].status \in {"published", "duplicate"}
                                       /\ questions[q].wording = Prepdrive[q] \/ Awaits(q)
  /\ \A w \in Workers : at[w] \in {"row", "text"} => mind[w].text = Prepdrive[QuestionOf(w)]

(* A duplicate is one of an older question.                                *)
HaveOlder ==
  \A q \in Questions : questions[q].status = "duplicate" =>
    \E p \in Candidates : /\ questions[p].wording = questions[q].wording
                          /\ questions[p].id < questions[q].id

(* What a job that marks duplicates holds is true: which question is the   *)
(* oldest of its wording, and that those to mark are not.                  *)
Finds(w) ==
  /\ DOMAIN mind[w].found \subseteq Candidates
  /\ \A q \in Candidates : \E p \in Candidates :
       p = PointsAt(w, q) /\ Oldest(p) /\ questions[p].wording = questions[q].wording
  /\ \A i \in DOMAIN mind[w].todo : \E p \in Candidates : p = mind[w].todo[i] /\ ~ Oldest(p)

(* The tickets point at the oldest of the wordings of their templates, and *)
(* twice at one only if the template has its wording twice.                *)
PointsWell(n) ==
  /\ \A i \in 1 .. Len(Templates[n]) : Templates[n][i] \in known =>
       \E k \in 1 .. Len(tickets[n]), p \in Candidates :
          p = tickets[n][k] /\ Oldest(p) /\ questions[p].wording = Prepdrive[Templates[n][i]]
  /\ \A k, l \in 1 .. Len(tickets[n]) : k # l /\ tickets[n][k] = tickets[n][l] =>
       \E i, j \in 1 .. Len(Templates[n]) :
          /\ i # j /\ Templates[n][i] \in known /\ Templates[n][j] \in known
          /\ Prepdrive[Templates[n][i]] = Prepdrive[Templates[n][j]]
Ticketed ==
  /\ tickets \in [Numbers -> Seq(Questions)]
  /\ known \subseteq Questions
  /\ \A q \in known : Exists(q) /\ questions[q].wording = Prepdrive[q]
  /\ \A n \in Numbers : PointsWell(n)

TidyInv == /\ WorksAlone /\ Worded /\ HaveOlder /\ Ticketed
           /\ \A w \in Workers : at[w] = "mark" => Finds(w)

LEMMA TemplatesAreLists ==
  /\ \A n \in Numbers : Templates[n] \in Seq(Questions) /\ DOMAIN Templates[n] = 1 .. Len(Templates[n])
                        /\ \A i \in 1 .. Len(Templates[n]) : Templates[n][i] \in Questions
  /\ \A q \in Questions : Prepdrive[q] \in Wordings /\ Prepdrive[q] # NoText
<1>1. Templates \in Seq(Seq(Questions)) /\ Prepdrive \in [Questions -> Wordings] /\ NoText \notin Wordings
  BY BankAssumption
<1>2. \A n \in Numbers : Templates[n] \in Seq(Questions)
  BY <1>1 DEF Numbers
<1> QED
  BY <1>1, <1>2

(* The oldest of a wording is not marked.                                  *)
LEMMA OldestIsPublished ==
  ASSUME IdsAreGiven, HaveOlder, NEW p, Oldest(p)
  PROVE  p \in Published
<1>1. p \in Candidates /\ p \in Questions /\ questions[p].status \in {"published", "duplicate"}
  BY DEF Oldest, Candidates
<1>2. ASSUME questions[p].status = "duplicate"
      PROVE  FALSE
  <2>1. PICK o \in Candidates : questions[o].wording = questions[p].wording /\ questions[o].id < questions[p].id
    BY <1>1, <1>2 DEF HaveOlder
  <2>2. questions[p].id <= questions[o].id /\ questions[p].id \in Nat /\ questions[o].id \in Nat
    BY <1>1, <2>1, CandidatesExist DEF Oldest
  <2> QED
    BY <2>1, <2>2
<1> QED
  BY <1>1, <1>2 DEF Published

(* So a ticket asks what its template does.                                *)
LEMMA TidyShows ==
  ASSUME IdsAreGiven, TidyInv, NEW n \in Numbers
  PROVE  AsksItsTemplate(n, known)
<1> DEFINE asked  == Only(tickets[n], Published)
           wanted == Only(Templates[n], known)
<1>1. Templates[n] \in Seq(Questions) /\ tickets[n] \in Seq(Questions)
  BY TemplatesAreLists DEF TidyInv, Ticketed
<1>2. asked \in Seq(Questions) /\ \E g : PickedFrom(tickets[n], Published, asked, g)
  BY <1>1, OnlyPicks
<1>3. wanted \in Seq(Questions) /\ \E h : PickedFrom(Templates[n], known, wanted, h)
  BY <1>1, OnlyPicks
<1> HIDE DEF asked, wanted
<1>4. PICK g : PickedFrom(tickets[n], Published, asked, g)
  BY <1>2
<1>5. PICK h : PickedFrom(Templates[n], known, wanted, h)
  BY <1>3
<1>6. DOMAIN asked = 1 .. Len(asked) /\ DOMAIN wanted = 1 .. Len(wanted)
  BY <1>2, <1>3
<1>7. PointsWell(n)
  BY DEF TidyInv, Ticketed
<1>8. \A i \in 1 .. Len(wanted) : /\ h[i] \in 1 .. Len(Templates[n]) /\ wanted[i] = Templates[n][h[i]]
                                  /\ wanted[i] \in known /\ questions[wanted[i]].wording = Prepdrive[wanted[i]]
  BY <1>5 DEF PickedFrom, TidyInv, Ticketed
<1>9. ASSUME NEW i \in 1 .. Len(wanted)
      PROVE  \E k \in 1 .. Len(asked) : questions[asked[k]].wording = questions[wanted[i]].wording
  <2>0. PICK j \in 1 .. Len(Templates[n]) : wanted[i] = Templates[n][j] /\ Templates[n][j] \in known
    BY <1>8
  <2>1. PICK k \in 1 .. Len(tickets[n]) :
          Oldest(tickets[n][k]) /\ questions[tickets[n][k]].wording = Prepdrive[wanted[i]]
    BY <1>7, <2>0 DEF PointsWell
  <2>2. tickets[n][k] \in Published
    BY <2>1, OldestIsPublished DEF TidyInv
  <2>3. PICK a \in 1 .. Len(asked) : g[a] = k
    BY <1>4, <2>2 DEF PickedFrom
  <2>4. asked[a] = tickets[n][k]
    BY <1>4, <2>3 DEF PickedFrom
  <2> QED
    BY <1>8, <2>1, <2>3, <2>4
<1>10. ASSUME NEW k \in 1 .. Len(asked), NEW l \in 1 .. Len(asked), k # l, asked[k] = asked[l]
       PROVE  \E i, j \in 1 .. Len(wanted) : i # j /\ questions[wanted[i]].wording = questions[wanted[j]].wording
  <2>1. /\ g[k] \in 1 .. Len(tickets[n]) /\ g[l] \in 1 .. Len(tickets[n]) /\ g[k] # g[l]
        /\ tickets[n][g[k]] = tickets[n][g[l]]
    BY <1>4, <1>10 DEF PickedFrom
  <2>2. PICK i \in 1 .. Len(Templates[n]), j \in 1 .. Len(Templates[n]) :
          /\ i # j /\ Templates[n][i] \in known /\ Templates[n][j] \in known
          /\ Prepdrive[Templates[n][i]] = Prepdrive[Templates[n][j]]
    BY <1>7, <2>1 DEF PointsWell
  <2>3. PICK a \in 1 .. Len(wanted) : h[a] = i
    BY <1>5, <2>2 DEF PickedFrom
  <2>4. PICK b \in 1 .. Len(wanted) : h[b] = j
    BY <1>5, <2>2 DEF PickedFrom
  <2>5. a # b /\ wanted[a] = Templates[n][i] /\ wanted[b] = Templates[n][j]
    BY <1>8, <2>2, <2>3, <2>4
  <2> QED
    BY <1>8, <2>2, <2>5
<1>11. Distinct([i \in DOMAIN wanted |-> questions[wanted[i]].wording]) => Distinct(asked)
  <2> DEFINE words == [i \in DOMAIN wanted |-> questions[wanted[i]].wording]
  <2>1. DOMAIN words = 1 .. Len(wanted) /\ \A i \in 1 .. Len(wanted) : words[i] = questions[wanted[i]].wording
    BY <1>6
  <2> HIDE DEF words
  <2>2. Distinct(words) => Distinct(asked)
    BY <1>6, <1>10, <2>1 DEF Distinct
  <2> QED
    BY <2>2 DEF words
<1>12. \A i \in DOMAIN wanted : \E k \in DOMAIN asked : questions[asked[k]].wording = questions[wanted[i]].wording
  BY <1>6, <1>9
<1> QED
  BY <1>11, <1>12 DEF AsksItsTemplate, GetTicketQuestions, asked, wanted

(* Steps that write questions leave the candidates as they were, but for   *)
(* new ones of higher ids.                                                 *)
Grows ==
  /\ \A q \in Candidates : /\ q \in Candidates' /\ questions'[q].id = questions[q].id
                           /\ questions'[q].wording = questions[q].wording
  /\ \A o \in Candidates' : o \in Candidates \/ \A p \in Candidates : questions[p].id <= questions'[o].id

LEMMA OldestStays ==
  ASSUME Grows, NEW p \in Candidates
  PROVE  Oldest(p)' <=> Oldest(p)
<1>1. Oldest(p) => Oldest(p)'
  BY DEF Grows, Oldest
<1>2. Oldest(p)' => Oldest(p)
  BY DEF Grows, Oldest
<1> QED
  BY <1>1, <1>2

(* When one works the others rest.                                         *)
LEMMA OthersRest ==
  ASSUME Staffed, WorksAlone, NEW w \in Workers, Turns(w), Work(w), Cardinality(Busy') <= 1
  PROVE  \A u \in Workers : u # w => at[u] = "idle" /\ at'[u] = "idle"
<1>1. \A u \in Workers : u # w => at'[u] = at[u]
  BY DEF Turns, Staffed
<1>2. at[w] = "idle" => at'[w] # "idle"
  <2>1. at[w] = "idle" => Begin(w)
    BY DEF Work, WorkOnPack, GetPackByID, CreatePack, UpdatePack, LogAction,
           FillPack, LookAtQuestion, CountQuestions, CreateQuestion, UpsertQuestion, UpsertTranslations,
           ImportTickets, FindDuplicates, MarkDuplicate, ReplaceTickets,
           ClassifyTopics, ListQuestionTexts, SetCategories, Die
  <2>2. Begin(w) => \E place \in {"create", "duplicates", "texts", "pack"} : at' = [at EXCEPT ![w] = place]
    BY DEF Begin
  <2> QED
    BY <2>1, <2>2 DEF Staffed
<1>3. ASSUME NEW u \in Workers, u # w, at[u] # "idle"
      PROVE  FALSE
  <2>1. at[w] = "idle"
    BY <1>3 DEF WorksAlone
  <2> DEFINE S == {o \in Workers : at'[o] # "idle"}
  <2>2. u \in S /\ w \in S
    BY <1>1, <1>2, <1>3, <2>1
  <2>3. IsFiniteSet(S)
    BY FS_Subset, BankAssumption
  <2>4. Cardinality(S) > 1 /\ Cardinality(S) \in Nat
    <3> HIDE DEF S
    <3> QED
      BY <1>3, <2>2, <2>3, TwoAreMore, FS_CardinalityType
  <2> QED
    BY <2>4 DEF Busy
<1> QED
  BY <1>1, <1>3

(* A write that keeps the ids and the wordings, and of those it marks.     *)
LEMMA Restated ==
  ASSUME IdsAreGiven, HaveOlder,
         \A q \in Questions :
           /\ questions'[q].id = questions[q].id /\ questions'[q].wording = questions[q].wording
           /\ \/ questions'[q].status = questions[q].status
              \/ /\ questions[q].status \in {"published", "duplicate"}
                 /\ \/ questions'[q].status = "published"
                    \/ questions'[q].status = "duplicate" /\ q \in Candidates /\ ~ Oldest(q)
  PROVE  Grows /\ HaveOlder'
<1>1. Candidates' = Candidates
  BY DEF Candidates
<1>2. Grows
  BY <1>1 DEF Grows, Candidates
<1>3. ASSUME NEW q \in Questions, questions'[q].status = "duplicate"
      PROVE  \E p \in Candidates : /\ questions[p].wording = questions[q].wording
                                   /\ questions[p].id < questions[q].id
  <2>1. CASE questions[q].status = "duplicate"
    BY <2>1 DEF HaveOlder
  <2>2. CASE questions[q].status # "duplicate"
    <3>1. q \in Candidates /\ ~ Oldest(q)
      BY <1>3, <2>2
    <3>2. PICK o \in Candidates :
            questions[o].wording = questions[q].wording /\ ~ questions[q].id <= questions[o].id
      BY <3>1 DEF Oldest
    <3>3. questions[o].id \in Nat /\ questions[q].id \in Nat
      BY <3>1, <3>2, CandidatesExist
    <3> QED
      BY <3>2, <3>3
  <2> QED
    BY <2>1, <2>2
<1>4. HaveOlder'
  <2>1. \A q \in Questions : questions'[q].status = "duplicate" =>
          \E p \in Candidates' : /\ questions'[p].wording = questions'[q].wording
                                 /\ questions'[p].id < questions'[q].id
    <3>1. \A p \in Candidates : p \in Questions
      BY DEF Candidates
    <3> QED
      BY <1>1, <1>3, <3>1
  <2> QED
    BY <2>1 DEF HaveOlder
<1> QED
  BY <1>2, <1>4

(* What a question that a tidy job works on becomes.                       *)
IsWorded(q) ==
  Exists(q) => /\ questions[q].status \in {"published", "duplicate"}
               /\ questions[q].wording = Prepdrive[q] \/ Awaits(q)

LEMMA TidyWrites ==
  ASSUME Staffed, IdsAreGiven, WritersFindRows, WorksAlone, Worded, HaveOlder,
         NEW w \in Workers, Turns(w), QuestionStep(w), IdsAreGiven', KeepsIds,
         \A u \in Workers : u # w => at[u] = "idle" /\ at'[u] = "idle",
         at[w] = "mark" => Finds(w),
         at[w] = "text" => at'[w] = "text" \/ Texted(w)
  PROVE  Grows /\ HaveOlder' /\ \A q \in Questions : IsWorded(q)'
<1> USE DEF IdsAreGiven
<1>1. /\ questions = [q \in Questions |-> questions[q]] /\ \A q \in Questions : IsQuestion(questions[q])
      /\ \A q \in Questions : Exists(q) /\ Exists(q)' => questions[q].id \in Nat
      /\ ~ Adds(w)
  BY DEF Filed, WorksAlone, Adds
<1>2. \A q \in Questions : Exists(q) => /\ questions[q].status \in {"published", "duplicate"}
                                        /\ questions[q].wording = Prepdrive[q] \/ Awaits(q)
  BY DEF Worded
<1>3. \A q \in Questions : Awaits(q) => at[w] = "text" /\ QuestionOf(w) = q
  BY DEF Awaits
<1>4. \A q \in Questions : questions[q].status # "none" <=> Exists(q)
  <2>1. NoQuestion.status = "none"
    BY DEF NoQuestion
  <2> QED
    BY <2>1 DEF Exists
<1>5. \A q \in Questions : (questions[q].status # "none" <=> Exists(q))'
  <2>1. NoQuestion.status = "none"
    BY DEF NoQuestion
  <2> QED
    BY <2>1 DEF Exists
(* Where no question gets its text.                                        *)
<1>6. ASSUME \A q \in Questions :
               /\ questions'[q].id = questions[q].id /\ questions'[q].wording = questions[q].wording
               /\ \/ questions'[q].status = questions[q].status
                  \/ /\ questions[q].status \in {"published", "duplicate"}
                     /\ \/ questions'[q].status = "published"
                        \/ questions'[q].status = "duplicate" /\ q \in Candidates /\ ~ Oldest(q),
             \A q \in Questions : ~ Awaits(q)
      PROVE  Grows /\ HaveOlder' /\ \A q \in Questions : IsWorded(q)'
  <2>1. Grows /\ HaveOlder'
    BY <1>6, Restated
  <2>2. \A q \in Questions : Exists(q)' => Exists(q)
    BY <1>4, <1>5, <1>6
  <2>3. \A q \in Questions : Exists(q)' => /\ questions'[q].status \in {"published", "duplicate"}
                                           /\ questions'[q].wording = Prepdrive[q]
    BY <1>2, <1>6, <2>2
  <2>4. \A q \in Questions : IsWorded(q)'
    BY <2>3 DEF IsWorded
  <2> QED
    BY <2>1, <2>4
<1>7. CASE UNCHANGED table /\ at'[w] # "text"
  <2>1. \A q \in Questions : ~ Awaits(q)
    <3>1. ASSUME NEW q \in Questions, Awaits(q)
          PROVE  FALSE
      <4>1. at[w] = "text" /\ QuestionOf(w) = q /\ questions[q].wording = NoText
        BY <1>3, <3>1 DEF Awaits
      <4>2. Texted(w)
        BY <1>7, <4>1
      <4> QED
        BY <1>7, <4>1, <4>2 DEF Texted, table
    <3> QED
      BY <3>1
  <2> QED
    BY <1>6, <1>7, <2>1 DEF table
<1>8. CASE TopicsAreWritten(w)
  <2>1. \A q \in Questions : ~ Awaits(q)
    BY <1>3, <1>8 DEF TopicsAreWritten
  <2>2. \A q \in Questions : /\ questions'[q].id = questions[q].id /\ questions'[q].status = questions[q].status
                             /\ questions'[q].wording = questions[q].wording
    <3>1. \A q \in Questions : q \in DOMAIN mind[w].found =>
            /\ questions'[q].id = questions[q].id /\ questions'[q].status = questions[q].status
            /\ questions'[q].wording = questions[q].wording
      BY <1>8 DEF TopicsAreWritten
    <3>2. \A q \in Questions : q \notin DOMAIN mind[w].found => questions'[q] = questions[q]
      BY <1>8 DEF TopicsAreWritten
    <3> QED
      BY <3>1, <3>2
  <2> QED
    BY <1>6, <2>1, <2>2
<1>9. CASE MarkIsWritten(w)
  <2>1. \A q \in Questions : ~ Awaits(q)
    BY <1>3, <1>9 DEF MarkIsWritten
  <2>2. PICK i \in DOMAIN mind[w].todo : questions' = [questions EXCEPT ![mind[w].todo[i]] =
                   [id |-> @.id, topic |-> @.topic, status |-> "duplicate", wording |-> @.wording]]
    BY <1>9 DEF MarkIsWritten
  <2>3. mind[w].todo[i] \in Candidates /\ ~ Oldest(mind[w].todo[i])
    BY <1>9 DEF MarkIsWritten, Finds
  <2>4. PICK d : d = mind[w].todo[i]
    OBVIOUS
  <2>5. d \in Candidates /\ ~ Oldest(d) /\ questions[d].status \in {"published", "duplicate"}
    BY <2>3, <2>4 DEF Candidates
  <2>6. /\ questions'[d].id = questions[d].id /\ questions'[d].wording = questions[d].wording
        /\ questions'[d].status = "duplicate" /\ d \in Questions
    BY <1>1, <2>2, <2>4, <2>5 DEF Candidates
  <2>7. \A q \in Questions : q # d => questions'[q] = questions[q]
    BY <1>1, <2>2, <2>4
  <2> QED
    BY <1>6, <2>1, <2>5, <2>6, <2>7
<1>10. CASE RowIsWritten(w)
  <2>1. \A q \in Questions : ~ Awaits(q)
    BY <1>3, <1>10 DEF RowIsWritten
  <2>2. PICK q : q = QuestionOf(w)
    OBVIOUS
  <2>3. PICK t : questions' = [questions EXCEPT ![q] =
                   [id |-> RowId(q), topic |-> t, status |-> "published", wording |-> @.wording]]
    BY <1>1, <1>10, <2>2 DEF RowIsWritten
  <2>4. CASE q \notin Questions
    <3>1. questions' = questions
      BY <1>1, <2>3, <2>4
    <3> QED
      BY <1>6, <2>1, <3>1
  <2>5. CASE q \in Questions /\ Exists(q)
    <3>1. RowId(q) = questions[q].id /\ questions[q].status \in {"published", "duplicate"}
      BY <1>2, <2>5 DEF RowId
    <3>2. /\ questions'[q].id = questions[q].id /\ questions'[q].status = "published"
          /\ questions'[q].wording = questions[q].wording
      BY <1>1, <2>3, <2>5, <3>1
    <3>3. \A p \in Questions : p # q => questions'[p] = questions[p]
      BY <1>1, <2>3
    <3> QED
      BY <1>6, <2>1, <3>1, <3>2, <3>3
  <2>6. CASE q \in Questions /\ ~ Exists(q)
    <3>1. questions[q].wording = NoText /\ questions[q].status = "none"
      BY <2>6 DEF Exists, NoQuestion
    <3>2. /\ questions'[q].status = "published" /\ questions'[q].wording = NoText
          /\ questions'[q].id = lastRow' /\ lastRow' = lastRow + 1
      BY <1>1, <1>10, <2>2, <2>3, <2>6, <3>1 DEF RowId, RowIsWritten
    <3>3. \A p \in Questions : p # q => questions'[p] = questions[p]
      BY <1>1, <2>3
    <3>4. Candidates' = Candidates /\ q \notin Candidates
      BY <3>1, <3>2, <3>3 DEF Candidates
    <3>5. Grows
      BY <3>3, <3>4 DEF Grows, Candidates
    <3>6. HaveOlder'
      <4>1. \A p \in Candidates : p # q /\ p \in Questions
        BY <3>4 DEF Candidates
      <4>2. \A d \in Questions : questions'[d].status = "duplicate" => d # q
        BY <3>2
      <4> QED
        BY <3>3, <3>4, <4>1, <4>2 DEF HaveOlder
    <3>7. Awaits(q)'
      <4>1. at'[w] = "text" /\ QuestionOf(w)' = q
        BY <1>10, <2>2 DEF RowIsWritten, QuestionOf, Adds
      <4> QED
        BY <3>2, <4>1 DEF Awaits
    <3>8. ASSUME NEW p \in Questions
          PROVE  IsWorded(p)'
      <4>1. CASE p = q
        BY <3>2, <3>7, <4>1 DEF IsWorded
      <4>2. CASE p # q
        <5>1. questions'[p] = questions[p]
          BY <3>3, <4>2
        <5>2. Exists(p)' => questions'[p].status \in {"published", "duplicate"} /\ questions'[p].wording = Prepdrive[p]
          BY <1>2, <2>1, <5>1 DEF Exists
        <5> QED
          BY <5>2 DEF IsWorded
      <4> QED
        BY <4>1, <4>2
    <3> QED
      BY <3>5, <3>6, <3>8
  <2> QED
    BY <2>4, <2>5, <2>6
<1>11. CASE TextIsWritten(w)
  <2>1. PICK q : q = QuestionOf(w)
    OBVIOUS
  <2>2. PICK x : x = mind[w].text
    OBVIOUS
  <2>3. /\ questions' = [questions EXCEPT ![q] =
                           [id |-> @.id, topic |-> @.topic, status |-> @.status, wording |-> x]]
        /\ at[w] = "text"
    BY <1>11, <2>1, <2>2 DEF TextIsWritten
  <2>4. x = Prepdrive[q]
    BY <2>1, <2>2, <2>3 DEF Worded
  <2>5. \A p \in Questions : p # q => questions'[p] = questions[p] /\ ~ Awaits(p)
    BY <1>1, <1>3, <2>1, <2>3
  <2>6. CASE q \notin Questions
    <3>1. questions' = questions
      BY <1>1, <2>3, <2>6
    <3> QED
      BY <1>6, <2>5, <2>6, <3>1
  <2>7. CASE q \in Questions
    <3>1. Exists(q) /\ questions[q].status \in {"published", "duplicate"}
      BY <1>2, <2>1, <2>3, <2>7 DEF WritersFindRows, WriterFinds
    <3>2. /\ questions'[q].id = questions[q].id /\ questions'[q].status = questions[q].status
          /\ questions'[q].wording = Prepdrive[q] /\ Prepdrive[q] # NoText
      BY <1>1, <2>3, <2>4, <2>7, TemplatesAreLists
    <3>3. CASE ~ Awaits(q)
      <4>1. questions[q].wording = Prepdrive[q]
        BY <1>2, <2>7, <3>1, <3>3
      <4> QED
        BY <1>6, <2>5, <3>2, <3>3, <4>1
    <3>4. CASE Awaits(q)
      <4>1. questions[q].wording = NoText /\ questions[q].id = lastRow
        BY <3>4 DEF Awaits
      <4>2. Candidates' = Candidates \cup {q} /\ q \notin Candidates
        BY <2>5, <2>7, <3>1, <3>2, <4>1 DEF Candidates
      <4>3. \A p \in Candidates : questions[p].id <= questions'[q].id
        <5>1. \A p \in Candidates : questions[p].id \in 1 .. lastRow
          BY CandidatesExist
        <5> QED
          BY <3>2, <4>1, <5>1
      <4>4. \A p \in Candidates : p # q /\ p \in Questions
        BY <4>2 DEF Candidates
      <4>5. Grows
        BY <2>5, <4>2, <4>3, <4>4 DEF Grows
      <4>6. HaveOlder'
        <5>1. ASSUME NEW d \in Questions, questions'[d].status = "duplicate"
              PROVE  \E p \in Candidates' : /\ questions'[p].wording = questions'[d].wording
                                            /\ questions'[p].id < questions'[d].id
          <6>1. questions[d].status = "duplicate"
            BY <2>5, <3>2, <5>1
          <6>2. PICK p \in Candidates : questions[p].wording = questions[d].wording /\ questions[p].id < questions[d].id
            BY <6>1 DEF HaveOlder
          <6>3. questions[p].wording # NoText /\ p # q /\ p \in Questions
            BY <4>4 DEF Candidates
          <6>4. d # q
            BY <4>1, <6>2, <6>3
          <6> QED
            BY <2>5, <4>2, <6>2, <6>3, <6>4
        <5> QED
          BY <5>1 DEF HaveOlder
      <4>7. ASSUME NEW p \in Questions
            PROVE  IsWorded(p)'
        <5>1. CASE p = q
          BY <3>1, <3>2, <5>1 DEF IsWorded
        <5>2. CASE p # q
          <6>1. questions'[p] = questions[p] /\ ~ Awaits(p)
            BY <2>5, <5>2
          <6>2. Exists(p)' => questions'[p].status \in {"published", "duplicate"} /\ questions'[p].wording = Prepdrive[p]
            BY <1>2, <6>1 DEF Exists
          <6> QED
            BY <6>2 DEF IsWorded
        <5> QED
          BY <5>1, <5>2
      <4> QED
        BY <4>5, <4>6, <4>7
    <3> QED
      BY <3>3, <3>4
  <2> QED
    BY <2>6, <2>7
<1>12. CASE DuplicatesAreRead(w) \/ TextsAreRead(w) \/ NothingIsWritten(w)
  BY <1>7, <1>12 DEF DuplicatesAreRead, TextsAreRead, NothingIsWritten
<1> QED
  BY <1>8, <1>9, <1>10, <1>11, <1>12 DEF QuestionStep

(* A tool that comes to write a row has looked at the question, and has    *)
(* Prepdrive's wording of it.                                              *)
LEMMA RowIsReached ==
  ASSUME Staffed, NEW w \in Workers, Work(w), job[w].op # "add", at'[w] = "row"
  PROVE  /\ job' = job /\ UNCHANGED table
         /\ mind'[w].text = prepdrive[Head(mind[w].todo)] /\ mind'[w].todo = mind[w].todo
<1>1. ~ Adds(w)
  BY DEF Adds
<1>2. LookAtQuestion(w)
  <2>1. ASSUME Begin(w)
        PROVE  FALSE
    <3>1. \E place \in {"create", "duplicates", "texts", "pack"} : at' = [at EXCEPT ![w] = place]
      BY <2>1 DEF Begin
    <3> QED
      BY <3>1 DEF Staffed
  <2>2. ASSUME GetPackByID(w)
        PROVE  FALSE
    <3>1. (\E n : \E p \in {"write", "log", "create"} : Go(w, p, n)) \/ End(w) \/ \E n : StartBatch(w, n)
      BY <1>1, <2>2, Zenon DEF GetPackByID
    <3> QED
      BY <3>1, Places
  <2>3. ASSUME CreatePack(w)
        PROVE  FALSE
    <3>1. (\E n : \E p \in {"log", "write"} : Go(w, p, n)) \/ End(w) \/ \E n : StartBatch(w, n)
      BY <2>3, Zenon DEF CreatePack
    <3> QED
      BY <3>1, Places
  <2>4. ASSUME UpdatePack(w) \/ LogAction(w) \/ CountQuestions(w) \/ Die(w) \/ SetCategories(w)
                 \/ ReplaceTickets(w) \/ ListQuestionTexts(w) \/ FindDuplicates(w) \/ MarkDuplicate(w)
        PROVE  FALSE
    <3>1. (\E n : \E p \in {"log", "write", "file", "mark"} : Go(w, p, n)) \/ End(w)
      BY <2>4, Zenon DEF UpdatePack, LogAction, CountQuestions, Die, SetCategories, ReplaceTickets,
                         ListQuestionTexts, FindDuplicates, MarkDuplicate
    <3> QED
      BY <3>1, Places
  <2>5. ASSUME UpsertQuestion(w) \/ UpsertTranslations(w)
        PROVE  FALSE
    <3>1. (\E n : \E p \in {"text", "write"} : Go(w, p, n)) \/ Abandon(w) \/ \E n : Continue(w, n)
      BY <2>5, Zenon DEF UpsertQuestion, UpsertTranslations
    <3> QED
      BY <3>1, Places
  <2> QED
    BY <2>1, <2>2, <2>3, <2>4, <2>5, Zenon
       DEF Work, WorkOnPack, FillPack, CreateQuestion, ImportTickets, ClassifyTopics
<1>3. Go(w, "row", [mind[w] EXCEPT !.text = prepdrive[Head(mind[w].todo)]])
  <2>1. \/ \E n : Continue(w, n)
        \/ Go(w, "row", [mind[w] EXCEPT !.text = prepdrive[Head(mind[w].todo)]])
    BY <1>2, Zenon DEF LookAtQuestion
  <2>2. ~ \E n : Continue(w, n)
    BY Places
  <2> QED
    BY <2>1, <2>2
<1>4. job' = job /\ mind'[w] = [mind[w] EXCEPT !.text = prepdrive[Head(mind[w].todo)]]
  BY <1>3, Places
<1>5. UNCHANGED table
  BY <1>2 DEF LookAtQuestion
<1>6. /\ mind'[w].text = prepdrive[Head(mind[w].todo)]
      /\ mind'[w].todo = mind[w].todo
  <2>1. IsMind(mind[w])
    BY DEF Staffed
  <2>2. PICK m : m = mind[w]
    OBVIOUS
  <2>3. PICK x : x = prepdrive[Head(mind[w].todo)]
    OBVIOUS
  <2>4. mind'[w] = [m EXCEPT !.text = x] /\ IsMind(m)
    BY <1>4, <2>1, <2>2, <2>3
  <2>5. [m EXCEPT !.text = x] = [version |-> m.version, row |-> m.row, todo |-> m.todo,
                                 text |-> x, found |-> m.found]
    BY <2>4, MindFields
  <2> QED
    BY <2>2, <2>3, <2>4, <2>5
<1> QED
  BY <1>4, <1>5, <1>6

(* Only a ticket import writes tickets, when it has marked.                *)
Replaces(w) ==
  /\ at[w] = "mark" /\ mind[w].todo = <<>> /\ UNCHANGED table
  /\ tickets' = [n \in Numbers |->
       Only([i \in DOMAIN Templates[n] |-> PointsAt(w, Templates[n][i])], {q \in Questions : Exists(q)})]

LEMMA TicketsStay ==
  ASSUME NEW w \in Workers, Work(w)
  PROVE  tickets' = tickets \/ Replaces(w)
<1>1. CASE ReplaceTickets(w)
  BY <1>1 DEF ReplaceTickets, Replaces
<1>2. CASE ~ ReplaceTickets(w)
  <2>1. tickets' = tickets
    BY <1>2 DEF Work, Begin, WorkOnPack, GetPackByID, CreatePack, UpdatePack, LogAction,
           FillPack, LookAtQuestion, CountQuestions, CreateQuestion, UpsertQuestion, UpsertTranslations,
           ImportTickets, FindDuplicates, MarkDuplicate,
           ClassifyTopics, ListQuestionTexts, SetCategories, Die
  <2> QED
    BY <2>1
<1> QED
  BY <1>1, <1>2

(* A job that finds the duplicates finds what there is to find.            *)
LEMMA FindingIsTrue ==
  ASSUME IdsAreGiven, NEW w \in Workers, DuplicatesAreRead(w)
  PROVE  Finds(w)'
<1>1. PICK found : found = [q \in Duplicates |-> Kept(q)]
  OBVIOUS
<1>2. PICK list \in Seq(Duplicates) : list = SetToSeq(Duplicates)
  BY FoundCovers DEF IdsAreGiven
<1>3. mind'[w].found = found /\ mind'[w].todo = list /\ questions' = questions
  BY <1>1, <1>2 DEF DuplicatesAreRead, table
<1>4. DOMAIN found = Duplicates /\ \A q \in Duplicates : found[q] = Kept(q)
  BY <1>1
<1>5. Duplicates \subseteq Candidates /\ \A q \in Candidates : q \notin Duplicates => Kept(q) = q
  BY DEF Duplicates
<1>6. \A q \in Candidates : Oldest(Kept(q)) /\ questions[Kept(q)].wording = questions[q].wording
  BY OldestIsKept DEF Oldest
<1>7. \A q \in Duplicates : ~ Oldest(q)
  <2>1. ASSUME NEW q \in Duplicates, Oldest(q)
        PROVE  FALSE
    <3>1. q \in Candidates /\ Kept(q) # q
      BY DEF Duplicates
    <3>2. PICK k : k = Kept(q)
      OBVIOUS
    <3>3. Oldest(k) /\ questions[k].wording = questions[q].wording /\ k # q
      BY <1>6, <3>1, <3>2
    <3>4. /\ k \in Questions /\ q \in Questions /\ Exists(k) /\ Exists(q)
          /\ questions[k].id \in Nat /\ questions[q].id \in Nat
      BY <3>1, <3>3, CandidatesExist DEF Oldest
    <3>5. questions[k].id <= questions[q].id /\ questions[q].id <= questions[k].id
      BY <2>1, <3>1, <3>3 DEF Oldest
    <3>6. questions[k].id = questions[q].id
      BY <3>4, <3>5
    <3> QED
      BY <3>3, <3>4, <3>6 DEF IdsAreGiven
  <2> QED
    BY <2>1
<1>8. \A p : Oldest(p)' <=> Oldest(p)
  BY <1>3 DEF Oldest, Candidates
<1>9. Candidates' = Candidates
  BY <1>3 DEF Candidates
<1>10. \A q \in Candidates : \E p \in Candidates :
          /\ p = IF q \in DOMAIN found THEN found[q] ELSE q
          /\ Oldest(p) /\ questions[p].wording = questions[q].wording
  BY <1>4, <1>5, <1>6 DEF Oldest
<1>11. \A i \in DOMAIN list : list[i] \in Duplicates
  BY <1>2
<1>12. (DOMAIN mind[w].found \subseteq Candidates)'
  BY <1>3, <1>4, <1>5, <1>9
<1>13. (\A q \in Candidates : \E p \in Candidates :
          p = PointsAt(w, q) /\ Oldest(p) /\ questions[p].wording = questions[q].wording)'
  BY <1>3, <1>8, <1>9, <1>10 DEF PointsAt
<1>14. (\A i \in DOMAIN mind[w].todo : \E p \in Candidates : p = mind[w].todo[i] /\ ~ Oldest(p))'
  BY <1>3, <1>5, <1>7, <1>8, <1>9, <1>11
<1> QED
  BY <1>12, <1>13, <1>14 DEF Finds

(* Marking one of them leaves it true.                                     *)
LEMMA MarkingIsTrue ==
  ASSUME IdsAreGiven, WritersFindRows, Grows, NEW w \in Workers, MarkIsWritten(w), Finds(w)
  PROVE  Finds(w)'
<1>1. PICK list, found : list = mind[w].todo /\ found = mind[w].found
  OBVIOUS
<1>2. at[w] = "mark" /\ mind'[w].found = found
  BY <1>1 DEF MarkIsWritten
<1>3. PICK i \in DOMAIN list :
        /\ questions' = [questions EXCEPT ![list[i]] =
                          [id |-> @.id, topic |-> @.topic, status |-> "duplicate", wording |-> @.wording]]
        /\ mind'[w].todo = RemoveAt(list, i)
  BY <1>1 DEF MarkIsWritten
<1> DEFINE S == {q \in Candidates : ~ Oldest(q)}
<1>4. list \in Seq(Questions) /\ \A k \in DOMAIN list : list[k] \in S
  BY <1>1, <1>2 DEF WritersFindRows, WriterFinds, Finds
<1>5. list \in Seq(S)
  <2> HIDE DEF S
  <2> QED
    BY <1>4
<1>6. PICK rest \in Seq(S) : rest = RemoveAt(list, i)
  <2> HIDE DEF S
  <2> QED
    BY <1>5, RemovedAlone
<1>7. Candidates' = Candidates
  <2>1. list[i] \in Candidates
    BY <1>4
  <2> QED
    BY <1>3, <2>1 DEF Candidates, IdsAreGiven, Filed
<1>8. \A p \in Candidates : /\ Oldest(p)' <=> Oldest(p)
                            /\ questions'[p].wording = questions[p].wording
  BY OldestStays DEF Grows
<1>9. \A k \in DOMAIN rest : rest[k] \in Candidates /\ ~ Oldest(rest[k])
  <2>1. \A k \in DOMAIN rest : rest[k] \in S
    <3> HIDE DEF S
    <3> QED
      BY <1>6
  <2> QED
    BY <2>1
<1>10. DOMAIN found \subseteq Candidates
       /\ \A q \in Candidates : \E p \in Candidates :
            /\ p = IF q \in DOMAIN found THEN found[q] ELSE q
            /\ Oldest(p) /\ questions[p].wording = questions[q].wording
  BY <1>1 DEF Finds, PointsAt
<1>11. (DOMAIN mind[w].found \subseteq Candidates)'
  BY <1>2, <1>7, <1>10
<1>12. (\A q \in Candidates : \E p \in Candidates :
          p = PointsAt(w, q) /\ Oldest(p) /\ questions[p].wording = questions[q].wording)'
  BY <1>2, <1>7, <1>8, <1>10 DEF PointsAt
<1>13. (\A k \in DOMAIN mind[w].todo : \E p \in Candidates : p = mind[w].todo[k] /\ ~ Oldest(p))'
  BY <1>3, <1>6, <1>7, <1>8, <1>9
<1> QED
  BY <1>11, <1>12, <1>13 DEF Finds

(* The tickets that it writes ask what their templates do.                 *)
LEMMA ReplacedWell ==
  ASSUME IdsAreGiven, Worded, NEW w \in Workers, Replaces(w), Finds(w),
         \A q \in Questions : ~ Awaits(q), known' = {q \in Questions : Exists(q)}
  PROVE  Ticketed'
<1> DEFINE S == {q \in Questions : Exists(q)}
<1>1. PICK found : found = mind[w].found
  OBVIOUS
<1> DEFINE At(q)   == IF q \in DOMAIN found THEN found[q] ELSE q
           list(n) == [i \in DOMAIN Templates[n] |-> At(Templates[n][i])]
<1>2. /\ UNCHANGED table
      /\ tickets' = [n \in Numbers |-> Only(list(n), S)]
  BY <1>1 DEF Replaces, PointsAt
<1>3. S = Candidates /\ \A q \in S : questions[q].wording = Prepdrive[q]
  <2>1. \A q \in S : /\ questions[q].status \in {"published", "duplicate"}
                     /\ questions[q].wording = Prepdrive[q] /\ Prepdrive[q] # NoText
    BY TemplatesAreLists DEF Worded
  <2>2. \A q \in Candidates : q \in S
    BY CandidatesExist
  <2> QED
    BY <2>1, <2>2 DEF Candidates
<1>4. \A q \in S : /\ At(q) \in S /\ Oldest(At(q)) /\ questions[At(q)].wording = Prepdrive[q]
  BY <1>1, <1>3 DEF Finds, PointsAt
<1>5. \A q \in Questions : q \notin S => At(q) = q
  BY <1>1, <1>3 DEF Finds
<1>6. \A q \in Questions : At(q) \in Questions
  BY <1>4, <1>5
<1>7. ASSUME NEW n \in Numbers
      PROVE  /\ list(n) \in Seq(Questions) /\ Len(list(n)) = Len(Templates[n])
             /\ \A i \in 1 .. Len(Templates[n]) : /\ list(n)[i] = At(Templates[n][i])
                                                  /\ Templates[n][i] \in Questions
  <2> HIDE DEF At
  <2> QED
    BY <1>6, TemplatesAreLists
<1>8. Candidates' = Candidates /\ \A p \in Candidates : Oldest(p)' <=> Oldest(p)
  BY <1>2 DEF table, Candidates, Oldest
<1> HIDE DEF At, list
<1>9. ASSUME NEW n \in Numbers
      PROVE  tickets'[n] \in Seq(Questions) /\ PointsWell(n)'
  <2>1. PICK all : all = list(n)
    OBVIOUS
  <2>2. PICK some : some = Only(all, S)
    OBVIOUS
  <2>3. /\ all \in Seq(Questions) /\ Len(all) = Len(Templates[n])
        /\ \A i \in 1 .. Len(Templates[n]) : all[i] = At(Templates[n][i]) /\ Templates[n][i] \in Questions
    BY <1>7, <2>1
  <2>4. some \in Seq(Questions) /\ \E g : PickedFrom(all, S, some, g)
    BY <2>2, <2>3, OnlyPicks
  <2>5. PICK g : PickedFrom(all, S, some, g)
    BY <2>4
  <2>6. tickets'[n] = some
    BY <1>2, <2>1, <2>2
  <2>7. ASSUME NEW i \in 1 .. Len(Templates[n]), Templates[n][i] \in S
        PROVE  \E k \in 1 .. Len(some), p \in Candidates :
                 p = some[k] /\ Oldest(p) /\ questions[p].wording = Prepdrive[Templates[n][i]]
    <3>1. all[i] \in S /\ Oldest(all[i]) /\ questions[all[i]].wording = Prepdrive[Templates[n][i]]
      BY <1>4, <2>3, <2>7
    <3>2. PICK k \in 1 .. Len(some) : g[k] = i
      BY <2>3, <2>5, <3>1 DEF PickedFrom
    <3>3. some[k] = all[i]
      BY <2>5, <3>2 DEF PickedFrom
    <3> QED
      BY <1>3, <3>1, <3>2, <3>3
  <2>8. ASSUME NEW k \in 1 .. Len(some), NEW l \in 1 .. Len(some), k # l, some[k] = some[l]
        PROVE  \E i, j \in 1 .. Len(Templates[n]) :
                 /\ i # j /\ Templates[n][i] \in S /\ Templates[n][j] \in S
                 /\ Prepdrive[Templates[n][i]] = Prepdrive[Templates[n][j]]
    <3>1. PICK i \in 1 .. Len(Templates[n]), j \in 1 .. Len(Templates[n]) : i = g[k] /\ j = g[l]
      BY <2>3, <2>5 DEF PickedFrom
    <3>2. i # j /\ all[i] = all[j] /\ all[i] \in S
      BY <2>5, <2>8, <3>1 DEF PickedFrom
    <3>3. Templates[n][i] \in S /\ Templates[n][j] \in S
      BY <1>5, <2>3, <3>2
    <3>4. questions[all[i]].wording = Prepdrive[Templates[n][i]] /\ questions[all[j]].wording = Prepdrive[Templates[n][j]]
      BY <1>4, <2>3, <3>3
    <3> QED
      BY <3>2, <3>3, <3>4
  <2>9. known' = S /\ questions' = questions
    BY <1>2 DEF table
  <2> HIDE DEF S
  <2> QED
    BY <1>8, <2>4, <2>6, <2>7, <2>8, <2>9 DEF PointsWell
<1>10. tickets' \in [Numbers -> Seq(Questions)]
  <2>1. tickets' = [n \in Numbers |-> tickets'[n]]
    BY <1>2
  <2> QED
    BY <1>9, <2>1
<1>11. (\A q \in known : Exists(q) /\ questions[q].wording = Prepdrive[q])'
  BY <1>2, <1>3 DEF table, Exists
<1> QED
  BY <1>9, <1>10, <1>11 DEF Ticketed

(* A job that is alone and tidy keeps all this.                            *)
LEMMA TidyWork ==
  ASSUME Staffed, IdsAreGiven, WritersFindRows, TidyInv, NEW w \in Workers, Work(w),
         Turns(w), QuestionStep(w), IdsAreGiven', KeepsIds, Remember, tidy'
  PROVE  TidyInv'
<1> USE DEF TidyInv
<1>1. /\ prepdrive' = Prepdrive /\ Cardinality(Busy') <= 1
      /\ \A u \in Workers : job'[u].op # "add"
      /\ at[w] = "text" => at'[w] = "text" \/ Texted(w)
      /\ known' = IF tickets' = tickets THEN known ELSE {q \in Questions : Exists(q)}
  BY Zenon DEF Remember
<1>2. \A u \in Workers : u # w => at[u] = "idle" /\ at'[u] = "idle"
  BY <1>1, OthersRest
<1>3. WorksAlone'
  BY <1>1, <1>2 DEF WorksAlone
<1>4. Grows /\ HaveOlder' /\ \A q \in Questions : IsWorded(q)'
  BY <1>1, <1>2, TidyWrites
<1>5. \A u \in Workers : at'[u] \in {"row", "text"} => (mind[u].text = Prepdrive[QuestionOf(u)])'
  <2>1. ASSUME at'[w] = "text"
        PROVE  (mind[w].text = Prepdrive[QuestionOf(w)])'
    <3>1. RowIsWritten(w)
      BY <2>1 DEF QuestionStep, TextIsWritten, MarkIsWritten, TopicsAreWritten, DuplicatesAreRead,
                  TextsAreRead, NothingIsWritten
    <3>2. at[w] = "row" /\ mind'[w] = mind[w] /\ job' = job
      BY <3>1 DEF RowIsWritten
    <3>3. QuestionOf(w)' = QuestionOf(w)
      BY <3>2 DEF QuestionOf, Adds
    <3> QED
      BY <3>2, <3>3 DEF Worded
  <2>2. ASSUME at'[w] = "row"
        PROVE  (mind[w].text = Prepdrive[QuestionOf(w)])'
    <3>1. job[w].op # "add" /\ prepdrive = Prepdrive
      BY DEF WorksAlone
    <3>2. PICK x : x = Head(mind[w].todo)
      OBVIOUS
    <3>3. job' = job /\ mind'[w].text = Prepdrive[x] /\ mind'[w].todo = mind[w].todo
      BY <2>2, <3>1, <3>2, RowIsReached
    <3>4. QuestionOf(w)' = x
      BY <3>1, <3>2, <3>3 DEF QuestionOf, Adds
    <3> QED
      BY <3>3, <3>4
  <2>3. \A u \in Workers : at'[u] \in {"row", "text"} => u = w
    BY <1>2
  <2> QED
    BY <2>1, <2>2, <2>3
<1>6. Worded'
  BY <1>4, <1>5 DEF Worded, IsWorded
<1>7. \A u \in Workers : at'[u] = "mark" => Finds(u)'
  <2>1. ASSUME at'[w] = "mark"
        PROVE  Finds(w)'
    <3>1. DuplicatesAreRead(w) \/ MarkIsWritten(w)
      BY <2>1 DEF QuestionStep, TextIsWritten, RowIsWritten, TopicsAreWritten, TextsAreRead, NothingIsWritten
    <3>2. MarkIsWritten(w) => Finds(w)
      BY DEF MarkIsWritten
    <3> QED
      BY <1>4, <3>1, <3>2, FindingIsTrue, MarkingIsTrue
  <2>2. \A u \in Workers : at'[u] = "mark" => u = w
    BY <1>2
  <2> QED
    BY <2>1, <2>2
<1>8. Ticketed'
  <2>1. CASE tickets' = tickets
    <3>1. known' = known
      BY <1>1, <2>1
    <3>2. \A q \in known : q \in Candidates
      <4>1. \A q \in known : /\ q \in Questions /\ questions[q].status \in {"published", "duplicate"}
                             /\ questions[q].wording # NoText
        BY TemplatesAreLists DEF Ticketed, Worded
      <4> QED
        BY <4>1 DEF Candidates
    <3>3. \A q \in known : Exists(q)' /\ questions'[q].wording = Prepdrive[q]
      BY <1>4, <3>2 DEF Ticketed, Grows, KeepsIds
    <3>4. \A p \in Candidates : p \in Candidates' /\ (Oldest(p)' <=> Oldest(p))
                                /\ questions'[p].wording = questions[p].wording
      BY <1>4, OldestStays DEF Grows
    <3>5. ASSUME NEW n \in Numbers
          PROVE  PointsWell(n)'
      <4>1. PointsWell(n)
        BY DEF Ticketed
      <4> QED
        BY <2>1, <3>1, <3>4, <4>1 DEF PointsWell
    <3> QED
      BY <2>1, <3>1, <3>3, <3>5 DEF Ticketed
  <2>2. CASE tickets' # tickets
    <3>1. Replaces(w) /\ known' = {q \in Questions : Exists(q)}
      BY <1>1, <2>2, TicketsStay
    <3>2. at[w] = "mark"
      BY <3>1 DEF Replaces
    <3>3. \A q \in Questions : ~ Awaits(q)
      BY <1>2, <3>2 DEF Awaits
    <3> QED
      BY <3>1, <3>2, <3>3, ReplacedWell
  <2> QED
    BY <2>1, <2>2
<1> QED
  BY <1>3, <1>4, <1>6, <1>7, <1>8

LEMMA TicketsStep ==
  PacksInv /\ TestsInv /\ (tidy => TidyInv) /\ [Watched]_<<bankVars, histories>> => (tidy' => TidyInv')
<1> SUFFICES ASSUME PacksInv, TestsInv, tidy => TidyInv, [Watched]_<<bankVars, histories>>, tidy'
             PROVE  TidyInv'
  OBVIOUS
<1>1. ASSUME tidy, UNCHANGED <<table, tickets, work, known>>, prepdrive' = Prepdrive
      PROVE  TidyInv'
  <2>1. UNCHANGED <<questions, lastRow, at, job, mind, tickets, known>> /\ TidyInv
    BY <1>1 DEF table, work
  <2>2. Candidates' = Candidates /\ \A p : (Oldest(p)' <=> Oldest(p)) /\ (Exists(p)' <=> Exists(p))
    BY <2>1 DEF Candidates, Oldest, Exists
  <2>3. \A w : QuestionOf(w)' = QuestionOf(w)
    BY <2>1 DEF QuestionOf, Adds
  <2>4. \A q : Awaits(q)' <=> Awaits(q)
    BY <2>1, <2>3 DEF Awaits
  <2>5. WorksAlone' /\ HaveOlder'
    BY <1>1, <2>1, <2>2 DEF TidyInv, WorksAlone, HaveOlder
  <2>6. Worded'
    <3>1. \A w \in Workers : at'[w] \in {"row", "text"} => (mind[w].text = Prepdrive[QuestionOf(w)])'
      BY <2>1, <2>3 DEF TidyInv, Worded
    <3> QED
      BY <2>1, <2>2, <2>4, <3>1 DEF TidyInv, Worded
  <2>7. Ticketed'
    <3>1. \A n \in Numbers : PointsWell(n)'
      BY <2>1, <2>2 DEF TidyInv, Ticketed, PointsWell
    <3> QED
      BY <2>1, <2>2, <3>1 DEF TidyInv, Ticketed
  <2>8. \A w \in Workers : at'[w] = "mark" => Finds(w)'
    BY <2>1, <2>2 DEF TidyInv, Finds, PointsAt
  <2> QED
    BY <2>5, <2>6, <2>7, <2>8 DEF TidyInv
<1>2. CASE UNCHANGED <<bankVars, histories>>
  <2>1. tidy /\ UNCHANGED <<table, tickets, work, known, prepdrive>>
    BY <1>2 DEF bankVars, histories
  <2>2. prepdrive = Prepdrive
    BY <2>1 DEF TidyInv, WorksAlone
  <2> QED
    BY <1>1, <2>1, <2>2
<1>3. CASE Watched
  <2>1. Remember /\ BankNext
    BY <1>3 DEF Watched
  <2>2. /\ tidy /\ prepdrive' = Prepdrive
        /\ known' = IF tickets' = tickets THEN known ELSE {q \in Questions : Exists(q)}
    BY <2>1, Zenon DEF Remember
  <2>3. CASE \E w \in Workers : Work(w)
    <3>1. PICK w \in Workers : Work(w)
      BY <2>3
    <3>2. Turns(w) /\ QuestionStep(w)
      BY <3>1, WorkIsPackStep, WorkIsQuestionStep DEF PacksInv, TestsInv, IdsAreGiven, PackStep
    <3>3. IdsAreGiven' /\ KeepsIds
      BY <3>1, <3>2, IdsStay DEF PacksInv, TestsInv
    <3> QED
      BY <2>1, <2>2, <3>1, <3>2, <3>3, TidyWork DEF PacksInv, TestsInv
  <2>4. CASE UNCHANGED <<table, tickets, work>>
    BY <1>1, <2>2, <2>4
  <2> QED
    BY <2>1, <2>3, <2>4, KindOfStep
<1> QED
  BY <1>2, <1>3

LEMMA TicketsBegin == WatchedInit => TidyInv
<1> SUFFICES ASSUME WatchedInit
             PROVE  TidyInv
  OBVIOUS
<1>1. PICK list \in Seq(Nat) : Loaded(list)
  BY DEF WatchedInit
<1>2. NothingServed /\ NobodyWorks /\ known = {}
  BY DEF WatchedInit
<1>3. NoQuestion.status = "none" /\ NoJob.op = "none"
  BY DEF NoQuestion, NoJob
<1>4. \A q \in Questions : Exists(q) => questions[q].status = "published" /\ questions[q].wording = Prepdrive[q]
  BY <1>1 DEF Loaded, Exists
<1>5. \A q \in Questions : ~ Exists(q) => questions[q].status = "none"
  BY <1>3 DEF Exists
<1>6. \A w \in Workers : at[w] = "idle" /\ job[w].op = "none"
  BY <1>2, <1>3 DEF NobodyWorks
<1>7. WorksAlone
  BY <1>2, <1>6 DEF WorksAlone, NothingServed
<1>8. Worded
  BY <1>4, <1>6 DEF Worded
<1>9. HaveOlder
  BY <1>4, <1>5 DEF HaveOlder
<1>10. Ticketed
  <2>1. PICK empty : empty = <<>>
    OBVIOUS
  <2>2. tickets = [n \in Numbers |-> empty]
    BY <1>2, <2>1 DEF NothingServed
  <2>3. empty \in Seq(Questions) /\ Len(empty) = 0
    BY <2>1
  <2>4. tickets \in [Numbers -> Seq(Questions)] /\ \A n \in Numbers : tickets[n] = empty
    BY <2>2, <2>3
  <2>5. \A n \in Numbers : PointsWell(n)
    BY <1>2, <2>3, <2>4 DEF PointsWell
  <2> QED
    BY <1>2, <2>4, <2>5 DEF Ticketed
<1> QED
  BY <1>6, <1>7, <1>8, <1>9, <1>10 DEF TidyInv

(* A ticket asks what its template does, if in the words of another        *)
(* question, and its session opens (ReplaceTickets points every ticket at  *)
(* the questions MarkContentDuplicates keeps, which are the first inserted *)
(* of their wordings and stay so), while jobs do not overlap, write drafts *)
(* or leave a question without its text, and no wording changes.           *)
THEOREM TicketsAskTheirTemplates == WatchedSpec => []OrderlyTickets
<1>1. TestsInv /\ (tidy => TidyInv) => OrderlyTickets
  BY TidyShows DEF TestsInv, OrderlyTickets
<1> QED
  BY <1>1, InitPacks, PacksStep, InitTests, TestsStep, TicketsBegin, TicketsStep, PTL DEF WatchedSpec

(* Together: what TLC checks of the bank holds of every behaviour of       *)
(* MCContent's for any values of its constants.                            *)
COROLLARY TheBankServesWell ==
  MCSpec => [](/\ OrderlyPacks /\ PagesCoverThePack /\ MarkedIsAskedOnce
              /\ NumberedTestsAreStable /\ OrderlyTickets)
BY DesksAreWatched, PublishedVersionsStay, PagesSkipAndRepeatNothing, MarkedQuestionsDiffer,
   TestsAreNumberedForGood, TicketsAskTheirTemplates, PTL

(* And of the tutor, if no explanation repeats a clause of the law.        *)
COROLLARY TutorAnswersAreGrounded ==
  ASSUME NoneIsLaw
  PROVE  MCSpec => []TutorIsGrounded
<1>1. MCInit => TutorInit
  BY DEF MCInit
<1>2. [MCNext]_<<desk, bankVars, histories, tutorVars>> => [TutorNext]_tutorVars
  BY DEF MCNext, AtTheBank, AtTheTutor
<1>3. MCSpec => TutorSpec
  BY <1>1, <1>2, PTL DEF MCSpec, TutorSpec
<1>4. AnswersAreOfficial /\ SourcesDiffer => TutorIsGrounded
  BY DEF TutorIsGrounded
<1>5. TutorSpec => []SourcesDiffer
  BY NoneIsLaw, SourcesAreApart
<1> QED
  BY <1>3, <1>4, <1>5, AnswersAreOfTheDay, PTL

(* MCLists are texts of law, as the database keeps them. *)
LEMMA ListsAreTexts == MCLists \subseteq LawTexts
<1> DEFINE L(n, starts, size) ==
             [i \in 1 .. n |-> [id |-> i, clause |-> Cardinality(starts \cap (2 .. i)), size |-> size[i]]]
           S(n) == {L(n, starts, size) : starts \in SUBSET (2 .. n), size \in [1 .. n -> 1 .. 3]}
<1> SUFFICES ASSUME NEW n \in 0 .. 4, NEW starts \in SUBSET (2 .. n), NEW size \in [1 .. n -> 1 .. 3]
             PROVE  L(n, starts, size) \in LawTexts
  <2>1. MCLists = UNION {S(n) : n \in 0 .. 4}
    BY DEF MCLists
  <2>2. \A n \in 0 .. 4 : \A l \in S(n) :
          \E starts \in SUBSET (2 .. n), size \in [1 .. n -> 1 .. 3] : l = L(n, starts, size)
    <3> HIDE DEF L
    <3> QED
      OBVIOUS
  <2> HIDE DEF L, S
  <2>3. \A l \in MCLists : \E n \in 0 .. 4 : l \in S(n)
    BY <2>1
  <2>4. \A l \in MCLists : \E n \in 0 .. 4 : \E starts \in SUBSET (2 .. n), size \in [1 .. n -> 1 .. 3] :
          l = L(n, starts, size)
    BY <2>2, <2>3, Zenon
  <2> QED
    BY <2>4
<1> DEFINE P(i) == [id |-> i, clause |-> Cardinality(starts \cap (2 .. i)), size |-> size[i]]
           list == [i \in 1 .. n |-> P(i)]
<1>1. ASSUME NEW i \in 1 .. n
      PROVE  P(i) \in Written /\ P(i).id = i
  <2>1. IsFiniteSet(starts \cap (2 .. i))
    <3>1. IsFiniteSet(2 .. i)
      BY FS_Interval
    <3> QED
      BY <3>1, FS_Subset
  <2>2. Cardinality(starts \cap (2 .. i)) \in Nat
    BY <2>1, FS_CardinalityType
  <2>3. size[i] \in Nat /\ i \in Nat /\ i # 0
    OBVIOUS
  <2> QED
    BY <2>2, <2>3 DEF Written, Paragraphs
<1>2. n \in Nat
  OBVIOUS
<1> HIDE DEF P
<1>3. list \in Seq(Written) /\ DOMAIN list = 1 .. n /\ \A i \in 1 .. n : list[i] = P(i)
  BY <1>1, <1>2
<1>5. L(n, starts, size) = list
  BY DEF P
<1> HIDE DEF list, L
<1>4. \A i, k \in DOMAIN list : i # k => list[i].id # list[k].id
  BY <1>1, <1>3
<1> QED
  BY <1>5, <1>3, <1>4 DEF LawTexts

(* And of the passages of the law, where ruleChunkRunes is the smaller of  *)
(* the limits.                                                             *)
COROLLARY TheLawIsCutWell ==
  ASSUME ChunkMax <= PassageMax
  PROVE  MCSpec => []PassagesCoverTheLaw
<1>1. PassagesCoverTheLaw
  BY ChunkMax <= PassageMax, LawIsCovered, ListsAreTexts DEF PassagesCoverTheLaw
<1> QED
  BY <1>1, PTL
=============================================================================
