------------------------- MODULE ReviewQueue_proofs -------------------------
(***************************************************************************)
(* Theorems of ReviewQueue, for any candidates, tasks among them, texts,    *)
(* decisions, inspections and changes by other reviewers.                   *)
(***************************************************************************)
EXTENDS ReviewQueue, WellFoundedInduction, FiniteSetTheorems, TLAPS

\* Words that name their card, unless the reviewer was misled about it.
Own(words, c)  == words[1] = c \/ c \in misled
OwnCards(list) == \A i \in DOMAIN list : Own(list[i].text, list[i].card)

StoreInv == \A c \in Cards \ misled :
              /\ cand[c].text[1] = c
              /\ cand[c].note = None \/ cand[c].note[1] = c
              /\ task[c] = None \/ task[c][1] = c

\* What has been typed in a place is for its card, or is known to have moved.
PlaceOK(p, c) == /\ p.note = None \/ p.note[1] = c \/ "note" \in p.moved
                 /\ p.editing => Own(p.draft, c) \/ "draft" \in p.moved

\* What a request carries is for its card, and an edit that nobody disturbed has
\* left its words in the candidate, and then in the task.
RequestOK(q) ==
    /\ q.op = "edit" => q.words \in Texts /\ Own(q.words, q.card)
    /\ q.op \in {"confirm", "reject"} => q.words = None \/ Own(q.words, q.card)
    /\ q.at = "checked" => q.op = "archive"
    /\ OwnCards(q.reply)
    /\ q.op = "edit" /\ q.alone => /\ q.at = "written"  => cand[q.card].text = q.words
                                   /\ q.at = "answered" => task[q.card] = q.words

ScreenInv == /\ OwnCards(queue)
             /\ \A i \in DOMAIN queue : PlaceOK(places[i], queue[i].card)
RequestInv == \A q \in requests : RequestOK(q)

IInv == TypeOK /\ StoreInv /\ ScreenInv /\ RequestInv
-----------------------------------------------------------------------------
(* The data: orders, places in a list, lists *)

LEMMA CountOfCards ==
  Cardinality(Cards) \in Nat
  BY FS_CardinalityType, ReviewConstants

\* The candidate that is written becomes the latest, and no other is lost.
LEMMA LatestIsAnOrder ==
  ASSUME order \in Orders, NEW c \in Cards
  PROVE  Latest(c) \in Orders
  <1> DEFINE n == Cardinality(Cards)
             old == CHOOSE i \in Ranks : order[i] = c
  <1>1. n \in Nat /\ Ranks = 1 .. n
    BY CountOfCards DEF Ranks
  <1>2. order \in [Ranks -> Cards] /\ \A d \in Cards : \E i \in Ranks : order[i] = d
    BY DEF Orders
  <1>3. old \in Ranks /\ order[old] = c
    BY <1>2
  <1>4. Latest(c) = [i \in Ranks |-> IF i < old THEN order[i]
                                     ELSE IF i < n THEN order[i + 1] ELSE c]
    BY DEF Latest
  <1> HIDE DEF n, old
  <1>5. Latest(c) \in [Ranks -> Cards]
    BY <1>1, <1>2, <1>4
  <1>6. ASSUME NEW d \in Cards PROVE \E i \in Ranks : Latest(c)[i] = d
    <2>1. PICK i \in Ranks : order[i] = d
      BY <1>2
    <2>2. CASE d = c
      <3>1. n \in Ranks /\ ~(n < old) /\ ~(n < n)
        BY <1>1, <1>3
      <3> QED BY <1>4, <2>2, <3>1
    <2>3. CASE i < old
      BY <1>4, <2>1, <2>3
    <2>4. CASE d # c /\ ~(i < old)
      <3>1. i # old
        BY <1>3, <2>1, <2>4
      <3>2. /\ i - 1 \in Ranks /\ ~(i - 1 < old) /\ i - 1 < n
            /\ (i - 1) + 1 = i
        BY <1>1, <1>3, <2>1, <2>4, <3>1
      <3>3. Latest(c)[i - 1] = order[(i - 1) + 1]
        BY <1>4, <3>2
      <3> QED BY <2>1, <3>2, <3>3
    <2> QED BY <2>2, <2>3, <2>4
  <1> QED BY <1>5, <1>6 DEF Orders

LEMMA UpTo ==
  ASSUME NEW x \in Nat
  PROVE  1 .. x \in FiniteSubsetsOf(Nat)
  <1>1. 1 .. x \subseteq Nat /\ IsFiniteSet(1 .. x)
    BY FS_Interval
  <1> QED BY <1>1 DEF FiniteSubsetsOf

\* Among the intervals 1 .. x of a set of numbers one includes no other.
LEMMA Least ==
  ASSUME NEW S \in SUBSET Nat, S # {}
  PROVE  \E x \in S : \A y \in S : x <= y
  <1> DEFINE T == {1 .. x : x \in S}
  <1>1. T \subseteq FiniteSubsetsOf(Nat) /\ T # {}
    BY UpTo
  <1>2. PICK t \in T : \A u \in T : ~(<<u, t>> \in StrictSubsetOrdering(Nat))
    <2> HIDE DEF T
    <2> QED BY <1>1, WFMin, FS_StrictSubsetOrderingWellFounded
  <1>3. PICK x \in S : t = 1 .. x
    OBVIOUS
  <1>4. ASSUME NEW y \in S, y < x PROVE FALSE
    <2>1. 1 .. y \subseteq 1 .. x /\ x \in 1 .. x /\ x \notin 1 .. y
      BY <1>4
    <2>2. 1 .. y \subseteq Nat /\ 1 .. x \subseteq Nat /\ 1 .. y # 1 .. x
      BY <2>1
    <2>3. <<1 .. y, 1 .. x>> \in StrictSubsetOrdering(Nat)
      BY <2>1, <2>2, Zenon DEF StrictSubsetOrdering
    <2> QED BY <1>2, <1>3, <2>3
  <1> QED BY <1>4

LEMMA Highest ==
  ASSUME NEW m \in Nat, NEW S \in SUBSET (1 .. m), S # {}
  PROVE  \E i \in S : \A j \in S : j <= i
  <1> DEFINE T == {m - i : i \in S}
  <1>0. \A i \in S : i \in Nat /\ m - i \in Nat
    <2> TAKE i \in S
    <2>1. i \in 1 .. m
      OBVIOUS
    <2> QED BY <2>1
  <1>1. T \in SUBSET Nat /\ T # {}
    BY <1>0
  <1>2. PICK x \in T : \A y \in T : x <= y
    <2> HIDE DEF T
    <2> QED BY <1>1, Least
  <1>3. PICK i \in S : x = m - i
    BY <1>2
  <1>4. ASSUME NEW j \in S PROVE j <= i
    <2>1. m - i <= m - j /\ i \in Nat /\ j \in Nat
      BY <1>0, <1>2, <1>3
    <2> QED BY <2>1
  <1> QED BY <1>4

LEMMA FinitePart ==
  ASSUME NEW m \in Nat, NEW S \in SUBSET (1 .. m)
  PROVE  IsFiniteSet(S) /\ Cardinality(S) \in Nat
  <1>1. IsFiniteSet(1 .. m)
    BY FS_Interval
  <1>2. IsFiniteSet(S)
    BY <1>1, FS_Subset
  <1> QED BY <1>2, FS_CardinalityType

LEMMA Number ==
  ASSUME NEW m, NEW S \in SUBSET (1 .. m), NEW i \in S
  PROVE  i \in Int
  <1>1. i \in 1 .. m
    OBVIOUS
  <1> QED BY <1>1

\* The numbers before the highest of S, and one fewer.
LEMMA BeforeTheHighest ==
  ASSUME NEW m \in Nat, NEW S \in SUBSET (1 .. m), NEW i \in S, \A j \in S : j <= i
  PROVE  /\ Before(S, i) = S \ {i}
         /\ Cardinality(Before(S, i)) = Cardinality(S) - 1
         /\ Cardinality(S) \in Nat /\ Cardinality(S) >= 1
  <1>1. IsFiniteSet(S)
    BY FinitePart
  <1>2. Before(S, i) = S \ {i}
    <2>1. \A j \in S : j \in Int /\ (j < i <=> j # i)
      BY Number
    <2> QED BY <2>1 DEF Before
  <1>3. Cardinality(S \ {i}) = Cardinality(S) - 1
    BY <1>1, FS_RemoveElement
  <1>4. Cardinality(S) \in Nat /\ Cardinality(S \ {i}) \in Nat
    BY <1>1, FS_CardinalityType, FS_RemoveElement
  <1> QED BY <1>2, <1>3, <1>4

\* There is a k-th number: of those with at least k - 1 before them, the lowest.
LEMMA NthExists ==
  ASSUME NEW m \in Nat, NEW S \in SUBSET (1 .. m), NEW k \in 1 .. Cardinality(S)
  PROVE  Nth(S, k) \in S
  <1> DEFINE late == {i \in S : Cardinality(Before(S, i)) >= k - 1}
  <1>1. IsFiniteSet(S) /\ Cardinality(S) \in Nat
    BY FinitePart
  <1>2. S # {}
    BY <1>1, FS_EmptySet
  <1>3. late # {}
    <2>1. PICK i \in S : \A j \in S : j <= i
      BY <1>2, Highest
    <2>2. Cardinality(Before(S, i)) = Cardinality(S) - 1
      BY <2>1, BeforeTheHighest
    <2> QED BY <1>1, <2>2
  <1>4. PICK i \in late : \A j \in late : i <= j
    <2>1. late \in SUBSET Nat
      <3>1. S \in SUBSET Nat
        OBVIOUS
      <3> QED BY <3>1
    <2> HIDE DEF late
    <2> QED BY <1>3, <2>1, Least
  <1> DEFINE below == Before(S, i)
  <1>5. below \in SUBSET (1 .. m) /\ below \subseteq S
        /\ Cardinality(below) \in Nat /\ Cardinality(below) >= k - 1
    BY <1>4, FinitePart DEF Before
  <1>6. Cardinality(below) = k - 1
    <2> SUFFICES ASSUME Cardinality(below) > k - 1 PROVE FALSE
      BY <1>5
    <2>1. below # {}
      BY FS_EmptySet
    <2>2. PICK j \in below : \A e \in below : e <= j
      <3> HIDE DEF below
      <3> QED BY <1>5, <2>1, Highest
    <2>3. j \in S /\ j < i
      BY DEF Before
    <2>4. Before(S, j) = Before(below, j)
      <3>1. \A e \in S : e < j => e < i
        BY <2>3, Number
      <3> QED BY <3>1 DEF Before
    <2>5. Cardinality(Before(below, j)) = Cardinality(below) - 1
      <3> HIDE DEF below
      <3> QED BY <1>5, <2>2, BeforeTheHighest
    <2>6. j \in late
      <3> HIDE DEF below
      <3> QED BY <1>5, <2>3, <2>4, <2>5
    <2> QED BY <1>4, <2>3, <2>6
  <1> QED BY <1>4, <1>6 DEF Nth

\* Of two numbers of S the later one has more of S before it.
LEMMA MoreBefore ==
  ASSUME NEW m \in Nat, NEW S \in SUBSET (1 .. m), NEW i \in S, NEW j \in S, i < j
  PROVE  Cardinality(Before(S, i)) # Cardinality(Before(S, j))
  <1> DEFINE C == Before(S, i)
             D == Before(S, j)
  <1>1. C \subseteq D /\ D \subseteq S /\ i \in D /\ i \notin C
    <2>1. i \in Int /\ j \in Int
      BY Number
    <2>2. \A e \in S : (e < i => e < j) /\ ~(i < i)
      BY <2>1, Number
    <2> QED BY <2>1, <2>2 DEF Before
  <1> HIDE DEF C, D
  <1>2. IsFiniteSet(D) /\ C # D
    BY <1>1, FinitePart, FS_Subset
  <1> QED BY <1>1, <1>2, FS_Subset DEF C, D

\* The number i of S is the k-th when k - 1 numbers of S are before it.
LEMMA NthIs ==
  ASSUME NEW m \in Nat, NEW S \in SUBSET (1 .. m), NEW i \in S
  PROVE  LET k == Cardinality(Before(S, i)) + 1 IN
         k \in 1 .. Cardinality(S) /\ Nth(S, k) = i
  <1> DEFINE n == Cardinality(Before(S, i))
  <1>1. IsFiniteSet(S) /\ Cardinality(S) \in Nat
    BY FinitePart
  <1>2. Before(S, i) \in SUBSET (S \ {i})
    BY DEF Before
  <1>3. /\ IsFiniteSet(S \ {i}) /\ Cardinality(S \ {i}) = Cardinality(S) - 1
        /\ Cardinality(S \ {i}) \in Nat
    BY <1>1, FS_RemoveElement, FS_CardinalityType
  <1>4. n \in Nat /\ n <= Cardinality(S \ {i})
    BY <1>2, <1>3, FS_Subset, FS_CardinalityType
  <1>5. n + 1 \in 1 .. Cardinality(S) /\ n = (n + 1) - 1
    <2> HIDE DEF n
    <2> QED BY <1>1, <1>3, <1>4
  <1>6. \A j \in S : Cardinality(Before(S, j)) = n => j = i
    <2> SUFFICES ASSUME NEW j \in S, Cardinality(Before(S, j)) = n, j # i PROVE FALSE
      OBVIOUS
    <2>1. i < j \/ j < i
      OBVIOUS
    <2> QED BY <2>1, MoreBefore
  <1>7. Nth(S, n + 1) = CHOOSE j \in S : Cardinality(Before(S, j)) = n
    <2>1. (n + 1) - 1 = n
      BY <1>5
    <2> HIDE DEF n
    <2> QED BY <2>1 DEF Nth
  <1>8. Nth(S, n + 1) = i
    BY <1>6, <1>7
  <1> QED BY <1>5, <1>8

\* The three lists are one list of cards, and it has every card of the store.
LEMMA WhatIsRead ==
  ASSUME report \in Reports, NEW ranks \in Orders
  PROVE  /\ Reading(ranks) \in Seq(Cards) /\ Len(Reading(ranks)) \in Nat
         /\ DOMAIN Reading(ranks) = 1 .. Len(Reading(ranks))
         /\ Len(report.gaps) \in Nat /\ Len(report.gaps) <= Len(Reading(ranks))
         /\ \A i \in Gaps : Reading(ranks)[i] = report.gaps[i]
         /\ \A c \in Cards : \E i \in 1 .. Len(Reading(ranks)) : Reading(ranks)[i] = c
  <1> DEFINE g == report.gaps
             l == report.lists
             n == Cardinality(Cards)
  <1>1. g \in Seq(Cards) /\ l \in Seq(Cards)
    BY ReviewConstants
  <1>2. n \in Nat
    BY CountOfCards
  <1>3. ranks \in [1 .. n -> Cards] /\ \A c \in Cards : \E i \in 1 .. n : ranks[i] = c
    BY DEF Orders, Ranks
  <1>4. Reading(ranks) = (g \o l) \o ranks /\ Gaps = 1 .. Len(g)
    BY DEF Reading, Gaps
  <1> HIDE DEF n, g, l
  <1>5. ranks \in Seq(Cards) /\ Len(ranks) = n
    BY <1>2, <1>3
  <1>6. PICK h : h = g \o l
    OBVIOUS
  <1>7. h \in Seq(Cards) /\ Len(h) = Len(g) + Len(l)
        /\ \A i \in 1 .. Len(g) : h[i] = g[i]
    <2>1. \A i \in 1 .. Len(g) : (g \o l)[i] = g[i]
      BY <1>1
    <2> QED BY <1>1, <1>6, <2>1
  <1>8. PICK all : all = h \o ranks
    OBVIOUS
  <1>9. /\ all \in Seq(Cards) /\ Len(all) = Len(h) + n
        /\ \A i \in 1 .. Len(h) : all[i] = h[i]
    <2>1. h \in Seq(Cards) /\ ranks \in Seq(Cards)
      BY <1>5, <1>7
    <2>2. h \o ranks \in Seq(Cards) /\ Len(h \o ranks) = Len(h) + Len(ranks)
      BY <2>1
    <2>3. \A i \in 1 .. Len(h) : (h \o ranks)[i] = h[i]
      BY <2>1
    <2> QED BY <1>5, <1>8, <2>2, <2>3
  <1>10. \A i \in 1 .. n : all[Len(h) + i] = ranks[i]
    <2> TAKE i \in 1 .. n
    <2>1. Len(h) + i \in 1 .. Len(h) + Len(ranks) /\ Len(h) + i > Len(h)
      BY <1>2, <1>5, <1>7
    <2>2. h \in Seq(Cards) /\ ranks \in Seq(Cards)
      BY <1>5, <1>7
    <2>3. (h \o ranks)[Len(h) + i] = ranks[(Len(h) + i) - Len(h)]
      BY <2>1, <2>2
    <2>4. (Len(h) + i) - Len(h) = i
      BY <2>2
    <2> QED BY <1>8, <2>3, <2>4
  <1>11. Len(g) \in Nat /\ Len(l) \in Nat /\ Len(h) \in Nat
    BY <1>1, <1>7
  <1>12. \A i \in Gaps : all[i] = g[i]
    BY <1>4, <1>7, <1>9, <1>11
  <1>13. ASSUME NEW c \in Cards
         PROVE  \E i \in 1 .. Len(all) : all[i] = c
    <2>1. PICK i \in 1 .. n : ranks[i] = c
      BY <1>3
    <2>2. Len(h) + i \in 1 .. Len(all)
      BY <1>2, <1>9, <1>11, <2>1
    <2> QED BY <1>10, <2>1, <2>2
  <1>14. Len(g) <= Len(all) /\ Len(all) \in Nat /\ DOMAIN all = 1 .. Len(all)
    BY <1>2, <1>7, <1>9, <1>11
  <1>15. Reading(ranks) = all
    BY <1>4, <1>6, <1>8
  <1> QED BY <1>9, <1>11, <1>12, <1>13, <1>14, <1>15 DEF g

LEMMA EntriesType ==
  ASSUME report \in Reports, NEW ranks \in Orders, NEW candidates
  PROVE  /\ Len(Reading(ranks)) \in Nat
         /\ Entries(candidates, ranks) \in SUBSET (1 .. Len(Reading(ranks)))
         /\ Cardinality(Entries(candidates, ranks)) \in Nat
         /\ \A i \in Entries(candidates, ranks) : Reading(ranks)[i] \in Cards
  <1>1. /\ Reading(ranks) \in Seq(Cards) /\ Len(Reading(ranks)) \in Nat
        /\ Entries(candidates, ranks) \in SUBSET (1 .. Len(Reading(ranks)))
    BY WhatIsRead DEF Entries
  <1>2. \A i \in 1 .. Len(Reading(ranks)) : Reading(ranks)[i] \in Cards
    BY <1>1
  <1> QED BY <1>1, <1>2, FinitePart

\* What stands in a place of the queue: the cards in the order in which they are read.
LEMMA InItsPlace ==
  ASSUME report \in Reports, NEW ranks \in Orders, NEW candidates,
         NEW i \in Entries(candidates, ranks)
  PROVE  LET k == Cardinality(Before(Entries(candidates, ranks), i)) + 1 IN
         /\ k \in DOMAIN Listed(candidates, ranks)
         /\ Listed(candidates, ranks)[k].card = Reading(ranks)[i]
  <1> DEFINE S == Entries(candidates, ranks)
             m == Len(Reading(ranks))
             k == Cardinality(Before(S, i)) + 1
             list == Listed(candidates, ranks)
             shown(j) == [card |-> Reading(ranks)[Nth(S, j)],
                          text |-> candidates[Reading(ranks)[Nth(S, j)]].text]
  <1>1. m \in Nat /\ S \in SUBSET (1 .. m)
    BY EntriesType
  <1>2. i \in S
    OBVIOUS
  <1>3. list = [j \in 1 .. Cardinality(S) |-> shown(j)]
    BY DEF Listed
  <1>4. k \in 1 .. Cardinality(S) /\ Nth(S, k) = i
    <2> HIDE DEF S, m
    <2> QED BY <1>1, <1>2, NthIs
  <1>5. shown(k).card = Reading(ranks)[i]
    BY <1>4
  <1>6. k \in DOMAIN list /\ list[k].card = Reading(ranks)[i]
    <2> HIDE DEF S, list, k, shown
    <2> QED BY <1>3, <1>4, <1>5
  <1> QED BY <1>6

\* The queue shows every pending candidate: one of the gaps of the latest report in each
\* place in which the report lists it there, before all others, and any other candidate
\* once, where the report's other lists or else the order of the updates have it first.
THEOREM EveryCardListed ==
  ASSUME report \in Reports, NEW ranks \in Orders, NEW candidates \in [Cards -> Candidates],
         NEW c \in Pending(candidates)
  PROVE  LET S == Entries(candidates, ranks)
             place(i) == Cardinality(Before(S, i)) + 1
             at == {i \in 1 .. Len(Reading(ranks)) : Reading(ranks)[i] = c}
         IN  /\ \E i \in at : i \in S
             /\ \A i \in at : i \in Gaps => i \in S
             /\ at \cap Gaps = {} => \E i \in S : S \cap at = {i} /\ \A j \in at : i <= j
             /\ at \cap Gaps # {} => S \cap at \subseteq Gaps
             /\ \A i \in S \cap at : /\ place(i) \in DOMAIN Listed(candidates, ranks)
                                     /\ Listed(candidates, ranks)[place(i)].card = c
  <1> DEFINE S == Entries(candidates, ranks)
             all == Reading(ranks)
             at == {i \in 1 .. Len(all) : all[i] = c}
  <1>1. /\ Len(all) \in Nat /\ Len(report.gaps) \in Nat /\ Len(report.gaps) <= Len(all)
        /\ c \in Cards /\ Gaps = 1 .. Len(report.gaps)
        /\ \A d \in Cards : \E i \in 1 .. Len(all) : all[i] = d
    BY WhatIsRead DEF Pending, Gaps
  <1>2. at \in SUBSET Nat /\ at # {}
    <2>1. \E i \in 1 .. Len(all) : all[i] = c
      BY <1>1
    <2> QED BY <2>1
  <1>3. \A i \in 1 .. Len(all) : i \in S <=>
          \/ i \in Gaps /\ all[i] \in Pending(candidates) \cup Unfiled(candidates)
          \/ i \notin Gaps /\ all[i] \in Pending(candidates) /\ ~Seen(all, i)
    BY DEF Entries
  <1> HIDE DEF S, all
  <1>4. \A i \in at : i \in Gaps => i \in S
    BY <1>3
  <1>5. PICK first \in at : \A j \in at : first <= j
    <2> HIDE DEF at
    <2> QED BY <1>2, Least
  <1>6. ~Seen(all, first)
    BY <1>1, <1>5 DEF Seen
  <1>7. first \in S
    BY <1>3, <1>5, <1>6
  <1>8. \A i \in S \cap at : i \notin Gaps => i = first
    <2> SUFFICES ASSUME NEW i \in S \cap at, i \notin Gaps, i # first PROVE FALSE
      OBVIOUS
    <2>1. ~Seen(all, i)
      BY <1>3
    <2>2. first \in 1 .. i - 1 /\ all[first] = all[i]
      BY <1>1, <1>5
    <2> QED BY <2>1, <2>2 DEF Seen
  <1>9. at \cap Gaps = {} => \E i \in S : S \cap at = {i} /\ \A j \in at : i <= j
    <2> HIDE DEF at
    <2> QED BY <1>5, <1>7, <1>8
  <1>10. at \cap Gaps # {} => S \cap at \subseteq Gaps
    <2> SUFFICES ASSUME NEW g \in at \cap Gaps, NEW i \in S \cap at, i \notin Gaps PROVE FALSE
      OBVIOUS
    <2>1. i = first /\ first <= g /\ first >= 1
      BY <1>5, <1>8
    <2> QED BY <1>1, <2>1
  <1>11. \A i \in S \cap at :
           /\ Cardinality(Before(S, i)) + 1 \in DOMAIN Listed(candidates, ranks)
           /\ Listed(candidates, ranks)[Cardinality(Before(S, i)) + 1].card = c
    <2> TAKE i \in S \cap at
    <2>1. all[i] = c /\ i \in S
      OBVIOUS
    <2> QED BY <2>1, InItsPlace DEF S, all
  <1> HIDE DEF at
  <1>12. \E i \in at : i \in S
    BY <1>7
  <1> QED BY <1>4, <1>9, <1>10, <1>11, <1>12 DEF S, all, at

\* A list of cards shows the cards' own texts when the candidates have them.
LEMMA ListedCards ==
  ASSUME report \in Reports, NEW ranks \in Orders, NEW candidates \in [Cards -> Candidates],
         NEW M, \A c \in Cards \ M : candidates[c].text[1] = c
  PROVE  /\ Listed(candidates, ranks) \in Seq(Shown)
         /\ \A i \in DOMAIN Listed(candidates, ranks) :
              LET shown == Listed(candidates, ranks)[i] IN
              shown.text[1] = shown.card \/ shown.card \in M
  <1> DEFINE S == Entries(candidates, ranks)
             m == Len(Reading(ranks))
             n == Cardinality(S)
             list == Listed(candidates, ranks)
             card(i) == Reading(ranks)[Nth(S, i)]
  <1>1. /\ m \in Nat /\ S \in SUBSET (1 .. m) /\ n \in Nat
        /\ \A i \in S : Reading(ranks)[i] \in Cards
    BY EntriesType
  <1>2. \A i \in 1 .. n : card(i) \in Cards
    <2>1. \A i \in 1 .. n : Nth(S, i) \in S
      <3> HIDE DEF S, m
      <3> QED BY <1>1, NthExists
    <2> HIDE DEF S
    <2> QED BY <1>1, <2>1
  <1>3. list = [i \in 1 .. n |-> [card |-> card(i), text |-> candidates[card(i)].text]]
    BY DEF Listed
  <1>4. \A c \in Cards : candidates[c].text \in Texts
    BY DEF Candidates
  <1> HIDE DEF card
  <1>5. /\ DOMAIN list = 1 .. n
        /\ \A i \in 1 .. n : /\ list[i] = [card |-> card(i), text |-> candidates[card(i)].text]
                             /\ list[i] \in Shown
                             /\ list[i].text[1] = list[i].card \/ list[i].card \in M
    <2> HIDE DEF S, list, n
    <2> QED BY <1>1, <1>2, <1>3, <1>4 DEF Shown
  <1>6. list = [i \in 1 .. n |-> list[i]]
    BY <1>3
  <1>7. list \in [1 .. n -> Shown]
    <2> HIDE DEF list, n
    <2> QED BY <1>5, <1>6
  <1>8. list \in Seq(Shown)
    <2> HIDE DEF list, n
    <2> QED BY <1>1, <1>7
  <1> QED BY <1>5, <1>8

LEMMA ListOf ==
  ASSUME NEW list \in Seq(Shown)
  PROVE  /\ Len(list) \in Nat /\ DOMAIN list = 1 .. Len(list)
         /\ \A i \in DOMAIN list : /\ list[i] \in Shown
                                   /\ list[i].card \in Cards /\ list[i].text \in Texts
  <1>1. /\ Len(list) \in Nat /\ DOMAIN list = 1 .. Len(list)
        /\ \A i \in DOMAIN list : list[i] \in Shown
    OBVIOUS
  <1> QED BY <1>1 DEF Shown

\* The workspace of the store shows every card its own text.
LEMMA OwnList ==
  ASSUME report \in Reports, NEW ranks \in Orders, NEW candidates \in [Cards -> Candidates],
         \A c \in Cards \ misled : candidates[c].text[1] = c
  PROVE  Listed(candidates, ranks) \in Seq(Shown) /\ OwnCards(Listed(candidates, ranks))
  BY ListedCards DEF OwnCards, Own

LEMMA InitInv == Init => IInv
  <1> SUFFICES ASSUME Init PROVE IInv
    OBVIOUS
  <1>1. /\ \A c \in Cards : /\ cand[c] \in [status : {"unfiled", "candidate"},
                                            text : Cards \X {0}, note : {None}]
                            /\ cand[c].text = <<c, 0>>
        /\ cand = [c \in Cards |-> cand[c]]
    BY DEF Init
  <1>2. \A c \in Cards : <<c, 0>> \in Texts
    BY ReviewConstants DEF Texts
  <1>3. cand \in [Cards -> Candidates]
    BY <1>1, <1>2 DEF Candidates, Statuses, Notes
  <1>4. /\ order \in Orders /\ report \in Reports /\ queue = List /\ requests = {} /\ misled = {}
        /\ task = [c \in Cards |-> None]
        /\ places = [i \in DOMAIN queue |-> Mounted(queue[i])]
        /\ typed = 0 /\ clicks = 0 /\ others = 0
    BY DEF Init
  <1>5. \A c \in Cards : cand[c].text[1] = c /\ cand[c].note = None /\ task[c] = None
    BY <1>1, <1>4
  <1>6. queue \in Seq(Shown) /\ OwnCards(queue)
    BY <1>3, <1>4, <1>5, OwnList DEF List
  <1>7. \A i \in DOMAIN queue : /\ Mounted(queue[i]) \in PlaceStates
                                /\ PlaceOK(Mounted(queue[i]), queue[i].card)
    BY <1>6, ListOf DEF Mounted, PlaceStates, Notes, PlaceOK
  <1>8. /\ places \in [DOMAIN queue -> PlaceStates]
        /\ \A i \in DOMAIN queue : places[i] = Mounted(queue[i])
    BY <1>4, <1>7
  <1>9. task \in [Cards -> Notes]
    BY <1>4 DEF Notes
  <1>10. TypeOK
    BY <1>3, <1>4, <1>6, <1>8, <1>9, ReviewConstants DEF TypeOK
  <1>11. StoreInv /\ ScreenInv /\ RequestInv
    BY <1>4, <1>5, <1>6, <1>7, <1>8 DEF StoreInv, ScreenInv, RequestInv
  <1> QED BY <1>10, <1>11 DEF IInv
-----------------------------------------------------------------------------
(* What an action leaves as it was *)

LEMMA ScreenKept ==
  ASSUME ScreenInv, UNCHANGED <<queue, places>>, misled \subseteq misled'
  PROVE  ScreenInv'
  BY DEF ScreenInv, OwnCards, PlaceOK, Own

LEMMA StoreKept ==
  ASSUME StoreInv, UNCHANGED store, misled \subseteq misled'
  PROVE  StoreInv'
  BY DEF StoreInv, store

LEMMA RequestKept ==
  ASSUME NEW q, RequestOK(q), UNCHANGED store, misled \subseteq misled'
  PROVE  RequestOK(q)'
  <1>1. UNCHANGED <<cand, task>>
    BY DEF store
  <1> QED BY <1>1 DEF RequestOK, OwnCards, Own

\* A request that moves on, loses its place or is disturbed.
LEMMA RequestMoved ==
  ASSUME NEW q \in Requests, RequestOK(q), NEW at \in {"checked", "answered"},
         NEW list \in Seq(Shown), OwnCards(list),
         q.op # "edit", at = "checked" => q.op = "archive"
  PROVE  LET p == [q EXCEPT !.at = at, !.reply = list] IN p \in Requests /\ RequestOK(p)
  BY DEF Requests, RequestOK

LEMMA HereOrNot ==
  ASSUME NEW q \in Requests, RequestOK(q), NEW b \in BOOLEAN
  PROVE  [q EXCEPT !.here = b] \in Requests /\ RequestOK([q EXCEPT !.here = b])
  BY DEF Requests, RequestOK

LEMMA Excused ==
  ASSUME NEW q \in Requests, RequestOK(q)
  PROVE  [q EXCEPT !.alone = FALSE] \in Requests /\ RequestOK([q EXCEPT !.alone = FALSE])
  BY DEF Requests, RequestOK

\* The requests that see a write of candidate c.
LEMMA RequestWritten ==
  ASSUME IInv, NEW c \in Cards, NEW q \in Disturbed(requests, c), misled \subseteq misled',
         \A d \in Cards \ {c} : cand'[d].text = cand[d].text /\ task'[d] = task[d]
  PROVE  q \in Requests /\ RequestOK(q)'
  <1>1. PICK p \in requests : q = IF p.card = c THEN [p EXCEPT !.alone = FALSE] ELSE p
    BY DEF Disturbed
  <1>2. p \in Requests /\ RequestOK(p)
    BY DEF IInv, TypeOK, RequestInv
  <1>3. CASE p.card = c
    <2>1. q = [p EXCEPT !.alone = FALSE]
      BY <1>1, <1>3
    <2>2. q \in Requests /\ RequestOK(q) /\ ~q.alone
      BY <1>2, <2>1, Excused DEF Requests
    <2> QED BY <2>2 DEF RequestOK, OwnCards, Own
  <1>4. CASE p.card # c
    <2>1. q = p /\ q.card \in Cards \ {c}
      BY <1>1, <1>2, <1>4 DEF Requests
    <2> QED BY <1>2, <2>1 DEF RequestOK, OwnCards, Own
  <1> QED BY <1>3, <1>4

\* A write of candidate c that gives it and its task words of their own.
Rewrites(c, N) ==
    /\ cand' \in [Cards -> Candidates] /\ task' \in [Cards -> Notes] /\ order' = Latest(c)
    /\ \A d \in Cards \ {c} : cand'[d] = cand[d] /\ task'[d] = task[d]
    /\ c \notin misled => /\ cand'[c].text[1] = c
                          /\ cand'[c].note = None \/ cand'[c].note[1] = c
                          /\ task'[c] = None \/ task'[c][1] = c
    /\ requests' \subseteq Disturbed(requests, c) \cup N
    /\ typed' \in 0 .. MaxTyped /\ others' \in 0 .. MaxOthers
    /\ UNCHANGED <<report, queue, places, clicks, misled>>

LEMMA Written ==
  ASSUME IInv, NEW c \in Cards, NEW N, Rewrites(c, N),
         \A q \in N : q \in Requests /\ RequestOK(q)'
  PROVE  IInv'
  <1>1. \A q \in requests' : q \in Requests /\ RequestOK(q)'
    BY RequestWritten DEF Rewrites
  <1>2. order' \in Orders
    BY LatestIsAnOrder DEF IInv, TypeOK, Rewrites
  <1>3. TypeOK'
    BY <1>1, <1>2 DEF IInv, TypeOK, Rewrites
  <1>4. StoreInv'
    BY DEF IInv, StoreInv, Rewrites
  <1>5. ScreenInv' /\ RequestInv'
    BY <1>1, ScreenKept DEF IInv, RequestInv, Rewrites
  <1> QED BY <1>3, <1>4, <1>5 DEF IInv

LEMMA DecidedCandidate ==
  ASSUME IInv, NEW c \in Cards, NEW s \in Statuses, NEW n \in Notes
  PROVE  /\ Decided(c, s, n) \in [Cards -> Candidates]
         /\ Decided(c, s, n)[c].text = cand[c].text /\ Decided(c, s, n)[c].note = n
         /\ \A d \in Cards \ {c} : Decided(c, s, n)[d] = cand[d]
  <1>1. cand \in [Cards -> Candidates] /\ cand[c] \in Candidates
    BY DEF IInv, TypeOK
  <1> DEFINE row == [[cand[c] EXCEPT !.status = s] EXCEPT !.note = n]
  <1>2. row \in Candidates /\ row.text = cand[c].text /\ row.note = n
    BY <1>1 DEF Candidates
  <1>3. Decided(c, s, n) = [cand EXCEPT ![c] = row]
    BY <1>1 DEF Decided
  <1> HIDE DEF row
  <1> QED BY <1>1, <1>2, <1>3

\* What update_item makes of the candidates.
Edited(c, w) == [cand EXCEPT ![c].text = w, ![c].note = None]

LEMMA EditedCandidate ==
  ASSUME IInv, NEW c \in Cards, NEW w \in Texts
  PROVE  /\ Edited(c, w) \in [Cards -> Candidates]
         /\ Edited(c, w)[c].text = w /\ Edited(c, w)[c].note = None
         /\ \A d \in Cards \ {c} : Edited(c, w)[d] = cand[d]
  <1>1. cand \in [Cards -> Candidates] /\ cand[c] \in Candidates
    BY DEF IInv, TypeOK
  <1> DEFINE row == [[cand[c] EXCEPT !.text = w] EXCEPT !.note = None]
  <1>2. row \in Candidates /\ row.text = w /\ row.note = None
    BY <1>1 DEF Candidates, Notes
  <1>3. Edited(c, w) = [cand EXCEPT ![c] = row]
    BY <1>1 DEF Edited
  <1> HIDE DEF row
  <1> QED BY <1>1, <1>2, <1>3
-----------------------------------------------------------------------------
(* The store *)

LEMMA FileInv ==
  ASSUME IInv, NEW c \in Cards, File(c)
  PROVE  IInv'
  <1>1. /\ cand' = [cand EXCEPT ![c].status = "candidate"] /\ order' = Latest(c)
        /\ others < MaxOthers /\ others' = others + 1
        /\ UNCHANGED <<report, task, queue, places, requests, typed, clicks, misled>>
    BY DEF File
  <1>2. cand \in [Cards -> Candidates] /\ order \in Orders
    BY DEF IInv, TypeOK
  <1>3. /\ cand' \in [Cards -> Candidates]
        /\ \A d \in Cards : cand'[d].text = cand[d].text /\ cand'[d].note = cand[d].note
    BY <1>1, <1>2 DEF Candidates, Statuses
  <1>4. order' \in Orders
    BY <1>1, <1>2, LatestIsAnOrder
  <1>5. \A q \in requests' : q \in Requests /\ RequestOK(q)'
    <2> TAKE q \in requests'
    <2>1. q \in Requests /\ RequestOK(q)
      BY <1>1 DEF IInv, TypeOK, RequestInv
    <2>2. q.card \in Cards
      BY <2>1 DEF Requests
    <2> QED BY <1>1, <1>3, <2>1, <2>2 DEF RequestOK, OwnCards, Own
  <1>6. TypeOK'
    BY <1>1, <1>3, <1>4, <1>5, ReviewConstants DEF IInv, TypeOK
  <1>7. StoreInv' /\ ScreenInv' /\ RequestInv'
    BY <1>1, <1>3, <1>5, ScreenKept DEF IInv, StoreInv, RequestInv
  <1> QED BY <1>6, <1>7 DEF IInv

\* A new inspection changes what is listed, not what is written.
LEMMA InspectedInv ==
  ASSUME IInv, NEW lists \in Reports, Inspected(lists)
  PROVE  IInv'
  <1>1. /\ others < MaxOthers /\ others' = others + 1 /\ report' \in Reports
        /\ UNCHANGED <<cand, order, task, queue, places, requests, typed, clicks, misled>>
    BY DEF Inspected
  <1>2. \A q \in requests' : q \in Requests /\ RequestOK(q)'
    BY <1>1 DEF IInv, TypeOK, RequestInv, RequestOK, OwnCards, Own
  <1>3. TypeOK'
    BY <1>1, <1>2, ReviewConstants DEF IInv, TypeOK
  <1>4. StoreInv' /\ ScreenInv' /\ RequestInv'
    BY <1>1, <1>2, ScreenKept DEF IInv, StoreInv, RequestInv
  <1> QED BY <1>3, <1>4 DEF IInv

LEMMA OtherInv ==
  ASSUME IInv, NEW c \in Cards, Other(c)
  PROVE  IInv'
  <1>1. /\ others' \in 0 .. MaxOthers /\ order' = Latest(c)
        /\ requests' \subseteq Disturbed(requests, c) \cup {}
        /\ UNCHANGED <<report, queue, places, clicks, misled>>
    BY ReviewConstants DEF Other, IInv, TypeOK
  <1>2. /\ typed \in 0 .. MaxTyped /\ task \in [Cards -> Notes] /\ cand[c].text \in Texts
        /\ cand \in [Cards -> Candidates] /\ cand[c].note \in Notes
    BY DEF IInv, TypeOK, Candidates
  <1>3. c \notin misled => /\ cand[c].text[1] = c
                           /\ cand[c].note = None \/ cand[c].note[1] = c
                           /\ task[c] = None \/ task[c][1] = c
    BY DEF IInv, StoreInv
  <1>4. ASSUME NEW s \in {"confirmed", "rejected", "archived"}, cand' = Decided(c, s, None),
               UNCHANGED <<task, typed>>
        PROVE  IInv'
    <2>1. /\ cand' \in [Cards -> Candidates] /\ cand'[c].text = cand[c].text
          /\ cand'[c].note = None /\ \A d \in Cards \ {c} : cand'[d] = cand[d]
      BY <1>4, DecidedCandidate DEF Statuses, Notes
    <2>2. Rewrites(c, {})
      BY <1>1, <1>2, <1>3, <1>4, <2>1 DEF Rewrites
    <2> QED BY <2>2, Written
  <1>5. ASSUME typed < MaxTyped, typed' = typed + 1, UNCHANGED task,
               cand' = [cand EXCEPT ![c].text = <<c, typed + 1>>]
        PROVE  IInv'
    <2>1. typed' \in 0 .. MaxTyped /\ <<c, typed + 1>> \in Texts
      BY <1>2, <1>5, ReviewConstants DEF Texts
    <2>2. /\ cand' \in [Cards -> Candidates] /\ cand'[c].text[1] = c
          /\ cand'[c].note = cand[c].note /\ \A d \in Cards \ {c} : cand'[d] = cand[d]
      BY <1>2, <1>5, <2>1 DEF Candidates
    <2>3. Rewrites(c, {})
      BY <1>1, <1>2, <1>3, <1>5, <2>1, <2>2 DEF Rewrites
    <2> QED BY <2>3, Written
  <1>6. ASSUME task' = [task EXCEPT ![c] = cand[c].text], cand' = Decided(c, "confirmed", None),
               UNCHANGED typed
        PROVE  IInv'
    <2>1. /\ cand' \in [Cards -> Candidates] /\ cand'[c].text = cand[c].text
          /\ cand'[c].note = None /\ \A d \in Cards \ {c} : cand'[d] = cand[d]
      BY <1>6, DecidedCandidate DEF Statuses, Notes
    <2>2. /\ task' \in [Cards -> Notes] /\ task'[c] = cand[c].text
          /\ \A d \in Cards \ {c} : task'[d] = task[d]
      BY <1>2, <1>6 DEF Notes
    <2>3. Rewrites(c, {})
      BY <1>1, <1>2, <1>3, <1>6, <2>1, <2>2 DEF Rewrites
    <2> QED BY <2>3, Written
  <1> QED BY <1>4, <1>5, <1>6 DEF Other

LEMMA ARequest ==
  ASSUME IInv, NEW r \in requests
  PROVE  /\ r \in Requests /\ RequestOK(r)
         /\ r.card \in Cards /\ r.op \in Ops /\ r.words \in Notes /\ r.reply \in Seq(Shown)
         /\ r.here \in BOOLEAN /\ r.place \in Nat
  BY DEF IInv, TypeOK, RequestInv, Requests

LEMMA DisturbedPart ==
  ASSUME NEW c, NEW r
  PROVE  Disturbed(requests \ {r}, c) \subseteq Disturbed(requests, c)
  BY DEF Disturbed

LEMMA ListInv ==
  ASSUME IInv
  PROVE  List \in Seq(Shown) /\ OwnCards(List)
  <1>1. /\ order \in Orders /\ report \in Reports /\ cand \in [Cards -> Candidates]
        /\ \A c \in Cards \ misled : cand[c].text[1] = c
    BY DEF IInv, TypeOK, StoreInv
  <1> QED BY <1>1, OwnList DEF List

\* The bounds that the writes of requests leave alone.
LEMMA Bounds ==
  ASSUME IInv, UNCHANGED <<typed, others>>
  PROVE  typed' \in 0 .. MaxTyped /\ others' \in 0 .. MaxOthers
  BY DEF IInv, TypeOK

LEMMA WriteInv ==
  ASSUME IInv, NEW r \in requests, Write(r)
  PROVE  IInv'
  <1> DEFINE c == r.card
             q == [r EXCEPT !.at = "written"]
  <1>1. /\ r.op \in {"confirm", "reject", "edit"} /\ order' = Latest(c)
        /\ cand' = IF r.op = "edit" THEN [cand EXCEPT ![c].text = r.words, ![c].note = None]
                                    ELSE Decided(c, Verdict[r.op], r.words)
        /\ requests' = Disturbed(requests \ {r}, c) \cup {q}
        /\ UNCHANGED <<report, task, queue, places, typed, clicks, others, misled>>
    BY DEF Write, Moved
  <1>2. /\ r \in Requests /\ RequestOK(r) /\ c \in Cards /\ r.words \in Notes
        /\ cand \in [Cards -> Candidates] /\ task \in [Cards -> Notes] /\ None \in Notes
        /\ c \notin misled => /\ cand[c].text[1] = c
                              /\ task[c] = None \/ task[c][1] = c
    BY ARequest DEF IInv, TypeOK, StoreInv, Notes
  <1>3. /\ requests' \subseteq Disturbed(requests, c) \cup {q}
        /\ typed' \in 0 .. MaxTyped /\ others' \in 0 .. MaxOthers
    BY <1>1, DisturbedPart, Bounds
  <1>4. q \in Requests /\ q.card = c /\ q.words = r.words /\ q.op = r.op /\ q.at = "written"
        /\ q.reply = r.reply
    BY <1>2 DEF Requests
  <1>5. CASE r.op = "edit"
    <2>1. r.words \in Texts /\ Own(r.words, c)
      BY <1>2, <1>5 DEF RequestOK
    <2>2. cand' = Edited(c, r.words)
      BY <1>1, <1>5 DEF Edited
    <2>3. /\ cand' \in [Cards -> Candidates] /\ cand'[c].text = r.words
          /\ cand'[c].note = None /\ \A d \in Cards \ {c} : cand'[d] = cand[d]
      BY <1>2, <2>1, <2>2, EditedCandidate
    <2>4. Rewrites(c, {q})
      BY <1>1, <1>2, <1>3, <2>1, <2>3 DEF Rewrites, Own
    <2>5. RequestOK(q)'
      BY <1>1, <1>2, <1>4, <1>5, <2>3 DEF RequestOK, OwnCards, Own
    <2> QED BY <1>2, <1>4, <2>4, <2>5, Written
  <1>6. CASE r.op \in {"confirm", "reject"}
    <2>1. r.words = None \/ Own(r.words, c)
      BY <1>2, <1>6 DEF RequestOK
    <2>2. Verdict[r.op] \in Statuses /\ cand' = Decided(c, Verdict[r.op], r.words)
      BY <1>1, <1>6 DEF Verdict, Statuses
    <2>3. /\ cand' \in [Cards -> Candidates] /\ cand'[c].text = cand[c].text
          /\ cand'[c].note = r.words /\ \A d \in Cards \ {c} : cand'[d] = cand[d]
      BY <1>2, <2>2, DecidedCandidate
    <2>4. Rewrites(c, {q})
      BY <1>1, <1>2, <1>3, <2>1, <2>3 DEF Rewrites, Own
    <2>5. RequestOK(q)'
      BY <1>1, <1>2, <1>4, <1>6 DEF RequestOK, OwnCards, Own
    <2> QED BY <1>2, <1>4, <2>4, <2>5, Written
  <1> QED BY <1>1, <1>5, <1>6

LEMMA LoadInv ==
  ASSUME IInv, NEW r \in requests, Load(r)
  PROVE  IInv'
  <1> DEFINE q == [r EXCEPT !.at = "answered", !.reply = List]
  <1>1. /\ r.op \in {"confirm", "reject"} /\ requests' = (requests \ {r}) \cup {q}
        /\ UNCHANGED <<cand, order, report, task, queue, places, typed, clicks, others, misled>>
    BY DEF Load, store
  <1>2. q \in Requests /\ RequestOK(q)
    BY <1>1, ARequest, ListInv, RequestMoved
  <1>3. \A p \in requests' : p \in Requests /\ RequestOK(p)'
    BY <1>1, <1>2, ARequest, RequestKept DEF store
  <1>4. TypeOK' /\ StoreInv' /\ RequestInv'
    BY <1>1, <1>3 DEF IInv, TypeOK, StoreInv, RequestInv
  <1> QED BY <1>1, <1>4, ScreenKept DEF IInv

LEMMA AskInv ==
  ASSUME IInv, NEW r \in requests, Ask(r)
  PROVE  IInv'
  <1> DEFINE q == [r EXCEPT !.at = "checked"]
  <1>1. /\ r.op = "archive" /\ requests' = (requests \ {r}) \cup {q}
        /\ UNCHANGED <<cand, order, report, task, queue, places, typed, clicks, others, misled>>
    BY DEF Ask, store
  <1>2. q \in Requests /\ RequestOK(q)
    BY <1>1, ARequest DEF Requests, RequestOK
  <1>3. \A p \in requests' : p \in Requests /\ RequestOK(p)'
    BY <1>1, <1>2, ARequest, RequestKept DEF store
  <1>4. TypeOK' /\ StoreInv' /\ RequestInv'
    BY <1>1, <1>3 DEF IInv, TypeOK, StoreInv, RequestInv
  <1> QED BY <1>1, <1>4, ScreenKept DEF IInv

LEMMA PublishInv ==
  ASSUME IInv, NEW r \in requests, Publish(r)
  PROVE  IInv'
  <1> DEFINE c == r.card
             decided == Decided(c, "confirmed", None)
             list == Listed(decided, Latest(c))
             q == [r EXCEPT !.at = "answered", !.reply = list]
  <1>1. /\ Publishable(r) /\ task' = [task EXCEPT ![c] = cand[c].text]
        /\ cand' = decided /\ order' = Latest(c)
        /\ requests' = Disturbed(requests \ {r}, c) \cup {q}
        /\ UNCHANGED <<report, queue, places, typed, clicks, others, misled>>
    BY DEF Publish, Answered
  <1>2. /\ r \in Requests /\ RequestOK(r) /\ c \in Cards /\ None \in Notes
        /\ cand \in [Cards -> Candidates] /\ task \in [Cards -> Notes]
        /\ cand[c].text \in Notes /\ order \in Orders /\ report \in Reports
        /\ \A d \in Cards \ misled : cand[d].text[1] = d
    BY ARequest DEF IInv, TypeOK, StoreInv, Notes, Candidates
  <1>3. /\ decided \in [Cards -> Candidates] /\ decided[c].text = cand[c].text
        /\ decided[c].note = None /\ \A d \in Cards \ {c} : decided[d] = cand[d]
    BY <1>2, DecidedCandidate DEF Statuses
  <1>4. /\ task' \in [Cards -> Notes] /\ task'[c] = cand[c].text
        /\ \A d \in Cards \ {c} : task'[d] = task[d]
    BY <1>1, <1>2
  <1>5. list \in Seq(Shown) /\ OwnCards(list)
    <2>1. \A d \in Cards \ misled : decided[d].text[1] = d
      BY <1>2, <1>3
    <2> HIDE DEF decided
    <2> QED BY <1>2, <1>3, <2>1, LatestIsAnOrder, OwnList
  <1> HIDE DEF decided, list
  <1>6. /\ q \in Requests /\ q.card = c /\ q.words = r.words /\ q.op = r.op /\ q.at = "answered"
        /\ q.reply = list /\ q.alone = r.alone
    BY <1>2, <1>5 DEF Requests
  <1>7. r.op = "edit" /\ r.alone => cand[c].text = r.words
    BY <1>1, <1>2 DEF Publishable, RequestOK
  <1>8. \A p \in {q} : p \in Requests /\ RequestOK(p)'
    <2> TAKE p \in {q}
    <2>1. /\ p \in Requests /\ p.card = c /\ p.words = r.words /\ p.op = r.op
          /\ p.at = "answered" /\ p.reply = list /\ p.alone = r.alone /\ OwnCards(p.reply)
      BY <1>5, <1>6
    <2>2. OwnCards(p.reply)'
      BY <1>1, <2>1 DEF OwnCards, Own
    <2>3. r.op \notin {"confirm", "reject"}
      BY <1>1 DEF Publishable
    <2>4. r.op = "edit" => r.words \in Texts /\ Own(r.words, c)'
      BY <1>1, <1>2 DEF RequestOK, Own
    <2> HIDE DEF q
    <2> QED BY <1>1, <1>4, <1>7, <2>1, <2>2, <2>3, <2>4 DEF RequestOK, Own
  <1>9. /\ requests' \subseteq Disturbed(requests, c) \cup {q}
        /\ typed' \in 0 .. MaxTyped /\ others' \in 0 .. MaxOthers
    BY <1>1, DisturbedPart, Bounds
  <1>10. Rewrites(c, {q})
    BY <1>1, <1>2, <1>3, <1>4, <1>9 DEF Rewrites
  <1> QED BY <1>2, <1>8, <1>10, Written

LEMMA ArchiveInv ==
  ASSUME IInv, NEW r \in requests, Archive(r)
  PROVE  IInv'
  <1> DEFINE c == r.card
             decided == Decided(c, "archived", None)
             list == Listed(decided, Latest(c))
             q == [r EXCEPT !.at = "answered", !.reply = list]
  <1>1. /\ r.at = "checked" /\ UNCHANGED task
        /\ cand' = decided /\ order' = Latest(c)
        /\ requests' = Disturbed(requests \ {r}, c) \cup {q}
        /\ UNCHANGED <<report, queue, places, typed, clicks, others, misled>>
    BY DEF Archive, Answered
  <1>2. /\ r \in Requests /\ RequestOK(r) /\ c \in Cards /\ None \in Notes /\ r.op = "archive"
        /\ cand \in [Cards -> Candidates] /\ task \in [Cards -> Notes] /\ order \in Orders
        /\ report \in Reports
        /\ \A d \in Cards \ misled : cand[d].text[1] = d /\ (task[d] = None \/ task[d][1] = d)
    BY <1>1, ARequest DEF IInv, TypeOK, StoreInv, Notes, RequestOK
  <1>3. /\ decided \in [Cards -> Candidates] /\ decided[c].text = cand[c].text
        /\ decided[c].note = None /\ \A d \in Cards \ {c} : decided[d] = cand[d]
    BY <1>2, DecidedCandidate DEF Statuses
  <1>4. list \in Seq(Shown) /\ OwnCards(list)
    <2>1. \A d \in Cards \ misled : decided[d].text[1] = d
      BY <1>2, <1>3
    <2> HIDE DEF decided
    <2> QED BY <1>2, <1>3, <2>1, LatestIsAnOrder, OwnList
  <1> HIDE DEF decided, list
  <1>5. q \in Requests /\ RequestOK(q)
    BY <1>2, <1>4, RequestMoved
  <1>6. q.op = "archive"
    BY <1>2 DEF Requests
  <1>7. \A p \in {q} : p \in Requests /\ RequestOK(p)'
    <2> TAKE p \in {q}
    <2>1. p \in Requests /\ RequestOK(p) /\ p.op = "archive"
      BY <1>5, <1>6
    <2> HIDE DEF q
    <2> QED BY <1>1, <2>1 DEF RequestOK, OwnCards, Own
  <1>8. /\ requests' \subseteq Disturbed(requests, c) \cup {q}
        /\ typed' \in 0 .. MaxTyped /\ others' \in 0 .. MaxOthers
    BY <1>1, DisturbedPart, Bounds
  <1>9. Rewrites(c, {q})
    BY <1>1, <1>2, <1>3, <1>8 DEF Rewrites
  <1> QED BY <1>2, <1>7, <1>9, Written
-----------------------------------------------------------------------------
(* The screen *)

LEMMA ThePlaces ==
  ASSUME IInv
  PROVE  /\ queue \in Seq(Shown) /\ OwnCards(queue) /\ places \in [DOMAIN queue -> PlaceStates]
         /\ DOMAIN places = DOMAIN queue
         /\ \A i \in DOMAIN queue : /\ places[i] \in PlaceStates
                                    /\ PlaceOK(places[i], queue[i].card)
                                    /\ queue[i] \in Shown
                                    /\ queue[i].card \in Cards /\ queue[i].text \in Texts
                                    /\ Own(queue[i].text, queue[i].card)
  <1>1. queue \in Seq(Shown) /\ OwnCards(queue) /\ places \in [DOMAIN queue -> PlaceStates]
        /\ \A i \in DOMAIN queue : PlaceOK(places[i], queue[i].card)
    BY DEF IInv, TypeOK, ScreenInv
  <1> QED BY <1>1, ListOf DEF OwnCards

\* The cards, the state of their places and the requests after a step.
Redraws(list, states) ==
    /\ queue' = list /\ list \in Seq(Shown) /\ OwnCards(list)
    /\ places' = states /\ states \in [DOMAIN list -> PlaceStates]
    /\ \A i \in DOMAIN list : PlaceOK(states[i], list[i].card)
    /\ misled \subseteq misled' /\ misled' \subseteq Cards
    /\ typed' \in 0 .. MaxTyped /\ clicks' \in 0 .. MaxClicks
    /\ UNCHANGED <<cand, order, report, task, others>>

LEMMA Redrawn ==
  ASSUME IInv, NEW list, NEW states, Redraws(list, states),
         \A q \in requests' : q \in Requests /\ RequestOK(q)'
  PROVE  IInv'
  <1>1. TypeOK' /\ StoreInv' /\ RequestInv'
    BY StoreKept DEF IInv, TypeOK, RequestInv, Redraws, store
  <1>2. \A i \in DOMAIN list : PlaceOK(states[i], list[i].card) /\ Own(list[i].text, list[i].card)
    BY DEF Redraws, OwnCards
  <1>3. ScreenInv'
    BY <1>2 DEF Redraws, ScreenInv, OwnCards, PlaceOK, Own
  <1> QED BY <1>1, <1>3 DEF IInv

LEMMA SameBounds ==
  ASSUME IInv
  PROVE  /\ typed \in 0 .. MaxTyped /\ clicks \in 0 .. MaxClicks
         /\ misled \subseteq Cards
  BY DEF IInv, TypeOK

LEMMA FreshPlace ==
  ASSUME NEW shown \in Shown
  PROVE  Mounted(shown) \in PlaceStates /\ PlaceOK(Mounted(shown), shown.card)
  BY DEF Shown, Mounted, PlaceStates, Notes, PlaceOK

LEMMA EndedPlaces ==
  ASSUME IInv, NEW r \in requests, NEW closes \in BOOLEAN
  PROVE  /\ Ended(places, r, closes) \in [DOMAIN queue -> PlaceStates]
         /\ \A i \in DOMAIN queue : PlaceOK(Ended(places, r, closes)[i], queue[i].card)
  <1> DEFINE ended == Ended(places, r, closes)
             old == places[r.place]
             new == [[[old EXCEPT !.loading = @ \ Deciding(r.op)]
                           EXCEPT !.editing = @ /\ ~closes]
                           EXCEPT !.moved = IF closes THEN @ \ {"draft"} ELSE @]
  <1>1. CASE ~r.here \/ r.place \notin DOMAIN queue
    <2>1. ended = places
      BY <1>1, ThePlaces DEF Ended
    <2> QED BY <2>1, ThePlaces
  <1>2. CASE r.here /\ r.place \in DOMAIN queue
    <2>1. ended = [places EXCEPT ![r.place] = new]
      BY <1>2, ThePlaces DEF Ended
    <2>2. old \in PlaceStates /\ PlaceOK(old, queue[r.place].card)
      BY <1>2, ThePlaces
    <2>3. /\ new \in PlaceStates /\ new.note = old.note /\ new.draft = old.draft
          /\ new.editing = (old.editing /\ ~closes)
          /\ new.moved = IF closes THEN old.moved \ {"draft"} ELSE old.moved
      BY <2>2 DEF PlaceStates
    <2> HIDE DEF new, old
    <2>4. PlaceOK(new, queue[r.place].card)
      BY <2>2, <2>3 DEF PlaceOK
    <2>5. /\ ended \in [DOMAIN queue -> PlaceStates]
          /\ \A i \in DOMAIN queue : PlaceOK(ended[i], queue[i].card)
      <3> HIDE DEF ended
      <3> QED BY <1>2, <2>1, <2>3, <2>4, ThePlaces
    <2> QED BY <2>5
  <1> QED BY <1>1, <1>2

\* A place whose card is replaced knows that what is typed in it has moved.
LEMMA MovedPlace ==
  ASSUME NEW p \in PlaceStates, NEW c
  PROVE  LET q == [p EXCEPT !.moved = @ \cup Unsaved(p)] IN q \in PlaceStates /\ PlaceOK(q, c)
  <1> DEFINE q == [p EXCEPT !.moved = @ \cup Unsaved(p)]
  <1>1. /\ q \in PlaceStates /\ q.moved = p.moved \cup Unsaved(p)
        /\ q.note = p.note /\ q.editing = p.editing /\ q.draft = p.draft
    BY DEF PlaceStates, Unsaved
  <1> HIDE DEF q
  <1>2. PlaceOK(q, c)
    BY <1>1 DEF PlaceOK, Unsaved
  <1> QED BY <1>1, <1>2 DEF q

LEMMA RenderedPlaces ==
  ASSUME IInv, NEW S \in [DOMAIN queue -> PlaceStates],
         \A i \in DOMAIN queue : PlaceOK(S[i], queue[i].card),
         NEW list \in Seq(Shown)
  PROVE  /\ Rendered(S, list) \in [DOMAIN list -> PlaceStates]
         /\ \A i \in DOMAIN list : PlaceOK(Rendered(S, list)[i], list[i].card)
  <1> DEFINE after(i) == IF i \notin DOMAIN queue THEN Mounted(list[i])
                         ELSE IF list[i].card = queue[i].card THEN S[i]
                         ELSE [S[i] EXCEPT !.moved = @ \cup Unsaved(S[i])]
  <1>1. ASSUME NEW i \in DOMAIN list
        PROVE  after(i) \in PlaceStates /\ PlaceOK(after(i), list[i].card)
    <2>1. CASE i \notin DOMAIN queue
      <3>1. list[i] \in Shown /\ after(i) = Mounted(list[i])
        BY <2>1, ListOf
      <3> HIDE DEF after
      <3> QED BY <3>1, FreshPlace
    <2>2. CASE i \in DOMAIN queue /\ list[i].card = queue[i].card
      BY <2>2
    <2>3. CASE i \in DOMAIN queue /\ list[i].card # queue[i].card
      <3>1. S[i] \in PlaceStates /\ after(i) = [S[i] EXCEPT !.moved = @ \cup Unsaved(S[i])]
        BY <2>3
      <3> HIDE DEF after
      <3> QED BY <3>1, MovedPlace
    <2> QED BY <2>1, <2>2, <2>3
  <1>2. Rendered(S, list) = [i \in DOMAIN list |-> after(i)]
    BY DEF Rendered
  <1> HIDE DEF after
  <1> QED BY <1>1, <1>2

LEMMA RequestsStillHere ==
  ASSUME IInv, NEW S \in SUBSET requests, NEW list, UNCHANGED store, misled \subseteq misled'
  PROVE  \A q \in StillHere(S, list) : q \in Requests /\ RequestOK(q)'
  <1> TAKE q \in StillHere(S, list)
  <1>1. PICK p \in S : q = [p EXCEPT !.here = @ /\ p.place \in DOMAIN list]
    BY DEF StillHere
  <1>2. p \in Requests /\ RequestOK(p) /\ p.here \in BOOLEAN
    BY ARequest
  <1>3. q \in Requests /\ RequestOK(q)
    BY <1>1, <1>2, HereOrNot
  <1> QED BY <1>3, RequestKept

LEMMA RefreshInv ==
  ASSUME IInv, Refresh
  PROVE  IInv'
  <1>1. /\ queue' = List /\ places' = Rendered(places, List)
        /\ requests' = StillHere(requests, List)
        /\ UNCHANGED store /\ UNCHANGED <<cand, order, report, task, typed, clicks, others, misled>>
    BY DEF Refresh, store
  <1>2. Redraws(List, places')
    BY <1>1, ListInv, ThePlaces, RenderedPlaces, SameBounds DEF Redraws
  <1>3. \A q \in requests' : q \in Requests /\ RequestOK(q)'
    BY <1>1, RequestsStillHere
  <1> QED BY <1>2, <1>3, Redrawn

LEMMA LandInv ==
  ASSUME IInv, NEW r \in requests, Land(r)
  PROVE  IInv'
  <1> DEFINE ended == Ended(places, r, r.op = "edit")
  <1>1. /\ queue' = r.reply /\ places' = Rendered(ended, r.reply)
        /\ requests' = StillHere(requests \ {r}, r.reply)
        /\ UNCHANGED store /\ UNCHANGED <<cand, order, report, task, typed, clicks, others, misled>>
    BY DEF Land, store
  <1>2. /\ ended \in [DOMAIN queue -> PlaceStates]
        /\ \A i \in DOMAIN queue : PlaceOK(ended[i], queue[i].card)
    BY EndedPlaces
  <1>3. r.reply \in Seq(Shown) /\ OwnCards(r.reply)
    BY ARequest DEF RequestOK
  <1>4. Redraws(r.reply, places')
    <2> HIDE DEF ended
    <2> QED BY <1>1, <1>2, <1>3, RenderedPlaces, SameBounds DEF Redraws
  <1>5. \A q \in requests' : q \in Requests /\ RequestOK(q)'
    BY <1>1, RequestsStillHere
  <1> QED BY <1>4, <1>5, Redrawn

LEMMA FailInv ==
  ASSUME IInv, NEW r \in requests, Fail(r)
  PROVE  IInv'
  <1>1. /\ places' = Ended(places, r, FALSE) /\ requests' = requests \ {r}
        /\ UNCHANGED store /\ UNCHANGED <<cand, order, report, task, queue, typed, clicks, others, misled>>
    BY DEF Fail, store
  <1>2. Redraws(queue, places')
    BY <1>1, EndedPlaces, ThePlaces, SameBounds DEF Redraws
  <1>3. \A q \in requests' : q \in Requests /\ RequestOK(q)'
    BY <1>1, ARequest, RequestKept
  <1> QED BY <1>2, <1>3, Redrawn

LEMMA ReopenInv ==
  ASSUME IInv, Reopen
  PROVE  IInv'
  <1>1. /\ places' = [i \in DOMAIN queue |-> Mounted(queue[i])]
        /\ requests' = {[q EXCEPT !.here = FALSE] : q \in requests}
        /\ UNCHANGED store /\ UNCHANGED <<cand, order, report, task, queue, typed, clicks, others, misled>>
    BY DEF Reopen, store
  <1>2. Redraws(queue, places')
    BY <1>1, ThePlaces, FreshPlace, SameBounds DEF Redraws
  <1>3. \A q \in requests' : q \in Requests /\ RequestOK(q)
    BY <1>1, ARequest, HereOrNot
  <1>4. \A q \in requests' : q \in Requests /\ RequestOK(q)'
    BY <1>1, <1>3, RequestKept
  <1> QED BY <1>2, <1>4, Redrawn
-----------------------------------------------------------------------------
(* The places *)

\* One place changes, and no request and nothing of the store does.
LEMMA OnePlace ==
  ASSUME IInv, NEW i \in DOMAIN queue, NEW p \in PlaceStates, PlaceOK(p, queue[i].card),
         places' = [places EXCEPT ![i] = p], typed' \in 0 .. MaxTyped,
         UNCHANGED <<cand, order, report, task, queue, requests, clicks, others, misled>>
  PROVE  IInv'
  <1>1. /\ places' \in [DOMAIN queue -> PlaceStates]
        /\ \A j \in DOMAIN queue : PlaceOK(places'[j], queue[j].card)
    BY ThePlaces
  <1>2. Redraws(queue, places')
    BY <1>1, ThePlaces, SameBounds DEF Redraws
  <1>3. \A q \in requests' : q \in Requests /\ RequestOK(q)'
    BY ARequest, RequestKept DEF store
  <1> QED BY <1>2, <1>3, Redrawn

LEMMA OpenEditorInv ==
  ASSUME IInv, NEW i \in DOMAIN queue, OpenEditor(i)
  PROVE  IInv'
  <1> DEFINE old == places[i]
             p == [[[old EXCEPT !.editing = TRUE] EXCEPT !.draft = queue[i].text]
                         EXCEPT !.moved = @ \ {"draft"}]
  <1>1. /\ places' = [places EXCEPT ![i] = p] /\ typed' = typed
        /\ UNCHANGED <<cand, order, report, task, queue, requests, clicks, others, misled>>
    BY DEF OpenEditor, Opened, store
  <1>2. /\ old \in PlaceStates /\ PlaceOK(old, queue[i].card)
        /\ queue[i].text \in Texts /\ Own(queue[i].text, queue[i].card)
    BY ThePlaces
  <1>3. /\ p \in PlaceStates /\ p.draft = queue[i].text /\ p.note = old.note
        /\ "note" \in old.moved => "note" \in p.moved
    BY <1>2 DEF PlaceStates
  <1>4. PlaceOK(p, queue[i].card)
    <2> HIDE DEF p
    <2> QED BY <1>2, <1>3 DEF PlaceOK
  <1> HIDE DEF p
  <1> QED BY <1>1, <1>3, <1>4, SameBounds, OnePlace

LEMMA CloseEditorInv ==
  ASSUME IInv, NEW i \in DOMAIN queue, CloseEditor(i)
  PROVE  IInv'
  <1> DEFINE old == places[i]
             p == [[old EXCEPT !.editing = FALSE] EXCEPT !.moved = @ \ {"draft"}]
  <1>1. /\ places' = [places EXCEPT ![i] = p] /\ typed' = typed
        /\ UNCHANGED <<cand, order, report, task, queue, requests, clicks, others, misled>>
    BY ThePlaces DEF CloseEditor, store
  <1>2. old \in PlaceStates /\ PlaceOK(old, queue[i].card)
    BY ThePlaces
  <1>3. /\ p \in PlaceStates /\ ~p.editing /\ p.note = old.note
        /\ "note" \in old.moved => "note" \in p.moved
    BY <1>2 DEF PlaceStates
  <1>4. PlaceOK(p, queue[i].card)
    <2> HIDE DEF p
    <2> QED BY <1>2, <1>3 DEF PlaceOK
  <1> HIDE DEF p
  <1> QED BY <1>1, <1>3, <1>4, SameBounds, OnePlace

LEMMA TypeDraftInv ==
  ASSUME IInv, NEW i \in DOMAIN queue, TypeDraft(i)
  PROVE  IInv'
  <1> DEFINE old == places[i]
             p == [old EXCEPT !.draft = <<old.draft[1], typed + 1>>]
  <1>1. /\ places' = [places EXCEPT ![i] = p] /\ typed' = typed + 1 /\ typed < MaxTyped
        /\ old.editing
        /\ UNCHANGED <<cand, order, report, task, queue, requests, clicks, others, misled>>
    BY ThePlaces DEF TypeDraft, store
  <1>2. /\ old \in PlaceStates /\ PlaceOK(old, queue[i].card) /\ old.draft \in Texts
        /\ typed \in 0 .. MaxTyped /\ typed' \in 0 .. MaxTyped
    BY <1>1, ThePlaces, SameBounds, ReviewConstants DEF PlaceStates
  <1>3. <<old.draft[1], typed + 1>> \in Texts
    BY <1>1, <1>2 DEF Texts
  <1>4. /\ p \in PlaceStates /\ p.draft[1] = old.draft[1] /\ p.note = old.note
        /\ p.moved = old.moved
    BY <1>2, <1>3 DEF PlaceStates
  <1>5. PlaceOK(p, queue[i].card)
    <2> HIDE DEF p
    <2> QED BY <1>1, <1>2, <1>4 DEF PlaceOK, Own
  <1> HIDE DEF p
  <1> QED BY <1>1, <1>2, <1>4, <1>5, OnePlace

LEMMA TypeNoteInv ==
  ASSUME IInv, NEW i \in DOMAIN queue, TypeNote(i)
  PROVE  IInv'
  <1> DEFINE old == places[i]
             p == [[old EXCEPT !.note = <<queue[i].card, typed + 1>>]
                        EXCEPT !.moved = @ \ {"note"}]
  <1>1. /\ places' = [places EXCEPT ![i] = p] /\ typed' = typed + 1 /\ typed < MaxTyped
        /\ UNCHANGED <<cand, order, report, task, queue, requests, clicks, others, misled>>
    BY ThePlaces DEF TypeNote, store
  <1>2. /\ old \in PlaceStates /\ PlaceOK(old, queue[i].card) /\ queue[i].card \in Cards
        /\ typed \in 0 .. MaxTyped /\ typed' \in 0 .. MaxTyped
    BY <1>1, ThePlaces, SameBounds, ReviewConstants
  <1>3. <<queue[i].card, typed + 1>> \in Notes
    BY <1>1, <1>2 DEF Texts, Notes
  <1>4. /\ p \in PlaceStates /\ p.note[1] = queue[i].card /\ p.draft = old.draft
        /\ p.editing = old.editing
        /\ "draft" \in old.moved => "draft" \in p.moved
    BY <1>2, <1>3 DEF PlaceStates
  <1>5. PlaceOK(p, queue[i].card)
    <2> HIDE DEF p
    <2> QED BY <1>2, <1>4 DEF PlaceOK, Own
  <1> HIDE DEF p
  <1> QED BY <1>1, <1>2, <1>4, <1>5, OnePlace

LEMMA ClickInv ==
  ASSUME IInv, NEW i \in DOMAIN queue, NEW op \in Ops, Click(i, op)
  PROVE  IInv'
  <1> DEFINE c == queue[i].card
             old == places[i]
             p == [old EXCEPT !.loading = (@ \ Deciding(op)) \cup {op}]
             words == CASE op = "edit" -> old.draft
                        [] op \in {"confirm", "reject"} -> old.note
                        [] OTHER -> None
             new == [op |-> op, card |-> c, place |-> i, here |-> TRUE, at |-> "sent",
                     words |-> words, reply |-> << >>, alone |-> TRUE]
  <1>1. /\ op \in Offered(i) /\ clicks < MaxClicks /\ clicks' = clicks + 1
        /\ places' = [places EXCEPT ![i] = p] /\ requests' = requests \cup {new}
        /\ misled' = IF WordsOf(op) \in old.moved THEN misled \cup {c} ELSE misled
        /\ UNCHANGED store
        /\ UNCHANGED <<cand, order, report, task, queue, typed, others>>
    BY ThePlaces DEF Click, store
  <1>2. /\ old \in PlaceStates /\ PlaceOK(old, c) /\ c \in Cards
        /\ old.draft \in Texts /\ old.note \in Notes /\ i \in Nat
    <2>1. i \in Nat
      BY ThePlaces, ListOf
    <2> QED BY <2>1, ThePlaces DEF PlaceStates
  <1>3. misled \subseteq misled' /\ misled' \subseteq Cards /\ clicks' \in 0 .. MaxClicks
    BY <1>1, <1>2, SameBounds, ReviewConstants
  <1>4. p \in PlaceStates /\ PlaceOK(p, c)
    <2>1. /\ p \in PlaceStates /\ p.note = old.note /\ p.draft = old.draft
          /\ p.editing = old.editing /\ p.moved = old.moved
      BY <1>2 DEF PlaceStates
    <2> HIDE DEF p
    <2> QED BY <1>2, <2>1 DEF PlaceOK
  <1>5. Redraws(queue, places')
    <2> HIDE DEF p
    <2>1. /\ places' \in [DOMAIN queue -> PlaceStates]
          /\ \A j \in DOMAIN queue : PlaceOK(places'[j], queue[j].card)
      BY <1>1, <1>4, ThePlaces
    <2> QED BY <1>1, <1>3, <2>1, ThePlaces, SameBounds DEF Redraws
  <1>6. op = "edit" => old.editing /\ words = old.draft
    BY <1>1 DEF Offered
  <1>7. op \in {"confirm", "reject"} => words = old.note
    OBVIOUS
  <1>8. words \in Notes
    BY <1>2, <1>6, <1>7 DEF Notes
  <1> HIDE DEF words
  <1>9. op = "edit" => words \in Texts /\ (words[1] = c \/ c \in misled')
    BY <1>1, <1>2, <1>3, <1>6 DEF PlaceOK, Own, WordsOf
  <1>10. op \in {"confirm", "reject"} => words = None \/ words[1] = c \/ c \in misled'
    BY <1>1, <1>2, <1>3, <1>7 DEF PlaceOK, Own, WordsOf
  <1>11. \A q \in {new} : q \in Requests /\ RequestOK(q)'
    <2> TAKE q \in {new}
    <2>1. new \in Requests
      BY <1>2, <1>8 DEF Requests
    <2>2. q.op = op /\ q.card = c /\ q.words = words /\ q.at = "sent" /\ q.reply = << >>
      OBVIOUS
    <2>3. OwnCards(q.reply)'
      BY <2>2 DEF OwnCards
    <2>4. q \in Requests
      BY <2>1
    <2> HIDE DEF new, c
    <2> QED BY <1>9, <1>10, <2>2, <2>3, <2>4 DEF RequestOK, Own
  <1>12. \A q \in requests' : q \in Requests /\ RequestOK(q)'
    <2> HIDE DEF new
    <2> QED BY <1>1, <1>3, <1>11, ARequest, RequestKept
  <1> QED BY <1>5, <1>12, Redrawn
-----------------------------------------------------------------------------
LEMMA NextInv == IInv /\ [Next]_vars => IInv'
  <1> SUFFICES ASSUME IInv, [Next]_vars PROVE IInv'
    OBVIOUS
  <1>1. ASSUME NEW c \in Cards, File(c) \/ Other(c) PROVE IInv'
    BY <1>1, FileInv, OtherInv
  <1>2. ASSUME NEW i \in DOMAIN queue,
               \/ OpenEditor(i) \/ CloseEditor(i) \/ TypeDraft(i) \/ TypeNote(i)
               \/ \E op \in Ops : Click(i, op)
        PROVE  IInv'
    BY <1>2, OpenEditorInv, CloseEditorInv, TypeDraftInv, TypeNoteInv, ClickInv
  <1>3. ASSUME NEW r \in requests,
               \/ Write(r) \/ Load(r) \/ Publish(r) \/ Ask(r)
               \/ Archive(r) \/ Land(r) \/ Fail(r)
        PROVE  IInv'
    BY <1>3, WriteInv, LoadInv, PublishInv, AskInv, ArchiveInv, LandInv, FailInv
  <1>4. CASE UNCHANGED vars
    <2>1. UNCHANGED <<cand, order, report, task, queue, places, requests, typed, clicks, others, misled>>
      BY <1>4 DEF vars
    <2>2. TypeOK' /\ StoreInv' /\ ScreenInv'
      BY <2>1, ScreenKept DEF IInv, TypeOK, StoreInv
    <2>3. RequestInv'
      BY <2>1, RequestKept DEF IInv, RequestInv, store
    <2> QED BY <2>2, <2>3 DEF IInv
  <1>5. ASSUME NEW lists \in Reports, Inspected(lists) PROVE IInv'
    BY <1>5, InspectedInv
  <1> QED BY <1>1, <1>2, <1>3, <1>4, <1>5, RefreshInv, ReopenInv DEF Next

\* The inductive invariant holds, for any number of cards and clicks.
THEOREM Invariance == Spec => []IInv
  BY InitInv, NextInv, PTL DEF Spec

\* Candidates, cards, places and requests keep their form.
THEOREM TypeCorrect == Spec => []TypeOK
  <1>1. IInv => TypeOK
    BY DEF IInv
  <1> QED BY <1>1, Invariance, PTL

\* However the queue moves under what is typed and late replies bring back older
\* queues, the words of one candidate reach another only from a place that moved.
THEOREM WordsAreOwn == Spec => []OwnWords
  <1>1. IInv => OwnWords
    BY DEF IInv, StoreInv, OwnWords
  <1> QED BY <1>1, Invariance, PTL

\* Between the two requests of an edit nothing of the panel comes between the text
\* and the task that is published from it.
THEOREM TasksAreAsEdited == Spec => []PublishedAsEdited
  <1>1. IInv => PublishedAsEdited
    BY DEF IInv, RequestInv, RequestOK, PublishedAsEdited
  <1> QED BY <1>1, Invariance, PTL
=============================================================================
