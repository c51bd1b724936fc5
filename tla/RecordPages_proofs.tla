--------------------------- MODULE RecordPages_proofs ---------------------------
(***************************************************************************)
(* Proofs about RecordPages, for any RRsets, page size and bounds: the     *)
(* pages have the right size and number, paging onward skips and repeats   *)
(* nothing, and the rows of the table exist.                               *)
(***************************************************************************)
EXTENDS RecordPages, FiniteSetTheorems, SequenceTheorems, WellFoundedInduction, TLAPS
--------------------------------------------------------------------------------
(* The first ones of a set of RRsets *)

LEMMA KeysFinite ==
    ASSUME NEW S \in SUBSET Key
    PROVE  S \subseteq Nat /\ IsFiniteSet(S) /\ Cardinality(S) \in Nat
BY PagesAssumption, FS_Subset, FS_CardinalityType DEF PagesAssumption

LEMMA LeastNumber ==
    ASSUME NEW T \in SUBSET Nat, T # {}
    PROVE  \E m \in T : \A x \in T : m <= x
<1>1. PICK m \in T : \A x \in T : ~ (<<x, m>> \in OpToRel(<, Nat))
  BY NatLessThanWellFounded, WFMin
<1>2. \A x \in T : ~ (x < m)
  BY <1>1 DEF OpToRel
<1> QED
  BY <1>2

LEMMA SmallestIsLeast ==
    ASSUME NEW S \in SUBSET Key, S # {}
    PROVE  Smallest(S) \in S /\ \A k \in S : Smallest(S) <= k
BY KeysFinite, LeastNumber DEF Smallest

\* The one that has the fewest above it.
LEMMA LargestIsGreatest ==
    ASSUME NEW S \in SUBSET Key, S # {}
    PROVE  Largest(S) \in S /\ \A k \in S : k <= Largest(S)
<1> DEFINE Above(k) == {j \in S : j > k}
           N == {Cardinality(Above(k)) : k \in S}
<1>1. S \subseteq Nat
  BY KeysFinite
<1>2. \A k \in S : Above(k) \in SUBSET Key
  OBVIOUS
<1>3. ASSUME NEW j \in S, NEW k \in S, j < k
      PROVE  Above(k) \in SUBSET Above(j) /\ k \in Above(j) /\ k \notin Above(k)
  <2>1. j \in Nat /\ k \in Nat /\ \A i \in S : i \in Nat
    BY <1>1
  <2>2. \A i \in S : i > k => i > j
    BY <1>3, <2>1
  <2>3. k > j /\ ~ (k > k)
    BY <1>3, <2>1
  <2> QED
    BY <2>2, <2>3
<1> HIDE DEF Above
<1>4. \A k \in S : IsFiniteSet(Above(k)) /\ Cardinality(Above(k)) \in Nat
  BY <1>2, KeysFinite
<1>5. PICK least \in N : \A n \in N : least <= n
  <2>1. N \in SUBSET Nat /\ N # {}
    BY <1>4
  <2> HIDE DEF N
  <2> QED
    BY <2>1, LeastNumber
<1>6. PICK m \in S : least = Cardinality(Above(m))
  OBVIOUS
<1>7. ASSUME NEW k \in S, m < k PROVE FALSE
  <2>1. Above(k) \in SUBSET Above(m) /\ Above(k) # Above(m)
    BY <1>3, <1>7
  <2>2. Cardinality(Above(k)) <= Cardinality(Above(m)) /\ Cardinality(Above(k)) # Cardinality(Above(m))
    BY <1>4, <2>1, FS_Subset
  <2>3. Cardinality(Above(m)) <= Cardinality(Above(k))
    BY <1>5, <1>6
  <2> QED
    BY <1>4, <2>2, <2>3
<1>8. \A k \in S : k <= m
  BY <1>1, <1>7
<1> QED
  BY <1>8 DEF Largest

\* What is below each of the first ones is among them.
LEMMA FirstOfIsLow ==
    ASSUME NEW S \in SUBSET Key, NEW n \in Nat
    PROVE  /\ FirstOf(S, n) \subseteq S
           /\ \A k \in FirstOf(S, n), j \in S : j < k => j \in FirstOf(S, n)
           /\ \A k \in FirstOf(S, n), j \in S \ FirstOf(S, n) : k < j
<1> DEFINE Below(k) == {j \in S : j < k}
<1>1. S \subseteq Nat
  BY KeysFinite
<1>2. FirstOf(S, n) = {k \in S : Cardinality(Below(k)) < n}
  BY DEF FirstOf
<1>3. \A k \in S : Below(k) \in SUBSET Key
  OBVIOUS
<1>4. ASSUME NEW k \in S, NEW j \in S, j < k PROVE Below(j) \in SUBSET Below(k)
  <2>1. \A i \in S : i < j => i < k
    BY <1>1, <1>4
  <2> QED
    BY <2>1
<1> HIDE DEF Below
<1>5. \A k \in S : IsFiniteSet(Below(k)) /\ Cardinality(Below(k)) \in Nat
  BY <1>3, KeysFinite
<1>6. \A k \in S, j \in S : j < k => Cardinality(Below(j)) <= Cardinality(Below(k))
  BY <1>4, <1>5, FS_Subset
<1>7. \A k \in FirstOf(S, n), j \in S : j < k => j \in FirstOf(S, n)
  BY <1>2, <1>5, <1>6
<1>8. FirstOf(S, n) \subseteq S
  BY <1>2
<1>9. ASSUME NEW k \in FirstOf(S, n), NEW j \in S \ FirstOf(S, n) PROVE k < j
  <2>1. k \in Nat /\ j \in Nat /\ j # k
    BY <1>1, <1>8
  <2>2. ~ (j < k)
    BY <1>7
  <2> QED
    BY <2>1, <2>2
<1> QED
  BY <1>7, <1>8, <1>9

\* There are at most n of them, and all n when others are left.
LEMMA FirstOfSize ==
    ASSUME NEW S \in SUBSET Key, NEW n \in Nat
    PROVE  /\ Cardinality(FirstOf(S, n)) <= n
           /\ S \ FirstOf(S, n) # {} => Cardinality(FirstOf(S, n)) = n
<1> DEFINE F == FirstOf(S, n)
           Below(k) == {j \in S : j < k}
<1>1. F \in SUBSET S /\ S \subseteq Nat /\ IsFiniteSet(S) /\ IsFiniteSet(F)
      /\ Cardinality(F) \in Nat
  BY KeysFinite, FirstOfIsLow
<1>2. Cardinality(F) <= n
  <2>1. CASE F = {}
    BY <2>1, FS_EmptySet
  <2>2. CASE F # {}
    <3>1. PICK m \in F : \A k \in F : k <= m
      BY <1>1, <2>2, LargestIsGreatest
    <3>2. F \ {m} \in SUBSET Below(m)
      <4>1. F \subseteq S /\ S \subseteq Nat
        BY <1>1
      <4> HIDE DEF F
      <4> QED
        BY <3>1, <4>1
    <3>3. IsFiniteSet(Below(m)) /\ Cardinality(Below(m)) \in Nat /\ Cardinality(Below(m)) < n
      BY KeysFinite, <1>1, <3>1 DEF FirstOf
    <3>4. Cardinality(F \ {m}) <= Cardinality(Below(m))
      BY <3>2, <3>3, FS_Subset
    <3>5. Cardinality(F \ {m}) = Cardinality(F) - 1
      BY <1>1, <3>1, FS_RemoveElement
    <3> HIDE DEF F, Below
    <3> QED
      BY <1>1, <3>3, <3>4, <3>5
  <2> QED
    BY <2>1, <2>2
<1>3. ASSUME S \ F # {} PROVE Cardinality(F) = n
  <2>1. PICK m \in S \ F : \A k \in S \ F : m <= k
    BY <1>1, <1>3, LeastNumber
  <2>2. Below(m) = F
    <3>1. F \subseteq S /\ S \subseteq Nat /\ \A k \in F : k < m
      BY <1>1, <2>1, FirstOfIsLow
    <3>2. \A j \in S : j \notin F => ~ (j < m)
      <4>1. \A j \in S : j \in Nat
        BY <3>1
      <4> HIDE DEF F
      <4> QED
        BY <2>1, <4>1
    <3> HIDE DEF F
    <3> QED
      BY <3>1, <3>2
  <2>3. ~ (Cardinality(Below(m)) < n)
    BY <2>1 DEF FirstOf
  <2> HIDE DEF F, Below
  <2> QED
    BY <1>1, <1>2, <2>2, <2>3
<1> QED
  BY <1>2, <1>3

\* The first page of what is left after n is what makes the first n + m.
LEMMA FirstOfSplits ==
    ASSUME NEW S \in SUBSET Key, NEW n \in Nat, NEW m \in Nat
    PROVE  LET rest == S \ FirstOf(S, n)
           IN  rest \ FirstOf(rest, m) = S \ FirstOf(S, n + m)
<1> DEFINE F == FirstOf(S, n)
           rest == S \ F
           In(T, k) == {j \in T : j < k}
<1>1. F \in SUBSET S /\ rest \in SUBSET S /\ S \subseteq Nat /\ IsFiniteSet(F)
      /\ IsFiniteSet(rest) /\ Cardinality(F) \in Nat
  BY KeysFinite, FirstOfIsLow
<1>2. ASSUME NEW k \in S
      PROVE  k \in rest /\ k \notin FirstOf(rest, m) <=> k \notin FirstOf(S, n + m)
  <2>1. \A T \in SUBSET S : IsFiniteSet(In(T, k)) /\ Cardinality(In(T, k)) \in Nat
    <3>1. \A T \in SUBSET S : In(T, k) \in SUBSET Key
      OBVIOUS
    <3> HIDE DEF In
    <3> QED
      BY <3>1, KeysFinite
  <2>2. CASE k \in rest
    <3>1. In(S, k) = F \cup In(rest, k) /\ F \cap In(rest, k) = {}
      <4>1. \A j \in F : j < k
        BY <2>2, FirstOfIsLow
      <4>2. F \subseteq S
        BY <1>1
      <4> HIDE DEF F
      <4> QED
        BY <4>1, <4>2
    <3>2. Cardinality(F) = n
      BY <2>2, FirstOfSize
    <3>3. Cardinality(In(S, k)) = Cardinality(F) + Cardinality(In(rest, k)) - 0
      <4> HIDE DEF F, In, rest
      <4> QED
        BY <1>1, <2>1, <3>1, FS_Union, FS_EmptySet
    <3>4. /\ k \in FirstOf(rest, m) <=> Cardinality(In(rest, k)) < m
          /\ k \in FirstOf(S, n + m) <=> Cardinality(In(S, k)) < n + m
      BY <2>2 DEF FirstOf
    <3>5. Cardinality(In(rest, k)) \in Nat
      BY <1>1, <2>1
    <3> HIDE DEF F, In, rest
    <3> QED
      BY <2>2, <3>2, <3>3, <3>4, <3>5
  <2>3. CASE k \in F
    <3>1. Cardinality(In(S, k)) < n /\ Cardinality(In(S, k)) \in Nat
      BY <2>1, <2>3 DEF FirstOf
    <3>2. Cardinality(In(S, k)) < n + m
      <4> HIDE DEF In
      <4> QED
        BY <3>1
    <3> QED
      BY <2>3, <3>2 DEF FirstOf
  <2> QED
    BY <2>2, <2>3
<1> QED
  BY <1>1, <1>2
--------------------------------------------------------------------------------
(* The parts of the steps *)

LEMMA RemoveAtIs ==
    ASSUME NEW S, NEW s \in Seq(S), NEW i \in DOMAIN s
    PROVE  /\ RemoveAt(s, i) \in Seq(S) /\ Len(RemoveAt(s, i)) = Len(s) - 1
           /\ \A j \in DOMAIN RemoveAt(s, i) : RemoveAt(s, i)[j] = IF j < i THEN s[j] ELSE s[j + 1]
<1> DEFINE a == SubSeq(s, 1, i - 1)
           b == SubSeq(s, i + 1, Len(s))
<1>1. i \in 1 .. Len(s) /\ Len(s) \in Nat /\ \A j \in 1 .. Len(s) : s[j] \in S
  BY LenProperties, ElementOfSeq
<1>2. /\ a \in Seq(S) /\ Len(a) = i - 1
      /\ \A j \in 1 .. i - 1 : a[j] = s[j]
  BY <1>1, SubSeqProperties
<1>3. /\ b \in Seq(S) /\ Len(b) = Len(s) - i
      /\ \A j \in 1 .. Len(s) - i : b[j] = s[i + j]
  <2>1. \A j \in i + 1 .. Len(s) : s[j] \in S
    BY <1>1
  <2>2. /\ b \in Seq(S) /\ Len(b) = IF i + 1 <= Len(s) THEN Len(s) - (i + 1) + 1 ELSE 0
        /\ \A j \in 1 .. Len(s) - (i + 1) + 1 : b[j] = s[(i + 1) + j - 1]
    BY <1>1, <2>1, SubSeqProperties
  <2> HIDE DEF b
  <2> QED
    BY <1>1, <2>2
<1> HIDE DEF a, b
<1>4. /\ a \o b \in Seq(S) /\ Len(a \o b) = Len(s) - 1
      /\ \A j \in 1 .. Len(s) - 1 : (a \o b)[j] = IF j <= i - 1 THEN a[j] ELSE b[j - (i - 1)]
  <2>1. Len(a) + Len(b) = Len(s) - 1
    BY <1>1, <1>2, <1>3
  <2>2. /\ a \o b \in Seq(S) /\ Len(a \o b) = Len(a) + Len(b)
        /\ \A j \in 1 .. Len(a) + Len(b) : (a \o b)[j] = IF j <= Len(a) THEN a[j] ELSE b[j - Len(a)]
    BY <1>2, <1>3, ConcatProperties
  <2> QED
    BY <1>2, <2>1, <2>2
<1>5. DOMAIN (a \o b) = 1 .. Len(s) - 1
  BY <1>4, LenProperties
<1>6. \A j \in 1 .. Len(s) - 1 : (a \o b)[j] = IF j < i THEN s[j] ELSE s[j + 1]
  <2> TAKE j \in 1 .. Len(s) - 1
  <2>1. CASE j < i
    BY <1>1, <1>2, <1>4, <2>1
  <2>2. CASE ~ (j < i)
    <3>1. ~ (j <= i - 1) /\ j - (i - 1) \in 1 .. Len(s) - i /\ i + (j - (i - 1)) = j + 1
      BY <1>1, <2>2
    <3>2. (a \o b)[j] = b[j - (i - 1)]
      BY <1>4, <3>1
    <3>3. b[j - (i - 1)] = s[i + (j - (i - 1))]
      BY <1>3, <3>1
    <3> QED
      BY <2>2, <3>1, <3>2, <3>3
  <2> QED
    BY <2>1, <2>2
<1> QED
  BY <1>4, <1>5, <1>6 DEF RemoveAt, a, b

\* The requests after one more was sent.
LEMMA AppendIs ==
    ASSUME NEW S, NEW s \in Seq(S), NEW e \in S
    PROVE  /\ Append(s, e) \in Seq(S) /\ Len(Append(s, e)) = Len(s) + 1 /\ Append(s, e) # <<>>
           /\ \A j \in DOMAIN Append(s, e) :
                 \/ j \in DOMAIN s /\ Append(s, e)[j] = s[j]
                 \/ j = Len(s) + 1 /\ Append(s, e)[j] = e
<1>1. /\ Append(s, e) \in Seq(S) /\ Len(Append(s, e)) = Len(s) + 1 /\ Append(s, e) # <<>>
      /\ \A j \in 1 .. Len(s) : Append(s, e)[j] = s[j]
      /\ Append(s, e)[Len(s) + 1] = e
  BY AppendProperties
<1>2. DOMAIN s = 1 .. Len(s) /\ DOMAIN Append(s, e) = 1 .. Len(s) + 1 /\ Len(s) \in Nat
  BY <1>1, LenProperties
<1>3. \A j \in 1 .. Len(s) + 1 : j \in 1 .. Len(s) \/ j = Len(s) + 1
  BY <1>2
<1> QED
  BY <1>1, <1>2, <1>3

\* The next request of goToLastPage.
Again(load, p) == [load EXCEPT !.cursor = p.next, !.answered = FALSE, !.parts = {}, !.seen = {},
                             !.old = FALSE]

LEMMA AgainIs ==
    ASSUME NEW load \in Load, NEW p, p.next \in Key
    PROVE  Again(load, p) \in Load
BY DEF Again, Load, Cursor

\* After a load the others are still there, and perhaps the next one of goToLastPage.
LEMMA OverIs ==
    ASSUME loads \in Seq(Load), NEW i \in DOMAIN loads, NEW p \in Page, Over(i, p)
    PROVE  /\ loads' \in Seq(Load) /\ Len(loads') <= Len(loads)
           /\ \/ /\ loads[i].last /\ p.more /\ p.next \in Key /\ page' = OnNextPage(p)
                 /\ Len(loads') = Len(loads)
              \/ page' = p /\ Len(loads') = Len(loads) - 1
           /\ \A j \in DOMAIN loads' :
                 \/ \E h \in DOMAIN loads : h # i /\ loads'[j] = loads[h]
                 \/ /\ loads[i].last /\ p.more /\ p.next \in Key /\ page' = OnNextPage(p)
                    /\ loads'[j] = Again(loads[i], p)
<1> DEFINE rest == RemoveAt(loads, i)
<1>1. /\ rest \in Seq(Load) /\ Len(rest) = Len(loads) - 1 /\ Len(loads) \in Nat
      /\ \A j \in DOMAIN rest : rest[j] = IF j < i THEN loads[j] ELSE loads[j + 1]
  BY RemoveAtIs
<1>2. \A j \in DOMAIN rest : \E h \in DOMAIN loads : h # i /\ rest[j] = loads[h]
  <2> TAKE j \in DOMAIN rest
  <2>1. j \in 1 .. Len(loads) - 1 /\ i \in 1 .. Len(loads)
    BY <1>1
  <2>2. CASE j < i
    BY <1>1, <2>1, <2>2
  <2>3. CASE ~ (j < i)
    BY <1>1, <2>1, <2>3
  <2> QED
    BY <2>2, <2>3
<1>3. CASE loads[i].last /\ p.more /\ p.next # None
  <2>1. page' = OnNextPage(p) /\ loads' = Append(rest, Again(loads[i], p))
    BY <1>3 DEF Over, Again
  <2>2. p.next \in Key
    BY <1>3 DEF Page
  <2>3. Again(loads[i], p) \in Load
    BY <2>2, AgainIs
  <2> HIDE DEF rest
  <2> QED
    BY <1>1, <1>2, <1>3, <2>1, <2>2, <2>3, AppendIs
<1>4. CASE ~ (loads[i].last /\ p.more /\ p.next # None)
  <2>1. page' = p /\ loads' = rest
    BY <1>4 DEF Over
  <2> HIDE DEF rest
  <2> QED
    BY <1>1, <1>2, <2>1
<1> QED
  BY <1>3, <1>4

\* An answer overtaken by a message or a change is the same request.
LEMMA OutdatedIs ==
    ASSUME loads \in Seq(Load), NEW i \in DOMAIN loads
    PROVE  LET load == Outdated(i)
           IN  /\ load \in Load /\ load.cursor = loads[i].cursor /\ load.jump = loads[i].jump
               /\ load.reset = loads[i].reset /\ load.last = loads[i].last
               /\ load.answered = loads[i].answered /\ load.seen = loads[i].seen
               /\ load.parts = loads[i].parts /\ load.old = (loads[i].old \/ loads[i].answered)
<1>1. loads[i] \in Load
  OBVIOUS
<1> QED
  BY <1>1 DEF Outdated, Load

\* A live message sends at most one request, for the current page, and overtakes the
\* answers on their way.
LEMMA LiveMessageIs ==
    ASSUME loads \in Seq(Load), page.current \in Cursor, LiveMessage
    PROVE  LET reload == listing = "records" /\ Head(feed).do = "reload"
           IN  /\ loads' \in Seq(Load)
               /\ reload => Len(loads) < MaxLoads /\ Len(loads') = Len(loads) + 1
               /\ ~reload => Len(loads') = Len(loads)
               /\ \A j \in DOMAIN loads' :
                     \/ j \in DOMAIN loads /\ loads'[j] = Outdated(j)
                     \/ reload /\ loads'[j] = [NoLoad EXCEPT !.cursor = page.current]
<1> DEFINE reload == listing = "records" /\ Head(feed).do = "reload"
           told == [i \in DOMAIN loads |-> Outdated(i)]
           sent == [i \in 1 .. IF reload THEN 1 ELSE 0 |-> [NoLoad EXCEPT !.cursor = page.current]]
<1>1. loads' = told \o sent /\ (reload => Len(loads) < MaxLoads)
  BY DEF LiveMessage
<1>2. told \in Seq(Load) /\ Len(told) = Len(loads)
  <2>1. \A j \in DOMAIN loads : Outdated(j) \in Load
    BY OutdatedIs
  <2> HIDE DEF Load
  <2> QED
    BY <2>1
<1>3. /\ sent \in Seq(Load) /\ (reload => Len(sent) = 1) /\ (~reload => Len(sent) = 0)
      /\ \A j \in DOMAIN sent : reload /\ sent[j] = [NoLoad EXCEPT !.cursor = page.current]
  <2>1. [NoLoad EXCEPT !.cursor = page.current] \in Load
    BY DEF NoLoad, Load, Cursor
  <2> QED
    BY <2>1
<1>4. \A j \in DOMAIN told : j \in DOMAIN loads /\ told[j] = Outdated(j)
  OBVIOUS
<1> HIDE DEF told, sent
<1>5. /\ told \o sent \in Seq(Load) /\ Len(told \o sent) = Len(told) + Len(sent)
      /\ \A j \in DOMAIN (told \o sent) :
            \/ j \in DOMAIN told /\ (told \o sent)[j] = told[j]
            \/ j - Len(told) \in DOMAIN sent /\ (told \o sent)[j] = sent[j - Len(told)]
  <2> HIDE DEF Load
  <2> QED
    BY <1>2, <1>3
<1> QED
  <2>1. Len(loads) \in Nat
    BY LenProperties
  <2> reload \in BOOLEAN
    OBVIOUS
  <2> HIDE DEF reload
  <2>2. /\ loads' \in Seq(Load)
        /\ reload => Len(loads) < MaxLoads /\ Len(loads') = Len(loads) + 1
        /\ ~reload => Len(loads') = Len(loads)
    <3>1. loads' \in Seq(Load) /\ Len(loads') = Len(loads) + Len(sent)
      BY <1>1, <1>2, <1>5
    <3>2. reload => Len(sent) = 1 /\ Len(loads) < MaxLoads
      BY <1>1, <1>3
    <3>3. ~reload => Len(sent) = 0
      BY <1>3
    <3>4. Len(sent) = 1 => Len(loads') = Len(loads) + 1
      BY <3>1
    <3>5. Len(sent) = 0 => Len(loads') = Len(loads)
      BY <2>1, <3>1
    <3> QED
      BY <3>1, <3>2, <3>3, <3>4, <3>5, Zenon
  <2>3. ASSUME NEW j \in DOMAIN loads'
        PROVE  \/ j \in DOMAIN loads /\ loads'[j] = Outdated(j)
               \/ reload /\ loads'[j] = [NoLoad EXCEPT !.cursor = page.current]
    BY <1>1, <1>3, <1>4, <1>5
  <2> QED
    BY <2>2, <2>3 DEF reload

LEMMA AtOrAfterIn ==
    ASSUME NEW S \in SUBSET Key, NEW c \in Cursor
    PROVE  AtOrAfter(S, c) \subseteq S
BY PagesAssumption DEF AtOrAfter, Cursor, PagesAssumption

\* A page that is not the last is full; the next one begins somewhere.
LEMMA PageIs ==
    ASSUME NEW from \in SUBSET Key
    PROVE  LET items == FirstOf(from, Size)
               rest  == from \ items
           IN  /\ items \subseteq from /\ Cardinality(items) <= Size
               /\ from # {} => items # {}
               /\ rest = {} <=> NextCursor(items, rest) = None
               /\ rest # {} => NextCursor(items, rest) \in Key
<1> DEFINE items == FirstOf(from, Size)
           rest  == from \ items
<1>1. /\ items \subseteq from /\ items \in SUBSET Key /\ rest \in SUBSET Key
      /\ Size \in Nat \ {0} /\ None \notin Key
  BY FirstOfIsLow, PagesAssumption DEF PagesAssumption
<1>2. Cardinality(items) <= Size /\ (rest # {} => Cardinality(items) = Size)
  BY FirstOfSize, PagesAssumption DEF PagesAssumption
<1>3. rest # {} => items # {}
  BY <1>1, <1>2, FS_EmptySet
<1>4. rest # {} => Smallest(rest) \in Key /\ Largest(items) \in Key
  <2> HIDE DEF items, rest
  <2> QED
    BY <1>1, <1>3, SmallestIsLeast, LargestIsGreatest
<1> QED
  BY <1>1, <1>2, <1>3, <1>4 DEF NextCursor

\* What a merged answer has found so far.
Fits(load) == Merged(load) => Cardinality(load.seen) <= Size * Cardinality(load.parts)

\* The answers to both its requests are at most two pages.
LEMMA MergedFits ==
    ASSUME NEW load \in Load, Merged(load), Fits(load)
    PROVE  Cardinality(load.seen) <= MostRows
<1>1. /\ load.parts \subseteq {"name", "data"} /\ IsFiniteSet({"name", "data"})
      /\ Cardinality({"name", "data"}) = 2
  <2>1. load.parts \subseteq {"name", "data"}
    BY DEF Load
  <2>2. IsFiniteSet({"name"}) /\ Cardinality({"name"}) = 1 /\ "data" \notin {"name"}
    BY FS_Singleton
  <2>3. {"name"} \cup {"data"} = {"name", "data"}
    OBVIOUS
  <2>4. IsFiniteSet({"name"} \cup {"data"}) /\ Cardinality({"name"} \cup {"data"}) = 1 + 1
    BY <2>2, FS_AddElement
  <2> QED
    BY <2>1, <2>3, <2>4
<1>2. Cardinality(load.parts) \in Nat /\ Cardinality(load.parts) <= 2
  BY <1>1, FS_Subset, FS_CardinalityType
<1>3. load.seen \in SUBSET Key /\ Cardinality(load.seen) \in Nat /\ Size \in Nat
  <2>1. load.seen \in SUBSET Key
    BY DEF Load
  <2> QED
    BY <2>1, KeysFinite, PagesAssumption DEF PagesAssumption
<1>4. \A n \in 0 .. 2 : Size * n <= 2 * Size
  <2>1. Size * 0 = 0 /\ Size * 1 = Size /\ Size * 2 = 2 * Size
    BY <1>3
  <2>2. \A n \in 0 .. 2 : n = 0 \/ n = 1 \/ n = 2
    OBVIOUS
  <2> QED
    BY <1>3, <2>1, <2>2
<1>5. PICK n \in 0 .. 2 : n = Cardinality(load.parts)
  BY <1>2
<1>6. Cardinality(load.seen) <= Size * n /\ Size * n <= 2 * Size /\ Size * n \in Nat
  BY <1>3, <1>4, <1>5 DEF Fits
<1> QED
  BY <1>3, <1>6 DEF MostRows, Merged

LEMMA AnsweredIs ==
    ASSUME NEW p \in Page, NEW load \in Load
    PROVE  /\ Asked(load) \in SUBSET load.seen /\ Shown(load) \in SUBSET load.seen
           /\ Answered(p, load) \in Page /\ Answered(p, load).items = Shown(load)
           /\ Fits(load) => Cardinality(Shown(load)) <= MostRows
<1>1. load.seen \in SUBSET Key /\ load.cursor \in Cursor
  BY DEF Load
<1>2. Asked(load) \in SUBSET load.seen
  BY <1>1, AtOrAfterIn DEF Asked
<1> DEFINE items == Shown(load)
           rest  == Remaining(load)
<1>3. /\ items \in SUBSET load.seen /\ NextCursor(items, rest) \in Key \cup {None}
      /\ Fits(load) => Cardinality(items) <= MostRows
  <2>1. CASE Merged(load)
    <3>1. items = load.seen /\ NextCursor(items, rest) = None
      BY <2>1 DEF Shown, Remaining, NextCursor
    <3> HIDE DEF items, rest
    <3> QED
      BY <2>1, <3>1, MergedFits
  <2>2. CASE ~Merged(load)
    <3>1. items = FirstOf(Asked(load), Size) /\ rest = Asked(load) \ items
      BY <2>2 DEF Shown, Remaining
    <3>2. items \subseteq Asked(load) /\ Cardinality(items) <= Size
          /\ NextCursor(items, rest) \in Key \cup {None}
      BY <1>1, <1>2, <3>1, PageIs
    <3>3. Cardinality(items) \in Nat /\ Size \in Nat
      <4>1. items \in SUBSET Key
        BY <1>1, <1>2, <3>2
      <4> HIDE DEF items
      <4> QED
        BY <4>1, KeysFinite, PagesAssumption DEF PagesAssumption
    <3> HIDE DEF items, rest
    <3> QED
      BY <1>2, <3>2, <3>3 DEF MostRows
  <2> QED
    BY <2>1, <2>2
<1>4. Cardinality(load.seen) \in Nat
  BY <1>1, KeysFinite
<1>5. /\ (IF load.reset THEN <<>> ELSE p.history) \in Seq(Cursor)
      /\ (IF load.jump # 0 THEN Made ELSE p.current) \in Cursor
  BY DEF Page, Cursor
<1> HIDE DEF items, rest
<1>6. Answered(p, load) = [p EXCEPT !.items = items, !.next = NextCursor(items, rest), !.more = rest # {},
                  !.total = Cardinality(load.seen),
                  !.history = IF load.reset THEN <<>> ELSE @,
                  !.current = IF load.jump # 0 THEN Made ELSE @]
  BY DEF Answered, items, rest
<1>7. Answered(p, load) \in Page /\ Answered(p, load).items = items
  BY <1>1, <1>3, <1>4, <1>5, <1>6 DEF Page
<1> QED
  BY <1>2, <1>3, <1>7 DEF items
--------------------------------------------------------------------------------
(* Types *)

PageOK(p) == p \in Page /\ Cardinality(p.items) <= MostRows

\* The requests a step keeps, and those that found nothing yet, still fit.
LEMMA StillFit ==
    ASSUME PartsWithin, UNCHANGED listing,
           \A j \in DOMAIN loads' :
              \/ \E h \in DOMAIN loads :
                    /\ loads'[j].cursor = loads[h].cursor /\ loads'[j].jump = loads[h].jump
                    /\ loads'[j].seen = loads[h].seen /\ loads'[j].parts = loads[h].parts
              \/ Fits(loads'[j])
    PROVE  PartsWithin'
<1>1. \A load : Merged(load)' = Merged(load)
  BY DEF Merged, EitherField
<1>2. SUFFICES ASSUME NEW j \in DOMAIN loads', Merged(loads'[j])
               PROVE  Cardinality(loads'[j].seen) <= Size * Cardinality(loads'[j].parts)
  BY <1>1 DEF PartsWithin
<1>3. ASSUME NEW h \in DOMAIN loads,
             loads'[j].cursor = loads[h].cursor, loads'[j].jump = loads[h].jump,
             loads'[j].seen = loads[h].seen, loads'[j].parts = loads[h].parts
      PROVE  Cardinality(loads'[j].seen) <= Size * Cardinality(loads'[j].parts)
  BY <1>2, <1>3 DEF PartsWithin, Merged
<1> QED
  BY <1>2, <1>3 DEF Fits

\* A new request has found nothing.
LEMMA NewFits ==
    ASSUME NEW load, load.seen = {}, load.parts = {}
    PROVE  Fits(load)
<1>1. Cardinality({}) = 0 /\ Size \in Nat
  BY FS_EmptySet, PagesAssumption DEF PagesAssumption
<1> QED
  BY <1>1 DEF Fits

LEMMA NewLoads ==
    /\ \A c : LET load == [NoLoad EXCEPT !.cursor = c]
              IN  load.seen = {} /\ load.parts = {} /\ ~load.answered
    /\ \A c : LET load == [NoLoad EXCEPT !.cursor = c, !.last = TRUE]
              IN  load.seen = {} /\ load.parts = {} /\ ~load.answered
    /\ \A n : LET load == [NoLoad EXCEPT !.jump = n]
              IN  load.seen = {} /\ load.parts = {} /\ ~load.answered
    /\ LET load == [NoLoad EXCEPT !.reset = TRUE]
       IN  load.seen = {} /\ load.parts = {} /\ ~load.answered
BY DEF NoLoad

LEMMA AtCursorIs ==
    ASSUME NEW p \in Page, NEW c \in Cursor, NEW h \in Seq(Cursor)
    PROVE  LET q == AtCursor(p, c, h)
           IN  /\ q \in Page /\ q.current = c /\ q.history = h
               /\ q.items = p.items /\ q.next = p.next /\ q.more = p.more /\ q.total = p.total
<1> DEFINE r == [p EXCEPT !.current = c]
           q == [r EXCEPT !.history = h]
<1>1. /\ r \in Page /\ r.current = c
      /\ r.items = p.items /\ r.next = p.next /\ r.more = p.more /\ r.total = p.total
  BY DEF Page
<1> HIDE DEF r
<1>2. /\ q \in Page /\ q.history = h /\ q.current = r.current
      /\ q.items = r.items /\ q.next = r.next /\ q.more = r.more /\ q.total = r.total
  BY <1>1 DEF Page
<1>3. AtCursor(p, c, h) = q
  BY DEF AtCursor, r
<1> QED
  BY <1>1, <1>2, <1>3

LEMMA OnNextPageIs ==
    ASSUME NEW p \in Page, p.next \in Key
    PROVE  LET q == OnNextPage(p)
           IN  /\ q \in Page /\ q.current = p.next /\ q.history = Append(p.history, p.current)
               /\ q.items = p.items /\ q.next = p.next /\ q.more = p.more /\ q.total = p.total
<1>1. p.next \in Cursor /\ Append(p.history, p.current) \in Seq(Cursor)
  BY DEF Page, Cursor
<1> QED
  BY <1>1, AtCursorIs DEF OnNextPage

LEMMA WalkTypes ==
    TypeOK =>
      /\ walk.onward \in BOOLEAN /\ walk.inStep \in BOOLEAN /\ walk.tidy \in BOOLEAN /\ walk.stale \in BOOLEAN
      /\ walk.kept \subseteq Key /\ walk.shown \subseteq Key /\ walk.pushed \subseteq Key
      /\ walk.at \in Cursor
BY DEF TypeOK, Walk

LEMMA LoadTypes ==
    ASSUME TypeOK, NEW i \in DOMAIN loads
    PROVE  /\ loads[i] \in Load /\ loads[i].cursor \in Cursor /\ loads[i].jump \in Nat
           /\ loads[i].reset \in BOOLEAN /\ loads[i].last \in BOOLEAN
           /\ loads[i].answered \in BOOLEAN /\ loads[i].seen \in SUBSET Key
           /\ loads[i].old \in BOOLEAN /\ loads[i].parts \subseteq {"name", "data"}
           /\ Fits(loads[i])
<1>1. loads[i] \in Load /\ Fits(loads[i])
  BY DEF TypeOK, PartsWithin, Fits
<1> QED
  BY <1>1 DEF Load

LEMMA ClickType ==
    ASSUME TypeOK, NEW p, PageOK(p), NEW load \in Load, NEW onward \in BOOLEAN,
           NEW tidy \in BOOLEAN, load.seen = {}, load.parts = {}, Click(p, load, onward, tidy)
    PROVE  TypeOK'
<1>1. loads' \in Seq(Load) /\ Len(loads') <= MaxLoads
  <2>1. Len(loads) < MaxLoads /\ loads' = Append(loads, load) /\ loads \in Seq(Load)
    BY DEF Click, TypeOK
  <2>2. Len(loads) \in Nat /\ MaxLoads \in Nat
    BY <2>1, LenProperties, PagesAssumption DEF PagesAssumption
  <2> QED
    BY <2>1, <2>2, AppendProperties
<1>2. walk' \in Walk
  BY DEF Click, TypeOK, Walk
<1>3. spent' \in [clicks : 0 .. MaxClicks, changes : 0 .. MaxChanges, failures : 0 .. MaxFailures]
  <2>1. spent.clicks < MaxClicks /\ spent' = [spent EXCEPT !.clicks = @ + 1]
    BY DEF Click
  <2>2. spent \in [clicks : 0 .. MaxClicks, changes : 0 .. MaxChanges, failures : 0 .. MaxFailures]
    BY DEF TypeOK
  <2>3. MaxClicks \in Nat
    BY PagesAssumption DEF PagesAssumption
  <2> QED
    BY <2>1, <2>2, <2>3
<1>4. page' = p /\ UNCHANGED <<listing, zone, feed>>
  BY DEF Click
<1>5. PartsWithin'
  <2>1. loads \in Seq(Load) /\ loads' = Append(loads, load) /\ PartsWithin
    BY DEF Click, TypeOK
  <2>2. \A j \in DOMAIN loads' : (j \in DOMAIN loads /\ loads'[j] = loads[j]) \/ loads'[j] = load
    BY <2>1, AppendIs
  <2>3. Fits(load)
    BY NewFits
  <2>4. ASSUME NEW j \in DOMAIN loads'
        PROVE  \/ \E h \in DOMAIN loads :
                     /\ loads'[j].cursor = loads[h].cursor /\ loads'[j].jump = loads[h].jump
                     /\ loads'[j].seen = loads[h].seen /\ loads'[j].parts = loads[h].parts
               \/ Fits(loads'[j])
    BY <2>2, <2>3
  <2> QED
    BY <1>4, <2>1, <2>4, StillFit
<1> QED
  BY <1>1, <1>2, <1>3, <1>4, <1>5 DEF TypeOK, PageOK, MostRows, EitherField

LEMMA InitType == Init => TypeOK
<1> SUFFICES ASSUME Init PROVE TypeOK
  OBVIOUS
<1>1. listing \in {"records"} \cup Searches /\ zone \subseteq Key
  BY PagesAssumption DEF Init, PagesAssumption
<1>2. page \in Page /\ page.items = {}
  BY DEF Init, Page, Cursor
<1>3. Cardinality(page.items) <= MostRows
  BY <1>2, FS_EmptySet, PagesAssumption DEF PagesAssumption, MostRows
<1>4. loads \in Seq(Load) /\ Len(loads) <= MaxLoads
  <2>1. [NoLoad EXCEPT !.reset = TRUE] \in Load
    BY DEF NoLoad, Load, Cursor
  <2>2. loads = <<[NoLoad EXCEPT !.reset = TRUE]>> /\ MaxLoads \in Nat /\ MaxLoads > 0
    BY PagesAssumption DEF Init, PagesAssumption
  <2> HIDE DEF Load, NoLoad
  <2> QED
    BY <2>1, <2>2
<1>8. PartsWithin
  <2> DEFINE load == [NoLoad EXCEPT !.reset = TRUE]
  <2>1. Fits(load)
    BY NewFits, NewLoads
  <2>2. loads = <<load>>
    BY DEF Init
  <2> HIDE DEF load
  <2> QED
    BY <2>1, <2>2 DEF PartsWithin, Fits
<1>5. walk \in Walk
  BY DEF Init, Walk, Cursor
<1>6. feed \in Seq(Message)
  BY DEF Init
<1>7. spent \in [clicks : 0 .. MaxClicks, changes : 0 .. MaxChanges, failures : 0 .. MaxFailures]
  BY PagesAssumption DEF Init, PagesAssumption
<1> QED
  BY <1>1, <1>2, <1>3, <1>4, <1>5, <1>6, <1>7, <1>8 DEF TypeOK

LEMMA DeliverIs ==
    ASSUME TypeOK, NEW i \in DOMAIN loads, Deliver(i)
    PROVE  /\ loads[i].answered /\ Over(i, Answered(page, loads[i])) /\ PageOK(Answered(page, loads[i]))
           /\ LET first == loads[i].reset /\ page.current = None /\ Len(loads) = 1
                  p == Answered(page, loads[i])
              IN  /\ walk'.onward = (first \/ walk.onward)
                  /\ walk'.inStep = ((first \/ walk.inStep) /\ (loads[i].last => Len(loads) = 1))
                  /\ walk'.tidy = ((first /\ feed = <<>> /\ zone = loads[i].seen) \/ walk.tidy)
                  /\ walk'.kept = IF first THEN zone \cap loads[i].seen ELSE walk.kept
                  /\ walk'.shown = IF first THEN p.items ELSE walk.shown \cup p.items
                  /\ walk'.pushed = IF first THEN {} ELSE walk.pushed \cup
                        {k \in page.items \ p.items : loads[i].cursor = walk.at}
                  /\ walk'.stale = loads[i].old /\ walk'.at = loads[i].cursor
           /\ walk' \in Walk
           /\ UNCHANGED <<listing, zone, feed, spent>>
<1>1. PageOK(Answered(page, loads[i])) /\ Answered(page, loads[i]).items \subseteq Key
  <2>1. page \in Page /\ loads[i] \in Load /\ Fits(loads[i])
    BY LoadTypes DEF TypeOK
  <2>2. Answered(page, loads[i]) \in Page /\ Cardinality(Answered(page, loads[i]).items) <= MostRows
    BY <2>1, AnsweredIs
  <2> QED
    BY <2>2 DEF PageOK, Page
<1>2. zone \subseteq Key /\ page.items \subseteq Key
  BY DEF TypeOK, Page
<1>3. /\ loads[i].reset \in BOOLEAN /\ loads[i].last \in BOOLEAN /\ loads[i].cursor \in Cursor
      /\ loads[i].old \in BOOLEAN
  BY LoadTypes
<1> DEFINE first == loads[i].reset /\ page.current = None /\ Len(loads) = 1
           p == Answered(page, loads[i])
           onward == first \/ walk.onward
           inStep == (first \/ walk.inStep) /\ (loads[i].last => Len(loads) = 1)
           tidy == (first /\ feed = <<>> /\ zone = loads[i].seen) \/ walk.tidy
           kept == IF first THEN zone \cap loads[i].seen ELSE walk.kept
           shown == IF first THEN p.items ELSE walk.shown \cup p.items
           pushed == IF first THEN {} ELSE walk.pushed \cup
                        {k \in page.items \ p.items : loads[i].cursor = walk.at}
<1>4. /\ walk' = [onward |-> onward, inStep |-> inStep, tidy |-> tidy, kept |-> kept, shown |-> shown,
                   pushed |-> pushed, stale |-> loads[i].old, at |-> loads[i].cursor]
      /\ loads[i].answered /\ Over(i, p) /\ UNCHANGED <<listing, zone, feed, spent>>
  BY DEF Deliver
<1>5. onward \in BOOLEAN /\ inStep \in BOOLEAN /\ tidy \in BOOLEAN
  BY WalkTypes
<1>6. kept \subseteq Key /\ shown \subseteq Key /\ pushed \subseteq Key
  BY <1>1, <1>2, WalkTypes
<1> HIDE DEF onward, inStep, tidy, kept, shown, pushed, p
<1>7. walk' \in Walk
  BY <1>3, <1>4, <1>5, <1>6 DEF Walk
<1> QED
  BY <1>1, <1>4, <1>7 DEF onward, inStep, tidy, kept, shown, pushed, p

LEMMA LoadFailsIs ==
    ASSUME TypeOK, NEW i \in DOMAIN loads, LoadFails(i)
    PROVE  /\ \E p \in Page :
                 /\ p.items = page.items /\ p.current = page.current /\ p.next = page.next
                 /\ p.more = page.more /\ Over(i, p)
           /\ walk' \in Walk
           /\ walk' = [walk EXCEPT !.inStep = @ /\ (loads[i].last => Len(loads) = 1),
                                  !.tidy = FALSE, !.stale = TRUE]
           /\ spent' \in [clicks : 0 .. MaxClicks, changes : 0 .. MaxChanges, failures : 0 .. MaxFailures]
           /\ UNCHANGED <<listing, zone, feed>>
<1>1. page \in Page
  BY DEF TypeOK
<1>2. [page EXCEPT !.history = <<>>] \in Page
  <2>1. <<>> \in Seq(Cursor)
    BY EmptySeq
  <2> QED
    BY <1>1, <2>1 DEF Page
<1>3. PICK p \in {page, [page EXCEPT !.history = <<>>]} : Over(i, p)
  BY DEF LoadFails
<1>4. /\ p \in Page /\ p.items = page.items /\ p.current = page.current /\ p.next = page.next
      /\ p.more = page.more
  BY <1>1, <1>2, <1>3 DEF Page
<1>5. walk' = [walk EXCEPT !.inStep = @ /\ (loads[i].last => Len(loads) = 1),
                          !.tidy = FALSE, !.stale = TRUE]
  BY DEF LoadFails
<1>6. walk' \in Walk
  BY <1>5 DEF TypeOK, Walk
<1>7. spent' \in [clicks : 0 .. MaxClicks, changes : 0 .. MaxChanges, failures : 0 .. MaxFailures]
  <2>1. spent.failures < MaxFailures /\ spent' = [spent EXCEPT !.failures = @ + 1]
    BY DEF LoadFails
  <2>2. spent \in [clicks : 0 .. MaxClicks, changes : 0 .. MaxChanges, failures : 0 .. MaxFailures]
    BY DEF TypeOK
  <2>3. MaxFailures \in Nat
    BY PagesAssumption DEF PagesAssumption
  <2> QED
    BY <2>1, <2>2, <2>3
<1> QED
  BY <1>3, <1>4, <1>5, <1>6, <1>7 DEF LoadFails

LEMMA ChangeIs ==
    ASSUME TypeOK, NEW k \in Key, Change(k)
    PROVE  /\ UNCHANGED <<listing, page>> /\ walk' \in Walk
           /\ spent' \in [clicks : 0 .. MaxClicks, changes : 0 .. MaxChanges, failures : 0 .. MaxFailures]
           /\ loads' \in Seq(Load) /\ Len(loads') = Len(loads) /\ DOMAIN loads' = DOMAIN loads
           /\ \A j \in DOMAIN loads : loads'[j] = loads[j] \/ loads'[j] = Outdated(j)
           /\ \E op \in {"add", "delete"}, left \in BOOLEAN, told \in BOOLEAN :
                 /\ op = "add" => left
                 /\ zone' = (IF left THEN zone \cup {k} ELSE zone \ {k}) /\ zone' \subseteq Key
                 /\ told => /\ \E do \in {op, "reload"} :
                                  feed' = Append(feed, [do |-> do, key |-> k, old |-> FALSE])
                            /\ UNCHANGED loads
                 /\ ~told => /\ feed' = [i \in DOMAIN feed |-> [feed[i] EXCEPT !.old = TRUE]]
                             /\ \A j \in DOMAIN loads : loads'[j] = Outdated(j)
                 /\ walk' = [walk EXCEPT !.kept = @ \cap zone', !.tidy = FALSE, !.stale = @ \/ ~told]
<1>1. PICK op \in {"add", "delete"}, left \in BOOLEAN, told \in BOOLEAN :
         /\ op = "add" => left
         /\ op = "delete" => k \in zone
         /\ zone' = IF left THEN zone \cup {k} ELSE zone \ {k}
         /\ IF told
            THEN /\ \E do \in {op, "reload"} :
                       feed' = Append(feed, [do |-> do, key |-> k, old |-> FALSE])
                 /\ UNCHANGED loads
            ELSE /\ feed' = [i \in DOMAIN feed |-> [feed[i] EXCEPT !.old = TRUE]]
                 /\ loads' = [i \in DOMAIN loads |-> Outdated(i)]
         /\ walk' = [walk EXCEPT !.kept = @ \cap zone', !.tidy = FALSE, !.stale = @ \/ ~told]
  BY DEF Change
<1>2. zone' \subseteq Key
  BY <1>1 DEF TypeOK
<1>3. /\ loads' \in Seq(Load) /\ Len(loads') = Len(loads) /\ DOMAIN loads' = DOMAIN loads
      /\ \A j \in DOMAIN loads : loads'[j] = loads[j] \/ loads'[j] = Outdated(j)
      /\ ~told => \A j \in DOMAIN loads : loads'[j] = Outdated(j)
  <2>1. loads \in Seq(Load)
    BY DEF TypeOK
  <2>2. CASE told
    BY <1>1, <2>1, <2>2
  <2>3. CASE ~told
    <3>1. loads' = [i \in DOMAIN loads |-> Outdated(i)]
      BY <1>1, <2>3
    <3>2. \A j \in DOMAIN loads : Outdated(j) \in Load
      BY <2>1, OutdatedIs
    <3> HIDE DEF Load
    <3> QED
      BY <2>1, <3>1, <3>2
  <2> QED
    BY <2>2, <2>3
<1>4. walk' \in Walk
  <2>1. walk \in Walk
    BY DEF TypeOK
  <2> QED
    BY <1>1, <2>1 DEF Walk
<1>5. spent' \in [clicks : 0 .. MaxClicks, changes : 0 .. MaxChanges, failures : 0 .. MaxFailures]
  <2>1. spent.changes < MaxChanges /\ spent' = [spent EXCEPT !.changes = @ + 1]
    BY DEF Change
  <2>2. spent \in [clicks : 0 .. MaxClicks, changes : 0 .. MaxChanges, failures : 0 .. MaxFailures]
    BY DEF TypeOK
  <2>3. MaxChanges \in Nat
    BY PagesAssumption DEF PagesAssumption
  <2> QED
    BY <2>1, <2>2, <2>3
<1>6. UNCHANGED <<listing, page>>
  BY DEF Change
<1>7. /\ told => /\ \E do \in {op, "reload"} : feed' = Append(feed, [do |-> do, key |-> k, old |-> FALSE])
                 /\ UNCHANGED loads
      /\ ~told => feed' = [i \in DOMAIN feed |-> [feed[i] EXCEPT !.old = TRUE]]
  BY <1>1
<1> QED
  BY <1>1, <1>2, <1>3, <1>4, <1>5, <1>6, <1>7

Rows(p, S, n) == [p EXCEPT !.items = S, !.total = n]

LEMMA RowsIs ==
    ASSUME NEW p \in Page, NEW S \in SUBSET Key, NEW n \in Nat
    PROVE  LET q == Rows(p, S, n)
           IN  /\ q \in Page /\ q.items = S /\ q.current = p.current
               /\ q.history = p.history /\ q.next = p.next /\ q.more = p.more
<1> DEFINE r == [p EXCEPT !.items = S]
           q == [r EXCEPT !.total = n]
<1>1. /\ r \in Page /\ r.items = S /\ r.current = p.current
      /\ r.history = p.history /\ r.next = p.next /\ r.more = p.more
  BY DEF Page
<1> HIDE DEF r
<1>2. /\ q \in Page /\ q.items = r.items /\ q.current = r.current
      /\ q.history = r.history /\ q.next = r.next /\ q.more = r.more
  BY <1>1 DEF Page
<1> QED
  BY <1>1, <1>2 DEF Rows, r

\* The rows with another one among them are no more than a page.
LEMMA WithRowIs ==
    ASSUME page.items \in SUBSET Key, Cardinality(page.items) <= Size,
           NEW k \in Key \ page.items, NEW rows \in WithRow(k)
    PROVE  rows \subseteq page.items \cup {k} /\ Cardinality(rows) <= Size
<1> DEFINE all == page.items \cup {k}
<1>1. /\ IsFiniteSet(page.items) /\ Cardinality(page.items) \in Nat /\ Size \in Nat
      /\ IsFiniteSet(all) /\ Cardinality(all) = Cardinality(page.items) + 1
  BY KeysFinite, FS_AddElement, PagesAssumption DEF PagesAssumption
<1>2. \/ rows = all /\ Cardinality(all) <= Size
      \/ \E j \in all : rows = all \ {j}
  BY DEF WithRow
<1> HIDE DEF all
<1>3. ASSUME NEW j \in all, rows = all \ {j}
      PROVE  rows \subseteq all /\ Cardinality(rows) <= Size
  <2>1. Cardinality(rows) = Cardinality(all) - 1
    BY <1>1, <1>3, FS_RemoveElement
  <2> QED
    BY <1>1, <1>3, <2>1
<1> QED
  BY <1>2, <1>3 DEF all

\* What a live message makes of the table: its rows, the rest stays.
LEMMA ZoneChangeIs ==
    ASSUME NEW do \in {"add", "delete"}, NEW k \in Key, PageOK(page), listing = "records",
           NEW q \in ZoneChange(do, k)
    PROVE  /\ PageOK(q) /\ q.current = page.current /\ q.next = page.next
           /\ q.more = page.more /\ q.history = page.history
           /\ q.items \subseteq page.items \cup {k}
           /\ do = "delete" => q.items = page.items \ {k}
<1>1. page \in Page /\ page.items \in SUBSET Key /\ page.total \in Nat /\ Cardinality(page.items) <= Size
      /\ Size \in Nat /\ MostRows = Size
  BY PagesAssumption DEF PageOK, Page, PagesAssumption, MostRows, EitherField
<1>2. CASE do = "add" /\ k \notin page.items
  <2>1. PICK items \in IF WouldFit(k) THEN WithRow(k) ELSE {page.items} :
           q = [page EXCEPT !.items = items, !.total = page.total + 1]
    BY <1>2 DEF ZoneChange, LiveAdd
  <2>2. items \subseteq page.items \cup {k} /\ items \in SUBSET Key /\ Cardinality(items) <= Size
    <3>1. k \in Key \ page.items
      BY <1>2
    <3>2. CASE WouldFit(k)
      <4>1. items \in WithRow(k)
        BY <2>1, <3>2
      <4> QED
        BY <1>1, <3>1, <4>1, WithRowIs
    <3>3. CASE ~WouldFit(k)
      BY <1>1, <2>1, <3>3
    <3> QED
      BY <3>2, <3>3
  <2>3. q = Rows(page, items, page.total + 1)
    BY <2>1 DEF Rows
  <2>4. page.total + 1 \in Nat
    BY <1>1
  <2> QED
    BY <1>1, <1>2, <2>2, <2>3, <2>4, RowsIs DEF PageOK
<1>3. CASE do = "delete" /\ k \in page.items
  <2>1. q = Rows(page, page.items \ {k}, IF page.total = 0 THEN 0 ELSE page.total - 1)
    BY <1>3 DEF ZoneChange, LiveDelete, Rows
  <2>2. Cardinality(page.items \ {k}) <= Size
    <3>1. page.items \ {k} \in SUBSET page.items /\ IsFiniteSet(page.items)
          /\ Cardinality(page.items) \in Nat
      BY <1>1, KeysFinite
    <3>2. Cardinality(page.items \ {k}) \in Nat /\ Cardinality(page.items \ {k}) <= Cardinality(page.items)
      BY <3>1, FS_Subset, FS_CardinalityType
    <3> QED
      BY <1>1, <3>1, <3>2
  <2>3. (IF page.total = 0 THEN 0 ELSE page.total - 1) \in Nat
    BY <1>1
  <2> QED
    BY <1>1, <1>3, <2>1, <2>2, <2>3, RowsIs DEF PageOK
<1>4. CASE (do = "add") = (k \in page.items)
  <2>1. do = "delete" => k \notin page.items /\ page.items \ {k} = page.items
    BY <1>4
  <2>2. q = page
    BY <1>4 DEF ZoneChange
  <2> QED
    BY <1>1, <2>1, <2>2 DEF PageOK
<1> QED
  BY <1>2, <1>3, <1>4

\* A step of the live messages, in terms of what it does to the table.
LEMMA LiveStepIs ==
    ASSUME TypeOK, LiveMessage
    PROVE  LET k == Head(feed).key
               do == Head(feed).do
           IN  /\ feed # <<>> /\ feed' = Tail(feed) /\ k \in Key /\ do \in {"add", "delete", "reload"}
               /\ UNCHANGED <<listing, zone, spent>>
               /\ PageOK(page') /\ page'.current = page.current /\ page'.next = page.next
               /\ page'.more = page.more /\ page'.history = page.history
               /\ listing # "records" \/ do = "reload" => page' = page
               /\ page'.items \subseteq page.items \cup {k}
               /\ do = "delete" /\ listing = "records" => page'.items = page.items \ {k}
               /\ do # "add" => page'.items \subseteq page.items
               /\ walk' \in Walk
               /\ walk' = [walk EXCEPT !.shown = @ \cup page'.items,
                            !.pushed = @ \cup (page.items \ page'.items) \cup
                                {j \in page'.items \ page.items : page.more /\ j >= page.next},
                            !.stale = @ \/ Head(feed).old]
<1> DEFINE k == Head(feed).key
           do == Head(feed).do
<1>1. feed # <<>> /\ feed' = Tail(feed) /\ UNCHANGED <<listing, zone, spent>>
  BY DEF LiveMessage
<1>2. k \in Key /\ do \in {"add", "delete", "reload"} /\ Head(feed).old \in BOOLEAN
  <2>1. feed \in Seq(Message)
    BY DEF TypeOK
  <2>2. Head(feed) \in Message
    BY <1>1, <2>1, HeadTailProperties
  <2> QED
    BY <2>2 DEF Message
<1>3. PageOK(page)
  BY DEF TypeOK, PageOK
<1>4. page' \in IF listing # "records" \/ do = "reload" THEN {page} ELSE ZoneChange(do, k)
  BY DEF LiveMessage
<1> HIDE DEF k, do
<1>5. /\ PageOK(page') /\ page'.current = page.current /\ page'.next = page.next
      /\ page'.more = page.more /\ page'.history = page.history
      /\ page'.items \subseteq page.items \cup {k}
      /\ do = "delete" /\ listing = "records" => page'.items = page.items \ {k}
      /\ do # "add" => page'.items \subseteq page.items
  <2>1. CASE listing # "records" \/ do = "reload"
    BY <1>3, <1>4, <2>1
  <2>2. CASE ~ (listing # "records" \/ do = "reload")
    <3>1. do \in {"add", "delete"} /\ page' \in ZoneChange(do, k) /\ listing = "records"
      BY <1>2, <1>4, <2>2
    <3> QED
      BY <1>2, <1>3, <3>1, ZoneChangeIs
  <2> QED
    BY <2>1, <2>2
<1>6. walk' = [walk EXCEPT !.shown = @ \cup page'.items,
                            !.pushed = @ \cup (page.items \ page'.items) \cup
                                {j \in page'.items \ page.items : page.more /\ j >= page.next},
                            !.stale = @ \/ Head(feed).old]
  BY DEF LiveMessage
<1>7. walk' \in Walk
  <2>1. page.items \in SUBSET Key /\ page'.items \in SUBSET Key /\ walk \in Walk
    BY <1>3, <1>5 DEF PageOK, Page, TypeOK
  <2> DEFINE S == (page.items \ page'.items) \cup
                                {j \in page'.items \ page.items : page.more /\ j >= page.next}
  <2>2. S \subseteq Key
    BY <2>1
  <2>3. walk' = [walk EXCEPT !.shown = @ \cup page'.items, !.pushed = @ \cup S,
                             !.stale = @ \/ Head(feed).old]
    BY <1>6
  <2> HIDE DEF S
  <2> QED
    BY <2>1, <2>2, <2>3 DEF Walk
<1> QED
  BY <1>1, <1>2, <1>4, <1>5, <1>6, <1>7 DEF k, do

LEMMA LiveWalk ==
    ASSUME TypeOK, LiveMessage
    PROVE  /\ walk'.onward = walk.onward /\ walk'.inStep = walk.inStep
      /\ walk'.tidy = walk.tidy /\ walk'.kept = walk.kept
           /\ walk'.stale = (walk.stale \/ Head(feed).old) /\ walk'.at = walk.at
           /\ walk'.shown = walk.shown \cup page'.items
           /\ walk'.pushed = walk.pushed \cup (page.items \ page'.items) \cup
                                {j \in page'.items \ page.items : page.more /\ j >= page.next}
<1> DEFINE S == {j \in page'.items \ page.items : page.more /\ j >= page.next}
<1>1. walk' = [walk EXCEPT !.shown = @ \cup page'.items, !.pushed = @ \cup (page.items \ page'.items) \cup S,
                          !.stale = @ \/ Head(feed).old]
  BY DEF LiveMessage
<1>2. walk \in Walk
  BY DEF TypeOK
<1> HIDE DEF S
<1>3. /\ walk'.onward = walk.onward /\ walk'.inStep = walk.inStep
      /\ walk'.tidy = walk.tidy /\ walk'.kept = walk.kept
      /\ walk'.stale = (walk.stale \/ Head(feed).old) /\ walk'.at = walk.at
      /\ walk'.shown = walk.shown \cup page'.items
      /\ walk'.pushed = walk.pushed \cup (page.items \ page'.items) \cup S
  BY <1>1, <1>2 DEF Walk
<1> QED
  BY <1>3 DEF S

\* The answer to one of the two requests adds at most a page to what the other found.
LEMMA PartIs ==
    ASSUME TypeOK, NEW i \in DOMAIN loads, NEW part \in {"name", "data"}, NEW S \in SUBSET Key,
           PartSeen(i, part, S)
    PROVE  \E load \in Load :
             /\ loads' = [loads EXCEPT ![i] = load] /\ Fits(load)
             /\ load.cursor = loads[i].cursor /\ load.jump = loads[i].jump
             /\ load.reset = loads[i].reset /\ load.last = loads[i].last
<1> DEFINE seen  == loads[i].seen \cup FirstOf(S, Size)
           parts == loads[i].parts \cup {part}
           done  == loads[i].parts # {}
           load  == [loads[i] EXCEPT !.parts = parts, !.answered = done, !.seen = seen]
<1>1. /\ loads[i] \in Load /\ Merged(loads[i]) /\ Fits(loads[i]) /\ part \notin loads[i].parts
      /\ loads[i].seen \in SUBSET Key /\ loads[i].parts \subseteq {"name", "data"}
  BY LoadTypes DEF PartSeen
<1>2. FirstOf(S, Size) \in SUBSET Key /\ Cardinality(FirstOf(S, Size)) <= Size /\ Size \in Nat
  BY FirstOfSize, PagesAssumption DEF FirstOf, PagesAssumption
<1>3. loads' = [loads EXCEPT ![i] = load]
  BY DEF PartSeen
<1>4. seen \in SUBSET Key /\ parts \subseteq {"name", "data"} /\ done \in BOOLEAN
  BY <1>1, <1>2
<1>5. Cardinality(seen) <= Size * Cardinality(parts)
  <2>1. /\ IsFiniteSet(loads[i].seen) /\ IsFiniteSet(FirstOf(S, Size))
        /\ Cardinality(loads[i].seen) \in Nat /\ Cardinality(FirstOf(S, Size)) \in Nat
        /\ Cardinality(seen) \in Nat /\ Cardinality(loads[i].seen \cap FirstOf(S, Size)) \in Nat
    <3>1. loads[i].seen \cap FirstOf(S, Size) \in SUBSET Key
      BY <1>1
    <3> QED
      BY <1>1, <1>2, <1>4, <3>1, KeysFinite
  <2>2. Cardinality(seen) = Cardinality(loads[i].seen) + Cardinality(FirstOf(S, Size))
                              - Cardinality(loads[i].seen \cap FirstOf(S, Size))
    BY <2>1, FS_Union
  <2>3. IsFiniteSet(loads[i].parts) /\ Cardinality(loads[i].parts) \in Nat
    <3>1. IsFiniteSet({"name", "data"})
      <4>1. IsFiniteSet({"name"}) /\ IsFiniteSet({"data"})
        BY FS_Singleton
      <4>2. {"name"} \cup {"data"} = {"name", "data"}
        OBVIOUS
      <4>3. IsFiniteSet({"name"} \cup {"data"})
        BY <4>1, FS_Union
      <4> QED
        BY <4>2, <4>3
    <3> QED
      BY <1>1, <3>1, FS_Subset, FS_CardinalityType
  <2>4. Cardinality(parts) = Cardinality(loads[i].parts) + 1
    BY <1>1, <2>3, FS_AddElement
  <2>5. PICK n \in Nat : n = Cardinality(loads[i].parts)
    BY <2>3
  <2>6. Cardinality(loads[i].seen) <= Size * n
    BY <1>1, <2>5 DEF Fits
  <2>7. Size * (n + 1) = Size * n + Size /\ Size * n \in Nat
    BY <1>2
  <2> HIDE DEF seen, parts
  <2>8. Cardinality(seen) <= Size * n + Size
    BY <1>2, <2>1, <2>2, <2>6, <2>7
  <2> QED
    BY <2>4, <2>5, <2>7, <2>8
<1> HIDE DEF seen, parts, done
<1>6. /\ load \in Load /\ load.seen = seen /\ load.parts = parts
      /\ load.cursor = loads[i].cursor /\ load.jump = loads[i].jump
      /\ load.reset = loads[i].reset /\ load.last = loads[i].last
  BY <1>1, <1>4 DEF Load
<1> HIDE DEF load
<1>7. Fits(load)
  BY <1>5, <1>6 DEF Fits
<1> QED
  BY <1>3, <1>6, <1>7

LEMMA TypeStep == TypeOK /\ [Next]_vars => TypeOK'
<1> SUFFICES ASSUME TypeOK, [Next]_vars PROVE TypeOK'
  OBVIOUS
<1>1. /\ page \in Page /\ PageOK(page) /\ loads \in Seq(Load) /\ Len(loads) <= MaxLoads
      /\ page.current \in Cursor /\ page.history \in Seq(Cursor) /\ PartsWithin
      /\ Len(loads) \in Nat /\ MaxLoads \in Nat
  BY PagesAssumption, LenProperties DEF TypeOK, PageOK, Page, PagesAssumption
<1>2. \A p, load, onward, tidy :
         PageOK(p) /\ load \in Load /\ load.seen = {} /\ load.parts = {}
           /\ onward \in BOOLEAN /\ tidy \in BOOLEAN /\ Click(p, load, onward, tidy) => TypeOK'
  BY ClickType
<1>3. \A c \in Cursor, h \in Seq(Cursor) : PageOK(AtCursor(page, c, h))
  BY <1>1, AtCursorIs DEF PageOK
<1>4. \A c \in Cursor : /\ [NoLoad EXCEPT !.cursor = c] \in Load
                        /\ [NoLoad EXCEPT !.cursor = c, !.last = TRUE] \in Load
  BY DEF NoLoad, Load, Cursor
<1>5. [NoLoad EXCEPT !.reset = TRUE] \in Load
  BY DEF NoLoad, Load, Cursor
<1>6. page.more /\ page.next # None => PageOK(OnNextPage(page)) /\ page.next \in Cursor
  BY <1>1, OnNextPageIs DEF PageOK, Page, Cursor
<1>7. CASE GoToNextPage
  BY <1>2, <1>4, <1>6, <1>7, NewLoads DEF GoToNextPage
<1>8. CASE GoToLastPage
  BY <1>2, <1>4, <1>6, <1>8, NewLoads DEF GoToLastPage
<1>9. CASE GoToPrevPage
  <2>1. Last(page.history) \in Cursor /\ Front(page.history) \in Seq(Cursor)
    <3>1. page.history # <<>> /\ page.history \in Seq(Cursor)
      BY <1>1, <1>9 DEF GoToPrevPage
    <3>2. Len(page.history) \in Nat \ {0}
      BY <3>1, EmptySeq
    <3>3. \A i \in 1 .. Len(page.history) : page.history[i] \in Cursor
      BY <3>1, ElementOfSeq
    <3>4. SubSeq(page.history, 1, Len(page.history) - 1) \in Seq(Cursor)
      BY <3>2, <3>3, SubSeqProperties
    <3> QED
      BY <3>2, <3>3, <3>4 DEF Last, Front
  <2> QED
    BY <1>2, <1>3, <1>4, <1>9, <2>1, NewLoads DEF GoToPrevPage
<1>10. CASE GoToFirstPage
  <2>1. None \in Cursor /\ <<>> \in Seq(Cursor)
    BY EmptySeq DEF Cursor
  <2> QED
    BY <1>2, <1>3, <1>5, <1>10, <2>1, NewLoads DEF GoToFirstPage
<1>11. CASE Reload
  <2>1. None \in Cursor
    BY DEF Cursor
  <2> QED
    BY <1>1, <1>2, <1>3, <1>5, <1>11, <2>1, NewLoads DEF Reload
<1>12. ASSUME NEW n \in 1 .. Cardinality(Key) PROVE n \in Nat \ {0} /\ PageOK(MadeUp(n))
  <2>1. Cardinality(Key) \in Nat
    BY KeysFinite
  <2>2. n \in Nat \ {0}
    BY <2>1
  <2>3. [i \in 1 .. n - 1 |-> Made] \in Seq(Cursor)
    BY <2>2 DEF Cursor
  <2> QED
    BY <1>1, <2>2, <2>3 DEF PageOK, Page, MadeUp
<1>20. ASSUME NEW n \in 1 .. Cardinality(Key), GoToRecordPage(n) PROVE TypeOK'
  <2>1. [NoLoad EXCEPT !.jump = n] \in Load
    BY <1>12 DEF NoLoad, Load, Cursor
  <2> QED
    BY <1>2, <1>12, <1>20, <2>1, NewLoads DEF GoToRecordPage
<1>21. ASSUME NEW n \in 1 .. Cardinality(Key), GoToNoPage(n) PROVE TypeOK'
  <2>1. walk' \in Walk
    <3>1. walk' = [walk EXCEPT !.onward = FALSE, !.inStep = FALSE, !.tidy = FALSE] /\ walk \in Walk
      BY <1>21 DEF GoToNoPage, TypeOK
    <3> QED
      BY <3>1 DEF Walk
  <2>2. spent' \in [clicks : 0 .. MaxClicks, changes : 0 .. MaxChanges, failures : 0 .. MaxFailures]
    <3>1. spent.clicks < MaxClicks /\ spent' = [spent EXCEPT !.clicks = @ + 1] /\ MaxClicks \in Nat
      BY <1>21, PagesAssumption DEF GoToNoPage, PagesAssumption
    <3>2. spent \in [clicks : 0 .. MaxClicks, changes : 0 .. MaxChanges, failures : 0 .. MaxFailures]
      BY DEF TypeOK
    <3> QED
      BY <3>1, <3>2
  <2>3. PageOK(page') /\ UNCHANGED <<listing, zone, loads, feed>>
    BY <1>12, <1>21 DEF GoToNoPage
  <2> QED
    BY <2>1, <2>2, <2>3 DEF TypeOK, PageOK, MostRows, EitherField, PartsWithin, Merged
<1>13. ASSUME NEW i \in DOMAIN loads, NEW load \in Load, Fits(load), loads' = [loads EXCEPT ![i] = load],
              UNCHANGED <<listing, zone, page, feed, walk>>,
              spent' \in [clicks : 0 .. MaxClicks, changes : 0 .. MaxChanges, failures : 0 .. MaxFailures]
       PROVE  TypeOK'
  <2>1. i \in 1 .. Len(loads)
    BY <1>1, LenProperties
  <2>2. /\ loads' \in Seq(Load) /\ Len(loads') = Len(loads) /\ DOMAIN loads' = DOMAIN loads
        /\ \A j \in DOMAIN loads : loads'[j] = IF j = i THEN load ELSE loads[j]
    BY <1>1, <1>13, <2>1, ExceptSeq
  <2>3. PartsWithin'
    BY <1>1, <1>13, <2>2, StillFit
  <2> QED
    BY <1>1, <1>13, <2>2, <2>3 DEF TypeOK, MostRows, EitherField
<1>22. ASSUME NEW i \in DOMAIN loads, Serve(i) PROVE TypeOK'
  <2> DEFINE load == [loads[i] EXCEPT !.answered = TRUE, !.seen = Found(loads[i])]
  <2>1. loads[i] \in Load /\ Found(loads[i]) \in SUBSET Key
    BY LoadTypes DEF TypeOK, Found, Matching
  <2>2. load \in Load /\ load.cursor = loads[i].cursor /\ load.jump = loads[i].jump
    BY <2>1 DEF Load
  <2>3. loads' = [loads EXCEPT ![i] = load] /\ ~Merged(loads[i])
        /\ UNCHANGED <<listing, zone, page, feed, walk, spent>>
    BY <1>22 DEF Serve
  <2> HIDE DEF load
  <2>4. Fits(load)
    BY <2>2, <2>3 DEF Fits, Merged
  <2> QED
    BY <1>13, <2>2, <2>3, <2>4 DEF TypeOK
<1>23. ASSUME NEW i \in DOMAIN loads, NEW part \in {"name", "data"}, NEW S \in SUBSET Key, PartSeen(i, part, S),
              spent' \in [clicks : 0 .. MaxClicks, changes : 0 .. MaxChanges, failures : 0 .. MaxFailures]
       PROVE  TypeOK'
  <2>1. PICK load \in Load : loads' = [loads EXCEPT ![i] = load] /\ Fits(load)
    BY <1>23, PartIs
  <2>2. UNCHANGED <<listing, zone, page, feed, walk>>
    BY <1>23 DEF PartSeen
  <2> QED
    BY <1>13, <1>23, <2>1, <2>2
<1>24. ASSUME NEW i \in DOMAIN loads, NEW part \in {"name", "data"}, ServePart(i, part) PROVE TypeOK'
  <2>1. PICK S \in SUBSET Key : PartSeen(i, part, S)
    BY <1>24 DEF ServePart, Matching, TypeOK
  <2> QED
    BY <1>23, <1>24, <2>1 DEF ServePart, TypeOK
<1>25. ASSUME NEW i \in DOMAIN loads, NEW part \in {"name", "data"}, PartFails(i, part) PROVE TypeOK'
  <2>1. /\ spent.failures < MaxFailures /\ spent' = [spent EXCEPT !.failures = @ + 1] /\ MaxFailures \in Nat
        /\ PartSeen(i, part, {})
    BY <1>25, PagesAssumption DEF PartFails, PagesAssumption
  <2>2. spent \in [clicks : 0 .. MaxClicks, changes : 0 .. MaxChanges, failures : 0 .. MaxFailures]
    BY DEF TypeOK
  <2>3. spent' \in [clicks : 0 .. MaxClicks, changes : 0 .. MaxChanges, failures : 0 .. MaxFailures]
    BY <2>1, <2>2
  <2> QED
    BY <1>23, <2>1, <2>3
<1>14. ASSUME NEW i \in DOMAIN loads, NEW p \in Page, PageOK(p), Over(i, p), UNCHANGED listing
       PROVE  /\ PageOK(page') /\ loads' \in Seq(Load) /\ Len(loads') <= MaxLoads /\ PartsWithin'
  <2>1. /\ loads' \in Seq(Load) /\ Len(loads') <= Len(loads)
        /\ (p.next \in Key /\ page' = OnNextPage(p)) \/ page' = p
        /\ \A j \in DOMAIN loads' :
              \/ \E h \in DOMAIN loads : loads'[j] = loads[h]
              \/ loads'[j] = Again(loads[i], p)
    BY <1>1, <1>14, OverIs
  <2>2. p.next \in Key => PageOK(OnNextPage(p))
    BY <1>14, OnNextPageIs DEF PageOK
  <2>3. Len(loads') \in Nat
    BY <2>1, LenProperties
  <2>4. Fits(Again(loads[i], p))
    <3>1. loads[i] \in Load
      BY LoadTypes
    <3>2. Again(loads[i], p).seen = {} /\ Again(loads[i], p).parts = {}
      BY <3>1 DEF Again, Load
    <3> QED
      BY <3>2, NewFits
  <2>5. PartsWithin'
    <3>1. ASSUME NEW j \in DOMAIN loads'
          PROVE  \/ \E h \in DOMAIN loads :
                       /\ loads'[j].cursor = loads[h].cursor /\ loads'[j].jump = loads[h].jump
                       /\ loads'[j].seen = loads[h].seen /\ loads'[j].parts = loads[h].parts
                 \/ Fits(loads'[j])
      BY <2>1, <2>4
    <3> QED
      BY <1>1, <1>14, <3>1, StillFit
  <2> QED
    BY <1>1, <1>14, <2>1, <2>2, <2>3, <2>5
<1>15. ASSUME NEW i \in DOMAIN loads, Deliver(i) PROVE TypeOK'
  <2>1. /\ Over(i, Answered(page, loads[i])) /\ PageOK(Answered(page, loads[i]))
        /\ walk' \in Walk /\ UNCHANGED <<listing, zone, feed, spent>>
    BY <1>15, DeliverIs
  <2>2. PageOK(page') /\ loads' \in Seq(Load) /\ Len(loads') <= MaxLoads /\ PartsWithin'
    BY <1>14, <2>1 DEF PageOK
  <2> QED
    BY <2>1, <2>2 DEF TypeOK, PageOK, MostRows, EitherField
<1>16. ASSUME NEW i \in DOMAIN loads, LoadFails(i) PROVE TypeOK'
  <2>1. PICK p \in Page : p.items = page.items /\ Over(i, p)
    BY <1>16, LoadFailsIs
  <2>3. /\ walk' \in Walk /\ UNCHANGED <<listing, zone, feed>>
        /\ spent' \in [clicks : 0 .. MaxClicks, changes : 0 .. MaxChanges, failures : 0 .. MaxFailures]
    BY <1>16, LoadFailsIs
  <2>2. PageOK(page') /\ loads' \in Seq(Load) /\ Len(loads') <= MaxLoads /\ PartsWithin'
    BY <1>1, <1>14, <2>1, <2>3 DEF PageOK
  <2> QED
    BY <2>2, <2>3 DEF TypeOK, PageOK, MostRows, EitherField
<1>17. ASSUME NEW k \in Key, Change(k) PROVE TypeOK'
  <2>1. PICK op \in {"add", "delete"}, told \in BOOLEAN :
           /\ zone' \subseteq Key
           /\ told => \E do \in {op, "reload"} : feed' = Append(feed, [do |-> do, key |-> k, old |-> FALSE])
           /\ ~told => feed' = [i \in DOMAIN feed |-> [feed[i] EXCEPT !.old = TRUE]]
    BY <1>17, ChangeIs
  <2>2. feed' \in Seq(Message)
    <3>1. feed \in Seq(Message)
      BY DEF TypeOK
    <3>2. CASE told
      <4>1. PICK do \in {op, "reload"} : feed' = Append(feed, [do |-> do, key |-> k, old |-> FALSE])
        BY <2>1, <3>2
      <4>2. [do |-> do, key |-> k, old |-> FALSE] \in Message
        BY DEF Message
      <4> QED
        BY <3>1, <4>1, <4>2, AppendProperties
    <3>3. CASE ~told
      <4>1. \A m \in Message : [m EXCEPT !.old = TRUE] \in Message
        BY DEF Message
      <4>2. \A i \in DOMAIN feed : [feed[i] EXCEPT !.old = TRUE] \in Message
        BY <3>1, <4>1
      <4> QED
        BY <2>1, <3>1, <3>3, <4>2
    <3> QED
      BY <3>2, <3>3
  <2>3. /\ walk' \in Walk /\ UNCHANGED <<listing, page>> /\ loads' \in Seq(Load)
        /\ Len(loads') = Len(loads) /\ DOMAIN loads' = DOMAIN loads
        /\ \A j \in DOMAIN loads : loads'[j] = loads[j] \/ loads'[j] = Outdated(j)
        /\ spent' \in [clicks : 0 .. MaxClicks, changes : 0 .. MaxChanges, failures : 0 .. MaxFailures]
    BY <1>17, ChangeIs
  <2>4. PartsWithin'
    BY <1>1, <2>3, OutdatedIs, StillFit
  <2> QED
    BY <1>1, <2>1, <2>2, <2>3, <2>4 DEF TypeOK, MostRows, EitherField
<1>18. CASE LiveMessage
  <2>1. /\ feed # <<>> /\ feed' = Tail(feed) /\ PageOK(page') /\ walk' \in Walk
        /\ UNCHANGED <<listing, zone, spent>>
    BY <1>18, LiveStepIs
  <2>2. feed' \in Seq(Message)
    BY <2>1, HeadTailProperties DEF TypeOK
  <2>3. LET reload == listing = "records" /\ Head(feed).do = "reload"
        IN  /\ loads' \in Seq(Load)
            /\ reload => Len(loads) < MaxLoads /\ Len(loads') = Len(loads) + 1
            /\ ~reload => Len(loads') = Len(loads)
            /\ \A j \in DOMAIN loads' :
                  \/ j \in DOMAIN loads /\ loads'[j] = Outdated(j)
                  \/ reload /\ loads'[j] = [NoLoad EXCEPT !.cursor = page.current]
    BY <1>1, <1>18, LiveMessageIs
  <2>4. Len(loads') <= MaxLoads
    BY <1>1, <2>3
  <2>5. ASSUME NEW j \in DOMAIN loads'
        PROVE  \/ \E h \in DOMAIN loads :
                     /\ loads'[j].cursor = loads[h].cursor /\ loads'[j].jump = loads[h].jump
                     /\ loads'[j].seen = loads[h].seen /\ loads'[j].parts = loads[h].parts
               \/ Fits(loads'[j])
    <3>1. CASE j \in DOMAIN loads /\ loads'[j] = Outdated(j)
      BY <1>1, <3>1, OutdatedIs
    <3>2. CASE loads'[j] = [NoLoad EXCEPT !.cursor = page.current]
      BY <3>2, NewLoads, NewFits
    <3> QED
      BY <2>3, <3>1, <3>2
  <2>6. PartsWithin'
    BY <1>1, <2>1, <2>5, StillFit
  <2> QED
    BY <2>1, <2>2, <2>3, <2>4, <2>6 DEF TypeOK, PageOK, MostRows, EitherField
<1>19. CASE UNCHANGED vars
  BY <1>19 DEF vars, TypeOK, MostRows, EitherField, PartsWithin, Merged
<1> QED
  BY <1>7, <1>8, <1>9, <1>10, <1>11, <1>20, <1>21, <1>22, <1>24, <1>25, <1>15, <1>16, <1>17, <1>18, <1>19
  DEF Next, Answer

\* Every variable has its type, and a page at most as many rows as its size, twice as many
\* in a search of either: those wouldFitOnPage lets in are cut as well.
THEOREM TypeCorrect == Spec => []TypeOK
<1>1. Init => TypeOK
  BY InitType
<1>2. TypeOK /\ [Next]_vars => TypeOK'
  BY TypeStep
<1> QED
  BY <1>1, <1>2, PTL DEF Spec
--------------------------------------------------------------------------------
(* What the steps do to the page, the requests and the walk *)

AClick ==
    \/ GoToNextPage \/ GoToLastPage \/ GoToPrevPage \/ GoToFirstPage \/ Reload
    \/ \E n \in 1 .. Cardinality(Key) : GoToRecordPage(n)

\* A request for the next page, or for the one before.
Forward(load) ==
    /\ page.more /\ page.next \in Key
    /\ load.cursor = page.next /\ load.jump = 0 /\ ~load.reset
    /\ page'.current = page.next /\ page'.history = Append(page.history, page.current)

Back(load) ==
    /\ page.history # <<>>
    /\ load.cursor = Last(page.history) /\ load.jump = 0 /\ ~load.reset
    /\ page'.current = Last(page.history) /\ page'.history = Front(page.history)

Turned(load) ==
    /\ load \in Load /\ ~load.answered
    /\ load.reset => load.cursor = None /\ load.jump = 0 /\ ~load.last
    /\ loads' = Append(loads, load)
    /\ page'.items = page.items /\ page'.next = page.next /\ page'.more = page.more
    /\ walk'.onward => walk.onward /\ loads = <<>> /\ Forward(load)
    /\ walk'.inStep => walk.inStep /\ loads = <<>> /\ Forward(load)
    /\ walk'.tidy => walk.tidy /\ loads = <<>> /\ (Forward(load) \/ Back(load))

LEMMA ClickTurns ==
    ASSUME TypeOK, NEW p \in Page, NEW load \in Load, NEW onward \in BOOLEAN, NEW tidy \in BOOLEAN,
           Click(p, load, onward, tidy), ~load.answered,
           load.reset => load.cursor = None /\ load.jump = 0 /\ ~load.last,
           p.items = page.items, p.next = page.next, p.more = page.more,
           page' = p /\ onward => Forward(load),
           page' = p /\ tidy => Forward(load) \/ Back(load)
    PROVE  Turned(load)
<1>1. page' = p /\ loads' = Append(loads, load)
  BY DEF Click
<1>2. walk' = [walk EXCEPT !.onward = @ /\ onward /\ loads = <<>>,
                          !.inStep = @ /\ onward /\ loads = <<>>,
                          !.tidy = @ /\ tidy /\ loads = <<>>]
  BY DEF Click
<1>3. /\ walk'.onward = (walk.onward /\ onward /\ loads = <<>>)
      /\ walk'.inStep = (walk.inStep /\ onward /\ loads = <<>>)
      /\ walk'.tidy = (walk.tidy /\ tidy /\ loads = <<>>)
  BY <1>2 DEF TypeOK, Walk
<1> QED
  BY <1>1, <1>3 DEF Turned

LEMMA ClickKeeps ==
    ASSUME TypeOK, AClick
    PROVE  /\ UNCHANGED <<listing, zone, feed>>
           /\ walk'.kept = walk.kept /\ walk'.shown = walk.shown /\ walk'.pushed = walk.pushed
           /\ walk'.stale = walk.stale /\ walk'.at = walk.at
<1>1. \A p, load, onward, tidy : Click(p, load, onward, tidy) =>
         /\ UNCHANGED <<listing, zone, feed>>
         /\ walk'.kept = walk.kept /\ walk'.shown = walk.shown /\ walk'.pushed = walk.pushed
         /\ walk'.stale = walk.stale /\ walk'.at = walk.at
  BY DEF Click, TypeOK, Walk
<1> QED
  BY <1>1 DEF AClick, GoToNextPage, GoToLastPage, GoToPrevPage, GoToFirstPage, Reload, GoToRecordPage

LEMMA ClickIs ==
    ASSUME TypeOK, AClick
    PROVE  \E load : Turned(load)
<1>1. page \in Page /\ page.history \in Seq(Cursor) /\ None \in Cursor /\ <<>> \in Seq(Cursor)
  BY EmptySeq DEF TypeOK, Page, Cursor
<1>2. ASSUME page.more, page.next \in Key, NEW load \in Load,
             ~load.answered, ~load.reset, load.cursor = page.next, load.jump = 0,
             Click(OnNextPage(page), load, TRUE, TRUE)
      PROVE  Turned(load)
  <2>1. page' = OnNextPage(page) => Forward(load)
    BY <1>1, <1>2, OnNextPageIs DEF Forward
  <2> QED
    BY <1>1, <1>2, <2>1, OnNextPageIs, ClickTurns
<1>3. CASE GoToNextPage
  <2> DEFINE load == [NoLoad EXCEPT !.cursor = page.next]
  <2>1. page.more /\ page.next \in Key /\ Click(OnNextPage(page), load, TRUE, TRUE)
    BY <1>1, <1>3 DEF GoToNextPage, Page
  <2>2. load \in Load /\ ~load.answered /\ ~load.reset /\ load.cursor = page.next /\ load.jump = 0
    BY <2>1 DEF NoLoad, Load, Cursor
  <2> HIDE DEF load
  <2> QED
    BY <1>2, <2>1, <2>2
<1>4. CASE GoToLastPage
  <2> DEFINE load == [NoLoad EXCEPT !.cursor = page.next, !.last = TRUE]
  <2>1. page.more /\ page.next \in Key /\ Click(OnNextPage(page), load, TRUE, TRUE)
    BY <1>1, <1>4 DEF GoToLastPage, Page
  <2>2. load \in Load /\ ~load.answered /\ ~load.reset /\ load.cursor = page.next /\ load.jump = 0
    BY <2>1 DEF NoLoad, Load, Cursor
  <2> HIDE DEF load
  <2> QED
    BY <1>2, <2>1, <2>2
<1>5. CASE GoToPrevPage
  <2> DEFINE c == Last(page.history)
             p == AtCursor(page, c, Front(page.history))
             load == [NoLoad EXCEPT !.cursor = c]
  <2>1. page.history # <<>> /\ Click(p, load, FALSE, TRUE)
    BY <1>5 DEF GoToPrevPage
  <2>2. c \in Cursor /\ Front(page.history) \in Seq(Cursor)
    <3>1. Len(page.history) \in Nat \ {0}
      BY <1>1, <2>1, EmptySeq
    <3>2. \A i \in 1 .. Len(page.history) : page.history[i] \in Cursor
      BY <1>1, ElementOfSeq
    <3>3. SubSeq(page.history, 1, Len(page.history) - 1) \in Seq(Cursor)
      BY <3>1, <3>2, SubSeqProperties
    <3> QED
      BY <3>1, <3>2, <3>3 DEF Last, Front
  <2>3. /\ p \in Page /\ p.items = page.items /\ p.next = page.next /\ p.more = page.more
        /\ p.current = c /\ p.history = Front(page.history)
    BY <1>1, <2>2, AtCursorIs
  <2>4. load \in Load /\ ~load.answered /\ ~load.reset /\ load.cursor = c /\ load.jump = 0
    BY <2>2 DEF NoLoad, Load
  <2> HIDE DEF p, load
  <2>5. page' = p => Back(load)
    BY <2>1, <2>3, <2>4 DEF Back
  <2>6. Turned(load)
    BY <2>1, <2>3, <2>4, <2>5, ClickTurns
  <2> QED
    BY <2>6
<1>6. ASSUME NEW h \in Seq(Cursor),
             Click(AtCursor(page, None, h), [NoLoad EXCEPT !.reset = TRUE], FALSE, FALSE)
      PROVE  \E load : Turned(load)
  <2> DEFINE load == [NoLoad EXCEPT !.reset = TRUE]
             p == AtCursor(page, None, h)
  <2>1. load \in Load /\ ~load.answered /\ load.cursor = None /\ load.jump = 0 /\ ~load.last
    BY DEF NoLoad, Load, Cursor
  <2>2. p \in Page /\ p.items = page.items /\ p.next = page.next /\ p.more = page.more
    BY <1>1, AtCursorIs
  <2> HIDE DEF load, p
  <2>3. Click(p, load, FALSE, FALSE)
    BY <1>6 DEF p, load
  <2>4. Turned(load)
    BY <2>1, <2>2, <2>3, ClickTurns
  <2> QED
    BY <2>4
<1>7. CASE GoToFirstPage \/ Reload
  BY <1>1, <1>6, <1>7 DEF GoToFirstPage, Reload
<1>8. ASSUME NEW n \in 1 .. Cardinality(Key), GoToRecordPage(n) PROVE \E load : Turned(load)
  <2> DEFINE h == [i \in 1 .. n - 1 |-> Made]
             load == [NoLoad EXCEPT !.jump = n]
             p == MadeUp(n)
  <2>1. n \in Nat \ {0}
    BY KeysFinite
  <2>2. h \in Seq(Cursor)
    BY <2>1 DEF Cursor
  <2>3. load \in Load /\ ~load.answered /\ ~load.reset
    BY <2>1 DEF NoLoad, Load, Cursor
  <2>4. p \in Page /\ p.items = page.items /\ p.next = page.next /\ p.more = page.more
    <3>1. p = [page EXCEPT !.history = h]
      BY DEF MadeUp
    <3> HIDE DEF h, p
    <3> QED
      BY <1>1, <2>2, <3>1 DEF Page
  <2>5. Click(p, load, FALSE, FALSE)
    BY <1>8 DEF GoToRecordPage
  <2> HIDE DEF load, p
  <2>6. Turned(load)
    BY <2>3, <2>4, <2>5, ClickTurns
  <2> QED
    BY <2>6
<1> QED
  BY <1>3, <1>4, <1>5, <1>7, <1>8 DEF AClick

\* A click that sends nothing.
LEMMA NoPageIs ==
    ASSUME TypeOK, NEW n \in 1 .. Cardinality(Key), GoToNoPage(n)
    PROVE  /\ UNCHANGED <<listing, zone, loads, feed>> /\ listing # "records"
           /\ page'.next = page.next /\ page'.more = page.more
           /\ ~walk'.onward /\ ~walk'.inStep /\ ~walk'.tidy
<1>1. page \in Page /\ walk \in Walk
  BY DEF TypeOK
<1>2. page' = [page EXCEPT !.history = [i \in 1 .. n - 1 |-> Made]]
  BY DEF GoToNoPage, MadeUp
<1>3. walk' = [walk EXCEPT !.onward = FALSE, !.inStep = FALSE, !.tidy = FALSE]
  BY DEF GoToNoPage
<1>4. listing # "records" /\ UNCHANGED <<listing, zone, loads, feed>>
  BY DEF GoToNoPage, Searches
<1> QED
  BY <1>1, <1>2, <1>3, <1>4 DEF Page, Walk

\* One answer that comes, of all or of a part.
LEMMA ServedIs ==
    ASSUME TypeOK, NEW i \in DOMAIN loads, NEW load \in Load, loads' = [loads EXCEPT ![i] = load]
    PROVE  /\ loads # <<>> /\ loads' # <<>> /\ Len(loads') = Len(loads) /\ DOMAIN loads' = DOMAIN loads
           /\ \A j \in DOMAIN loads : loads'[j] = IF j = i THEN load ELSE loads[j]
<1>1. loads \in Seq(Load) /\ DOMAIN loads = 1 .. Len(loads) /\ Len(loads) \in Nat
  BY LenProperties DEF TypeOK
<1>2. /\ loads' \in Seq(Load) /\ Len(loads') = Len(loads)
      /\ \A j \in 1 .. Len(loads) : loads'[j] = IF j = i THEN load ELSE loads[j]
  BY <1>1, ExceptSeq
<1> QED
  BY <1>1, <1>2, LenProperties, EmptySeq

LEMMA ServeIs ==
    ASSUME TypeOK, NEW i \in DOMAIN loads, Serve(i)
    PROVE  /\ UNCHANGED <<listing, zone, page, feed, walk>>
           /\ loads # <<>> /\ loads' # <<>> /\ Len(loads') = Len(loads) /\ DOMAIN loads' = DOMAIN loads
           /\ \A j \in DOMAIN loads :
                 /\ loads'[j].cursor = loads[j].cursor /\ loads'[j].jump = loads[j].jump
                 /\ loads'[j].reset = loads[j].reset /\ loads'[j].last = loads[j].last
                 /\ loads'[j].old = loads[j].old
                 /\ \/ loads'[j].answered = loads[j].answered /\ loads'[j].seen = loads[j].seen
                    \/ EitherField \/ loads'[j].seen = zone
<1> DEFINE load == [loads[i] EXCEPT !.answered = TRUE, !.seen = Found(loads[i])]
<1>1. loads' = [loads EXCEPT ![i] = load] /\ UNCHANGED <<listing, zone, page, feed, walk>>
  BY DEF Serve
<1>2. loads[i] \in Load /\ Found(loads[i]) \in SUBSET Key /\ (EitherField \/ Found(loads[i]) = zone)
  BY LoadTypes DEF TypeOK, Found, Matching
<1>3. /\ load \in Load /\ load.cursor = loads[i].cursor /\ load.jump = loads[i].jump
      /\ load.reset = loads[i].reset /\ load.last = loads[i].last /\ load.old = loads[i].old
      /\ load.seen = Found(loads[i])
  BY <1>2 DEF Load
<1> HIDE DEF load
<1>4. /\ loads # <<>> /\ loads' # <<>> /\ Len(loads') = Len(loads) /\ DOMAIN loads' = DOMAIN loads
      /\ \A j \in DOMAIN loads : loads'[j] = IF j = i THEN load ELSE loads[j]
  BY <1>1, <1>3, ServedIs
<1> QED
  BY <1>1, <1>2, <1>3, <1>4

LEMMA PartSeenIs ==
    ASSUME TypeOK, NEW i \in DOMAIN loads, NEW part \in {"name", "data"}, NEW S \in SUBSET Key,
           PartSeen(i, part, S)
    PROVE  /\ UNCHANGED <<listing, zone, page, feed, walk>> /\ EitherField /\ DOMAIN loads' = DOMAIN loads
           /\ \A j \in DOMAIN loads :
                 /\ loads'[j].cursor = loads[j].cursor /\ loads'[j].jump = loads[j].jump
                 /\ loads'[j].reset = loads[j].reset /\ loads'[j].last = loads[j].last
<1>1. PICK load \in Load : /\ loads' = [loads EXCEPT ![i] = load]
                           /\ load.cursor = loads[i].cursor /\ load.jump = loads[i].jump
                           /\ load.reset = loads[i].reset /\ load.last = loads[i].last
  BY PartIs
<1>2. EitherField /\ UNCHANGED <<listing, zone, page, feed, walk>>
  BY DEF PartSeen, Merged
<1> QED
  BY <1>1, <1>2, ServedIs

\* A change of the zone leaves the page and what was asked.
LEMMA ChangeKeeps ==
    ASSUME TypeOK, NEW k \in Key, Change(k)
    PROVE  /\ UNCHANGED <<listing, page>> /\ DOMAIN loads' = DOMAIN loads
           /\ walk'.onward = walk.onward /\ walk'.inStep = walk.inStep /\ ~walk'.tidy
           /\ walk'.kept = walk.kept \cap zone' /\ walk'.shown = walk.shown
           /\ walk'.pushed = walk.pushed /\ walk'.at = walk.at
           /\ \A j \in DOMAIN loads :
                 /\ loads'[j].cursor = loads[j].cursor /\ loads'[j].jump = loads[j].jump
                 /\ loads'[j].reset = loads[j].reset /\ loads'[j].last = loads[j].last
                 /\ loads'[j].answered = loads[j].answered /\ loads'[j].seen = loads[j].seen
<1>1. PICK told \in BOOLEAN :
         walk' = [walk EXCEPT !.kept = @ \cap zone', !.tidy = FALSE, !.stale = @ \/ ~told]
  BY ChangeIs
<1>2. walk \in Walk /\ loads \in Seq(Load)
  BY DEF TypeOK
<1>3. /\ UNCHANGED <<listing, page>> /\ DOMAIN loads' = DOMAIN loads
      /\ \A j \in DOMAIN loads : loads'[j] = loads[j] \/ loads'[j] = Outdated(j)
  BY ChangeIs
<1>4. ASSUME NEW j \in DOMAIN loads
      PROVE  /\ loads'[j].cursor = loads[j].cursor /\ loads'[j].jump = loads[j].jump
             /\ loads'[j].reset = loads[j].reset /\ loads'[j].last = loads[j].last
             /\ loads'[j].answered = loads[j].answered /\ loads'[j].seen = loads[j].seen
  BY <1>2, <1>3, OutdatedIs
<1>5. /\ walk'.onward = walk.onward /\ walk'.inStep = walk.inStep /\ ~walk'.tidy
      /\ walk'.kept = walk.kept \cap zone' /\ walk'.shown = walk.shown
      /\ walk'.pushed = walk.pushed /\ walk'.at = walk.at
  BY <1>1, <1>2 DEF Walk
<1> QED
  BY <1>3, <1>4, <1>5

\* The page of an answer, field by field.
LEMMA AnsweredFields ==
    ASSUME NEW p \in Page, NEW load \in Load
    PROVE  LET q     == Answered(p, load)
               items == Shown(load)
               rest  == Remaining(load)
           IN  /\ q.items = items /\ q.next = NextCursor(items, rest) /\ q.more = (rest # {})
               /\ q.history = (IF load.reset THEN <<>> ELSE p.history)
               /\ q.current = IF load.jump # 0 THEN Made ELSE p.current
<1> DEFINE items == Shown(load)
           rest  == Remaining(load)
           history == IF load.reset THEN <<>> ELSE p.history
           current == IF load.jump # 0 THEN Made ELSE p.current
           r == [p EXCEPT !.items = items, !.next = NextCursor(items, rest), !.more = rest # {}]
           s == [r EXCEPT !.total = Cardinality(load.seen)]
           t == [s EXCEPT !.history = history]
           u == [t EXCEPT !.current = current]
           F == {"items", "current", "next", "more", "total", "history"}
<1> HIDE DEF items, rest
<1>1. /\ DOMAIN p = F
      /\ r.items = items /\ r.next = NextCursor(items, rest) /\ r.more = (rest # {})
      /\ r.history = p.history /\ r.current = p.current /\ DOMAIN r = F
  BY DEF Page
<1> HIDE DEF r
<1>2. /\ s.items = r.items /\ s.next = r.next /\ s.more = r.more
      /\ s.history = r.history /\ s.current = r.current /\ DOMAIN s = F
  BY <1>1
<1> HIDE DEF s
<1>3. /\ t.items = s.items /\ t.next = s.next /\ t.more = s.more
      /\ t.history = history /\ t.current = s.current /\ DOMAIN t = F
  BY <1>2
<1> HIDE DEF t, history, current
<1>4. /\ u.items = t.items /\ u.next = t.next /\ u.more = t.more
      /\ u.history = t.history /\ u.current = current
  BY <1>3
<1>5. Answered(p, load) = u
  <2>1. s.history = p.history /\ t.current = p.current
    BY <1>1, <1>2, <1>3
  <2> HIDE DEF u
  <2> QED
    BY <2>1 DEF Answered, u, t, s, r, items, rest, history, current
<1> QED
  BY <1>1, <1>2, <1>3, <1>4, <1>5 DEF items, rest, history, current

\* The answer of any other than a search of either.
LEMMA PlainFields ==
    ASSUME NEW p \in Page, NEW load \in Load, ~EitherField
    PROVE  LET q     == Answered(p, load)
               items == FirstOf(Asked(load), Size)
               rest  == Asked(load) \ items
           IN  q.items = items /\ q.next = NextCursor(items, rest) /\ q.more = (rest # {})
<1>1. Shown(load) = FirstOf(Asked(load), Size) /\ Remaining(load) = Asked(load) \ FirstOf(Asked(load), Size)
  BY DEF Shown, Remaining, Merged
<1> QED
  BY <1>1, AnsweredFields

\* Is there a next page, and goToLastPage asks for it?
GoesOn(i, p) == loads[i].last /\ p.more /\ p.next \in Key /\ page'.current = p.next

LEMMA OverFields ==
    ASSUME TypeOK, NEW i \in DOMAIN loads, NEW p \in Page, Over(i, p)
    PROVE  /\ page'.items = p.items /\ page'.next = p.next /\ page'.more = p.more
           /\ Len(loads) \in Nat \ {0} /\ loads' \in Seq(Load)
           /\ \/ /\ Len(loads') = Len(loads) - 1
                 /\ page'.current = p.current /\ page'.history = p.history
              \/ /\ GoesOn(i, p) /\ Len(loads') = Len(loads) /\ page'.history = Append(p.history, p.current)
           /\ \A j \in DOMAIN loads' :
                 \/ \E h \in DOMAIN loads : h # i /\ loads'[j] = loads[h]
                 \/ /\ GoesOn(i, p)
                    /\ loads'[j].cursor = p.next /\ loads'[j].jump = loads[i].jump
                    /\ loads'[j].reset = loads[i].reset /\ loads'[j].last = loads[i].last
                    /\ ~loads'[j].answered
<1>1. loads \in Seq(Load) /\ Len(loads) \in Nat \ {0}
  <2>1. loads \in Seq(Load)
    BY DEF TypeOK
  <2>2. DOMAIN loads = 1 .. Len(loads) /\ Len(loads) \in Nat
    BY <2>1, LenProperties
  <2> QED
    BY <2>1, <2>2
<1>2. p.next \in Key => LET q == OnNextPage(p)
           IN  /\ q.current = p.next /\ q.history = Append(p.history, p.current)
               /\ q.items = p.items /\ q.next = p.next /\ q.more = p.more
  BY OnNextPageIs
<1>3. LET load == Again(loads[i], p)
      IN  /\ load.cursor = p.next /\ load.jump = loads[i].jump /\ load.reset = loads[i].reset
          /\ load.last = loads[i].last /\ ~load.answered
  <2>1. loads[i] \in Load
    BY LoadTypes
  <2> QED
    BY <2>1 DEF Again, Load
<1>4. /\ loads' \in Seq(Load)
      /\ \/ /\ loads[i].last /\ p.more /\ p.next \in Key /\ page' = OnNextPage(p)
            /\ Len(loads') = Len(loads)
         \/ page' = p /\ Len(loads') = Len(loads) - 1
      /\ \A j \in DOMAIN loads' :
            \/ \E h \in DOMAIN loads : h # i /\ loads'[j] = loads[h]
            \/ /\ loads[i].last /\ p.more /\ p.next \in Key /\ page' = OnNextPage(p)
               /\ loads'[j] = Again(loads[i], p)
  BY <1>1, OverIs
<1>5. page'.items = p.items /\ page'.next = p.next /\ page'.more = p.more
  BY <1>2, <1>4
<1>6. \/ /\ Len(loads') = Len(loads) - 1
         /\ page'.current = p.current /\ page'.history = p.history
      \/ /\ GoesOn(i, p) /\ Len(loads') = Len(loads) /\ page'.history = Append(p.history, p.current)
  BY <1>2, <1>4 DEF GoesOn
<1>7. ASSUME NEW j \in DOMAIN loads'
      PROVE  \/ \E h \in DOMAIN loads : h # i /\ loads'[j] = loads[h]
             \/ /\ GoesOn(i, p)
                /\ loads'[j].cursor = p.next /\ loads'[j].jump = loads[i].jump
                /\ loads'[j].reset = loads[i].reset /\ loads'[j].last = loads[i].last
                /\ ~loads'[j].answered
  BY <1>2, <1>3, <1>4 DEF GoesOn
<1> QED
  BY <1>1, <1>4, <1>5, <1>6, <1>7

\* The kinds of steps.
LEMMA NextIs ==
    TypeOK /\ [Next]_vars =>
      \/ AClick \/ LiveMessage \/ UNCHANGED vars
      \/ \E n \in 1 .. Cardinality(Key) : GoToNoPage(n)
      \/ \E i \in DOMAIN loads : Serve(i) \/ Deliver(i) \/ LoadFails(i)
      \/ \E i \in DOMAIN loads, part \in {"name", "data"}, S \in SUBSET Key : PartSeen(i, part, S)
      \/ \E k \in Key : Change(k)
<1> SUFFICES ASSUME TypeOK, [Next]_vars
             PROVE  \/ AClick \/ LiveMessage \/ UNCHANGED vars
                    \/ \E n \in 1 .. Cardinality(Key) : GoToNoPage(n)
                    \/ \E i \in DOMAIN loads : Serve(i) \/ Deliver(i) \/ LoadFails(i)
                    \/ \E i \in DOMAIN loads, part \in {"name", "data"}, S \in SUBSET Key : PartSeen(i, part, S)
                    \/ \E k \in Key : Change(k)
  OBVIOUS
<1>1. \A i, part : ServePart(i, part) \/ PartFails(i, part) => \E S \in SUBSET Key : PartSeen(i, part, S)
  BY DEF ServePart, Matching, PartFails, TypeOK
<1> QED
  BY <1>1 DEF Next, Answer, AClick

\* A listing stays what it is.
LEMMA ListingIs == [Next]_vars => UNCHANGED listing
BY DEF Next, Answer, GoToNextPage, GoToLastPage, GoToPrevPage, GoToFirstPage, Reload, GoToRecordPage,
   GoToNoPage, Click, Serve, ServePart, PartFails, PartSeen, Deliver, LoadFails, Change, LiveMessage, vars
--------------------------------------------------------------------------------
(* Asking for one page at a time *)

\* A request that resets the table asks for the first page.
Resets == \A i \in DOMAIN loads :
    loads[i].reset => loads[i].cursor = None /\ loads[i].jump = 0 /\ ~loads[i].last

\* The page after a page that is not the last begins somewhere.
Begins == page.more => page.next \in Key

\* Paging onward in step, everything on its way is for the current page.
OneAtATime == walk.inStep =>
    /\ page.current # Made
    /\ \A i \in DOMAIN loads :
          loads[i].cursor = page.current /\ loads[i].jump = 0 /\ ~loads[i].reset

Orderly == Resets /\ Begins /\ OneAtATime

\* The answer that begins a walk.
Starts(i) == loads[i].reset /\ page.current = None /\ Len(loads) = 1

LEMMA MadeIsNoKey == \A c \in Key : c # Made /\ c # None
BY PagesAssumption DEF PagesAssumption

LEMMA StartsIs ==
    ASSUME TypeOK, Orderly, NEW i \in DOMAIN loads, Deliver(i), Starts(i)
    PROVE  /\ loads' = <<>> /\ page'.current = None /\ page'.history = <<>>
           /\ loads[i].cursor = None /\ loads[i].jump = 0 /\ ~loads[i].last
<1>1. loads[i].reset /\ loads[i].cursor = None /\ loads[i].jump = 0 /\ ~loads[i].last
  BY DEF Orderly, Resets, Starts
<1> DEFINE p == Answered(page, loads[i])
<1>3. p \in Page /\ Over(i, p)
  BY DeliverIs DEF PageOK
<1>4. p.history = <<>> /\ p.current = None
  <2>1. page \in Page /\ loads[i] \in Load
    BY LoadTypes DEF TypeOK
  <2> QED
    BY <1>1, <2>1, AnsweredFields DEF Starts
<1> HIDE DEF p
<1>5. Len(loads') = Len(loads) - 1 /\ page'.current = p.current /\ page'.history = p.history
      /\ loads' \in Seq(Load)
  BY <1>1, <1>3, OverFields DEF GoesOn
<1>6. loads' = <<>>
  BY <1>5, EmptySeq DEF Starts
<1> QED
  BY <1>1, <1>4, <1>5, <1>6

\* What an answer leaves: its page, the other requests, and perhaps the next of goToLastPage.
LEMMA DeliverStep ==
    ASSUME TypeOK, NEW i \in DOMAIN loads, Deliver(i)
    PROVE  LET p == Answered(page, loads[i])
           IN  /\ p \in Page /\ page'.items = p.items /\ page'.next = p.next /\ page'.more = p.more
               /\ p.more => p.next \in Key
               /\ loads[i].jump = 0 => p.current = page.current
               /\ ~loads[i].reset => p.history = page.history
               /\ Len(loads) \in Nat \ {0} /\ loads' \in Seq(Load)
               /\ \/ /\ Len(loads') = Len(loads) - 1
                     /\ page'.current = p.current /\ page'.history = p.history
                  \/ /\ GoesOn(i, p) /\ Len(loads') = Len(loads)
                     /\ page'.history = Append(p.history, p.current)
               /\ \A j \in DOMAIN loads' :
                     \/ \E h \in DOMAIN loads : h # i /\ loads'[j] = loads[h]
                     \/ /\ GoesOn(i, p)
                        /\ loads'[j].cursor = p.next /\ loads'[j].jump = loads[i].jump
                        /\ loads'[j].reset = loads[i].reset /\ loads'[j].last = loads[i].last
                        /\ ~loads'[j].answered
<1> DEFINE p == Answered(page, loads[i])
<1>1. p \in Page /\ Over(i, p)
  BY DeliverIs DEF PageOK
<1>2. page \in Page /\ loads[i] \in Load
  BY LoadTypes DEF TypeOK
<1>3. p.more => p.next \in Key
  <2>1. p.more = (Remaining(loads[i]) # {}) /\ p.next = NextCursor(Shown(loads[i]), Remaining(loads[i]))
    BY <1>2, AnsweredFields
  <2>2. PICK from \in SUBSET Key : from = Asked(loads[i])
    BY <1>2, LoadTypes, AnsweredIs
  <2>3. CASE Merged(loads[i])
    BY <2>1, <2>3 DEF Remaining
  <2>4. CASE ~Merged(loads[i])
    <3>1. Shown(loads[i]) = FirstOf(from, Size) /\ Remaining(loads[i]) = from \ FirstOf(from, Size)
      BY <2>2, <2>4 DEF Shown, Remaining
    <3> HIDE DEF p
    <3> QED
      BY <2>1, <3>1, PageIs
  <2> QED
    BY <2>3, <2>4
<1>4. /\ loads[i].jump = 0 => p.current = page.current
      /\ ~loads[i].reset => p.history = page.history
  BY <1>2, AnsweredFields
<1> HIDE DEF p
<1> QED
  BY <1>1, <1>3, <1>4, OverFields DEF p

LEMMA OrderlyInit == Init => Orderly
<1> SUFFICES ASSUME Init PROVE Orderly
  OBVIOUS
<1>1. loads = <<[NoLoad EXCEPT !.reset = TRUE]>> /\ ~walk.inStep /\ ~page.more
  BY DEF Init
<1>2. Resets
  <2> DEFINE load == [NoLoad EXCEPT !.reset = TRUE]
  <2>1. load.cursor = None /\ load.jump = 0 /\ ~load.last
    BY DEF NoLoad
  <2> HIDE DEF load
  <2>2. \A i \in DOMAIN <<load>> : <<load>>[i] = load
    OBVIOUS
  <2> QED
    BY <1>1, <2>1, <2>2 DEF Resets, load
<1> QED
  BY <1>1, <1>2 DEF Orderly, Begins, OneAtATime

\* The requests after a click are the ones before it and its own.
LEMMA TurnedLoads ==
    ASSUME TypeOK, NEW load, Turned(load)
    PROVE  /\ loads' # <<>> /\ Len(loads') = Len(loads) + 1 /\ Len(loads) \in Nat
           /\ \A j \in DOMAIN loads' :
                 \/ j \in DOMAIN loads /\ loads'[j] = loads[j]
                 \/ loads'[j] = load
           /\ loads = <<>> => \A j \in DOMAIN loads' : loads'[j] = load
<1>1. loads \in Seq(Load) /\ load \in Load /\ loads' = Append(loads, load)
  BY DEF TypeOK, Turned
<1>2. loads = <<>> => DOMAIN loads = {}
  OBVIOUS
<1> QED
  BY <1>1, <1>2, AppendIs, LenProperties

\* The requests after a live message.
LEMMA LiveLoads ==
    ASSUME TypeOK, LiveMessage
    PROVE  LET reload == listing = "records" /\ Head(feed).do = "reload"
           IN  /\ Len(loads) \in Nat
               /\ reload => Len(loads') = Len(loads) + 1
               /\ ~reload => Len(loads') = Len(loads)
               /\ \A j \in DOMAIN loads' :
                     \/ /\ j \in DOMAIN loads
                        /\ loads'[j].cursor = loads[j].cursor /\ loads'[j].jump = loads[j].jump
                        /\ loads'[j].reset = loads[j].reset /\ loads'[j].last = loads[j].last
                        /\ loads'[j].answered = loads[j].answered /\ loads'[j].seen = loads[j].seen
                        /\ loads'[j].old = (loads[j].old \/ loads[j].answered)
                     \/ /\ reload /\ loads'[j].cursor = page.current /\ loads'[j].jump = 0
                        /\ ~loads'[j].reset /\ ~loads'[j].last /\ ~loads'[j].answered
<1> DEFINE reload == listing = "records" /\ Head(feed).do = "reload"
<1>1. loads \in Seq(Load) /\ page.current \in Cursor /\ Len(loads) \in Nat
  BY LenProperties DEF TypeOK, Page
<1>2. /\ reload => Len(loads') = Len(loads) + 1
      /\ ~reload => Len(loads') = Len(loads)
      /\ \A j \in DOMAIN loads' :
            \/ j \in DOMAIN loads /\ loads'[j] = Outdated(j)
            \/ reload /\ loads'[j] = [NoLoad EXCEPT !.cursor = page.current]
  BY <1>1, LiveMessageIs
<1>4. LET sent == [NoLoad EXCEPT !.cursor = page.current]
      IN  sent.cursor = page.current /\ sent.jump = 0 /\ ~sent.reset /\ ~sent.last /\ ~sent.answered
  BY DEF NoLoad
<1>6. ASSUME NEW j \in DOMAIN loads'
      PROVE  \/ /\ j \in DOMAIN loads
                /\ loads'[j].cursor = loads[j].cursor /\ loads'[j].jump = loads[j].jump
                /\ loads'[j].reset = loads[j].reset /\ loads'[j].last = loads[j].last
                /\ loads'[j].answered = loads[j].answered /\ loads'[j].seen = loads[j].seen
                /\ loads'[j].old = (loads[j].old \/ loads[j].answered)
             \/ /\ reload /\ loads'[j].cursor = page.current /\ loads'[j].jump = 0
                /\ ~loads'[j].reset /\ ~loads'[j].last /\ ~loads'[j].answered
  <2>1. CASE j \in DOMAIN loads /\ loads'[j] = Outdated(j)
    BY <1>1, <2>1, OutdatedIs
  <2>2. CASE reload /\ loads'[j] = [NoLoad EXCEPT !.cursor = page.current]
    BY <1>4, <2>2
  <2> QED
    BY <1>2, <2>1, <2>2
<1> QED
  BY <1>1, <1>2, <1>6

LEMMA OrderlyStep == TypeOK /\ Orderly /\ [Next]_vars => Orderly'
<1> SUFFICES ASSUME TypeOK, Orderly, [Next]_vars PROVE Orderly'
  OBVIOUS
<1>1. CASE AClick
  <2>1. PICK load : Turned(load)
    BY <1>1, ClickIs
  <2>2. \A j \in DOMAIN loads' : (j \in DOMAIN loads /\ loads'[j] = loads[j]) \/ loads'[j] = load
    BY <2>1, TurnedLoads
  <2>3. Resets'
    BY <2>1, <2>2 DEF Orderly, Resets, Turned
  <2>4. Begins'
    BY <2>1 DEF Orderly, Begins, Turned
  <2>5. OneAtATime'
    <3> SUFFICES ASSUME walk'.inStep
                 PROVE  /\ page'.current # Made
                        /\ \A j \in DOMAIN loads' :
                              loads'[j].cursor = page'.current /\ loads'[j].jump = 0 /\ ~loads'[j].reset
      BY DEF OneAtATime
    <3>1. loads = <<>> /\ Forward(load)
      BY <2>1 DEF Turned
    <3> QED
      BY <2>1, <3>1, TurnedLoads, MadeIsNoKey DEF Forward
  <2> QED
    BY <2>3, <2>4, <2>5 DEF Orderly
<1>2. CASE LiveMessage
  <2>1. page'.current = page.current /\ page'.next = page.next /\ page'.more = page.more
        /\ walk'.inStep = walk.inStep
    BY <1>2, LiveStepIs DEF TypeOK, Walk
  <2>2. \A j \in DOMAIN loads' :
            \/ /\ j \in DOMAIN loads
               /\ loads'[j].cursor = loads[j].cursor /\ loads'[j].jump = loads[j].jump
               /\ loads'[j].reset = loads[j].reset /\ loads'[j].last = loads[j].last
            \/ /\ loads'[j].cursor = page.current /\ loads'[j].jump = 0
               /\ ~loads'[j].reset
    BY <1>2, LiveLoads
  <2> QED
    BY <2>1, <2>2 DEF Orderly, Resets, Begins, OneAtATime
<1>3. ASSUME NEW i \in DOMAIN loads, Serve(i) PROVE Orderly'
  BY <1>3, ServeIs DEF Orderly, Resets, Begins, OneAtATime
<1>4. ASSUME NEW i \in DOMAIN loads, NEW p \in Page, Over(i, p), p.more => p.next \in Key,
             page'.more = p.more, page'.next = p.next
      PROVE  Resets' /\ Begins'
  <2>1. \A j \in DOMAIN loads' :
            \/ \E h \in DOMAIN loads : h # i /\ loads'[j] = loads[h]
            \/ loads[i].last /\ loads'[j].reset = loads[i].reset
    BY <1>4, OverFields DEF GoesOn
  <2>2. Resets'
    BY <2>1 DEF Orderly, Resets
  <2> QED
    BY <1>4, <2>2 DEF Begins
<1>5. ASSUME NEW i \in DOMAIN loads, Deliver(i) PROVE Orderly'
  <2> DEFINE p == Answered(page, loads[i])
  <2>1. /\ p \in Page /\ page'.next = p.next /\ page'.more = p.more
        /\ p.more => p.next \in Key
        /\ loads[i].jump = 0 => p.current = page.current
        /\ Len(loads) \in Nat \ {0} /\ loads' \in Seq(Load)
        /\ \/ Len(loads') = Len(loads) - 1 /\ page'.current = p.current
           \/ GoesOn(i, p) /\ Len(loads') = Len(loads)
        /\ \A j \in DOMAIN loads' :
              \/ \E h \in DOMAIN loads : h # i /\ loads'[j] = loads[h]
              \/ /\ GoesOn(i, p)
                 /\ loads'[j].cursor = p.next /\ loads'[j].jump = loads[i].jump
                 /\ loads'[j].reset = loads[i].reset
    BY <1>5, DeliverStep
  <2>2. Over(i, p)
    BY <1>5, DeliverIs
  <2>3. walk'.inStep = ((Starts(i) \/ walk.inStep) /\ (loads[i].last => Len(loads) = 1))
    BY <1>5, DeliverIs DEF Starts
  <2> HIDE DEF p
  <2>4. Resets' /\ Begins'
    BY <1>4, <2>1, <2>2
  <2>5. OneAtATime'
    <3> SUFFICES ASSUME walk'.inStep
                 PROVE  /\ page'.current # Made
                        /\ \A j \in DOMAIN loads' :
                              loads'[j].cursor = page'.current /\ loads'[j].jump = 0 /\ ~loads'[j].reset
      BY DEF OneAtATime
    <3>1. CASE Starts(i)
      <4>1. loads' = <<>> /\ page'.current = None
        BY <1>5, <3>1, StartsIs
      <4>2. DOMAIN loads' = {}
        BY <4>1
      <4> QED
        BY <4>1, <4>2, PagesAssumption DEF PagesAssumption
    <3>2. CASE ~Starts(i)
      <4>1. walk.inStep /\ (loads[i].last => Len(loads) = 1)
        BY <2>3, <3>2
      <4>2. /\ page.current # Made
            /\ \A j \in DOMAIN loads :
                  loads[j].cursor = page.current /\ loads[j].jump = 0 /\ ~loads[j].reset
        BY <4>1 DEF Orderly, OneAtATime
      <4>3. CASE GoesOn(i, p)
        <5>1. DOMAIN loads = {i} /\ page'.current = p.next /\ p.next \in Key
          <6>1. Len(loads) = 1 /\ DOMAIN loads = 1 .. Len(loads)
            BY <4>1, <4>3, LenProperties DEF GoesOn, TypeOK
          <6> QED
            BY <4>3, <6>1 DEF GoesOn
        <5> QED
          BY <2>1, <4>2, <5>1, MadeIsNoKey
      <4>4. CASE ~GoesOn(i, p)
        BY <2>1, <4>2, <4>4
      <4> QED
        BY <4>3, <4>4
    <3> QED
      BY <3>1, <3>2
  <2> QED
    BY <2>4, <2>5 DEF Orderly
<1>6. ASSUME NEW i \in DOMAIN loads, LoadFails(i) PROVE Orderly'
  <2>1. PICK p \in Page : /\ p.items = page.items /\ p.current = page.current /\ p.next = page.next
                          /\ p.more = page.more /\ Over(i, p)
    BY <1>6, LoadFailsIs
  <2>2. /\ page'.next = p.next /\ page'.more = p.more
        /\ Len(loads) \in Nat \ {0} /\ loads' \in Seq(Load)
        /\ \/ Len(loads') = Len(loads) - 1 /\ page'.current = p.current
           \/ GoesOn(i, p) /\ Len(loads') = Len(loads)
        /\ \A j \in DOMAIN loads' :
              \/ \E h \in DOMAIN loads : h # i /\ loads'[j] = loads[h]
              \/ /\ GoesOn(i, p)
                 /\ loads'[j].cursor = p.next /\ loads'[j].jump = loads[i].jump
                 /\ loads'[j].reset = loads[i].reset
    BY <2>1, OverFields
  <2>3. p.more => p.next \in Key
    BY <2>1 DEF Orderly, Begins
  <2>4. Resets' /\ Begins'
    BY <1>4, <2>1, <2>2, <2>3
  <2>5. OneAtATime'
    <3> SUFFICES ASSUME walk'.inStep
                 PROVE  /\ page'.current # Made
                        /\ \A j \in DOMAIN loads' :
                              loads'[j].cursor = page'.current /\ loads'[j].jump = 0 /\ ~loads'[j].reset
      BY DEF OneAtATime
    <3>1. walk.inStep /\ (loads[i].last => Len(loads) = 1)
      BY <1>6, LoadFailsIs DEF TypeOK, Walk
    <3>2. /\ page.current # Made
          /\ \A j \in DOMAIN loads :
                loads[j].cursor = page.current /\ loads[j].jump = 0 /\ ~loads[j].reset
      BY <3>1 DEF Orderly, OneAtATime
    <3>3. CASE GoesOn(i, p)
      <4>1. DOMAIN loads = {i} /\ page'.current = p.next /\ p.next \in Key
        <5>1. Len(loads) = 1 /\ DOMAIN loads = 1 .. Len(loads)
          BY <3>1, <3>3, LenProperties DEF GoesOn, TypeOK
        <5> QED
          BY <3>3, <5>1 DEF GoesOn
      <4> QED
        BY <2>2, <3>2, <4>1, MadeIsNoKey
    <3>4. CASE ~GoesOn(i, p)
      BY <2>1, <2>2, <3>2, <3>4
    <3> QED
      BY <3>3, <3>4
  <2> QED
    BY <2>4, <2>5 DEF Orderly
<1>7. ASSUME NEW k \in Key, Change(k) PROVE Orderly'
  BY <1>7, ChangeKeeps DEF Orderly, Resets, Begins, OneAtATime
<1>9. ASSUME NEW n \in 1 .. Cardinality(Key), GoToNoPage(n) PROVE Orderly'
  BY <1>9, NoPageIs DEF Orderly, Resets, Begins, OneAtATime
<1>10. ASSUME NEW i \in DOMAIN loads, NEW part \in {"name", "data"}, NEW S \in SUBSET Key, PartSeen(i, part, S)
       PROVE  Orderly'
  BY <1>10, PartSeenIs DEF Orderly, Resets, Begins, OneAtATime
<1>8. CASE UNCHANGED vars
  BY <1>8 DEF vars, Orderly, Resets, Begins, OneAtATime
<1> QED
  BY <1>1, <1>2, <1>3, <1>5, <1>6, <1>7, <1>8, <1>9, <1>10, NextIs
--------------------------------------------------------------------------------
(* The rows of the table exist *)

\* A message that takes the RRset off the table, or has the page loaded again.
Pending(k) == \E i \in DOMAIN feed : feed[i].key = k /\ feed[i].do # "add"

\* Between changes that were told: what is gone from the zone but on the table, or in an
\* answer no message overtook, or about to be added by a message, will be taken off by a
\* later message.
Caught == listing = "records" =>
    /\ ~walk.stale /\ loads = <<>> => \A k \in page.items \ zone : Pending(k)
    /\ \A i \in DOMAIN loads : loads[i].answered /\ ~loads[i].old
          => \A k \in loads[i].seen \ zone : Pending(k)
    /\ \A i \in DOMAIN feed : feed[i].do = "add" /\ ~feed[i].old /\ feed[i].key \notin zone
          => \E j \in DOMAIN feed : i < j /\ feed[j].key = feed[i].key /\ feed[j].do # "add"

LEMMA CaughtInit == Init => Caught
<1> SUFFICES ASSUME Init PROVE Caught
  OBVIOUS
<1>1. loads = <<[NoLoad EXCEPT !.reset = TRUE]>> /\ feed = <<>> /\ page.items = {}
  BY DEF Init
<1>2. DOMAIN feed = {}
  BY <1>1
<1>3. \A i \in DOMAIN loads : ~loads[i].answered
  <2> DEFINE load == [NoLoad EXCEPT !.reset = TRUE]
  <2>1. ~load.answered
    BY DEF NoLoad
  <2> HIDE DEF load
  <2>2. \A i \in DOMAIN <<load>> : <<load>>[i] = load
    OBVIOUS
  <2> QED
    BY <1>1, <2>1, <2>2 DEF load
<1> QED
  BY <1>1, <1>2, <1>3 DEF Caught

\* A change that is not told leaves nothing to be said of the table and what is on its way.
LEMMA CaughtUntold ==
    ASSUME TypeOK, walk'.stale, \A j \in DOMAIN loads : loads'[j] = Outdated(j),
           DOMAIN loads' = DOMAIN loads,
           feed' = [i \in DOMAIN feed |-> [feed[i] EXCEPT !.old = TRUE]]
    PROVE  Caught'
<1>1. loads \in Seq(Load) /\ feed \in Seq(Message)
  BY DEF TypeOK
<1>2. \A j \in DOMAIN loads' : ~ (loads'[j].answered /\ ~loads'[j].old)
  BY <1>1, OutdatedIs
<1>3. \A i \in DOMAIN feed' : feed'[i].old
  <2>1. \A m \in Message : [m EXCEPT !.old = TRUE].old
    BY DEF Message
  <2>2. \A i \in DOMAIN feed : feed[i] \in Message
    BY <1>1
  <2> QED
    BY <2>1, <2>2
<1> QED
  BY <1>2, <1>3 DEF Caught

\* A change sends the message that will take off what it removes.
LEMMA CaughtChange ==
    ASSUME TypeOK, Caught, listing = "records", NEW k \in Key, Change(k)
    PROVE  Caught'
<1>0. PICK op \in {"add", "delete"}, left \in BOOLEAN, told \in BOOLEAN :
         /\ op = "add" => left
         /\ zone' = (IF left THEN zone \cup {k} ELSE zone \ {k})
         /\ told => /\ \E do \in {op, "reload"} :
                          feed' = Append(feed, [do |-> do, key |-> k, old |-> FALSE])
                    /\ UNCHANGED loads
         /\ ~told => /\ feed' = [i \in DOMAIN feed |-> [feed[i] EXCEPT !.old = TRUE]]
                     /\ \A j \in DOMAIN loads : loads'[j] = Outdated(j)
         /\ walk' = [walk EXCEPT !.kept = @ \cap zone', !.tidy = FALSE, !.stale = @ \/ ~told]
  BY ChangeIs
<1>20. walk'.stale = (walk.stale \/ ~told)
  BY <1>0 DEF TypeOK, Walk
<1>21. CASE ~told
  <2>1. DOMAIN loads' = DOMAIN loads
    BY ChangeKeeps
  <2> QED
    BY <1>0, <1>20, <1>21, <2>1, CaughtUntold
<1> SUFFICES ASSUME told PROVE Caught'
  BY <1>21
<1>1. PICK do \in {op, "reload"} : feed' = Append(feed, [do |-> do, key |-> k, old |-> FALSE])
  BY <1>0
<1>2. /\ UNCHANGED <<listing, page, loads>> /\ walk'.stale = walk.stale
  BY <1>0, <1>20, ChangeKeeps, WalkTypes
<1>3. /\ feed \in Seq(Message) /\ Len(feed) \in Nat /\ DOMAIN feed = 1 .. Len(feed)
      /\ DOMAIN feed' = 1 .. Len(feed) + 1
      /\ \A j \in 1 .. Len(feed) : feed'[j] = feed[j]
      /\ feed'[Len(feed) + 1] = [do |-> do, key |-> k, old |-> FALSE]
  <2>1. feed \in Seq(Message) /\ [do |-> do, key |-> k, old |-> FALSE] \in Message
    BY DEF TypeOK, Message
  <2> HIDE DEF Message
  <2>2. feed' \in Seq(Message) /\ Len(feed') = Len(feed) + 1
    BY <1>1, <2>1, AppendProperties
  <2> QED
    BY <1>1, <2>1, <2>2, AppendProperties, LenProperties
<1>4. \A j : Pending(j) => Pending(j)'
  BY <1>3 DEF Pending
<1>5. \A j : j \notin zone' => j \notin zone \/ (j = k /\ do # "add")
  BY <1>0, <1>1
<1>6. do # "add" => Pending(k)'
  <2> SUFFICES ASSUME do # "add" PROVE \E i \in DOMAIN feed' : feed'[i].key = k /\ feed'[i].do # "add"
    BY DEF Pending
  <2> QED
    BY <1>3
<1>7. \A j : j \notin zone' => j \notin zone \/ Pending(j)'
  BY <1>5, <1>6
<1>8. ASSUME NEW i \in DOMAIN feed', feed'[i].do = "add", ~feed'[i].old, feed'[i].key \notin zone'
      PROVE  \E j \in DOMAIN feed' : i < j /\ feed'[j].key = feed'[i].key /\ feed'[j].do # "add"
  <2>1. CASE i = Len(feed) + 1
    BY <1>0, <1>1, <1>3, <1>8, <2>1
  <2>2. CASE i # Len(feed) + 1
    <3>1. i \in DOMAIN feed /\ feed'[i] = feed[i] /\ i < Len(feed) + 1
      BY <1>3, <2>2
    <3>2. CASE feed[i].key \notin zone
      <4>1. PICK j \in DOMAIN feed : i < j /\ feed[j].key = feed[i].key /\ feed[j].do # "add"
        BY <1>8, <3>1, <3>2 DEF Caught
      <4> QED
        BY <1>3, <3>1, <4>1
    <3>3. CASE feed[i].key \in zone
      <4>1. feed[i].key = k /\ do # "add"
        BY <1>5, <1>8, <3>1, <3>3
      <4> QED
        BY <1>3, <3>1, <4>1
    <3> QED
      BY <3>2, <3>3
  <2> QED
    BY <2>1, <2>2
<1>9. ~walk'.stale /\ loads' = <<>>
        => \A j \in page'.items \ zone' : Pending(j)'
  BY <1>2, <1>4, <1>7 DEF Caught
<1>10. \A i \in DOMAIN loads' : loads'[i].answered /\ ~loads'[i].old
        => \A j \in loads'[i].seen \ zone' : Pending(j)'
  BY <1>2, <1>4, <1>7 DEF Caught
<1> QED
  BY <1>8, <1>9, <1>10 DEF Caught

LEMMA CaughtLive ==
    ASSUME TypeOK, Caught, listing = "records", LiveMessage
    PROVE  Caught'
<1>0. PICK k, do : k = Head(feed).key /\ do = Head(feed).do
  OBVIOUS
<1>1. /\ feed # <<>> /\ feed' = Tail(feed) /\ UNCHANGED <<listing, zone>>
      /\ page'.items \subseteq page.items \cup {k}
      /\ do = "delete" /\ listing = "records" => page'.items = page.items \ {k}
      /\ do # "add" => page'.items \subseteq page.items
      /\ do \in {"add", "delete", "reload"}
  BY <1>0, LiveStepIs
<1>9. walk'.stale = (walk.stale \/ feed[1].old)
  <2>1. Head(feed) = feed[1]
    BY <1>1 DEF TypeOK
  <2> QED
    BY <2>1, LiveWalk
<1>2. /\ DOMAIN feed = 1 .. Len(feed) /\ Len(feed) \in Nat \ {0}
      /\ DOMAIN feed' = 1 .. Len(feed) - 1
      /\ \A j \in 1 .. Len(feed) - 1 : feed'[j] = feed[j + 1]
      /\ feed[1].key = k /\ feed[1].do = do
  <2>1. feed \in Seq(Message)
    BY DEF TypeOK, Message
  <2>2. feed' \in Seq(Message) /\ Len(feed') = Len(feed) - 1
        /\ \A j \in 1 .. Len(feed') : feed'[j] = feed[j + 1]
    BY <1>1, <2>1, HeadTailProperties
  <2>3. Len(feed) \in Nat \ {0} /\ DOMAIN feed = 1 .. Len(feed) /\ DOMAIN feed' = 1 .. Len(feed')
    BY <1>1, <2>1, <2>2, EmptySeq, LenProperties
  <2>4. Head(feed) = feed[1]
    BY <1>1, <2>1
  <2> QED
    BY <1>0, <2>2, <2>3, <2>4
<1>3. ASSUME NEW i \in DOMAIN feed, i # 1
      PROVE  i - 1 \in DOMAIN feed' /\ feed'[i - 1] = feed[i]
  BY <1>2, <1>3
<1>4. \A j : Pending(j) => Pending(j)' \/ (j = k /\ do # "add")
  <2> TAKE j
  <2>1. SUFFICES ASSUME Pending(j), ~ (j = k /\ do # "add")
                 PROVE  \E i \in DOMAIN feed' : feed'[i].key = j /\ feed'[i].do # "add"
    BY DEF Pending
  <2>2. PICK i \in DOMAIN feed : feed[i].key = j /\ feed[i].do # "add"
    BY <2>1 DEF Pending
  <2>3. i # 1
    BY <1>2, <2>1, <2>2
  <2> QED
    BY <1>3, <2>2, <2>3
<1>5. ASSUME do = "add", ~feed[1].old, k \notin zone PROVE Pending(k)'
  <2> SUFFICES \E i \in DOMAIN feed' : feed'[i].key = k /\ feed'[i].do # "add"
    BY DEF Pending
  <2>1. 1 \in DOMAIN feed
    BY <1>2
  <2>2. PICK j \in DOMAIN feed : 1 < j /\ feed[j].key = feed[1].key /\ feed[j].do # "add"
    BY <1>2, <1>5, <2>1 DEF Caught
  <2>3. j # 1
    BY <1>2, <2>2
  <2> QED
    BY <1>2, <1>3, <2>2, <2>3
<1>6. ASSUME ~walk'.stale, loads' = <<>>, NEW j \in page'.items \ zone'
      PROVE  Pending(j)'
  <2>1. /\ Len(loads) \in Nat
        /\ listing = "records" /\ do = "reload" => Len(loads') = Len(loads) + 1
        /\ ~ (listing = "records" /\ do = "reload") => Len(loads') = Len(loads)
    BY <1>0, LiveLoads
  <2>2. Len(loads') = 0
    BY <1>6
  <2>3. do # "reload" /\ Len(loads) = 0
    BY <1>1, <1>6, <2>1, <2>2
  <2>4. loads = <<>>
    BY <2>3, EmptySeq DEF TypeOK
  <2>5. ~feed[1].old /\ \A x \in page.items \ zone : Pending(x)
    BY <1>6, <1>9, <2>4 DEF Caught
  <2>6. CASE do = "add"
    BY <1>1, <1>4, <1>5, <1>6, <2>5, <2>6
  <2>7. CASE do = "delete"
    <3>1. j \in page.items \ zone /\ j # k
      BY <1>1, <1>6, <2>7
    <3> QED
      BY <1>4, <2>5, <3>1
  <2> QED
    BY <1>1, <2>3, <2>6, <2>7
<1>7. \A i \in DOMAIN loads' : ~ (loads'[i].answered /\ ~loads'[i].old)
  BY LiveLoads
<1>8. ASSUME NEW i \in DOMAIN feed', feed'[i].do = "add", ~feed'[i].old, feed'[i].key \notin zone'
      PROVE  \E j \in DOMAIN feed' : i < j /\ feed'[j].key = feed'[i].key /\ feed'[j].do # "add"
  <2>1. i + 1 \in DOMAIN feed /\ feed[i + 1] = feed'[i] /\ i \in Nat
    BY <1>2
  <2>2. PICK j \in DOMAIN feed : i + 1 < j /\ feed[j].key = feed'[i].key /\ feed[j].do # "add"
    BY <1>1, <1>8, <2>1 DEF Caught
  <2>3. j # 1 /\ i < j - 1
    BY <1>2, <2>1, <2>2
  <2> QED
    BY <1>3, <2>2, <2>3
<1> QED
  BY <1>6, <1>7, <1>8 DEF Caught

LEMMA CaughtStep == TypeOK /\ Caught /\ [Next]_vars => Caught'
<1> SUFFICES ASSUME TypeOK, Caught, listing = "records", [Next]_vars PROVE Caught'
  <2>1. [Next]_vars /\ listing # "records" => Caught'
    BY ListingIs DEF Caught
  <2> QED
    BY <2>1
<1>1. \A j : UNCHANGED feed => (Pending(j)' = Pending(j))
  BY DEF Pending
<1>2. UNCHANGED <<feed, zone>> =>
         \A i \in DOMAIN feed' : feed'[i].do = "add" /\ ~feed'[i].old /\ feed'[i].key \notin zone'
             => \E j \in DOMAIN feed' : i < j /\ feed'[j].key = feed'[i].key /\ feed'[j].do # "add"
  BY DEF Caught
<1>3. CASE AClick
  <2>1. PICK load : Turned(load)
    BY <1>3, ClickIs
  <2>2. /\ loads' # <<>>
        /\ \A j \in DOMAIN loads' : (j \in DOMAIN loads /\ loads'[j] = loads[j]) \/ loads'[j] = load
    BY <2>1, TurnedLoads
  <2>3. UNCHANGED <<zone, feed>> /\ ~load.answered
    BY <1>3, <2>1, ClickKeeps DEF Turned
  <2>4. \A i \in DOMAIN loads' : loads'[i].answered /\ ~loads'[i].old
        => \A j \in loads'[i].seen \ zone' : Pending(j)'
    BY <1>1, <2>2, <2>3 DEF Caught
  <2> QED
    BY <1>2, <2>2, <2>3, <2>4 DEF Caught
<1>4. ASSUME NEW i \in DOMAIN loads, Serve(i) PROVE Caught'
  <2>1. /\ UNCHANGED <<listing, zone, page, feed, walk>>
        /\ loads' # <<>> /\ DOMAIN loads' = DOMAIN loads
        /\ \A j \in DOMAIN loads :
              /\ loads'[j].old = loads[j].old
              /\ \/ loads'[j].answered = loads[j].answered /\ loads'[j].seen = loads[j].seen
                 \/ loads'[j].seen = zone
    BY <1>4, ServeIs DEF EitherField
  <2>2. \A h \in DOMAIN loads' : loads'[h].answered /\ ~loads'[h].old
        => \A j \in loads'[h].seen \ zone' : Pending(j)'
    BY <1>1, <2>1 DEF Caught
  <2> QED
    BY <1>2, <2>1, <2>2 DEF Caught
<1>5. ASSUME NEW i \in DOMAIN loads, NEW p \in Page, Over(i, p), UNCHANGED <<zone, feed>>
      PROVE  \A h \in DOMAIN loads' : loads'[h].answered /\ ~loads'[h].old
                => \A j \in loads'[h].seen \ zone' : Pending(j)'
  <2>1. \A j \in DOMAIN loads' : (\E h \in DOMAIN loads : loads'[j] = loads[h]) \/ ~loads'[j].answered
    BY <1>5, OverFields
  <2> QED
    BY <1>1, <1>5, <2>1 DEF Caught
<1>6. ASSUME NEW i \in DOMAIN loads, Deliver(i) PROVE Caught'
  <2> DEFINE p == Answered(page, loads[i])
  <2>1. /\ p \in Page /\ Over(i, p) /\ walk'.stale = loads[i].old /\ loads[i].answered
        /\ UNCHANGED <<listing, zone, feed>> /\ page'.items = p.items
    BY <1>6, DeliverIs, DeliverStep
  <2>2. p.items \subseteq loads[i].seen
    <3>1. page \in Page /\ loads[i] \in Load
      BY LoadTypes DEF TypeOK
    <3> QED
      BY <3>1, AnsweredIs
  <2> HIDE DEF p
  <2>3. ~walk'.stale /\ loads' = <<>>
          => \A k \in page'.items \ zone' : Pending(k)'
    BY <1>1, <2>1, <2>2 DEF Caught
  <2> QED
    BY <1>2, <1>5, <2>1, <2>3 DEF Caught
<1>7. ASSUME NEW i \in DOMAIN loads, LoadFails(i) PROVE Caught'
  <2>1. PICK p \in Page : Over(i, p)
    BY <1>7, LoadFailsIs
  <2>2. walk'.stale /\ UNCHANGED <<zone, feed>>
    BY <1>7, LoadFailsIs DEF TypeOK, Walk
  <2> QED
    BY <1>2, <1>5, <2>1, <2>2 DEF Caught
<1>8. CASE UNCHANGED vars
  <2>1. UNCHANGED <<zone, feed, page, loads, walk, listing>>
    BY <1>8 DEF vars
  <2> QED
    BY <1>1, <1>2, <2>1 DEF Caught
<1>9. ASSUME NEW n \in 1 .. Cardinality(Key), GoToNoPage(n) PROVE Caught'
  BY <1>9, NoPageIs
<1>10. ASSUME NEW i \in DOMAIN loads, NEW part \in {"name", "data"}, NEW S \in SUBSET Key, PartSeen(i, part, S)
       PROVE  Caught'
  BY <1>10, PartSeenIs DEF EitherField
<1> QED
  BY <1>3, <1>4, <1>6, <1>7, <1>8, <1>9, <1>10, CaughtChange, CaughtLive, NextIs

\* Once everything on its way has arrived, each row of the table exists, unless the page
\* is older than a live message applied before it or than a change that was not told, or its
\* load failed.
THEOREM RowsExistAlways == Spec => []RowsExist
<1>1. Init => Caught
  BY CaughtInit
<1>2. TypeOK /\ Caught /\ [Next]_vars => Caught'
  BY CaughtStep
<1>3. Caught => RowsExist
  <2> SUFFICES ASSUME Caught, loads = <<>>, feed = <<>>, listing = "records", ~walk.stale
               PROVE  page.items \subseteq zone
    BY DEF RowsExist
  <2>1. \A k : ~Pending(k)
    BY DEF Pending
  <2> QED
    BY <2>1 DEF Caught
<1> QED
  BY <1>1, <1>2, <1>3, TypeCorrect, PTL DEF Spec
--------------------------------------------------------------------------------
(* Nothing is skipped *)

\* No record name begins with "xn--".
NoIdn == \A k \in Key : NameOf[k] \notin Idn

\* What the walk has yet to show.
ToCome == walk.kept \ walk.shown

\* The RRsets at or after a cursor, whatever the zone holds.
Onward(c) == AtOrAfter(Key, c)

\* Paging onward, the next page, the current one and every request on its way lead to it.
Covered == walk.onward /\ ~EitherField =>
    /\ walk.kept \subseteq zone
    /\ \A i \in DOMAIN loads :
          /\ loads[i].jump = 0 /\ ~loads[i].reset /\ loads[i].cursor # Made
          /\ ToCome \subseteq Onward(loads[i].cursor)
          /\ loads[i].answered => walk.kept \subseteq loads[i].seen
    /\ page.current # Made
    /\ ToCome # {} => page.more
    /\ page.more => ToCome \subseteq Onward(page.next)
    /\ ToCome \subseteq Onward(page.current)

LEMMA OnwardIs ==
    ASSUME NoIdn, NEW c \in Cursor, c # Made,
           NEW S \in SUBSET Key
    PROVE  /\ AtOrAfter(S, c) = S \cap Onward(c)
           /\ c = None => Onward(c) = Key
           /\ c \in Key /\ listing = "records" => Onward(c) = {k \in Key : k >= c}
           /\ c \in Key /\ listing # "records" => Onward(c) = {k \in Key : NameOf[k] >= NameOf[c]}
<1>1. CASE c = None
  BY <1>1, MadeIsNoKey DEF AtOrAfter, Onward
<1>2. CASE c \in Key /\ listing = "records"
  <2>1. \A T : AtOrAfter(T, c) = {k \in T : k >= c}
    BY <1>2, MadeIsNoKey DEF AtOrAfter, NoIdn
  <2> QED
    BY <1>2, <2>1, MadeIsNoKey DEF Onward
<1>3. CASE c \in Key /\ listing # "records"
  <2>1. \A T : AtOrAfter(T, c) = {k \in T : NameOf[k] >= NameOf[c]}
    BY <1>3, MadeIsNoKey DEF AtOrAfter, NoIdn
  <2> QED
    BY <1>3, <2>1, MadeIsNoKey DEF Onward
<1> QED
  BY <1>1, <1>2, <1>3 DEF Cursor

\* What does not fit on the page is at or after the next one.
LEMMA RestIsOnward ==
    ASSUME NoIdn, NEW from \in SUBSET Key
    PROVE  LET items == FirstOf(from, Size)
               rest  == from \ items
           IN  rest # {} => rest \subseteq Onward(NextCursor(items, rest))
<1> DEFINE items == FirstOf(from, Size)
           rest  == from \ items
<1>1. /\ items \in SUBSET Key /\ rest \in SUBSET Key /\ items \subseteq from
      /\ rest # {} => items # {}
      /\ rest # {} => NextCursor(items, rest) \in Key
      /\ \A j \in items, k \in rest : j < k
  BY PageIs, FirstOfIsLow, PagesAssumption DEF PagesAssumption
<1> SUFFICES ASSUME rest # {} PROVE rest \subseteq Onward(NextCursor(items, rest))
  OBVIOUS
<1> HIDE DEF items, rest
<1>2. PICK c \in Key : c = NextCursor(items, rest)
  BY <1>1
<1>3. c \in Cursor /\ c # Made
  BY MadeIsNoKey DEF Cursor
<1>4. \A k \in rest : k \in Key /\ c <= k
  <2>1. CASE AllZones
    <3>1. c \in items
      BY <1>1, <1>2, <2>1, LargestIsGreatest DEF NextCursor
    <3>2. \A k \in rest : k \in Nat /\ c \in Nat
      BY <1>1, PagesAssumption DEF PagesAssumption
    <3> QED
      BY <1>1, <3>1, <3>2
  <2>2. CASE ~AllZones
    BY <1>1, <1>2, <2>2, SmallestIsLeast DEF NextCursor
  <2> QED
    BY <2>1, <2>2
<1>5. \A k \in rest : k >= c /\ NameOf[k] >= NameOf[c]
  <2> TAKE k \in rest
  <2>1. k \in Nat /\ c \in Nat /\ NameOf[k] \in Nat /\ NameOf[c] \in Nat /\ c <= k
    BY <1>1, <1>4, PagesAssumption DEF PagesAssumption
  <2>2. c < k => NameOf[c] <= NameOf[k]
    BY <1>4, PagesAssumption DEF PagesAssumption
  <2> QED
    BY <2>1, <2>2
<1> QED
  BY <1>2, <1>3, <1>4, <1>5, OnwardIs

\* An answer shows what comes next of the walk and leaves the rest to the next page.
LEMMA AnswerCovers ==
    ASSUME TypeOK, NoIdn, ~EitherField, NEW i \in DOMAIN loads, loads[i].jump = 0,
           loads[i].cursor # Made, NEW kept \in SUBSET Key, kept \subseteq loads[i].seen,
           NEW left \in SUBSET kept, left \subseteq Onward(loads[i].cursor)
    PROVE  LET p == Answered(page, loads[i])
           IN  /\ left \ p.items # {} => p.more
               /\ p.more => left \ p.items \subseteq Onward(p.next)
<1>1. page \in Page /\ loads[i] \in Load
      /\ loads[i].seen \in SUBSET Key /\ loads[i].cursor \in Cursor
  BY LoadTypes DEF TypeOK
<1>2. PICK from \in SUBSET Key : from = Asked(loads[i])
  BY <1>1, AnsweredIs
<1>3. from = loads[i].seen \cap Onward(loads[i].cursor)
  BY <1>1, <1>2, OnwardIs DEF Asked
<1>4. left \subseteq from
  BY <1>3
<1> DEFINE items == FirstOf(from, Size)
           rest == from \ items
           p == Answered(page, loads[i])
<1>5. p.items = items /\ p.more = (rest # {}) /\ p.next = NextCursor(items, rest)
  BY <1>1, <1>2, PlainFields
<1>6. rest # {} => rest \subseteq Onward(NextCursor(items, rest))
  BY <1>1, RestIsOnward
<1>7. left \ items \subseteq rest
  BY <1>4
<1> HIDE DEF items, rest, p
<1> QED
  BY <1>5, <1>6, <1>7 DEF p

LEMMA CoveredStep ==
    ASSUME TypeOK, Orderly, Covered, NoIdn, [Next]_vars
    PROVE  Covered'
<1>1. \A c : UNCHANGED listing => Onward(c)' = Onward(c)
  BY DEF Onward, AtOrAfter
<1>2. UNCHANGED listing
  BY ListingIs
<1> DEFINE Then == /\ walk'.kept \subseteq zone'
                   /\ \A j \in DOMAIN loads' :
                         /\ loads'[j].jump = 0 /\ ~loads'[j].reset /\ loads'[j].cursor # Made
                         /\ ToCome' \subseteq Onward(loads'[j].cursor)
                         /\ loads'[j].answered => walk'.kept \subseteq loads'[j].seen
                   /\ page'.current # Made
                   /\ ToCome' # {} => page'.more
                   /\ page'.more => ToCome' \subseteq Onward(page'.next)
                   /\ ToCome' \subseteq Onward(page'.current)
<1> SUFFICES ASSUME walk'.onward, ~EitherField PROVE Then
  BY <1>1, <1>2 DEF Covered, EitherField
<1>3. walk.onward =>
        /\ walk.kept \subseteq zone
        /\ \A j \in DOMAIN loads :
              /\ loads[j].jump = 0 /\ ~loads[j].reset /\ loads[j].cursor # Made
              /\ ToCome \subseteq Onward(loads[j].cursor)
              /\ loads[j].answered => walk.kept \subseteq loads[j].seen
        /\ page.current # Made
        /\ ToCome # {} => page.more
        /\ page.more => ToCome \subseteq Onward(page.next)
        /\ ToCome \subseteq Onward(page.current)
  BY DEF Covered
<1>4. ToCome' = walk'.kept \ walk'.shown
  BY DEF ToCome
<1>5. CASE AClick
  <2>1. PICK load : Turned(load)
    BY <1>5, ClickIs
  <2>2. /\ walk.onward /\ loads = <<>> /\ Forward(load)
        /\ page'.next = page.next /\ page'.more = page.more /\ ~load.answered
    BY <2>1 DEF Turned
  <2>3. \A j \in DOMAIN loads' : loads'[j] = load
    BY <2>1, <2>2, TurnedLoads
  <2>4. zone' = zone /\ walk'.kept = walk.kept /\ ToCome' = ToCome
    BY <1>4, <1>5, ClickKeeps DEF ToCome
  <2> QED
    BY <1>3, <2>2, <2>3, <2>4, MadeIsNoKey DEF Forward
<1>6. ASSUME NEW i \in DOMAIN loads, Serve(i) PROVE Then
  <2>1. /\ UNCHANGED <<zone, page, walk>> /\ DOMAIN loads' = DOMAIN loads
        /\ \A j \in DOMAIN loads :
               /\ loads'[j].cursor = loads[j].cursor /\ loads'[j].jump = loads[j].jump
               /\ loads'[j].reset = loads[j].reset
               /\ \/ loads'[j].answered = loads[j].answered /\ loads'[j].seen = loads[j].seen
                  \/ loads'[j].seen = zone
    BY <1>6, ServeIs
  <2>2. ToCome' = ToCome
    BY <2>1 DEF ToCome
  <2> QED
    BY <1>3, <2>1, <2>2
<1>7. ASSUME NEW i \in DOMAIN loads, Deliver(i) PROVE Then
  <2> DEFINE p == Answered(page, loads[i])
  <2>1. /\ walk'.onward = (Starts(i) \/ walk.onward)
        /\ walk'.kept = IF Starts(i) THEN zone \cap loads[i].seen ELSE walk.kept
        /\ walk'.shown = IF Starts(i) THEN p.items ELSE walk.shown \cup p.items
        /\ UNCHANGED zone /\ zone \subseteq Key /\ walk.kept \subseteq Key
    BY <1>7, DeliverIs, WalkTypes DEF Starts, TypeOK
  <2>2. /\ page'.next = p.next /\ page'.more = p.more
        /\ loads[i].jump = 0 => p.current = page.current
        /\ page'.current = p.current \/ GoesOn(i, p)
        /\ \A j \in DOMAIN loads' :
              \/ \E h \in DOMAIN loads : loads'[j] = loads[h]
              \/ /\ GoesOn(i, p) /\ ~loads'[j].answered /\ loads'[j].cursor = p.next
                 /\ loads'[j].jump = loads[i].jump /\ loads'[j].reset = loads[i].reset
    BY <1>7, DeliverStep
  <2>3. loads[i].answered
    BY <1>7, DeliverIs
  <2>4. ASSUME NEW kept \in SUBSET Key, kept \subseteq loads[i].seen, loads[i].jump = 0,
               loads[i].cursor # Made, NEW left \in SUBSET kept, left \subseteq Onward(loads[i].cursor)
        PROVE  /\ left \ p.items # {} => p.more
               /\ p.more => left \ p.items \subseteq Onward(p.next)
    BY <2>4, AnswerCovers
  <2>5. CASE Starts(i)
    <3>1. /\ loads' = <<>> /\ page'.current = None /\ loads[i].cursor = None /\ loads[i].jump = 0
      BY <1>7, <2>5, StartsIs
    <3>2. DOMAIN loads' = {} /\ None # Made
      BY <3>1, PagesAssumption DEF PagesAssumption
    <3>3. Onward(None) = Key
      <4>1. None \in Cursor
        BY DEF Cursor, TypeOK
      <4> QED
        BY <3>2, <4>1, OnwardIs
    <3>4. walk'.kept = zone \cap loads[i].seen /\ walk'.shown = p.items
      BY <2>1, <2>5
    <3>5. walk'.kept \in SUBSET Key /\ walk'.kept \subseteq loads[i].seen
      BY <2>1, <3>4
    <3> HIDE DEF p
    <3>6. /\ walk'.kept \ p.items # {} => p.more
          /\ p.more => walk'.kept \ p.items \subseteq Onward(p.next)
      BY <2>4, <3>1, <3>2, <3>3, <3>5
    <3> QED
      BY <1>4, <2>1, <2>2, <3>1, <3>2, <3>3, <3>4, <3>5, <3>6
  <2>6. CASE ~Starts(i)
    <3>1. walk.onward /\ walk'.kept = walk.kept /\ ToCome' = ToCome \ p.items
      BY <1>4, <2>1, <2>6 DEF ToCome
    <3>2. loads[i].jump = 0 /\ ~loads[i].reset /\ loads[i].cursor # Made
          /\ walk.kept \subseteq loads[i].seen /\ ToCome \subseteq Onward(loads[i].cursor)
      BY <1>3, <2>3, <3>1
    <3>3. ToCome \in SUBSET walk.kept
      BY DEF ToCome
    <3> HIDE DEF p
    <3>4. /\ ToCome \ p.items # {} => p.more
          /\ p.more => ToCome \ p.items \subseteq Onward(p.next)
      BY <2>1, <2>4, <3>2, <3>3
    <3>5. GoesOn(i, p) => /\ page'.current = p.next /\ p.next # Made
                          /\ ToCome' \subseteq Onward(p.next)
      BY <3>1, <3>4, MadeIsNoKey DEF GoesOn
    <3>6. page'.current # Made /\ ToCome' \subseteq Onward(page'.current)
      BY <1>3, <2>2, <3>1, <3>2, <3>5
    <3>7. ASSUME NEW j \in DOMAIN loads'
          PROVE  /\ loads'[j].jump = 0 /\ ~loads'[j].reset /\ loads'[j].cursor # Made
                 /\ ToCome' \subseteq Onward(loads'[j].cursor)
                 /\ loads'[j].answered => walk'.kept \subseteq loads'[j].seen
      <4>1. CASE \E h \in DOMAIN loads : loads'[j] = loads[h]
        BY <1>3, <3>1, <4>1
      <4>2. CASE ~ \E h \in DOMAIN loads : loads'[j] = loads[h]
        BY <2>2, <3>2, <3>5, <4>2
      <4> QED
        BY <4>1, <4>2
    <3> QED
      BY <1>3, <2>1, <2>2, <3>1, <3>4, <3>6, <3>7
  <2> QED
    BY <2>5, <2>6
<1>8. ASSUME NEW i \in DOMAIN loads, LoadFails(i) PROVE Then
  <2>1. PICK p \in Page : /\ p.current = page.current /\ p.next = page.next
                          /\ p.more = page.more /\ Over(i, p)
    BY <1>8, LoadFailsIs
  <2>2. /\ page'.next = p.next /\ page'.more = p.more
        /\ page'.current = p.current \/ GoesOn(i, p)
        /\ \A j \in DOMAIN loads' :
              \/ \E h \in DOMAIN loads : loads'[j] = loads[h]
              \/ /\ GoesOn(i, p) /\ ~loads'[j].answered /\ loads'[j].cursor = p.next
                 /\ loads'[j].jump = loads[i].jump /\ loads'[j].reset = loads[i].reset
    BY <2>1, OverFields
  <2>3. walk.onward /\ walk'.kept = walk.kept /\ walk'.shown = walk.shown /\ zone' = zone
    BY <1>8, LoadFailsIs DEF TypeOK, Walk
  <2>4. ToCome' = ToCome
    BY <2>3 DEF ToCome
  <2>5. GoesOn(i, p) => page'.current = page.next /\ p.next # Made /\ page.more
    BY <2>1, MadeIsNoKey DEF GoesOn
  <2> QED
    BY <1>3, <2>1, <2>2, <2>3, <2>4, <2>5
<1>9. ASSUME NEW k \in Key, Change(k) PROVE Then
  <2>1. /\ UNCHANGED page /\ walk.onward /\ walk'.kept = walk.kept \cap zone' /\ walk'.shown = walk.shown
        /\ DOMAIN loads' = DOMAIN loads
        /\ \A j \in DOMAIN loads :
              /\ loads'[j].cursor = loads[j].cursor /\ loads'[j].jump = loads[j].jump
              /\ loads'[j].reset = loads[j].reset
              /\ loads'[j].answered = loads[j].answered /\ loads'[j].seen = loads[j].seen
    BY <1>9, ChangeKeeps
  <2>2. ToCome' \subseteq ToCome
    BY <1>4, <2>1 DEF ToCome
  <2> QED
    BY <1>3, <2>1, <2>2
<1>10. CASE LiveMessage
  <2>1. /\ page'.current = page.current /\ page'.next = page.next /\ page'.more = page.more
        /\ zone' = zone
    BY <1>10, LiveStepIs
  <2>4. walk'.onward = walk.onward /\ walk'.kept = walk.kept /\ walk.shown \subseteq walk'.shown
    BY <1>10, LiveWalk
  <2>2. ToCome' \subseteq ToCome
    BY <1>4, <2>4 DEF ToCome
  <2>3. \A j \in DOMAIN loads' :
           \/ /\ j \in DOMAIN loads
              /\ loads'[j].cursor = loads[j].cursor /\ loads'[j].jump = loads[j].jump
              /\ loads'[j].reset = loads[j].reset
              /\ loads'[j].answered = loads[j].answered /\ loads'[j].seen = loads[j].seen
           \/ /\ loads'[j].cursor = page.current /\ loads'[j].jump = 0
              /\ ~loads'[j].reset /\ ~loads'[j].answered
    BY <1>10, LiveLoads
  <2> QED
    BY <1>3, <2>1, <2>4, <2>2, <2>3
<1>11. CASE UNCHANGED vars
  <2>1. UNCHANGED <<page, loads, walk, zone>> /\ ToCome' = ToCome
    BY <1>11 DEF vars, ToCome
  <2> QED
    BY <1>3, <2>1
<1>12. ASSUME NEW n \in 1 .. Cardinality(Key), GoToNoPage(n) PROVE Then
  BY <1>12, NoPageIs
<1>13. ASSUME NEW i \in DOMAIN loads, NEW part \in {"name", "data"}, NEW S \in SUBSET Key, PartSeen(i, part, S)
       PROVE  Then
  BY <1>13, PartSeenIs
<1> QED
  BY <1>5, <1>6, <1>7, <1>8, <1>9, <1>10, <1>11, <1>12, <1>13, NextIs

\* Paging onward shows everything that stays in the zone, in the listing of a zone and in
\* searches of names or of data, when no record name begins with "xn--": what was not shown
\* is still to come, and there is a next page for it.
THEOREM NothingSkippedAlways ==
    ASSUME NoIdn
    PROVE  Spec => []NothingSkipped
<1>1. Init => Covered
  BY DEF Init, Covered
<1>2. TypeOK /\ Orderly /\ Covered /\ [Next]_vars => Covered'
  BY CoveredStep
<1>3. TypeOK /\ Orderly /\ Covered => NothingSkipped
  <2> SUFFICES ASSUME TypeOK, Orderly, Covered, walk.onward, ~EitherField, NEW k \in walk.kept \ walk.shown
               PROVE  page.more /\ k \in AtOrAfter(zone, page.next)
    BY DEF NothingSkipped
  <2>1. page.more /\ k \in Onward(page.next) /\ k \in zone
    BY DEF Covered, ToCome
  <2>2. page.next \in Key
    BY <2>1 DEF Orderly, Begins
  <2>3. page.next \in Cursor /\ page.next # Made /\ zone \in SUBSET Key
       
    BY <2>2, MadeIsNoKey DEF Cursor, TypeOK
  <2> QED
    BY <2>1, <2>3, OnwardIs
<1> QED
  BY <1>1, <1>2, <1>3, TypeCorrect, OrderlyInit, OrderlyStep, PTL DEF Spec
--------------------------------------------------------------------------------
(* Nothing is repeated *)

\* What was shown and not pushed off is before the next page, and on this one or before it.
\* A page is asked for at its first RRset.
Apart == walk.inStep /\ listing = "records" /\ Idn = {} =>
    /\ walk.at # Made /\ page.items \subseteq walk.shown
    /\ page.current # walk.at => page.more /\ page.current = page.next
    /\ page.more => \A k \in walk.shown \ walk.pushed : k < page.next
    /\ \A k \in walk.shown \ walk.pushed : k \in page.items \/ (walk.at # None /\ k < walk.at)

\* The rows of an answer are between its cursor and the next one.
LEMMA AnswerBetween ==
    ASSUME TypeOK, Idn = {}, listing = "records", NEW i \in DOMAIN loads,
           loads[i].jump = 0, loads[i].cursor # Made
    PROVE  LET p == Answered(page, loads[i])
               c == loads[i].cursor
           IN  /\ p.items \subseteq Key
               /\ c # None => c \in Key /\ \A k \in p.items : c <= k
               /\ p.more => \A k \in p.items : k < p.next
               /\ p.more /\ c # None => c <= p.next
<1>1. page \in Page /\ loads[i] \in Load
      /\ loads[i].seen \in SUBSET Key /\ loads[i].cursor \in Cursor
  BY LoadTypes DEF TypeOK
<1>2. PICK from \in SUBSET Key : from = Asked(loads[i])
  BY <1>1, AnsweredIs
<1>3. PICK c \in Cursor : c = loads[i].cursor /\ c # Made
  BY <1>1
<1>4. NoIdn
  BY DEF NoIdn
<1>5. c # None => c \in Key /\ \A k \in from : c <= k
  <2> SUFFICES ASSUME c # None PROVE c \in Key /\ \A k \in from : c <= k
    OBVIOUS
  <2>1. c \in Key /\ c \in Nat
    BY <1>3, PagesAssumption DEF Cursor, PagesAssumption
  <2>2. from = loads[i].seen \cap {k \in Key : k >= c}
    BY <1>1, <1>2, <1>3, <1>4, <2>1, OnwardIs DEF Asked
  <2>3. \A k \in from : k \in Nat /\ k >= c
    BY <2>2, PagesAssumption DEF PagesAssumption
  <2> QED
    BY <2>1, <2>3
<1> DEFINE items == FirstOf(from, Size)
           rest == from \ items
           p == Answered(page, loads[i])
<1>6. p.items = items /\ p.more = (rest # {}) /\ p.next = NextCursor(items, rest)
  BY <1>1, <1>2, PlainFields DEF EitherField
<1>7. /\ items \subseteq from /\ rest \in SUBSET Key /\ rest \subseteq from
      /\ \A j \in items, k \in rest : j < k
  BY FirstOfIsLow, PagesAssumption DEF PagesAssumption
<1> HIDE DEF items, rest, p
<1>8. p.more => p.next \in rest
  BY <1>6, <1>7, SmallestIsLeast DEF NextCursor, AllZones
<1>9. /\ p.items \subseteq Key
      /\ c # None => c \in Key /\ \A k \in p.items : c <= k
      /\ p.more => \A k \in p.items : k < p.next
      /\ p.more /\ c # None => c <= p.next
  BY <1>5, <1>6, <1>7, <1>8
<1> QED
  BY <1>3, <1>9 DEF p

LEMMA ApartStep ==
    ASSUME TypeOK, Orderly, Apart, [Next]_vars
    PROVE  Apart'
<1>1. UNCHANGED listing
  BY ListingIs
<1> SUFFICES ASSUME walk'.inStep, listing = "records", Idn = {}
             PROVE  /\ walk'.at # Made /\ page'.items \subseteq walk'.shown
                    /\ page'.current # walk'.at => page'.more /\ page'.current = page'.next
                    /\ page'.more => \A k \in walk'.shown \ walk'.pushed : k < page'.next
                    /\ \A k \in walk'.shown \ walk'.pushed : k \in page'.items \/ (walk'.at # None /\ k < walk'.at)
  BY <1>1 DEF Apart
<1>2. walk.inStep =>
         /\ walk.at # Made /\ page.items \subseteq walk.shown
         /\ page.current # walk.at => page.more /\ page.current = page.next
         /\ page.more => \A k \in walk.shown \ walk.pushed : k < page.next
         /\ \A k \in walk.shown \ walk.pushed : k \in page.items \/ (walk.at # None /\ k < walk.at)
  BY DEF Apart
<1>3. walk.inStep => /\ page.current # Made
                     /\ \A j \in DOMAIN loads : loads[j].cursor = page.current /\ loads[j].jump = 0
  BY DEF Orderly, OneAtATime
<1>4. CASE AClick
  <2>1. PICK load : Turned(load)
    BY <1>4, ClickIs
  <2>2. walk.inStep /\ Forward(load) /\ page'.items = page.items /\ page'.next = page.next
        /\ page'.more = page.more
    BY <2>1 DEF Turned
  <2>3. walk'.shown = walk.shown /\ walk'.pushed = walk.pushed /\ walk'.at = walk.at
    BY <1>4, ClickKeeps
  <2> QED
    BY <1>2, <2>2, <2>3 DEF Forward
<1>5. ASSUME NEW i \in DOMAIN loads, Deliver(i)
      PROVE  /\ walk'.at # Made /\ page'.items \subseteq walk'.shown
             /\ page'.current # walk'.at => page'.more /\ page'.current = page'.next
             /\ page'.more => \A k \in walk'.shown \ walk'.pushed : k < page'.next
             /\ \A k \in walk'.shown \ walk'.pushed : k \in page'.items \/ (walk'.at # None /\ k < walk'.at)
  <2> DEFINE p == Answered(page, loads[i])
             c == loads[i].cursor
  <2>1. /\ walk'.inStep = ((Starts(i) \/ walk.inStep) /\ (loads[i].last => Len(loads) = 1))
        /\ walk'.shown = IF Starts(i) THEN p.items ELSE walk.shown \cup p.items
        /\ walk'.pushed = IF Starts(i) THEN {} ELSE walk.pushed \cup
                              {k \in page.items \ p.items : c = walk.at}
        /\ walk'.at = c
    BY <1>5, DeliverIs DEF Starts
  <2>2. /\ page'.items = p.items /\ page'.next = p.next /\ page'.more = p.more
        /\ loads[i].jump = 0 => p.current = page.current
        /\ page'.current = p.current \/ GoesOn(i, p)
        /\ p.more => p.next \in Key
    BY <1>5, DeliverStep
  <2>3. loads[i].jump = 0 /\ c # Made =>
               /\ p.items \subseteq Key
               /\ c # None => c \in Key /\ \A k \in p.items : c <= k
               /\ p.more => \A k \in p.items : k < p.next
               /\ p.more /\ c # None => c <= p.next
    BY AnswerBetween
  <2>4. CASE Starts(i)
    <3>1. page'.current = None /\ c = None /\ loads[i].jump = 0 /\ c # Made
      BY <1>5, <2>4, StartsIs, PagesAssumption DEF PagesAssumption
    <3>2. walk'.shown = p.items /\ walk'.pushed = {}
      BY <2>1, <2>4
    <3> HIDE DEF p, c
    <3> QED
      BY <2>1, <2>2, <2>3, <3>1, <3>2
  <2>5. CASE ~Starts(i)
    <3>1. walk.inStep /\ c = page.current /\ loads[i].jump = 0 /\ c # Made
      BY <1>3, <2>1, <2>5
    <3>2. /\ walk'.shown = walk.shown \cup p.items
          /\ walk'.pushed = walk.pushed \cup {k \in page.items \ p.items : c = walk.at}
      BY <2>1, <2>5
    <3>3. page'.current # c => p.more /\ page'.current = p.next
      BY <2>2, <3>1 DEF GoesOn
    <3>4. ASSUME NEW k \in walk'.shown \ walk'.pushed
          PROVE  k \in p.items \/ (c # None /\ k < c)
      <4> HIDE DEF p, c
      <4>1. CASE k \in p.items
        BY <4>1
      <4>2. CASE k \in (walk.shown \ walk.pushed) \ p.items /\ c = walk.at
        BY <1>2, <3>1, <3>2, <3>4, <4>2
      <4>3. CASE k \in walk.shown \ walk.pushed /\ c # walk.at
        <5>1. page.more /\ c = page.next /\ k < c
          BY <1>2, <3>1, <4>3
        <5>2. c # None
          BY <5>1, MadeIsNoKey DEF Orderly, Begins
        <5> QED
          BY <5>1, <5>2
      <4> QED
        BY <3>2, <3>4, <4>1, <4>2, <4>3
    <3>5. ASSUME p.more, NEW k \in walk'.shown \ walk'.pushed
          PROVE  k < p.next
      <4> HIDE DEF p, c
      <4>1. CASE k \in p.items
        BY <2>3, <3>1, <3>5, <4>1
      <4>2. CASE c # None /\ k < c
        <5>1. c \in Nat /\ p.next \in Nat /\ k \in Nat /\ c <= p.next
          <6>1. k \in Key
            BY <2>3, <3>1, <3>2, WalkTypes
          <6> QED
            BY <2>2, <2>3, <3>1, <3>5, <4>2, <6>1, PagesAssumption DEF PagesAssumption
        <5> QED
          BY <4>2, <5>1
      <4> QED
        BY <3>4, <4>1, <4>2
    <3> HIDE DEF p, c
    <3> QED
      BY <2>1, <2>2, <3>1, <3>2, <3>3, <3>4, <3>5
  <2> QED
    BY <2>4, <2>5
<1>6. ASSUME NEW i \in DOMAIN loads, LoadFails(i)
      PROVE  /\ walk'.at # Made /\ page'.items \subseteq walk'.shown
             /\ page'.current # walk'.at => page'.more /\ page'.current = page'.next
             /\ page'.more => \A k \in walk'.shown \ walk'.pushed : k < page'.next
             /\ \A k \in walk'.shown \ walk'.pushed : k \in page'.items \/ (walk'.at # None /\ k < walk'.at)
  <2>1. PICK p \in Page : /\ p.items = page.items /\ p.current = page.current /\ p.next = page.next
                          /\ p.more = page.more /\ Over(i, p)
    BY <1>6, LoadFailsIs
  <2>2. /\ page'.items = p.items /\ page'.next = p.next /\ page'.more = p.more
        /\ page'.current = p.current \/ GoesOn(i, p)
    BY <2>1, OverFields
  <2>3. walk.inStep /\ walk'.shown = walk.shown /\ walk'.pushed = walk.pushed /\ walk'.at = walk.at
    BY <1>6, LoadFailsIs DEF TypeOK, Walk
  <2> QED
    BY <1>2, <2>1, <2>2, <2>3 DEF GoesOn
<1>7. CASE LiveMessage
  <2>1. /\ page'.current = page.current /\ page'.next = page.next /\ page'.more = page.more
        /\ page'.items \subseteq Key
    BY <1>7, LiveStepIs DEF PageOK, Page
  <2>2. /\ walk'.inStep = walk.inStep /\ walk'.at = walk.at
        /\ walk'.shown = walk.shown \cup page'.items
        /\ walk'.pushed = walk.pushed \cup (page.items \ page'.items) \cup
                                {j \in page'.items \ page.items : page.more /\ j >= page.next}
    BY <1>7, LiveWalk
  <2>3. ASSUME NEW k \in walk'.shown \ walk'.pushed
        PROVE  k \in walk.shown \ walk.pushed \/ k \in page'.items \ page.items
    BY <1>2, <2>2, <2>3
  <2>4. ASSUME NEW k \in walk'.shown \ walk'.pushed, page.more
        PROVE  k < page.next
    <3>1. CASE k \in walk.shown \ walk.pushed
      BY <1>2, <2>2, <2>4, <3>1
    <3>2. CASE k \in page'.items \ page.items
      <4>1. ~ (k >= page.next)
        BY <2>2, <2>4, <3>2
      <4>2. k \in Nat /\ page.next \in Nat
        BY <2>1, <2>4, <3>2, PagesAssumption DEF Orderly, Begins, PagesAssumption
      <4> QED
        BY <4>1, <4>2
    <3> QED
      BY <2>3, <3>1, <3>2
  <2>5. ASSUME NEW k \in walk'.shown \ walk'.pushed
        PROVE  k \in page'.items \/ (walk'.at # None /\ k < walk'.at)
    BY <1>2, <2>2, <2>3
  <2> QED
    BY <1>2, <2>1, <2>2, <2>4, <2>5
<1>8. CASE \/ UNCHANGED vars
           \/ \E i \in DOMAIN loads : Serve(i)
           \/ \E k \in Key : Change(k)
  <2>1. /\ page' = page /\ walk'.inStep = walk.inStep /\ walk'.shown = walk.shown
        /\ walk'.pushed = walk.pushed /\ walk'.at = walk.at
    <3>1. CASE UNCHANGED vars
      BY <3>1 DEF vars
    <3>2. CASE \E i \in DOMAIN loads : Serve(i)
      BY <3>2, ServeIs
    <3>3. CASE \E k \in Key : Change(k)
      BY <3>3, ChangeKeeps
    <3> QED
      BY <1>8, <3>1, <3>2, <3>3
  <2> QED
    BY <1>2, <2>1
<1>9. ASSUME NEW n \in 1 .. Cardinality(Key), GoToNoPage(n) PROVE FALSE
  BY <1>9, NoPageIs
<1>10. ASSUME NEW i \in DOMAIN loads, NEW part \in {"name", "data"}, NEW S \in SUBSET Key, PartSeen(i, part, S)
       PROVE  FALSE
  BY <1>10, PartSeenIs DEF EitherField
<1> QED
  BY <1>4, <1>5, <1>6, <1>7, <1>8, <1>9, <1>10, NextIs

\* Paging onward through the RRsets of a zone shows no row on two pages, unless live
\* messages pushed it off the first of them or had put it there although the next page
\* begins at it or before it, when goToLastPage goes on only from the answer it waits for;
\* whatever order the browser sorts its rows in.
THEOREM NothingRepeatedAlways == Spec => NothingRepeated
<1>1. Init => Apart
  BY DEF Init, Apart
<1>2. TypeOK /\ Orderly /\ Apart /\ [Next]_vars => Apart'
  BY ApartStep
<1>3. TypeOK /\ Orderly /\ Apart /\ [Next]_vars =>
        [\A i \in DOMAIN loads :
          Deliver(i) /\ listing = "records" /\ walk.inStep /\ Idn = {}
              /\ loads[i].cursor \notin {None, walk.at}
          => Answered(page, loads[i]).items \cap walk.shown \subseteq walk.pushed]_vars
  <2> SUFFICES ASSUME TypeOK, Orderly, Apart, NEW i \in DOMAIN loads, listing = "records",
                      walk.inStep, Idn = {}, loads[i].cursor \notin {None, walk.at}
               PROVE  Answered(page, loads[i]).items \cap walk.shown \subseteq walk.pushed
    OBVIOUS
  <2>1. loads[i].cursor = page.current /\ loads[i].jump = 0 /\ page.current # Made
    BY DEF Orderly, OneAtATime
  <2>2. page.more /\ loads[i].cursor = page.next
        /\ \A k \in walk.shown \ walk.pushed : k < loads[i].cursor
    BY <2>1 DEF Apart
  <2>3. /\ Answered(page, loads[i]).items \subseteq Key /\ loads[i].cursor \in Key
        /\ \A k \in Answered(page, loads[i]).items : loads[i].cursor <= k
    BY <2>1, AnswerBetween
  <2>4. \A j, k \in Key : ~ (j < k /\ k <= j)
    BY PagesAssumption DEF PagesAssumption
  <2>5. walk.shown \subseteq Key
    BY WalkTypes
  <2> QED
    BY <2>2, <2>3, <2>4, <2>5
<1> QED
  BY <1>1, <1>2, <1>3, TypeCorrect, OrderlyInit, OrderlyStep, PTL DEF Spec, NothingRepeated
--------------------------------------------------------------------------------
(* The number of the page *)

\* What the first n pages of a set of RRsets leave.
Left(S, n) == S \ FirstOf(S, n * Size)

\* The RRsets from a cursor on, as the zone is.
RowsFrom(c) == AtOrAfter(zone, c)

\* While the zone stays as it is and one page is asked for at a time, the current page and
\* those of the history begin where their numbers say, and what is on its way is the page.
InPlace == walk.tidy /\ listing = "records" /\ Idn = {} =>
    /\ feed = <<>> /\ Len(loads) <= 1 /\ page.current # Made
    /\ \A i \in DOMAIN loads :
          /\ loads[i].cursor = page.current /\ loads[i].jump = 0 /\ ~loads[i].reset
          /\ loads[i].answered => loads[i].seen = zone
    /\ RowsFrom(page.current) = Left(zone, Len(page.history))
    /\ \A h \in DOMAIN page.history :
          page.history[h] # Made /\ RowsFrom(page.history[h]) = Left(zone, h - 1)
    /\ loads = <<>> =>
          /\ page.items = FirstOf(Left(zone, Len(page.history)), Size)
          /\ page.more => RowsFrom(page.next) = Left(zone, Len(page.history) + 1)

LEMMA LeftIs ==
    ASSUME NEW S \in SUBSET Key
    PROVE  /\ Left(S, 0) = S
           /\ \A n \in Nat : LET from == Left(S, n)
                             IN  from \ FirstOf(from, Size) = Left(S, n + 1)
<1>1. Size \in Nat
  BY PagesAssumption DEF PagesAssumption
<1>2. FirstOf(S, 0) = {}
  <2>1. \A k \in S : Cardinality({j \in S : j < k}) \in Nat
    <3>1. \A k \in S : {j \in S : j < k} \in SUBSET Key
      OBVIOUS
    <3> QED
      BY <3>1, KeysFinite
  <2>2. \A k \in S : ~ (Cardinality({j \in S : j < k}) < 0)
    BY <2>1
  <2> QED
    BY <2>2 DEF FirstOf
<1>3. ASSUME NEW n \in Nat
      PROVE  n * Size \in Nat /\ (n + 1) * Size = n * Size + Size
  BY <1>1
<1>4. 0 * Size = 0
  BY <1>1
<1>5. Left(S, 0) = S
  BY <1>2, <1>4 DEF Left
<1>6. ASSUME NEW n \in Nat
      PROVE  LET from == Left(S, n) IN from \ FirstOf(from, Size) = Left(S, n + 1)
  <2>1. PICK m \in Nat : m = n * Size
    BY <1>3
  <2>2. LET rest == S \ FirstOf(S, m)
        IN  rest \ FirstOf(rest, Size) = S \ FirstOf(S, m + Size)
    <3>1. \A k, j \in Nat : LET rest == S \ FirstOf(S, k)
                            IN  rest \ FirstOf(rest, j) = S \ FirstOf(S, k + j)
      BY FirstOfSplits
    <3> QED
      BY <1>1, <3>1
  <2> QED
    BY <1>3, <2>1, <2>2 DEF Left
<1> QED
  BY <1>5, <1>6

\* The next page begins where this one ends.
LEMMA NextBegins ==
    ASSUME TypeOK, Idn = {}, listing = "records", NEW n \in Nat
    PROVE  LET from  == Left(zone, n)
               items == FirstOf(from, Size)
               rest  == from \ items
           IN  rest # {} => RowsFrom(NextCursor(items, rest)) = Left(zone, n + 1)
<1> DEFINE from  == Left(zone, n)
           items == FirstOf(from, Size)
           rest  == from \ items
<1>1. zone \in SUBSET Key /\ NoIdn /\ Size \in Nat
  BY PagesAssumption DEF TypeOK, NoIdn, PagesAssumption
<1>2. rest = Left(zone, n + 1)
  BY <1>1, LeftIs
<1>3. PICK m \in Nat : m = (n + 1) * Size
  BY <1>1
<1>4. rest = zone \ FirstOf(zone, m)
  BY <1>2, <1>3 DEF Left
<1> SUFFICES ASSUME rest # {} PROVE RowsFrom(NextCursor(items, rest)) = rest
  BY <1>2
<1> HIDE DEF rest, items
<1>5. PICK c \in rest : c = Smallest(rest) /\ \A k \in rest : c <= k
  BY <1>1, <1>4, SmallestIsLeast
<1>6. NextCursor(items, rest) = c
  BY <1>5 DEF NextCursor, AllZones
<1>7. c \in Key /\ c \in Cursor /\ c # Made
  BY <1>1, <1>4, MadeIsNoKey DEF Cursor
<1>8. RowsFrom(c) = zone \cap {k \in Key : k >= c}
  BY <1>1, <1>7, OnwardIs DEF RowsFrom
<1>9. \A k \in zone : k >= c <=> k \in rest
  <2> TAKE k \in zone
  <2>1. k \in Nat /\ c \in Nat
    BY <1>1, <1>7, PagesAssumption DEF PagesAssumption
  <2>2. k \notin rest => k < c
    BY <1>1, <1>4, FirstOfIsLow
  <2> QED
    BY <1>5, <2>1, <2>2
<1> QED
  BY <1>1, <1>4, <1>6, <1>8, <1>9

\* An answer about the zone as it is shows the page that was asked for.
LEMMA AnswerInPlace ==
    ASSUME TypeOK, Idn = {}, listing = "records", NEW i \in DOMAIN loads, loads[i].jump = 0,
           loads[i].seen = zone, NEW n \in Nat, RowsFrom(loads[i].cursor) = Left(zone, n)
    PROVE  LET p == Answered(page, loads[i])
           IN  /\ p.items = FirstOf(Left(zone, n), Size)
               /\ p.more => RowsFrom(p.next) = Left(zone, n + 1)
<1>1. page \in Page /\ loads[i] \in Load
  BY LoadTypes DEF TypeOK
<1>2. Asked(loads[i]) = Left(zone, n)
  BY DEF Asked, RowsFrom
<1> DEFINE items == FirstOf(Left(zone, n), Size)
           rest == Left(zone, n) \ items
           p == Answered(page, loads[i])
<1>3. p.items = items /\ p.more = (rest # {}) /\ p.next = NextCursor(items, rest)
  BY <1>1, <1>2, PlainFields DEF EitherField
<1>4. rest # {} => RowsFrom(NextCursor(items, rest)) = Left(zone, n + 1)
  BY NextBegins
<1> HIDE DEF p, items, rest
<1> QED
  BY <1>3, <1>4 DEF p, items

LEMMA HistoryIs ==
    TypeOK => /\ page.history \in Seq(Cursor) /\ page.current \in Cursor
              /\ Len(page.history) \in Nat /\ DOMAIN page.history = 1 .. Len(page.history)
BY LenProperties DEF TypeOK, Page

LEMMA InPlaceStep ==
    ASSUME TypeOK, Orderly, InPlace, [Next]_vars
    PROVE  InPlace'
<1>1. UNCHANGED listing
  BY ListingIs
<1>2. \A c : zone' = zone => RowsFrom(c)' = RowsFrom(c)
  BY <1>1 DEF RowsFrom, AtOrAfter
<1> DEFINE Goal ==
             /\ zone' = zone /\ feed' = <<>> /\ Len(loads') <= 1 /\ page'.current # Made
             /\ \A j \in DOMAIN loads' :
                   /\ loads'[j].cursor = page'.current /\ loads'[j].jump = 0 /\ ~loads'[j].reset
                   /\ loads'[j].answered => loads'[j].seen = zone
             /\ RowsFrom(page'.current) = Left(zone, Len(page'.history))
             /\ \A h \in DOMAIN page'.history :
                   page'.history[h] # Made /\ RowsFrom(page'.history[h]) = Left(zone, h - 1)
             /\ loads' = <<>> =>
                   /\ page'.items = FirstOf(Left(zone, Len(page'.history)), Size)
                   /\ page'.more => RowsFrom(page'.next) = Left(zone, Len(page'.history) + 1)
<1> SUFFICES ASSUME walk'.tidy, listing = "records", Idn = {}
             PROVE  Goal
  BY <1>1, <1>2 DEF InPlace
<1>3. walk.tidy =>
         /\ feed = <<>> /\ Len(loads) <= 1 /\ page.current # Made
         /\ \A i \in DOMAIN loads :
               /\ loads[i].cursor = page.current /\ loads[i].jump = 0 /\ ~loads[i].reset
               /\ loads[i].answered => loads[i].seen = zone
         /\ RowsFrom(page.current) = Left(zone, Len(page.history))
         /\ \A h \in DOMAIN page.history :
               page.history[h] # Made /\ RowsFrom(page.history[h]) = Left(zone, h - 1)
         /\ loads = <<>> =>
               /\ page.items = FirstOf(Left(zone, Len(page.history)), Size)
               /\ page.more => RowsFrom(page.next) = Left(zone, Len(page.history) + 1)
  BY DEF InPlace
<1>4. /\ page.history \in Seq(Cursor) /\ page.current \in Cursor
      /\ Len(page.history) \in Nat /\ DOMAIN page.history = 1 .. Len(page.history)
  BY HistoryIs
\* What is appended to the history is the page that is left.
<1>5. ASSUME walk.tidy, page'.history = Append(page.history, page.current)
      PROVE  /\ Len(page'.history) = Len(page.history) + 1
             /\ \A h \in DOMAIN page'.history :
                   page'.history[h] # Made /\ RowsFrom(page'.history[h]) = Left(zone, h - 1)
  <2>1. /\ Len(page'.history) = Len(page.history) + 1
        /\ \A h \in DOMAIN page'.history :
              \/ h \in DOMAIN page.history /\ page'.history[h] = page.history[h]
              \/ h = Len(page.history) + 1 /\ page'.history[h] = page.current
    BY <1>4, <1>5, AppendIs
  <2>2. Len(page.history) + 1 - 1 = Len(page.history)
    BY <1>4
  <2> QED
    BY <1>3, <1>5, <2>1, <2>2
<1>6. CASE AClick
  <2>1. PICK load : Turned(load)
    BY <1>6, ClickIs
  <2>2. walk.tidy /\ loads = <<>> /\ (Forward(load) \/ Back(load)) /\ ~load.answered
    BY <2>1 DEF Turned
  <2>3. zone' = zone /\ feed' = <<>>
    BY <1>3, <1>6, <2>2, ClickKeeps
  <2>4. loads' # <<>> /\ Len(loads') = 1 /\ \A j \in DOMAIN loads' : loads'[j] = load
    BY <2>1, <2>2, TurnedLoads, EmptySeq
  <2>5. CASE Forward(load)
    <3>1. /\ page'.current \in Key /\ page'.current = page.next /\ load.cursor = page'.current
          /\ load.jump = 0 /\ ~load.reset /\ page.more
          /\ page'.history = Append(page.history, page.current)
      BY <2>5 DEF Forward
    <3>2. RowsFrom(page'.current) = Left(zone, Len(page.history) + 1)
      BY <1>3, <2>2, <3>1
    <3>3. page'.current # Made
      BY <3>1, MadeIsNoKey
    <3> QED
      BY <1>5, <2>2, <2>3, <2>4, <3>1, <3>2, <3>3
  <2>6. CASE Back(load)
    <3>1. /\ page.history # <<>> /\ page'.current = Last(page.history) /\ load.cursor = page'.current
          /\ load.jump = 0 /\ ~load.reset /\ page'.history = Front(page.history)
      BY <2>6 DEF Back
    <3>2. Len(page.history) \in DOMAIN page.history /\ page'.current = page.history[Len(page.history)]
      BY <1>4, <3>1 DEF Last
    <3>3. /\ Len(page'.history) = Len(page.history) - 1
          /\ \A h \in DOMAIN page'.history :
                h \in DOMAIN page.history /\ page'.history[h] = page.history[h]
      <4>1. /\ Len(page.history) \in Nat \ {0} /\ page'.history = SubSeq(page.history, 1, Len(page.history) - 1)
            /\ \A h \in 1 .. Len(page.history) - 1 : page.history[h] \in Cursor
        BY <1>4, <3>1, EmptySeq, ElementOfSeq DEF Front
      <4>2. /\ Len(page'.history) = Len(page.history) - 1
            /\ \A h \in 1 .. Len(page.history) - 1 : page'.history[h] = page.history[h]
            /\ page'.history \in Seq(Cursor)
        BY <4>1, SubSeqProperties
      <4> QED
        BY <1>4, <4>1, <4>2, LenProperties
    <3>4. page'.current # Made /\ RowsFrom(page'.current) = Left(zone, Len(page'.history))
      BY <1>3, <2>2, <3>2, <3>3
    <3> QED
      BY <1>3, <2>2, <2>3, <2>4, <3>1, <3>3, <3>4
  <2> QED
    BY <2>2, <2>5, <2>6
<1>7. ASSUME NEW i \in DOMAIN loads, Deliver(i)
      PROVE  Goal
  <2> DEFINE p == Answered(page, loads[i])
  <2>1. /\ walk'.tidy = ((Starts(i) /\ feed = <<>> /\ zone = loads[i].seen) \/ walk.tidy)
        /\ zone' = zone /\ feed' = feed /\ loads[i].answered
    BY <1>7, DeliverIs DEF Starts
  <2>2. /\ page'.items = p.items /\ page'.next = p.next /\ page'.more = p.more
        /\ loads[i].jump = 0 => p.current = page.current
        /\ ~loads[i].reset => p.history = page.history
        /\ Len(loads) \in Nat \ {0} /\ loads' \in Seq(Load)
        /\ \/ /\ Len(loads') = Len(loads) - 1
              /\ page'.current = p.current /\ page'.history = p.history
           \/ /\ GoesOn(i, p) /\ Len(loads') = Len(loads)
              /\ page'.history = Append(p.history, p.current)
        /\ \A j \in DOMAIN loads' :
              \/ \E h \in DOMAIN loads : h # i /\ loads'[j] = loads[h]
              \/ /\ GoesOn(i, p)
                 /\ loads'[j].cursor = p.next /\ loads'[j].jump = loads[i].jump
                 /\ loads'[j].reset = loads[i].reset /\ loads'[j].last = loads[i].last
                 /\ ~loads'[j].answered
    BY <1>7, DeliverStep
  <2>3. loads \in Seq(Load) /\ DOMAIN loads = 1 .. Len(loads)
    BY LenProperties DEF TypeOK
  <2>4. CASE walk.tidy
    <3>1. /\ feed = <<>> /\ Len(loads) = 1 /\ page.current # Made /\ loads[i].cursor = page.current
          /\ loads[i].jump = 0 /\ ~loads[i].reset /\ loads[i].seen = zone
          /\ RowsFrom(page.current) = Left(zone, Len(page.history))
      <4>1. Len(loads) <= 1 /\ Len(loads) \in Nat \ {0}
        BY <1>3, <2>2, <2>4
      <4>2. Len(loads) = 1
        BY <4>1
      <4> QED
        BY <1>3, <2>1, <2>4, <4>2
    <3>2. /\ p.items = FirstOf(Left(zone, Len(page.history)), Size)
          /\ p.more => RowsFrom(p.next) = Left(zone, Len(page.history) + 1)
      BY <1>4, <3>1, AnswerInPlace
    <3>3. p.history = page.history /\ p.current = page.current
      BY <2>2, <3>1
    <3>4. \A h \in DOMAIN loads : h = i
      BY <2>3, <3>1
    <3> HIDE DEF p
    <3>5. CASE /\ Len(loads') = Len(loads) - 1
               /\ page'.current = p.current /\ page'.history = p.history
      <4>1. loads' = <<>> /\ DOMAIN loads' = {} /\ Len(loads') = 0
        BY <2>2, <3>1, <3>5, EmptySeq
      <4>2. page'.current = page.current /\ page'.history = page.history
        BY <3>3, <3>5
      <4> QED
        BY <1>3, <2>1, <2>2, <2>4, <3>1, <3>2, <4>1, <4>2
    <3>6. CASE /\ GoesOn(i, p) /\ Len(loads') = Len(loads)
               /\ page'.history = Append(p.history, p.current)
      <4>1. /\ p.more /\ p.next \in Key /\ page'.current = p.next /\ page'.current # Made
            /\ page'.history = Append(page.history, page.current)
        BY <3>3, <3>6, MadeIsNoKey DEF GoesOn
      <4>2. loads' # <<>> /\ Len(loads') = 1
        <5>1. Len(loads') = 1
          BY <3>1, <3>6
        <5>2. Len(<<>>) = 0
          BY EmptySeq
        <5> QED
          BY <5>1, <5>2
      <4>3. \A j \in DOMAIN loads' : /\ loads'[j].cursor = page'.current /\ loads'[j].jump = 0
                                     /\ ~loads'[j].reset /\ ~loads'[j].answered
        BY <2>2, <3>1, <3>4, <4>1
      <4>4. RowsFrom(page'.current) = Left(zone, Len(page.history) + 1)
        BY <3>2, <4>1
      <4> QED
        BY <1>5, <2>1, <2>4, <3>1, <4>1, <4>2, <4>3, <4>4
    <3> QED
      BY <2>2, <3>5, <3>6
  <2>5. CASE Starts(i) /\ feed = <<>> /\ zone = loads[i].seen
    <3>1. /\ loads' = <<>> /\ page'.current = None /\ page'.history = <<>>
          /\ loads[i].cursor = None /\ loads[i].jump = 0
      BY <1>7, <2>5, StartsIs
    <3>2. RowsFrom(None) = Left(zone, 0)
      <4>1. zone \in SUBSET Key /\ NoIdn
        BY DEF TypeOK, NoIdn
      <4>2. None \in Cursor /\ None # Made
        BY PagesAssumption DEF Cursor, PagesAssumption
      <4>3. RowsFrom(None) = zone
        BY <4>1, <4>2, OnwardIs DEF RowsFrom
      <4> QED
        BY <4>1, <4>3, LeftIs
    <3>3. /\ p.items = FirstOf(Left(zone, 0), Size)
          /\ p.more => RowsFrom(p.next) = Left(zone, 0 + 1)
      BY <2>5, <3>1, <3>2, AnswerInPlace
    <3>4. None # Made /\ Len(<<>>) = 0 /\ DOMAIN <<>> = {}
      BY PagesAssumption DEF PagesAssumption
    <3> HIDE DEF p
    <3> QED
      BY <2>1, <2>2, <2>5, <3>1, <3>2, <3>3, <3>4
  <2> QED
    BY <2>1, <2>4, <2>5
<1>8. ASSUME NEW i \in DOMAIN loads, Serve(i)
      PROVE  Goal
  <2>1. /\ UNCHANGED <<zone, page, feed, walk>>
        /\ loads # <<>> /\ loads' # <<>> /\ Len(loads') = Len(loads) /\ DOMAIN loads' = DOMAIN loads
        /\ \A j \in DOMAIN loads :
              /\ loads'[j].cursor = loads[j].cursor /\ loads'[j].jump = loads[j].jump
              /\ loads'[j].reset = loads[j].reset
              /\ \/ loads'[j].answered = loads[j].answered /\ loads'[j].seen = loads[j].seen
                 \/ loads'[j].seen = zone
    BY <1>8, ServeIs DEF EitherField
  <2>2. walk.tidy
    BY <2>1
  <2> QED
    BY <1>3, <2>1, <2>2
<1>9. CASE UNCHANGED vars
  <2>1. UNCHANGED <<zone, page, feed, walk, loads>>
    BY <1>9 DEF vars
  <2> QED
    BY <1>3, <2>1
<1>10. CASE LiveMessage
  <2>1. walk'.tidy = walk.tidy /\ feed # <<>>
    BY <1>10 DEF LiveMessage, TypeOK, Walk
  <2> QED
    BY <1>3, <2>1
<1>11. ASSUME NEW i \in DOMAIN loads, LoadFails(i)
       PROVE  FALSE
  BY <1>11 DEF LoadFails, TypeOK, Walk
<1>12. ASSUME NEW k \in Key, Change(k)
       PROVE  FALSE
  BY <1>12, ChangeKeeps
<1>13. ASSUME NEW n \in 1 .. Cardinality(Key), GoToNoPage(n) PROVE FALSE
  BY <1>13, NoPageIs
<1>14. ASSUME NEW i \in DOMAIN loads, NEW part \in {"name", "data"}, NEW S \in SUBSET Key, PartSeen(i, part, S)
       PROVE  FALSE
  BY <1>14, PartSeenIs DEF EitherField
<1> QED
  BY <1>6, <1>7, <1>8, <1>9, <1>10, <1>11, <1>12, <1>13, <1>14, NextIs

\* Going back and forth in a zone that does not change, goToLastPage included, the rows
\* are those of the page whose number is shown.
THEOREM PageNumberIsRightAlways == Spec => []PageNumberIsRight
<1>1. Init => InPlace
  BY DEF Init, InPlace
<1>2. TypeOK /\ Orderly /\ InPlace /\ [Next]_vars => InPlace'
  BY InPlaceStep
<1>3. InPlace => PageNumberIsRight
  BY DEF InPlace, PageNumberIsRight, Left
<1> QED
  BY <1>1, <1>2, <1>3, TypeCorrect, OrderlyInit, OrderlyStep, PTL DEF Spec
================================================================================
