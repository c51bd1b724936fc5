-------------------------- MODULE DirectWrites_proofs --------------------------
(***************************************************************************)
(* The properties of DirectWrites, for any zone and cache, any operations, *)
(* transactions and drafts, and any number of requests at the same time.   *)
(*                                                                         *)
(* The server carries out a message update by update, the cache makes its  *)
(* edits one by one, and a draft is made from a transaction step by step:  *)
(* each is a fold over a sequence.  The first lemmas unfold the library's  *)
(* folds into the course of their steps, and what follows is by induction  *)
(* along such a course.                                                    *)
(*                                                                         *)
(* The invariant, Sound, says of every request under way what its message  *)
(* was made from: its operations and the cached records it saw, or its     *)
(* transaction, or the zone between the serials of a rollback.  That does  *)
(* not change while others write the zone, and it is enough to say what    *)
(* the server will make of the message when it is carried out.             *)
(***************************************************************************)
EXTENDS DirectWrites, TLAPS, FiniteSetTheorems, SequenceTheorems, WellFoundedInduction

(* Recursion over sets of numbers, by which the library folds a sequence *)

\* A set of numbers has a least one.
LEMMA LeastNumber ==
    ASSUME NEW T \in SUBSET Nat, T # {}
    PROVE  \E m \in T : \A x \in T : m <= x
<1>1. PICK m \in T : \A x \in T : ~ (<<x, m>> \in OpToRel(<, Nat))
  BY NatLessThanWellFounded, WFMin
<1>2. \A x \in T : ~ (x < m)
  BY <1>1 DEF OpToRel
<1> QED
  BY <1>2

\* What holds at 0 and from each number to the next, up to n, holds at n.
LEMMA Induct ==
    ASSUME NEW n \in Nat, NEW Good \in SUBSET Nat, 0 \in Good,
           \A k \in 1 .. n : k - 1 \in Good => k \in Good
    PROVE  0 .. n \subseteq Good
<1> SUFFICES ASSUME (0 .. n) \ Good # {} PROVE FALSE
  OBVIOUS
<1>1. PICK m \in (0 .. n) \ Good : \A k \in (0 .. n) \ Good : m <= k
  <2> DEFINE T == (0 .. n) \ Good
  <2>1. T \in SUBSET Nat /\ T # {}
    OBVIOUS
  <2> HIDE DEF T
  <2>2. \E m \in T : \A k \in T : m <= k
    BY <2>1, LeastNumber
  <2> QED
    BY <2>2 DEF T
<1>2. m \in 1 .. n /\ m - 1 \in 0 .. n /\ ~ (m <= m - 1)
  BY <1>1
<1>3. m - 1 \in Good
  BY <1>1, <1>2
<1> QED
  BY <1>1, <1>2, <1>3

\* A number of steps from a value of A, each of which stays in A.
StepsIn(A, n, step) == \A k \in 1 .. n : \A a \in A : step[k][a] \in A

\* The recursion over sets by which the library folds: the largest number comes last.
Folds(A, n, first, step, g) ==
    /\ g \in [SUBSET (1 .. n) -> A]
    /\ \A s \in SUBSET (1 .. n) : g[s] = IF s = {} THEN first ELSE step[Max(s)][g[s \ {Max(s)}]]

\* A set of numbers up to n has a greatest one,
LEMMA MaxIn ==
    ASSUME NEW n \in Nat, NEW s \in SUBSET (1 .. n), s # {}
    PROVE  Max(s) \in s /\ \A y \in s : Max(s) >= y
<1> DEFINE T == {x \in Nat : n - x \in s}
<1>1. T \in SUBSET Nat /\ T # {}
  <2>1. PICK y \in s : TRUE
    OBVIOUS
  <2>2. n - y \in Nat /\ n - (n - y) = y
    OBVIOUS
  <2> QED
    BY <2>2
<1> HIDE DEF T
<1>2. PICK m \in T : \A x \in T : m <= x
  BY <1>1, LeastNumber
<1>3. n - m \in s /\ m \in Nat
  BY <1>2 DEF T
<1>4. ASSUME NEW y \in s PROVE n - m >= y
  <2>1. n - y \in Nat /\ n - (n - y) = y /\ y \in Nat
    OBVIOUS
  <2>2. n - y \in T
    BY <2>1 DEF T
  <2>3. m <= n - y
    BY <1>2, <2>2
  <2> QED
    BY <1>3, <2>1, <2>3
<1>5. \E x \in s : \A y \in s : x >= y
  BY <1>3, <1>4
<1> QED
  BY <1>5 DEF Max

\* and it is the one that bounds the set.
LEMMA MaxIs ==
    ASSUME NEW n \in Nat, NEW m \in 1 .. n, NEW s \in SUBSET (1 .. m), m \in s
    PROVE  Max(s) = m
<1>1. m \in Nat /\ s # {} /\ \A y \in s : y \in 1 .. m
  OBVIOUS
<1>2. Max(s) \in s /\ Max(s) >= m
  BY <1>1, MaxIn
<1>3. Max(s) \in 1 .. m
  BY <1>1, <1>2
<1> QED
  BY <1>2, <1>3

\* A function of sets that satisfies such a recursion exists.
LEMMA SetFold ==
    ASSUME NEW A, NEW n \in Nat, NEW first \in A, NEW step, StepsIn(A, n, step)
    PROVE  \E g : Folds(A, n, first, step, g)
<1> DEFINE Good == {m \in Nat : m <= n => \E g : Folds(A, m, first, step, g)}
<1>1. 0 \in Good
  <2> DEFINE g == [s \in SUBSET (1 .. 0) |-> first]
  <2>1. SUBSET (1 .. 0) = {{}}
    OBVIOUS
  <2>2. g \in [SUBSET (1 .. 0) -> A] /\ \A s \in SUBSET (1 .. 0) : s = {} /\ g[s] = first
    BY <2>1
  <2> HIDE DEF g
  <2> QED
    BY <2>2 DEF Folds
<1>2. ASSUME NEW m \in 1 .. n, m - 1 \in Good PROVE m \in Good
  <2>1. PICK f : Folds(A, m - 1, first, step, f)
    BY <1>2
  <2>2. /\ f \in [SUBSET (1 .. m - 1) -> A]
        /\ \A s \in SUBSET (1 .. m - 1) :
              f[s] = IF s = {} THEN first ELSE step[Max(s)][f[s \ {Max(s)}]]
    BY <2>1 DEF Folds
  <2> DEFINE g == [s \in SUBSET (1 .. m) |-> IF m \in s THEN step[m][f[s \ {m}]] ELSE f[s]]
  <2>3. \A s \in SUBSET (1 .. m) :
           /\ s \ {m} \in SUBSET (1 .. m - 1) /\ s \ {m} \in SUBSET (1 .. m) /\ m \notin s \ {m}
           /\ m \notin s => s \in SUBSET (1 .. m - 1)
    OBVIOUS
  <2>4. \A s \in SUBSET (1 .. m) :
           g[s] \in A /\ g[s] = IF m \in s THEN step[m][g[s \ {m}]] ELSE f[s]
    <3> TAKE s \in SUBSET (1 .. m)
    <3>1. f[s \ {m}] \in A /\ g[s \ {m}] = f[s \ {m}]
      BY <2>2, <2>3
    <3>2. m \in s => step[m][f[s \ {m}]] \in A
      BY <3>1 DEF StepsIn
    <3>3. m \notin s => f[s] \in A
      BY <2>2, <2>3
    <3>4. g[s] = IF m \in s THEN step[m][f[s \ {m}]] ELSE f[s]
      OBVIOUS
    <3> HIDE DEF g
    <3> QED
      BY <3>1, <3>2, <3>3, <3>4
  <2>5. \A s \in SUBSET (1 .. m - 1) : g[s] = f[s] /\ s \in SUBSET (1 .. m)
    OBVIOUS
  <2>6. g \in [SUBSET (1 .. m) -> A]
    BY <2>4
  <2> HIDE DEF g
  <2>7. ASSUME NEW s \in SUBSET (1 .. m)
        PROVE  g[s] = IF s = {} THEN first ELSE step[Max(s)][g[s \ {Max(s)}]]
    <3>1. CASE m \in s
      <4>1. Max(s) = m
        BY <3>1, MaxIs
      <4> QED
        BY <2>4, <3>1, <4>1
    <3>2. CASE m \notin s
      <4>1. s \in SUBSET (1 .. m - 1) /\ s \ {Max(s)} \in SUBSET (1 .. m - 1)
        BY <2>3, <3>2
      <4> QED
        BY <2>2, <2>5, <4>1
    <3> QED
      BY <3>1, <3>2
  <2>8. Folds(A, m, first, step, g)
    BY <2>6, <2>7 DEF Folds
  <2> QED
    BY <2>8
<1>3. n \in Good
  <2>1. Good \in SUBSET Nat
    OBVIOUS
  <2> HIDE DEF Good
  <2>2. \A k \in 1 .. n : k - 1 \in Good => k \in Good
    BY <1>2
  <2>3. 0 .. n \subseteq Good
    BY <1>1, <2>1, <2>2, Induct
  <2> QED
    BY <2>3
<1> QED
  BY <1>3

\* A message carried out update by update.
Chain(c, zone, ups) ==
    /\ c[0] = zone /\ DOMAIN c = 0 .. Len(ups)
    /\ \A k \in 1 .. Len(ups) : c[k] = Carried(c[k - 1], ups[k])

\* If each update keeps a set of zones, there is such a course of the message, all in the
\* set, and it ends with the result.
LEMMA ResultIs ==
    ASSUME NEW A, NEW zone \in A, NEW msg, NEW U, msg.ups \in Seq(U),
           \A k \in 1 .. Len(msg.ups) : \A a \in A : Carried(a, msg.ups[k]) \in A
    PROVE  \E c \in [0 .. Len(msg.ups) -> A] :
               Chain(c, zone, msg.ups) /\ Result(zone, msg) = c[Len(msg.ups)]
<1> DEFINE ups == msg.ups
           n == Len(ups)
           step == [k \in 1 .. n |-> [a \in A |-> Carried(a, ups[k])]]
<1>1. n \in Nat /\ DOMAIN ups = 1 .. n
  BY LenProperties
<1>2. StepsIn(A, n, step)
  BY DEF StepsIn
<1> DEFINE Def(g) == g = [s \in SUBSET (DOMAIN ups) |->
                            IF s = {} THEN zone ELSE Carried(g[s \ {Max(s)}], ups[Max(s)])]
           iter == CHOOSE g : Def(g)
<1>3. Result(zone, msg) = iter[DOMAIN ups]
  BY DEF Result, FoldLeft, MapThenFoldSet
<1>4. Def(iter)
  <2>1. PICK g : Folds(A, n, zone, step, g)
    <3> HIDE DEF step, ups
    <3> QED
      BY <1>1, <1>2, SetFold
  <2>2. /\ g \in [SUBSET (1 .. n) -> A]
        /\ \A s \in SUBSET (1 .. n) : g[s] = IF s = {} THEN zone ELSE step[Max(s)][g[s \ {Max(s)}]]
    BY <2>1 DEF Folds
  <2>3. ASSUME NEW s \in SUBSET (1 .. n)
        PROVE  g[s] = IF s = {} THEN zone ELSE Carried(g[s \ {Max(s)}], ups[Max(s)])
    <3>1. CASE s = {}
      BY <2>2, <3>1
    <3>2. CASE s # {}
      <4>1. Max(s) \in 1 .. n
        BY <1>1, <3>2, MaxIn
      <4>2. g[s \ {Max(s)}] \in A
        BY <2>2
      <4>3. step[Max(s)][g[s \ {Max(s)}]] = Carried(g[s \ {Max(s)}], ups[Max(s)])
        BY <4>1, <4>2
      <4> HIDE DEF step
      <4> QED
        BY <2>2, <3>2, <4>3
    <3> QED
      BY <3>1, <3>2
  <2>4. Def(g)
    <3> HIDE DEF step
    <3> QED
      BY <1>1, <2>2, <2>3
  <2> HIDE DEF Def
  <2> QED
    BY <2>4
<1> HIDE DEF iter
<1> DEFINE c == [k \in 0 .. n |-> iter[1 .. k]]
<1>5. c[0] = zone /\ \A k \in 1 .. n : c[k] = Carried(c[k - 1], ups[k])
  <2> HIDE DEF ups
  <2>1. 1 .. 0 = {} /\ {} \in SUBSET (1 .. n) /\ 0 \in 0 .. n
    BY <1>1
  <2>2. c[0] = zone
    BY <1>1, <1>4, <2>1
  <2>3. ASSUME NEW k \in 1 .. n PROVE c[k] = Carried(c[k - 1], ups[k])
    <3>0. n \in Nat /\ k \in 1 .. n
      BY <1>1
    <3> HIDE DEF n
    <3>1. /\ 1 .. k \in SUBSET (1 .. n) /\ (1 .. k) \ {k} = 1 .. k - 1
          /\ k \in 0 .. n /\ k - 1 \in 0 .. n /\ k \in 1 .. k
      BY <3>0
    <3>2. Max(1 .. k) = k /\ 1 .. k # {}
      BY <3>0, <3>1, MaxIs
    <3>3. iter[1 .. k] = Carried(iter[(1 .. k) \ {k}], ups[k])
      BY <1>1, <1>4, <3>1, <3>2 DEF n
    <3> QED
      BY <3>1, <3>3 DEF n
  <2> QED
    BY <2>2, <2>3
<1>6. DOMAIN c = 0 .. n /\ c[n] = iter[DOMAIN ups]
  BY <1>1
<1> HIDE DEF c, Def
<1>7. \A k \in 0 .. n : c[k] \in A
  <2> DEFINE Good == {k \in Nat : c[k] \in A}
  <2>1. Good \in SUBSET Nat /\ 0 \in Good
    BY <1>5
  <2>2. \A k \in 1 .. n : k - 1 \in Good => k \in Good
    BY <1>5
  <2> HIDE DEF Good, ups
  <2>3. 0 .. n \subseteq Good
    BY <1>1, <2>1, <2>2, Induct
  <2> QED
    BY <2>3 DEF Good
<1>8. c \in [0 .. n -> A]
  <2>1. c = [k \in 0 .. n |-> c[k]]
    BY <1>6 DEF c
  <2> HIDE DEF ups
  <2> QED
    BY <1>7, <2>1
<1> QED
  BY <1>3, <1>5, <1>6, <1>8 DEF Chain

\* The course of a number of steps.
Goes(A, n, first, step, c) ==
    c \in [0 .. n -> A] /\ c[0] = first /\ \A k \in 1 .. n : c[k] = step[k][c[k - 1]]

\* A number of steps, each of which stays in A, has a course.
LEMMA Course ==
    ASSUME NEW A, NEW n \in Nat, NEW first \in A, NEW step, StepsIn(A, n, step)
    PROVE  \E c : Goes(A, n, first, step, c)
<1>1. PICK g : Folds(A, n, first, step, g)
  BY SetFold
<1>2. /\ g \in [SUBSET (1 .. n) -> A]
      /\ \A s \in SUBSET (1 .. n) : g[s] = IF s = {} THEN first ELSE step[Max(s)][g[s \ {Max(s)}]]
  BY <1>1 DEF Folds
<1> DEFINE c == [k \in 0 .. n |-> g[1 .. k]]
<1>3. c \in [0 .. n -> A]
  <2>1. \A k \in 0 .. n : 1 .. k \in SUBSET (1 .. n)
    OBVIOUS
  <2> QED
    BY <1>2, <2>1
<1>4. c[0] = first
  <2>1. 1 .. 0 = {} /\ {} \in SUBSET (1 .. n) /\ 0 \in 0 .. n
    OBVIOUS
  <2> QED
    BY <1>2, <2>1
<1>5. ASSUME NEW k \in 1 .. n PROVE c[k] = step[k][c[k - 1]]
  <2>1. /\ 1 .. k \in SUBSET (1 .. n) /\ (1 .. k) \ {k} = 1 .. k - 1
        /\ k \in 0 .. n /\ k - 1 \in 0 .. n /\ k \in 1 .. k
    OBVIOUS
  <2>2. Max(1 .. k) = k /\ 1 .. k # {}
    BY <2>1, MaxIs
  <2>3. c[k] = g[1 .. k] /\ c[k - 1] = g[1 .. k - 1]
    BY <2>1
  <2>4. g[1 .. k] = step[Max(1 .. k)][g[(1 .. k) \ {Max(1 .. k)}]]
    BY <1>2, <2>1, <2>2
  <2> HIDE DEF c
  <2> QED
    BY <2>1, <2>2, <2>3, <2>4
<1> HIDE DEF c
<1> QED
  BY <1>3, <1>4, <1>5 DEF Goes

\* Sequences put together one after another.
LEMMA FlattenIs ==
    ASSUME NEW U, NEW seqs \in Seq(Seq(U))
    PROVE  \E f \in [0 .. Len(seqs) -> Seq(U)] :
               /\ f[0] = <<>> /\ FlattenSeq(seqs) = f[Len(seqs)]
               /\ \A k \in 1 .. Len(seqs) : f[k] = f[k - 1] \o seqs[k]
<1> DEFINE n == Len(seqs)
           step == [k \in 1 .. n |-> [a \in Seq(U) |-> a \o seqs[k]]]
<1>1. n \in Nat /\ <<>> \in Seq(U) /\ \A k \in 1 .. n : seqs[k] \in Seq(U)
  <2>1. n \in Nat /\ DOMAIN seqs = 1 .. n
    BY LenProperties
  <2>2. <<>> \in Seq(U)
    OBVIOUS
  <2>3. ASSUME NEW k \in 1 .. n PROVE seqs[k] \in Seq(U)
    BY ElementOfSeq
  <2> QED
    BY <2>1, <2>2, <2>3
<1>2. StepsIn(Seq(U), n, step)
  <2>1. \A k \in 1 .. n : \A a \in Seq(U) : a \o seqs[k] \in Seq(U)
    BY <1>1
  <2> QED
    BY <2>1 DEF StepsIn
<1>3. PICK f : Goes(Seq(U), n, <<>>, step, f)
  <2> HIDE DEF n, step
  <2> QED
    BY <1>1, <1>2, Course
<1>4. /\ f \in [0 .. n -> Seq(U)] /\ f[0] = <<>>
      /\ \A k \in 1 .. n : f[k] = step[k][f[k - 1]]
  BY <1>3 DEF Goes
<1>5. \A k \in 1 .. n : f[k] = f[k - 1] \o seqs[k]
  <2> TAKE k \in 1 .. n
  <2>1. k - 1 \in 0 .. n
    BY <1>1
  <2>2. f[k - 1] \in Seq(U)
    BY <1>4, <2>1
  <2>3. step[k][f[k - 1]] = f[k - 1] \o seqs[k]
    BY <2>2
  <2> QED
    BY <1>4, <2>3
<1>6. FlattenSeq(seqs) = f[n]
  <2>1. CASE n = 0
    <3>1. seqs = <<>>
      BY <2>1
    <3> QED
      BY <1>4, <2>1, <3>1 DEF FlattenSeq
  <2>2. CASE n # 0
    <3> DEFINE Def(h) == h = [i \in 1 .. Len(seqs) |-> IF i = 1 THEN seqs[i] ELSE h[i - 1] \o seqs[i]]
               flat == CHOOSE h : Def(h)
    <3>1. FlattenSeq(seqs) = flat[n]
      BY <2>2 DEF FlattenSeq
    <3> DEFINE g == [i \in 1 .. n |-> f[i]]
    <3>2. Def(g)
      <4>1. \A i \in 1 .. n : f[i] = IF i = 1 THEN seqs[i] ELSE f[i - 1] \o seqs[i]
        <5> TAKE i \in 1 .. n
        <5>1. f[i] = f[i - 1] \o seqs[i] /\ seqs[i] \in Seq(U)
          BY <1>1, <1>5
        <5>2. i = 1 => i - 1 = 0 /\ <<>> \o seqs[i] = seqs[i]
          BY <5>1, ConcatEmptySeq
        <5>3. i = 1 => f[i - 1] = <<>>
          BY <1>4
        <5> QED
          BY <5>1, <5>2, <5>3
      <4>2. \A i \in 1 .. n : i # 1 => i - 1 \in 1 .. n
        BY <1>1
      <4> HIDE DEF n
      <4>3. g = [i \in 1 .. n |-> IF i = 1 THEN seqs[i] ELSE g[i - 1] \o seqs[i]]
        BY <4>1, <4>2
      <4> QED
        BY <4>3 DEF n
    <3>3. Def(flat)
      <4> HIDE DEF Def
      <4> QED
        BY <3>2
    <3> HIDE DEF flat
    <3> DEFINE Good == {i \in Nat : i \in 1 .. n => flat[i] = f[i]}
    <3>4. Good \in SUBSET Nat /\ 0 \in Good
      OBVIOUS
    <3>5. ASSUME NEW k \in 1 .. n, k - 1 \in Good PROVE k \in Good
      <4>1. flat[k] = IF k = 1 THEN seqs[k] ELSE flat[k - 1] \o seqs[k]
        BY <3>3
      <4>2. k = 1 => f[k] = seqs[k]
        <5>1. seqs[k] \in Seq(U) /\ f[k] = f[k - 1] \o seqs[k]
          BY <1>1, <1>5
        <5>2. <<>> \o seqs[k] = seqs[k]
          BY <5>1, ConcatEmptySeq
        <5>3. k = 1 => f[k - 1] = <<>>
          BY <1>4
        <5> QED
          BY <5>1, <5>2, <5>3
      <4>3. k # 1 => k - 1 \in 1 .. n /\ flat[k - 1] = f[k - 1]
        BY <1>1, <3>5
      <4>4. f[k] = f[k - 1] \o seqs[k]
        BY <1>5
      <4>5. flat[k] = f[k]
        BY <4>1, <4>2, <4>3, <4>4
      <4> QED
        BY <4>5
    <3> HIDE DEF Good, n
    <3>6. 0 .. n \subseteq Good
      BY <1>1, <3>4, <3>5, Induct
    <3>7. n \in 0 .. n /\ n \in 1 .. n
      BY <1>1, <2>2
    <3> QED
      BY <3>1, <3>6, <3>7 DEF Good
  <2> QED
    BY <2>1, <2>2
<1> QED
  BY <1>4, <1>5, <1>6

\* What is put together from sequences of updates is one, and not empty if none of them is.
LEMMA FlattenIn ==
    ASSUME NEW U, NEW seqs \in Seq(Seq(U))
    PROVE  /\ FlattenSeq(seqs) \in Seq(U)
           /\ seqs # <<>> /\ (\A k \in 1 .. Len(seqs) : seqs[k] # <<>>) => FlattenSeq(seqs) # <<>>
<1>1. PICK f \in [0 .. Len(seqs) -> Seq(U)] :
          /\ FlattenSeq(seqs) = f[Len(seqs)]
          /\ \A k \in 1 .. Len(seqs) : f[k] = f[k - 1] \o seqs[k]
  BY FlattenIs
<1> DEFINE n == Len(seqs)
<1>2. n \in Nat /\ n \in 0 .. n
  OBVIOUS
<1>3. ASSUME seqs # <<>>, \A k \in 1 .. n : seqs[k] # <<>> PROVE f[n] # <<>>
  <2>1. n \in 1 .. n /\ n - 1 \in 0 .. n
    BY <1>3
  <2>2. f[n] = f[n - 1] \o seqs[n] /\ f[n - 1] \in Seq(U) /\ seqs[n] # <<>>
    BY <1>1, <1>3, <2>1
  <2>3. seqs[n] \in Seq(U)
    BY <2>1, ElementOfSeq
  <2> HIDE DEF n
  <2>4. f[n - 1] \o seqs[n] # <<>>
    BY <2>2, <2>3, ConcatEqualIffEmpty
  <2> QED
    BY <2>2, <2>4
<1> QED
  BY <1>1, <1>2, <1>3
--------------------------------------------------------------------------------
(* What a server's zone can hold, and what updates make of it *)

\* A CNAME is alone at its name.
Alone(zone) == \A x, y \in zone : x[1] = y[1] /\ x[2] = CNAME => y = x

\* A resource record is a name, a type and its data.
LEMMA RecordIs ==
    ASSUME NEW x \in Records
    PROVE  x = <<x[1], x[2], x[3]>> /\ x[1] \in Name /\ x[2] \in Type /\ x[3] \in Record
BY UpdateAssumption

\* The CNAME rule, record by record.
LEMMA ContentsAlone ==
    ASSUME NEW zone \in SUBSET Records
    PROVE  zone \in Contents <=> Alone(zone)
<1>1. ASSUME zone \in Contents, NEW x \in zone, NEW y \in zone, x[1] = y[1], x[2] = CNAME PROVE y = x
  <2>1. /\ x = <<x[1], CNAME, x[3]>> /\ x[1] \in Name /\ x[3] \in Record
        /\ y = <<x[1], y[2], y[3]>> /\ y[2] \in Type /\ y[3] \in Record
    BY <1>1, RecordIs
  <2>2. x[3] \in RRsetOf(zone, x[1], CNAME) /\ y[3] \in RRsetOf(zone, x[1], y[2])
    BY <1>1, <2>1 DEF RRsetOf
  <2>3. CNAME \in TypesAt(zone, x[1]) /\ y[2] \in TypesAt(zone, x[1])
    BY <2>1, <2>2, UpdateAssumption DEF TypesAt
  <2>4. y[2] = CNAME
    BY <1>1, <2>1, <2>3 DEF Contents
  <2>5. y[3] = x[3]
    BY <1>1, <2>1, <2>2, <2>4 DEF Contents
  <2> QED
    BY <2>1, <2>4, <2>5
<1>2. ASSUME Alone(zone), NEW n \in Name
      PROVE  /\ \A r, s \in RRsetOf(zone, n, CNAME) : r = s
             /\ CNAME \in TypesAt(zone, n) => TypesAt(zone, n) = {CNAME}
  <2>1. ASSUME NEW r \in RRsetOf(zone, n, CNAME), NEW t, NEW s \in RRsetOf(zone, n, t)
        PROVE  t = CNAME /\ s = r
    <3>1. <<n, CNAME, r>> \in zone /\ <<n, t, s>> \in zone
      BY DEF RRsetOf
    <3>2. <<n, t, s>> = <<n, CNAME, r>>
      BY <1>2, <3>1 DEF Alone
    <3> QED
      BY <3>2
  <2>2. \A t : RRsetOf(zone, n, t) # {} => \E s : s \in RRsetOf(zone, n, t)
    OBVIOUS
  <2> QED
    BY <2>1, <2>2 DEF TypesAt
<1> QED
  BY <1>1, <1>2 DEF Contents, Alone

\* The records of an RRset.
LEMMA AddedIs ==
    ASSUME NEW n, NEW t, NEW data, NEW x \in RRs(n, t, data)
    PROVE  x = <<n, t, x[3]>> /\ x[1] = n /\ x[2] = t /\ x[3] \in data
BY DEF RRs

\* What is at a name that does not conflict.
LEMMA NoConflict ==
    ASSUME NEW zone \in SUBSET Records, NEW n, NEW t, Conflicting(TypesAt(zone, n), t) = {},
           NEW x \in zone, x[1] = n
    PROVE  t = CNAME <=> x[2] = CNAME
<1>1. x = <<n, x[2], x[3]>> /\ x[2] \in Type /\ x[3] \in Record
  BY RecordIs
<1>2. x[3] \in RRsetOf(zone, n, x[2])
  BY <1>1 DEF RRsetOf
<1>3. x[2] \in TypesAt(zone, n)
  BY <1>1, <1>2 DEF TypesAt
<1> QED
  BY <1>3 DEF Conflicting

\* A server's zone stays one that a server can hold.
LEMMA CarriedKeeps ==
    ASSUME NEW zone \in Contents, NEW u \in Update
    PROVE  Carried(zone, u) \in Contents
<1>1. zone \in SUBSET Records /\ Alone(zone)
  BY ContentsAlone DEF Contents
<1>2. ASSUME NEW z \in SUBSET zone PROVE z \in Contents
  <2>1. Alone(z)
    BY <1>1 DEF Alone
  <2> QED
    BY <1>1, <2>1, ContentsAlone
<1>3. u.do \in {"add", "remove", "drop", "clear"}
  BY DEF Update
<1>4. CASE u.do # "add"
  <2>1. Carried(zone, u) \in SUBSET zone
    BY <1>3, <1>4 DEF Carried
  <2> QED
    BY <1>2, <2>1
<1>5. CASE u.do = "add" /\ Conflicting(TypesAt(zone, u.name), u.type) # {}
  BY <1>5 DEF Carried
<1>6. CASE u.do = "add" /\ Conflicting(TypesAt(zone, u.name), u.type) = {}
  <2> DEFINE new == RRs(u.name, u.type, u.data)
             kept == IF u.type = CNAME THEN zone \ RRs(u.name, CNAME, Record) ELSE zone
  <2>1. Carried(zone, u) = kept \cup new
    BY <1>6 DEF Carried
  <2>2. new \subseteq Records /\ (u.type = CNAME => \A r, s \in u.data : r = s)
    BY <1>6 DEF Update
  <2>3. \A x \in kept : x \in zone
    OBVIOUS
  <2>4. \A x \in new : x = <<u.name, u.type, x[3]>> /\ x[1] = u.name /\ x[2] = u.type /\ x[3] \in u.data
    BY AddedIs
  <2>5. ASSUME NEW x \in kept, x[1] = u.name PROVE u.type # CNAME /\ x[2] # CNAME
    <3>1. x \in zone /\ (u.type = CNAME <=> x[2] = CNAME)
      BY <1>1, <1>6, <2>3, <2>5, NoConflict
    <3>2. u.type # CNAME
      <4> SUFFICES ASSUME u.type = CNAME PROVE FALSE
        OBVIOUS
      <4>1. x = <<u.name, CNAME, x[3]>> /\ x[3] \in Record
        BY <1>1, <2>5, <3>1, RecordIs
      <4>2. x \in RRs(u.name, CNAME, Record)
        BY <4>1 DEF RRs
      <4> QED
        BY <4>2
    <3> QED
      BY <3>1, <3>2
  <2> HIDE DEF kept, new
  <2>6. Alone(kept \cup new)
    <3>1. ASSUME NEW x \in kept \cup new, NEW y \in kept \cup new, x[1] = y[1], x[2] = CNAME
          PROVE  y = x
      <4>1. CASE x \in kept /\ y \in kept
        BY <1>1, <2>3, <3>1, <4>1 DEF Alone
      <4>2. CASE x \in new /\ y \in kept
        BY <2>4, <2>5, <3>1, <4>2
      <4>3. CASE x \in kept /\ y \in new
        BY <2>4, <2>5, <3>1, <4>3
      <4>4. CASE x \in new /\ y \in new
        BY <2>2, <2>4, <3>1, <4>4
      <4> QED
        BY <4>1, <4>2, <4>3, <4>4
    <3> QED
      BY <3>1 DEF Alone
  <2>7. kept \cup new \in SUBSET Records
    BY <1>1, <2>2, <2>3
  <2> QED
    BY <2>1, <2>6, <2>7, ContentsAlone
<1> QED
  BY <1>4, <1>5, <1>6

\* Updates alone, one after another.
Run(zone, ups) == Result(zone, [pre |-> {}, ups |-> ups])

\* A message's result is that of its updates.
LEMMA ResultRuns ==
    ASSUME NEW zone, NEW msg
    PROVE  Result(zone, msg) = Run(zone, msg.ups)
BY DEF Run, Result, FoldLeft, MapThenFoldSet

\* Updates there can be keep the zone one a server can hold, at every point of their course.
LEMMA RunIs ==
    ASSUME NEW zone \in Contents, NEW ups \in Seq(Update)
    PROVE  \E c \in [0 .. Len(ups) -> Contents] : Chain(c, zone, ups) /\ Run(zone, ups) = c[Len(ups)]
<1> DEFINE msg == [pre |-> {}, ups |-> ups]
<1>1. msg.ups = ups
  OBVIOUS
<1> HIDE DEF msg
<1>2. \A k \in 1 .. Len(msg.ups) : \A a \in Contents : Carried(a, msg.ups[k]) \in Contents
  BY <1>1, CarriedKeeps, ElementOfSeq
<1>3. \E c \in [0 .. Len(msg.ups) -> Contents] :
         Chain(c, zone, msg.ups) /\ Result(zone, msg) = c[Len(msg.ups)]
  BY <1>1, <1>2, ResultIs
<1>4. Run(zone, ups) = Result(zone, msg)
  BY DEF Run, msg
<1> QED
  BY <1>1, <1>3, <1>4

\* There is only one course.
LEMMA ChainsAgree ==
    ASSUME NEW U, NEW ups \in Seq(U), NEW zone, NEW c, NEW d, Chain(c, zone, ups), Chain(d, zone, ups)
    PROVE  c[Len(ups)] = d[Len(ups)]
<1> DEFINE n == Len(ups)
           Good == {k \in Nat : c[k] = d[k]}
<1>1. n \in Nat /\ n \in 0 .. n
  BY LenProperties
<1>2. Good \in SUBSET Nat /\ 0 \in Good
  BY DEF Chain
<1>3. \A k \in 1 .. n : k - 1 \in Good => k \in Good
  BY DEF Chain
<1> HIDE DEF Good, n
<1>4. 0 .. n \subseteq Good
  BY <1>1, <1>2, <1>3, Induct
<1> QED
  BY <1>1, <1>4 DEF Good, n

\* Updates after others go on from where those end.
LEMMA RunConcat ==
    ASSUME NEW zone \in Contents, NEW s \in Seq(Update), NEW t \in Seq(Update)
    PROVE  Run(zone, s) \in Contents /\ Run(zone, s \o t) = Run(Run(zone, s), t)
<1>1. PICK c \in [0 .. Len(s) -> Contents] : Chain(c, zone, s) /\ Run(zone, s) = c[Len(s)]
  BY RunIs
<1> DEFINE m == Len(s)
           n == Len(t)
           mid == Run(zone, s)
<1>2. m \in Nat /\ n \in Nat
  BY LenProperties
<1>3. mid \in Contents
  BY <1>1, <1>2
<1>4. PICK d \in [0 .. Len(t) -> Contents] : Chain(d, mid, t) /\ Run(mid, t) = d[Len(t)]
  <2> HIDE DEF mid
  <2> QED
    BY <1>3, RunIs
<1>5. PICK e \in [0 .. Len(s \o t) -> Contents] :
          Chain(e, zone, s \o t) /\ Run(zone, s \o t) = e[Len(s \o t)]
  <2>1. s \o t \in Seq(Update)
    OBVIOUS
  <2> QED
    BY <2>1, RunIs
<1>6. /\ Len(s \o t) = m + n
      /\ \A k \in 1 .. m : (s \o t)[k] = s[k]
      /\ \A k \in 1 .. n : (s \o t)[m + k] = t[k]
  BY <1>2, ConcatProperties
<1> DEFINE w == [k \in 0 .. m + n |-> IF k <= m THEN c[k] ELSE d[k - m]]
<1>7. Chain(w, zone, s \o t)
  <2>1. w[0] = zone /\ DOMAIN w = 0 .. m + n
    BY <1>1, <1>2 DEF Chain
  <2>2. ASSUME NEW k \in 1 .. m + n PROVE w[k] = Carried(w[k - 1], (s \o t)[k])
    <3>1. CASE k <= m
      <4>1. k \in 1 .. m /\ w[k] = c[k] /\ w[k - 1] = c[k - 1]
        BY <1>2, <3>1
      <4> QED
        BY <1>1, <1>6, <4>1 DEF Chain
    <3>2. CASE k > m
      <4>1. PICK i \in 1 .. n : k = m + i
        <5>1. k - m \in 1 .. n /\ k = m + (k - m)
          BY <1>2, <3>2
        <5> QED
          BY <5>1
      <4>2. w[k] = d[i]
        BY <1>2, <3>2, <4>1
      <4>3. w[k - 1] = d[i - 1]
        <5>1. CASE i = 1
          <6>1. w[k - 1] = c[m] /\ d[i - 1] = mid
            BY <1>2, <1>4, <4>1, <5>1 DEF Chain
          <6> QED
            BY <1>1, <6>1
        <5>2. CASE i # 1
          BY <1>2, <4>1, <5>2
        <5> QED
          BY <5>1, <5>2
      <4>4. d[i] = Carried(d[i - 1], t[i])
        BY <1>4 DEF Chain
      <4> QED
        BY <1>6, <4>1, <4>2, <4>3, <4>4
    <3> QED
      BY <1>2, <3>1, <3>2
  <2> HIDE DEF w
  <2> QED
    BY <1>6, <2>1, <2>2 DEF Chain
<1>8. w[m + n] = d[n]
  <2>1. CASE n = 0
    <3>1. w[m + n] = c[m] /\ d[n] = mid
      BY <1>2, <1>4, <2>1 DEF Chain
    <3> QED
      BY <1>1, <3>1
  <2>2. CASE n # 0
    <3>1. m + n \in 0 .. m + n /\ ~ (m + n <= m) /\ m + n - m = n
      BY <1>2, <2>2
    <3>2. \A k \in 0 .. m + n : ~ (k <= m) => w[k] = d[k - m]
      OBVIOUS
    <3> HIDE DEF w, m, n
    <3> QED
      BY <1>2, <3>1, <3>2, Z3
  <2> QED
    BY <2>1, <2>2
<1> HIDE DEF w
<1>9. e[m + n] = w[m + n]
  <2>1. s \o t \in Seq(Update)
    OBVIOUS
  <2>2. e[Len(s \o t)] = w[Len(s \o t)]
    BY <1>5, <1>7, <2>1, ChainsAgree
  <2> QED
    BY <1>6, <2>2
<1> QED
  BY <1>3, <1>4, <1>5, <1>6, <1>8, <1>9

\* No update, and one.
LEMMA RunFew ==
    ASSUME NEW zone \in Contents
    PROVE  /\ Run(zone, <<>>) = zone
           /\ \A u \in Update : Run(zone, <<u>>) = Carried(zone, u)
<1>1. Run(zone, <<>>) = zone
  <2>1. <<>> \in Seq(Update) /\ Len(<<>>) = 0
    BY EmptySeq
  <2>2. PICK c : Chain(c, zone, <<>>) /\ Run(zone, <<>>) = c[Len(<<>>)]
    BY <2>1, RunIs
  <2> QED
    BY <2>1, <2>2 DEF Chain
<1>2. ASSUME NEW u \in Update PROVE Run(zone, <<u>>) = Carried(zone, u)
  <2>1. <<u>> \in Seq(Update) /\ Len(<<u>>) = 1 /\ <<u>>[1] = u
    OBVIOUS
  <2>2. PICK c : Chain(c, zone, <<u>>) /\ Run(zone, <<u>>) = c[Len(<<u>>)]
    BY <2>1, RunIs
  <2>3. c[0] = zone /\ c[1] = Carried(c[0], <<u>>[1])
    BY <2>1, <2>2 DEF Chain
  <2> QED
    BY <2>1, <2>2, <2>3
<1> QED
  BY <1>1, <1>2
--------------------------------------------------------------------------------
(* Rollback *)

\* The elements of a finite set in some order.
LEMMA SequenceOfSet ==
    ASSUME NEW S, IsFiniteSet(S)
    PROVE  /\ SetToSeq(S) \in Seq(S)
           /\ \A x \in S : \E k \in 1 .. Len(SetToSeq(S)) : SetToSeq(S)[k] = x
<1> DEFINE n == Cardinality(S)
           f == SetToSeq(S)
<1>1. n \in Nat /\ ExistsBijection(1 .. n, S)
  BY FS_CardinalityType
<1>2. f \in [1 .. n -> S] /\ \A i, k \in DOMAIN f : f[i] = f[k] => i = k
  <2>1. PICK g \in [1 .. n -> S] : \A i, k \in 1 .. n : g[i] = g[k] => i = k
    BY <1>1 DEF ExistsBijection, Bijection, Injection, IsInjective
  <2>2. \E h \in [1 .. n -> S] : IsInjective(h)
    BY <2>1 DEF IsInjective
  <2>3. f \in [1 .. n -> S] /\ IsInjective(f)
    BY <2>2 DEF SetToSeq
  <2> QED
    BY <2>3 DEF IsInjective
<1> HIDE DEF f
<1>3. f \in Seq(S) /\ Len(f) = n
  BY <1>1, <1>2
<1>4. ASSUME NEW x \in S PROVE \E k \in 1 .. n : f[k] = x
  <2>1. IsFiniteSet(1 .. n) /\ Cardinality(1 .. n) = n
    BY <1>1, FS_Interval
  <2>2. f \in Injection(1 .. n, S)
    BY <1>2 DEF Injection, IsInjective
  <2>3. f \in Surjection(1 .. n, S)
    BY <2>1, <2>2, FS_Injection
  <2> QED
    BY <2>3 DEF Surjection
<1> QED
  BY <1>3, <1>4 DEF f

\* The records of a zone that a rollback may touch.
Free(rrs) == {x \in rrs : <<x[1], x[2]>> \notin Protected}

\* One record as an update.
Single(do, x) == [do |-> do, name |-> x[1], type |-> x[2], data |-> {x[3]}]

\* It is an update there can be, and names that one record.
LEMMA SingleIs ==
    ASSUME NEW x \in Records
    PROVE  /\ RRs(x[1], x[2], {x[3]}) = {x}
           /\ \A do \in {"add", "remove"} : Single(do, x) \in Update
           /\ \A y \in Records : \A do : Single(do, x) = Single(do, y) => x = y
<1>1. x = <<x[1], x[2], x[3]>> /\ x[1] \in Name /\ x[2] \in Type /\ x[3] \in Record
  BY RecordIs
<1>2. RRs(x[1], x[2], {x[3]}) = {x}
  BY <1>1 DEF RRs
<1>3. ASSUME NEW do \in {"add", "remove"} PROVE Single(do, x) \in Update
  <2>1. {x[3]} \in SUBSET Record /\ {x[3]} # {} /\ \A r, s \in {x[3]} : r = s
    BY <1>1
  <2> QED
    BY <1>1, <1>2, <2>1 DEF Single, Update
<1>4. ASSUME NEW y \in Records, NEW do, Single(do, x) = Single(do, y) PROVE x = y
  <2>1. y = <<y[1], y[2], y[3]>>
    BY RecordIs
  <2>2. x[1] = y[1] /\ x[2] = y[2] /\ {x[3]} = {y[3]}
    BY <1>4 DEF Single
  <2>3. x[3] = y[3]
    BY <2>2
  <2> QED
    BY <1>1, <2>1, <2>2, <2>3
<1> QED
  BY <1>2, <1>3, <1>4

\* The updates of a batch are those of its records, each in its place.
LEMMA EachIs ==
    ASSUME NEW do \in {"add", "remove"}, NEW rrs \in SUBSET Records
    PROVE  LET ups == EachAs(do, rrs)
           IN  /\ ups \in Seq(Update)
               /\ \A k \in 1 .. Len(ups) : \E x \in Free(rrs) : ups[k] = Single(do, x)
               /\ \A x \in Free(rrs) : \E k \in 1 .. Len(ups) : ups[k] = Single(do, x)
<1> DEFINE D == Free(rrs)
           S == {Single(do, x) : x \in D}
           ups == EachAs(do, rrs)
<1>1. D \subseteq Records /\ IsFiniteSet(D)
  <2>1. D \in SUBSET Records
    BY DEF Free
  <2> QED
    BY <2>1, FS_Subset, UpdateAssumption
<1>2. ups = SetToSeq(S)
  BY DEF EachAs, Single, Free
<1> HIDE DEF D, ups
<1>3. IsFiniteSet(S)
  <2> DEFINE f == [x \in D |-> Single(do, x)]
  <2>1. f \in Surjection(D, S)
    BY DEF Surjection
  <2>2. IsFiniteSet(D)
    BY <1>1
  <2> HIDE DEF S, f, D
  <2>3. \A g \in Surjection(D, S) : IsFiniteSet(S)
    BY <2>2, FS_Surjection
  <2> QED
    BY <2>1, <2>3
<1>4. S \subseteq Update
  <2> SUFFICES ASSUME NEW x \in D PROVE Single(do, x) \in Update
    OBVIOUS
  <2>1. x \in Records
    BY <1>1
  <2> QED
    BY <2>1, SingleIs
<1> HIDE DEF S
<1>5. ups \in Seq(S) /\ \A x \in S : \E k \in 1 .. Len(ups) : ups[k] = x
  BY <1>2, <1>3, SequenceOfSet
<1>6. ups \in Seq(Update)
  BY <1>4, <1>5, SeqMonotonic
<1>7. \A k \in 1 .. Len(ups) : ups[k] \in S
  BY <1>5, ElementOfSeq
<1> QED
  BY <1>5, <1>6, <1>7 DEF S, D, ups

\* Deleting the records of a batch leaves the others.
LEMMA RemoveAll ==
    ASSUME NEW zone \in Contents, NEW rrs \in SUBSET Records
    PROVE  Run(zone, EachAs("remove", rrs)) = zone \ Free(rrs)
<1> DEFINE ups == EachAs("remove", rrs)
           n == Len(ups)
           left(k) == {x \in zone : \A i \in 1 .. k : ups[i] # Single("remove", x)}
<1>1. /\ ups \in Seq(Update)
      /\ \A k \in 1 .. n : \E x \in Free(rrs) : ups[k] = Single("remove", x)
      /\ \A x \in Free(rrs) : \E k \in 1 .. n : ups[k] = Single("remove", x)
  BY EachIs
<1> HIDE DEF ups
<1>2. n \in Nat
  BY <1>1, LenProperties
<1>3. zone \in SUBSET Records /\ Free(rrs) \subseteq Records
  BY DEF Contents, Free
<1>4. PICK c \in [0 .. n -> Contents] : Chain(c, zone, ups) /\ Run(zone, ups) = c[n]
  BY <1>1, RunIs
<1> DEFINE Good == {k \in Nat : c[k] = left(k)}
<1>5. Good \in SUBSET Nat /\ 0 \in Good
  BY <1>4 DEF Chain
<1>6. ASSUME NEW k \in 1 .. n, k - 1 \in Good PROVE k \in Good
  <2>1. PICK y \in Free(rrs) : ups[k] = Single("remove", y)
    BY <1>1
  <2>2. c[k] = c[k - 1] \ {y}
    <3>1. c[k] = Carried(c[k - 1], Single("remove", y))
      BY <1>4, <2>1 DEF Chain
    <3>2. RRs(y[1], y[2], {y[3]}) = {y} /\ <<y[1], y[2]>> \notin Protected
      BY <1>3, SingleIs DEF Free
    <3>3. LastOf(c[k - 1], Single("remove", y)) = {}
      BY <3>2 DEF LastOf, Single
    <3> QED
      BY <3>1, <3>2, <3>3 DEF Carried, Single
  <2>3. c[k - 1] = left(k - 1)
    BY <1>6
  <2>4. left(k) = left(k - 1) \ {y}
    <3>1. \A i : i \in 1 .. k <=> i \in 1 .. k - 1 \/ i = k
      BY <1>2
    <3>2. \A x \in zone : Single("remove", x) = Single("remove", y) => x = y
      BY <1>3, SingleIs
    <3>3. ups[k] = Single("remove", y)
      BY <2>1
    <3> QED
      BY <3>1, <3>2, <3>3
  <2> HIDE DEF left
  <2> QED
    BY <2>2, <2>3, <2>4
<1> HIDE DEF Good, n
<1>7. 0 .. n \subseteq Good /\ n \in 0 .. n
  <2>1. 0 .. n \subseteq Good
    BY <1>2, <1>5, <1>6, Induct
  <2>2. n \in 0 .. n
    BY <1>2
  <2> QED
    BY <2>1, <2>2
<1>8. c[n] = left(n)
  BY <1>7 DEF Good
<1>9. left(n) = zone \ Free(rrs)
  <2>1. ASSUME NEW x \in left(n), x \in Free(rrs) PROVE FALSE
    BY <1>1, <2>1 DEF n
  <2>2. ASSUME NEW x \in zone \ Free(rrs), NEW i \in 1 .. n, ups[i] = Single("remove", x) PROVE FALSE
    <3>1. PICK y \in Free(rrs) : ups[i] = Single("remove", y)
      BY <1>1 DEF n
    <3>2. x = y
      BY <1>3, <2>2, <3>1, SingleIs
    <3> QED
      BY <3>1, <3>2
  <2> QED
    BY <2>1, <2>2
<1> QED
  BY <1>4, <1>8, <1>9 DEF ups, n

\* Adding the records of a batch to a zone that can hold them adds them all.
LEMMA AddAll ==
    ASSUME NEW zone \in Contents, NEW rrs \in SUBSET Records, zone \cup Free(rrs) \in Contents
    PROVE  Run(zone, EachAs("add", rrs)) = zone \cup Free(rrs)
<1> DEFINE ups == EachAs("add", rrs)
           n == Len(ups)
           full == zone \cup Free(rrs)
           got(k) == zone \cup {x \in Free(rrs) : \E i \in 1 .. k : ups[i] = Single("add", x)}
<1>1. /\ ups \in Seq(Update)
      /\ \A k \in 1 .. n : \E x \in Free(rrs) : ups[k] = Single("add", x)
      /\ \A x \in Free(rrs) : \E k \in 1 .. n : ups[k] = Single("add", x)
  BY EachIs
<1> HIDE DEF ups
<1>2. n \in Nat
  BY <1>1, LenProperties
<1>3. full \in SUBSET Records /\ Alone(full) /\ Free(rrs) \subseteq Records
  BY ContentsAlone DEF Contents, Free
<1>4. PICK c \in [0 .. n -> Contents] : Chain(c, zone, ups) /\ Run(zone, ups) = c[n]
  BY <1>1, RunIs
<1>5. ASSUME NEW z \in SUBSET full, NEW y \in Free(rrs)
      PROVE  Carried(z, Single("add", y)) = z \cup {y}
  <2>1. /\ y = <<y[1], y[2], y[3]>> /\ y[1] \in Name /\ y[2] \in Type /\ y[3] \in Record
        /\ RRs(y[1], y[2], {y[3]}) = {y} /\ y \in full
    BY <1>3, RecordIs, SingleIs
  <2>2. ASSUME NEW t \in TypesAt(z, y[1]) PROVE \E x \in z : x = <<y[1], t, x[3]>>
    <3>1. PICK r \in Record : <<y[1], t, r>> \in z
      BY <2>2 DEF TypesAt, RRsetOf
    <3> QED
      BY <3>1
  <2>3. ASSUME NEW t \in TypesAt(z, y[1]) PROVE y[2] = CNAME <=> t = CNAME
    <3>1. PICK x \in z : x = <<y[1], t, x[3]>>
      BY <2>2, <2>3
    <3>2. x[1] = y[1] /\ x[2] = t /\ x \in full
      BY <3>1
    <3> QED
      BY <1>3, <2>1, <3>2 DEF Alone
  <2>4. Conflicting(TypesAt(z, y[1]), y[2]) = {}
    BY <2>3 DEF Conflicting
  <2>5. (IF y[2] = CNAME THEN z \ RRs(y[1], CNAME, Record) ELSE z) \cup {y} = z \cup {y}
    <3>1. CASE y[2] = CNAME
      <4>1. ASSUME NEW x \in z, x \in RRs(y[1], CNAME, Record) PROVE x = y
        <5>1. x[1] = y[1] /\ x \in full
          BY <4>1 DEF RRs
        <5> QED
          BY <1>3, <2>1, <3>1, <5>1 DEF Alone
      <4> QED
        BY <3>1, <4>1
    <3>2. CASE y[2] # CNAME
      BY <3>2
    <3> QED
      BY <3>1, <3>2
  <2>6. /\ Single("add", y).do = "add" /\ Single("add", y).name = y[1]
        /\ Single("add", y).type = y[2] /\ Single("add", y).data = {y[3]}
    BY DEF Single
  <2> QED
    BY <2>1, <2>4, <2>5, <2>6 DEF Carried
<1> DEFINE Good == {k \in Nat : c[k] = got(k)}
<1>6. Good \in SUBSET Nat /\ 0 \in Good
  BY <1>4 DEF Chain
<1>7. ASSUME NEW k \in 1 .. n, k - 1 \in Good PROVE k \in Good
  <2>1. PICK y \in Free(rrs) : ups[k] = Single("add", y)
    BY <1>1
  <2>2. c[k - 1] = got(k - 1)
    BY <1>7
  <2>3. got(k - 1) \in SUBSET full
    OBVIOUS
  <2>4. c[k] = Carried(c[k - 1], Single("add", y))
    BY <1>4, <2>1 DEF Chain
  <2>5. Carried(got(k - 1), Single("add", y)) = got(k - 1) \cup {y}
    <3> HIDE DEF got, full
    <3> QED
      BY <1>5, <2>3
  <2>6. got(k) = got(k - 1) \cup {y}
    <3>1. \A i : i \in 1 .. k <=> i \in 1 .. k - 1 \/ i = k
      BY <1>2
    <3>2. \A x \in Free(rrs) : Single("add", x) = Single("add", y) => x = y
      BY <1>3, SingleIs
    <3>3. ups[k] = Single("add", y)
      BY <2>1
    <3> QED
      BY <3>1, <3>2, <3>3
  <2> HIDE DEF got
  <2> QED
    BY <2>2, <2>4, <2>5, <2>6
<1> HIDE DEF Good, n
<1>8. 0 .. n \subseteq Good /\ n \in 0 .. n
  <2>1. 0 .. n \subseteq Good
    BY <1>2, <1>6, <1>7, Induct
  <2>2. n \in 0 .. n
    BY <1>2
  <2> QED
    BY <2>1, <2>2
<1>9. c[n] = got(n)
  BY <1>8 DEF Good
<1>10. got(n) = full
  BY <1>1 DEF n
<1> HIDE DEF full
<1> QED
  BY <1>4, <1>9, <1>10 DEF ups, n, full

\* A protected RRset's name has no CNAME, so the rest of one zone and the protected RRsets
\* of another go together.
LEMMA MixedContents ==
    ASSUME NEW zone \in Contents, NEW Q \in SUBSET Records, Free(Q) = {}
    PROVE  Free(zone) \cup Q \in Contents
<1>1. zone \in SUBSET Records /\ Alone(zone)
  BY ContentsAlone DEF Contents
<1>2. ASSUME NEW x \in Q, NEW y \in Records, x[1] = y[1] PROVE y[2] # CNAME
  <2>1. y = <<y[1], y[2], y[3]>> /\ y[3] \in Record
    BY RecordIs
  <2>2. <<x[1], x[2]>> \in Protected
    BY DEF Free
  <2>3. <<x[1], CNAME, y[3]>> \notin Records
    <3>1. \A p \in Protected, r \in Record : <<p[1], CNAME, r>> \notin Records
      BY UpdateAssumption
    <3> DEFINE p == <<x[1], x[2]>>
    <3>2. p[1] = x[1] /\ p \in Protected
      BY <2>2
    <3> HIDE DEF p
    <3> QED
      BY <2>1, <3>1, <3>2
  <2> QED
    BY <1>2, <2>1, <2>3
<1>3. Alone(Free(zone) \cup Q)
  <2>1. ASSUME NEW x \in Free(zone) \cup Q, NEW y \in Free(zone) \cup Q, x[1] = y[1], x[2] = CNAME
        PROVE  y = x
    <3>1. x \in Records /\ y \in Records
      BY <1>1 DEF Free
    <3>2. x \notin Q /\ y \notin Q
      BY <1>2, <2>1, <3>1
    <3>3. x \in zone /\ y \in zone
      BY <2>1, <3>2 DEF Free
    <3> QED
      BY <1>1, <2>1, <3>3 DEF Alone
  <2> QED
    BY <2>1 DEF Alone
<1>4. Free(zone) \cup Q \in SUBSET Records
  BY <1>1 DEF Free
<1> QED
  BY <1>3, <1>4, ContentsAlone

\* What undoes one change of the zone.
Undo(before, after) == EachAs("remove", after \ before) \o EachAs("add", before \ after)

\* Undoing one batch brings the zone before it back, protected RRsets apart.
LEMMA UndoWorks ==
    ASSUME NEW before \in Contents, NEW after \in Contents, NEW Q \in SUBSET Records, Free(Q) = {}
    PROVE  /\ Undo(before, after) \in Seq(Update)
           /\ Run(Free(after) \cup Q, Undo(before, after)) = Free(before) \cup Q
<1> DEFINE zone == Free(after) \cup Q
           out == EachAs("remove", after \ before)
           in == EachAs("add", before \ after)
<1>1. after \ before \in SUBSET Records /\ before \ after \in SUBSET Records
  BY DEF Contents
<1>2. out \in Seq(Update) /\ in \in Seq(Update)
  BY <1>1, EachIs
<1>3. zone \in Contents /\ Free(before) \cup Q \in Contents
  BY MixedContents
<1>4. Run(zone, out) = zone \ Free(after \ before)
  <2> HIDE DEF zone
  <2> QED
    BY <1>1, <1>3, RemoveAll
<1>5. (zone \ Free(after \ before)) \cup Free(before \ after) = Free(before) \cup Q
  BY DEF Free
<1>6. Run(zone, out) \in Contents /\ Run(zone, out \o in) = Run(Run(zone, out), in)
  <2> HIDE DEF zone, out, in
  <2> QED
    BY <1>2, <1>3, RunConcat
<1>7. Run(Run(zone, out), in) = Run(zone, out) \cup Free(before \ after)
  <2>1. Run(zone, out) \cup Free(before \ after) \in Contents
    BY <1>3, <1>4, <1>5
  <2> HIDE DEF zone, out
  <2> QED
    BY <1>1, <1>6, <2>1, AddAll
<1>8. out \o in \in Seq(Update)
  BY <1>2, ConcatProperties
<1> QED
  BY <1>4, <1>5, <1>6, <1>7, <1>8 DEF Undo

\* A rollback undoes the batches from the newest to the oldest.
LEMMA ReverseWorks ==
    ASSUME NEW hist, NEW from \in Nat, NEW upto \in Nat, from < upto,
           \A i \in from .. upto : hist[i] \in Contents
    PROVE  LET ups == ReverseChanges(hist, from, upto)
           IN  /\ ups \in Seq(Update)
               /\ Free(Run(hist[upto], ups)) = Free(hist[from])
<1> DEFINE n == upto - from
           seqs == [k \in 1 .. n |-> Undo(hist[upto - k], hist[upto - k + 1])]
           Q == hist[upto] \ Free(hist[upto])
           zone == hist[upto]
<1>1. n \in Nat
  OBVIOUS
<1>2. Q \in SUBSET Records /\ Free(Q) = {} /\ zone \in Contents /\ zone = Free(zone) \cup Q
  <2>1. hist[upto] \in Contents
    OBVIOUS
  <2> QED
    BY <2>1 DEF Free, Contents
<1>3. ASSUME NEW k \in 1 .. n
      PROVE  /\ seqs[k] \in Seq(Update)
             /\ Run(Free(hist[upto - (k - 1)]) \cup Q, seqs[k]) = Free(hist[upto - k]) \cup Q
  <2>1. hist[upto - k] \in Contents /\ hist[upto - k + 1] \in Contents
    <3>1. upto - k \in from .. upto /\ upto - k + 1 \in from .. upto
      OBVIOUS
    <3> QED
      BY <3>1
  <2>2. seqs[k] = Undo(hist[upto - k], hist[upto - k + 1]) /\ upto - (k - 1) = upto - k + 1
    OBVIOUS
  <2> DEFINE before == hist[upto - k]
             after == hist[upto - k + 1]
  <2>3. before \in Contents /\ after \in Contents
    BY <2>1
  <2> HIDE DEF Q, seqs, n, before, after
  <2>4. /\ Undo(before, after) \in Seq(Update)
        /\ Run(Free(after) \cup Q, Undo(before, after)) = Free(before) \cup Q
    BY <1>2, <2>3, UndoWorks
  <2>5. hist[upto - (k - 1)] = after
    BY <2>2 DEF after
  <2> QED
    BY <2>2, <2>4, <2>5 DEF before, after
<1>4. ReverseChanges(hist, from, upto) = FlattenSeq(seqs)
  BY DEF ReverseChanges, Undo
<1>5. seqs \in Seq(Seq(Update)) /\ Len(seqs) = n
  <2>1. \A k \in 1 .. n : seqs[k] \in Seq(Update)
    BY <1>3
  <2>2. seqs \in [1 .. n -> Seq(Update)]
    BY <2>1
  <2> HIDE DEF seqs, n
  <2> QED
    BY <1>1, <2>2
<1> HIDE DEF n, seqs, zone, Q
<1>6. PICK f \in [0 .. n -> Seq(Update)] :
          /\ f[0] = <<>> /\ FlattenSeq(seqs) = f[n]
          /\ \A k \in 1 .. n : f[k] = f[k - 1] \o seqs[k]
  BY <1>5, FlattenIs
<1> DEFINE Good == {k \in Nat : Run(zone, f[k]) = Free(hist[upto - k]) \cup Q}
<1>7. Good \in SUBSET Nat /\ 0 \in Good
  <2>1. Run(zone, <<>>) = zone
    BY <1>2, RunFew
  <2>2. hist[upto - 0] = zone
    BY DEF zone
  <2> QED
    BY <1>2, <1>6, <2>1, <2>2
<1>8. ASSUME NEW k \in 1 .. n, k - 1 \in Good PROVE k \in Good
  <2>1. f[k - 1] \in Seq(Update) /\ seqs[k] \in Seq(Update) /\ f[k] = f[k - 1] \o seqs[k]
    <3>1. k - 1 \in 0 .. n
      BY <1>1
    <3>2. f[k - 1] \in Seq(Update)
      BY <1>6, <3>1
    <3> QED
      BY <1>3, <1>6, <3>2
  <2>2. Run(zone, f[k]) = Run(Run(zone, f[k - 1]), seqs[k])
    BY <1>2, <2>1, RunConcat
  <2>3. Run(zone, f[k - 1]) = Free(hist[upto - (k - 1)]) \cup Q
    BY <1>8
  <2>4. Run(zone, f[k]) = Free(hist[upto - k]) \cup Q
    BY <1>3, <2>2, <2>3
  <2>5. k \in Nat
    BY <1>1
  <2> QED
    BY <2>4, <2>5
<1> HIDE DEF Good
<1>9. 0 .. n \subseteq Good /\ n \in 0 .. n
  <2>1. \A k \in 1 .. n : k - 1 \in Good => k \in Good
    BY <1>8
  <2>2. 0 .. n \subseteq Good
    BY <1>1, <1>7, <2>1, Induct
  <2>3. n \in 0 .. n
    BY <1>1
  <2> QED
    BY <2>2, <2>3
<1>10. Run(zone, f[n]) = Free(hist[from]) \cup Q
  <2>1. Run(zone, f[n]) = Free(hist[upto - n]) \cup Q
    BY <1>9 DEF Good
  <2>2. upto - n = from
    BY DEF n
  <2> QED
    BY <2>1, <2>2
<1>11. Free(Free(hist[from]) \cup Q) = Free(hist[from])
  BY <1>2 DEF Free
<1>12. f[n] \in Seq(Update)
  BY <1>1, <1>6
<1> QED
  BY <1>4, <1>6, <1>10, <1>11, <1>12 DEF zone
--------------------------------------------------------------------------------
(* Operations and their messages *)

\* Operations that make updates there can be.
Edit ==
    {o \in [action : {"add", "delete", "replace"}, name : Name, type : Type,
            data : SUBSET Record, listed : BOOLEAN] :
        /\ o.action # "delete" => o.data # {} /\ RRs(o.name, o.type, o.data) \subseteq Records
        /\ o.data # {} => o.listed
        /\ o.action # "delete" /\ o.type = CNAME => \A r, s \in o.data : r = s}

\* The operations requests send are such.
LEMMA OpsAreEdits == Ops \subseteq Edit
BY DEF Ops, Edit

\* The prerequisites the code builds are prerequisites there can be.
LEMMA PrerequisiteIs ==
    ASSUME NEW n \in Name, NEW t \in Type
    PROVE  /\ NxDomain(n) \in Prerequisite /\ YxDomain(n) \in Prerequisite
           /\ NxRRset(n, t) \in Prerequisite /\ YxRRset(n, t) \in Prerequisite
           /\ \A data \in SUBSET Record :
                 Exact(n, t, data) \in Prerequisite /\ Expecting(n, t, data) \in Prerequisite
BY DEF Prerequisite, NxDomain, YxDomain, NxRRset, YxRRset, Exact, Expecting

\* So are the updates.
LEMMA EditUpdates ==
    ASSUME NEW o \in Edit
    PROVE  /\ o.action # "delete" => AddRRs(o.name, o.type, o.data) \in Update
           /\ DeleteRRset(o.name, o.type) \in Update /\ Deleted(o) \in Update
           /\ UpdatesOf(o) \in Seq(Update) \ {<<>>}
<1>1. o.name \in Name /\ o.type \in Type /\ o.data \in SUBSET Record /\ o.action \in {"add", "delete", "replace"}
  BY DEF Edit
<1>2. ASSUME o.action # "delete" PROVE AddRRs(o.name, o.type, o.data) \in Update
  BY <1>1, <1>2 DEF Edit, Update, AddRRs
<1>3. DeleteRRset(o.name, o.type) \in Update
  BY <1>1 DEF DeleteRRset, Update
<1>4. Deleted(o) \in Update
  <2>1. o.data # {} => DeleteRRs(o.name, o.type, o.data) \in Update
    BY <1>1 DEF DeleteRRs, Update
  <2> QED
    BY <1>3, <2>1 DEF Deleted
<1>5. UpdatesOf(o) \in Seq(Update) \ {<<>>}
  <2>1. \A u \in Update : <<u>> \in Seq(Update) \ {<<>>}
    OBVIOUS
  <2>2. \A u, v \in Update : <<u, v>> \in Seq(Update) \ {<<>>}
    OBVIOUS
  <2>3. CASE o.action = "add"
    BY <1>2, <2>1, <2>3 DEF UpdatesOf
  <2>4. CASE o.action = "delete"
    BY <1>4, <2>1, <2>4 DEF UpdatesOf
  <2>5. CASE o.action = "replace"
    BY <1>2, <1>3, <2>2, <2>5 DEF UpdatesOf
  <2> QED
    BY <1>1, <2>3, <2>4, <2>5
<1> QED
  BY <1>2, <1>3, <1>4, <1>5

\* Prerequisites and updates make a message.
LEMMA MessageIs ==
    ASSUME NEW pre \in SUBSET Prerequisite, NEW ups \in Seq(Update) \ {<<>>}
    PROVE  [pre |-> pre, ups |-> ups] \in Message
BY DEF Message

\* The messages of one operation.
LEMMA PreparedIs ==
    ASSUME NEW o \in Edit, NEW there \in SUBSET Record
    PROVE  /\ o.action # "delete" => PrepareAdd(o) \in Message /\ PrepareReplace(o, there) \in Message
           /\ PrepareDelete(o, there) \in Message
<1>1. o.name \in Name /\ o.type \in Type /\ CNAME \in Type
  BY UpdateAssumption DEF Edit
<1>2. DeleteRRset(o.name, o.type) \in Update /\ Deleted(o) \in Update
  BY EditUpdates
<1>3. /\ NxDomain(o.name) \in Prerequisite /\ NxRRset(o.name, o.type) \in Prerequisite
      /\ NxRRset(o.name, CNAME) \in Prerequisite /\ Expecting(o.name, o.type, there) \in Prerequisite
  BY <1>1, PrerequisiteIs
<1>4. ASSUME o.action # "delete" PROVE PrepareAdd(o) \in Message /\ PrepareReplace(o, there) \in Message
  <2> DEFINE u == AddRRs(o.name, o.type, o.data)
             v == DeleteRRset(o.name, o.type)
  <2>1. u \in Update /\ v \in Update
    BY <1>2, <1>4, EditUpdates
  <2> HIDE DEF u, v
  <2>2. <<u>> \in Seq(Update) \ {<<>>} /\ <<v, u>> \in Seq(Update) \ {<<>>}
    BY <2>1
  <2>3. PrepareAdd(o) \in Message
    BY <1>3, <2>2, MessageIs DEF PrepareAdd, u
  <2>4. PrepareReplace(o, there) \in Message
    BY <1>3, <2>2, MessageIs DEF PrepareReplace, u, v
  <2> QED
    BY <2>3, <2>4
<1>5. PrepareDelete(o, there) \in Message
  <2>1. <<Deleted(o)>> \in Seq(Update) \ {<<>>}
    BY <1>2
  <2> QED
    BY <1>3, <2>1, MessageIs DEF PrepareDelete
<1> QED
  BY <1>4, <1>5

\* An RRset is a set of record data.
LEMMA RRsetIn ==
    ASSUME NEW view, NEW n, NEW t
    PROVE  RRsetOf(view, n, t) \in SUBSET Record
BY DEF RRsetOf

\* The message of several.
LEMMA BuiltIs ==
    ASSUME NEW ops \in Seq(Edit) \ {<<>>}, NEW view
    PROVE  BuildUpdate(ops, view) \in Message
<1> DEFINE seqs == [i \in DOMAIN ops |-> UpdatesOf(ops[i])]
           pre == UNION {AutoPrerequisites(ops[i], view, ops) : i \in DOMAIN ops}
<1>1. \A i \in DOMAIN ops : ops[i] \in Edit
  BY ElementOfSeq, LenProperties
<1>2. pre \subseteq Prerequisite
  <2>1. ASSUME NEW i \in DOMAIN ops PROVE AutoPrerequisites(ops[i], view, ops) \subseteq Prerequisite
    <3> DEFINE o == ops[i]
    <3>1. o.name \in Name /\ o.type \in Type /\ CNAME \in Type
      BY <1>1, UpdateAssumption DEF Edit
    <3> HIDE DEF o
    <3>2. /\ NxRRset(o.name, o.type) \in Prerequisite /\ NxRRset(o.name, CNAME) \in Prerequisite
          /\ Expecting(o.name, o.type, RRsetOf(view, o.name, o.type)) \in Prerequisite
      BY <3>1, PrerequisiteIs, RRsetIn
    <3>3. AutoPrerequisites(o, view, ops) \subseteq Prerequisite
      BY <3>2 DEF AutoPrerequisites
    <3> QED
      BY <3>3 DEF o
  <2> QED
    BY <2>1
<1>3. seqs \in Seq(Seq(Update)) /\ seqs # <<>> /\ \A k \in 1 .. Len(seqs) : seqs[k] # <<>>
  <2> DEFINE n == Len(ops)
  <2>1. n \in Nat /\ n # 0 /\ DOMAIN ops = 1 .. n
    BY LenProperties, EmptySeq
  <2>2. \A i \in DOMAIN ops : UpdatesOf(ops[i]) \in Seq(Update) /\ UpdatesOf(ops[i]) # <<>>
    BY <1>1, EditUpdates
  <2>3. /\ seqs \in [1 .. n -> Seq(Update)]
        /\ \A k \in 1 .. n : seqs[k] # <<>>
    BY <2>1, <2>2
  <2> HIDE DEF n, seqs
  <2>4. seqs \in Seq(Seq(Update)) /\ Len(seqs) = n
    BY <2>1, <2>3
  <2>5. seqs # <<>>
    BY <2>1, <2>4, EmptySeq
  <2> QED
    BY <2>3, <2>4, <2>5
<1> HIDE DEF seqs, pre
<1>4. FlattenSeq(seqs) \in Seq(Update) \ {<<>>}
  BY <1>3, FlattenIn
<1>5. BuildUpdate(ops, view) = [pre |-> pre, ups |-> FlattenSeq(seqs)]
  BY DEF BuildUpdate, pre, seqs
<1> QED
  BY <1>2, <1>4, <1>5, MessageIs

\* The operations of a draft, so far.
Drafted(ups) ==
    {ops \in Seq(Edit) :
        \A i \in DOMAIN ops : ops[i].action = "add" /\ ops[i].type = CNAME =>
            \E k \in DOMAIN ups : /\ ups[k].do = "add" /\ ups[k].type = CNAME
                                  /\ ups[k].name = ops[i].name /\ ups[k].data = ops[i].data}

\* One more update as an operation, or as part of the last one.
Merged(ops, u) ==
    IF u.do = "add" /\ ops # <<>> /\ Last(ops).action = "add"
        /\ Last(ops).name = u.name /\ Last(ops).type = u.type
    THEN [ops EXCEPT ![Len(ops)].data = @ \cup u.data]
    ELSE Append(ops, [action |-> IF u.do = "add" THEN "add" ELSE "delete",
                      name |-> u.name, type |-> u.type,
                      data |-> IF u.do = "drop" THEN {} ELSE u.data,
                      listed |-> u.do # "drop"])

\* It keeps the operations ones that make updates there can be: a CNAME is only merged with itself.
LEMMA MergedIs ==
    ASSUME NEW ups \in Seq(Update), OneCname(ups), NEW k \in DOMAIN ups, ups[k].do # "clear",
           NEW ops \in Drafted(ups)
    PROVE  Merged(ops, ups[k]) \in Drafted(ups) \ {<<>>}
<1> DEFINE u == ups[k]
           n == Len(ops)
           origin(o) == o.action = "add" /\ o.type = CNAME =>
                            \E i \in DOMAIN ups : /\ ups[i].do = "add" /\ ups[i].type = CNAME
                                                  /\ ups[i].name = o.name /\ ups[i].data = o.data
<1>1. u \in Update /\ u.do \in {"add", "remove", "drop"}
  <2>1. u \in Update
    BY ElementOfSeq, LenProperties
  <2> QED
    BY <2>1 DEF Update
<1>2. ops \in Seq(Edit) /\ n \in Nat /\ DOMAIN ops = 1 .. n /\ \A i \in 1 .. n : ops[i] \in Edit /\ origin(ops[i])
  <2>1. ops \in Seq(Edit) /\ \A i \in DOMAIN ops : origin(ops[i])
    BY DEF Drafted
  <2>2. n \in Nat /\ DOMAIN ops = 1 .. n
    BY <2>1, LenProperties
  <2>3. \A i \in 1 .. n : ops[i] \in Edit
    BY <2>1, ElementOfSeq
  <2> HIDE DEF origin
  <2> QED
    BY <2>1, <2>2, <2>3
<1>3. CASE u.do = "add" /\ ops # <<>> /\ Last(ops).action = "add"
           /\ Last(ops).name = u.name /\ Last(ops).type = u.type
  <2> DEFINE last == ops[n]
             new == [last EXCEPT !.data = @ \cup u.data]
  <2>1. n \in 1 .. n
    BY <1>2, <1>3, EmptySeq
  <2>2. last \in Edit /\ origin(last) /\ last.action = "add" /\ last.name = u.name /\ last.type = u.type
    BY <1>2, <1>3, <2>1 DEF Last
  <2>3. /\ u.data \in SUBSET Record /\ RRs(u.name, u.type, u.data) \subseteq Records /\ u.data # {}
        /\ u.type = CNAME => \A r, s \in u.data : r = s
    BY <1>1, <1>3 DEF Update
  <2>4. u.type = CNAME => last.data = u.data
    BY <1>3, <2>2 DEF OneCname
  <2>5. /\ new.action = "add" /\ new.name = u.name /\ new.type = u.type
        /\ new.data = last.data \cup u.data /\ new.listed
    BY <2>2 DEF Edit
  <2>6. new \in Edit
    <3>1. RRs(u.name, u.type, last.data) \subseteq Records
      BY <2>2 DEF Edit
    <3>2. RRs(u.name, u.type, last.data \cup u.data) \subseteq Records
      BY <2>3, <3>1 DEF RRs
    <3>3. new \in [action : {"add", "delete", "replace"}, name : Name, type : Type,
                   data : SUBSET Record, listed : BOOLEAN]
      BY <2>2, <2>3 DEF Edit
    <3> HIDE DEF last, new
    <3>4. last.data \cup u.data # {} /\ (u.type = CNAME => \A r, s \in last.data \cup u.data : r = s)
      BY <2>3, <2>4
    <3> QED
      BY <2>5, <3>2, <3>3, <3>4 DEF Edit
  <2>7. origin(new)
    BY <1>3, <2>4, <2>5
  <2>8. Merged(ops, u) = [ops EXCEPT ![n] = new]
    BY <1>3, <2>1, <1>2 DEF Merged
  <2> HIDE DEF new, u, last, n, origin
  <2>9. /\ Merged(ops, u) \in Seq(Edit) /\ Len(Merged(ops, u)) = n
        /\ \A i \in 1 .. n : Merged(ops, u)[i] = IF i = n THEN new ELSE ops[i]
    BY <1>2, <2>1, <2>6, <2>8, ExceptSeq DEF n
  <2>10. \A i \in DOMAIN Merged(ops, u) : origin(Merged(ops, u)[i])
    BY <1>2, <2>7, <2>9, LenProperties
  <2>11. Merged(ops, u) # <<>>
    BY <2>1, <2>9, EmptySeq
  <2> QED
    BY <2>9, <2>10, <2>11 DEF Drafted, origin, u
<1>4. CASE ~ (u.do = "add" /\ ops # <<>> /\ Last(ops).action = "add"
              /\ Last(ops).name = u.name /\ Last(ops).type = u.type)
  <2> DEFINE new == [action |-> IF u.do = "add" THEN "add" ELSE "delete",
                     name |-> u.name, type |-> u.type,
                     data |-> IF u.do = "drop" THEN {} ELSE u.data,
                     listed |-> u.do # "drop"]
  <2>1. new \in Edit
    <3>1. CASE u.do = "add"
      <4>1. /\ u.data \in SUBSET Record /\ RRs(u.name, u.type, u.data) \subseteq Records /\ u.data # {}
            /\ u.type = CNAME => \A r, s \in u.data : r = s
            /\ u.name \in Name /\ u.type \in Type
        BY <1>1, <3>1 DEF Update
      <4>2. new = [action |-> "add", name |-> u.name, type |-> u.type, data |-> u.data, listed |-> TRUE]
        BY <3>1
      <4> HIDE DEF new, u
      <4> QED
        BY <4>1, <4>2 DEF Edit
    <3>2. CASE u.do = "remove"
      <4>1. u.data \in SUBSET Record /\ u.name \in Name /\ u.type \in Type
        BY <1>1, <3>2 DEF Update
      <4>2. new = [action |-> "delete", name |-> u.name, type |-> u.type, data |-> u.data, listed |-> TRUE]
        BY <3>2
      <4> HIDE DEF new, u
      <4> QED
        BY <4>1, <4>2 DEF Edit
    <3>3. CASE u.do = "drop"
      <4>1. u.name \in Name /\ u.type \in Type
        BY <1>1, <3>3 DEF Update
      <4>2. new = [action |-> "delete", name |-> u.name, type |-> u.type, data |-> {}, listed |-> FALSE]
        BY <3>3
      <4> HIDE DEF new, u
      <4> QED
        BY <4>1, <4>2 DEF Edit
    <3> QED
      BY <1>1, <3>1, <3>2, <3>3
  <2>2. origin(new)
    <3>1. ASSUME new.action = "add", new.type = CNAME
          PROVE  u.do = "add" /\ u.type = CNAME /\ u.name = new.name /\ u.data = new.data
      BY <3>1
    <3> HIDE DEF new
    <3> QED
      BY <3>1
  <2>3. Merged(ops, u) = Append(ops, new)
    BY <1>4 DEF Merged
  <2> HIDE DEF new, u, n, origin
  <2>4. /\ Merged(ops, u) \in Seq(Edit) /\ Len(Merged(ops, u)) = n + 1
        /\ \A i \in 1 .. n + 1 : Merged(ops, u)[i] = IF i = n + 1 THEN new ELSE ops[i]
    BY <1>2, <2>1, <2>3 DEF n
  <2>5. ASSUME NEW i \in DOMAIN Merged(ops, u) PROVE origin(Merged(ops, u)[i])
    <3>1. i \in 1 .. n + 1 /\ (i # n + 1 => i \in 1 .. n)
      BY <1>2, <2>4, LenProperties
    <3> QED
      BY <1>2, <2>2, <2>4, <3>1
  <2>6. Merged(ops, u) # <<>>
    BY <1>2, <2>4, EmptySeq
  <2> QED
    BY <2>4, <2>5, <2>6 DEF Drafted, origin, u
<1> QED
  BY <1>3, <1>4
--------------------------------------------------------------------------------
(* The cache's edits *)

\* Such a recursion goes through its steps in their order.
LEMMA FoldCourse ==
    ASSUME NEW A, NEW n \in Nat, NEW first \in A, NEW step, StepsIn(A, n, step), NEW g, g[{}] = first,
           \A s \in SUBSET (1 .. n) : s # {} /\ g[s \ {Max(s)}] \in A =>
               g[s] = step[Max(s)][g[s \ {Max(s)}]]
    PROVE  Goes(A, n, first, step, [k \in 0 .. n |-> g[1 .. k]])
<1> DEFINE c == [k \in 0 .. n |-> g[1 .. k]]
           Good == {k \in Nat : k \in 0 .. n => c[k] \in A}
<1>1. c[0] = first
  <2>1. 1 .. 0 = {} /\ 0 \in 0 .. n
    OBVIOUS
  <2> QED
    BY <2>1
<1>2. ASSUME NEW k \in 1 .. n, c[k - 1] \in A PROVE c[k] = step[k][c[k - 1]] /\ c[k] \in A
  <2>1. /\ 1 .. k \in SUBSET (1 .. n) /\ (1 .. k) \ {k} = 1 .. k - 1
        /\ k \in 0 .. n /\ k - 1 \in 0 .. n /\ k \in 1 .. k
    OBVIOUS
  <2>2. Max(1 .. k) = k /\ 1 .. k # {}
    BY <2>1, MaxIs
  <2>3. c[k] = g[1 .. k] /\ c[k - 1] = g[1 .. k - 1]
    BY <2>1
  <2>4. g[1 .. k] = step[k][g[1 .. k - 1]]
    BY <1>2, <2>1, <2>2, <2>3
  <2> HIDE DEF c
  <2> QED
    BY <1>2, <2>3, <2>4 DEF StepsIn
<1>3. 0 .. n \subseteq Good
  <2>1. Good \in SUBSET Nat /\ 0 \in Good
    BY <1>1
  <2>2. ASSUME NEW k \in 1 .. n, k - 1 \in Good PROVE k \in Good
    BY <1>2, <2>2
  <2> HIDE DEF Good
  <2>3. \A k \in 1 .. n : k - 1 \in Good => k \in Good
    BY <2>2
  <2> QED
    BY <2>1, <2>3, Induct
<1>4. \A k \in 0 .. n : c[k] \in A
  BY <1>3
<1>5. c \in [0 .. n -> A]
  <2>1. c = [k \in 0 .. n |-> c[k]]
    OBVIOUS
  <2> HIDE DEF c
  <2> QED
    BY <1>4, <2>1
<1>6. \A k \in 1 .. n : c[k] = step[k][c[k - 1]]
  <2> TAKE k \in 1 .. n
  <2>1. k - 1 \in 0 .. n
    OBVIOUS
  <2> QED
    BY <1>2, <1>4, <2>1
<1> HIDE DEF c
<1>7. Goes(A, n, first, step, c)
  BY <1>1, <1>5, <1>6 DEF Goes
<1> QED
  BY <1>7 DEF c

\* What the cache holds after each of a number of edits.
Edits(c, view, edits) ==
    /\ c \in [0 .. Len(edits) -> SUBSET Records] /\ c[0] = view
    /\ \A k \in 1 .. Len(edits) : c[k] = Cached(c[k - 1], edits[k])

\* The edits of the cache have such a course, and it ends with what the cache holds.
LEMMA CachedIs ==
    ASSUME NEW view \in SUBSET Records, NEW edits \in Seq(Edit)
    PROVE  \E c : Edits(c, view, edits) /\ FoldLeft(Cached, view, edits) = c[Len(edits)]
<1> DEFINE n == Len(edits)
           A == SUBSET Records
           step == [k \in 1 .. n |-> [a \in A |-> Cached(a, edits[k])]]
<1>1. n \in Nat /\ DOMAIN edits = 1 .. n
  BY LenProperties
<1>2. StepsIn(A, n, step)
  <2>1. ASSUME NEW k \in 1 .. n, NEW a \in A PROVE Cached(a, edits[k]) \in A
    <3>1. edits[k] \in Edit
      BY ElementOfSeq
    <3> QED
      BY <3>1 DEF Cached, Edit
  <2> QED
    BY <2>1 DEF StepsIn
<1> DEFINE Def(g) == g = [s \in SUBSET (DOMAIN edits) |->
                            IF s = {} THEN view ELSE Cached(g[s \ {Max(s)}], edits[Max(s)])]
           iter == CHOOSE g : Def(g)
<1>3. FoldLeft(Cached, view, edits) = iter[DOMAIN edits]
  BY DEF FoldLeft, MapThenFoldSet
<1>4. Def(iter)
  <2>1. PICK g : Folds(A, n, view, step, g)
    <3> HIDE DEF step, n
    <3> QED
      BY <1>1, <1>2, SetFold
  <2>2. /\ g \in [SUBSET (1 .. n) -> A]
        /\ \A s \in SUBSET (1 .. n) : g[s] = IF s = {} THEN view ELSE step[Max(s)][g[s \ {Max(s)}]]
    BY <2>1 DEF Folds
  <2>3. ASSUME NEW s \in SUBSET (1 .. n), s # {}
        PROVE  step[Max(s)][g[s \ {Max(s)}]] = Cached(g[s \ {Max(s)}], edits[Max(s)])
    <3>1. Max(s) \in 1 .. n
      BY <1>1, <2>3, MaxIn
    <3>2. g[s \ {Max(s)}] \in A
      BY <2>2
    <3> QED
      BY <3>1, <3>2
  <2>4. Def(g)
    <3> HIDE DEF step
    <3> QED
      BY <1>1, <2>2, <2>3
  <2> HIDE DEF Def
  <2> QED
    BY <2>4
<1> HIDE DEF iter
<1> DEFINE c == [k \in 0 .. n |-> iter[1 .. k]]
<1>5. Goes(A, n, view, step, c)
  <2>1. iter[{}] = view
    BY <1>1, <1>4
  <2>2. ASSUME NEW s \in SUBSET (1 .. n), s # {}, iter[s \ {Max(s)}] \in A
        PROVE  iter[s] = step[Max(s)][iter[s \ {Max(s)}]]
    <3>1. Max(s) \in 1 .. n
      BY <1>1, <2>2, MaxIn
    <3>2. iter[s] = Cached(iter[s \ {Max(s)}], edits[Max(s)])
      BY <1>1, <1>4, <2>2
    <3> QED
      BY <2>2, <3>1, <3>2
  <2> HIDE DEF step, A, n
  <2> QED
    BY <1>1, <1>2, <2>1, <2>2, FoldCourse DEF A
<1>6. c[n] = FoldLeft(Cached, view, edits)
  <2>1. n \in 0 .. n
    BY <1>1
  <2> HIDE DEF n
  <2> QED
    BY <1>1, <1>3, <2>1
<1> HIDE DEF c
<1>7. c \in [0 .. n -> A] /\ c[0] = view
  BY <1>5 DEF Goes
<1>8. ASSUME NEW k \in 1 .. n PROVE c[k] = Cached(c[k - 1], edits[k])
  <2>1. c[k - 1] \in A
    BY <1>1, <1>7
  <2>2. step[k][c[k - 1]] = Cached(c[k - 1], edits[k])
    BY <2>1
  <2> HIDE DEF step
  <2> QED
    BY <1>5, <2>2 DEF Goes
<1> QED
  BY <1>6, <1>7, <1>8 DEF Edits
--------------------------------------------------------------------------------
(* Drafts *)

\* The operations of a draft, after each of the updates they are made from.
Drafts(c, ups) ==
    /\ c \in [0 .. Len(ups) -> Drafted(ups)] /\ c[0] = <<>>
    /\ \A k \in 1 .. Len(ups) : c[k] = Merged(c[k - 1], ups[k])

\* So have the operations of a draft.
LEMMA DraftedIs ==
    ASSUME NEW ups \in Seq(Update) \ {<<>>}, OneCname(ups), \A i \in DOMAIN ups : ups[i].do # "clear"
    PROVE  /\ \E c : Drafts(c, ups) /\ OpsToAtomic(ups) = c[Len(ups)]
           /\ OpsToAtomic(ups) \in Seq(Edit) \ {<<>>}
<1> DEFINE n == Len(ups)
           A == Drafted(ups)
           step == [k \in 1 .. n |-> [a \in A |-> Merged(a, ups[k])]]
<1>1. n \in Nat /\ n # 0 /\ DOMAIN ups = 1 .. n
  BY LenProperties, EmptySeq
<1>2. <<>> \in A
  <2>1. <<>> \in Seq(Edit) /\ DOMAIN <<>> = {}
    BY EmptySeq
  <2> QED
    BY <2>1 DEF Drafted
<1>3. \A k \in 1 .. n : \A a \in A : Merged(a, ups[k]) \in A \ {<<>>}
  <2> HIDE DEF n
  <2> QED
    BY <1>1, MergedIs
<1>4. StepsIn(A, n, step)
  BY <1>3 DEF StepsIn
<1> DEFINE Def(g) == g = [s \in SUBSET (DOMAIN ups) |->
                            IF s = {} THEN <<>> ELSE Merged(g[s \ {Max(s)}], ups[Max(s)])]
           iter == CHOOSE g : Def(g)
<1>5. OpsToAtomic(ups) = iter[DOMAIN ups]
  BY DEF OpsToAtomic, FoldLeft, MapThenFoldSet, Merged
<1> HIDE DEF A
<1>6. Def(iter)
  <2>1. PICK g : Folds(A, n, <<>>, step, g)
    <3> HIDE DEF step, n
    <3> QED
      BY <1>1, <1>2, <1>4, SetFold
  <2>2. /\ g \in [SUBSET (1 .. n) -> A]
        /\ \A s \in SUBSET (1 .. n) : g[s] = IF s = {} THEN <<>> ELSE step[Max(s)][g[s \ {Max(s)}]]
    BY <2>1 DEF Folds
  <2>3. ASSUME NEW s \in SUBSET (1 .. n), s # {}
        PROVE  step[Max(s)][g[s \ {Max(s)}]] = Merged(g[s \ {Max(s)}], ups[Max(s)])
    <3>1. Max(s) \in 1 .. n
      BY <1>1, <2>3, MaxIn
    <3>2. g[s \ {Max(s)}] \in A
      BY <2>2
    <3> QED
      BY <3>1, <3>2
  <2>4. Def(g)
    <3> HIDE DEF step
    <3> QED
      BY <1>1, <2>2, <2>3
  <2> HIDE DEF Def
  <2> QED
    BY <2>4
<1> HIDE DEF iter
<1> DEFINE c == [k \in 0 .. n |-> iter[1 .. k]]
<1>7. Goes(A, n, <<>>, step, c)
  <2>1. iter[{}] = <<>>
    BY <1>1, <1>6
  <2>2. ASSUME NEW s \in SUBSET (1 .. n), s # {}, iter[s \ {Max(s)}] \in A
        PROVE  iter[s] = step[Max(s)][iter[s \ {Max(s)}]]
    <3>1. Max(s) \in 1 .. n
      BY <1>1, <2>2, MaxIn
    <3>2. iter[s] = Merged(iter[s \ {Max(s)}], ups[Max(s)])
      BY <1>1, <1>6, <2>2
    <3> QED
      BY <2>2, <3>1, <3>2
  <2>3. PICK first : first = <<>>
    OBVIOUS
  <2>4. \A s \in SUBSET (1 .. n) : s # {} /\ iter[s \ {Max(s)}] \in A =>
            iter[s] = step[Max(s)][iter[s \ {Max(s)}]]
    BY <2>2
  <2> HIDE DEF step, n
  <2>5. Goes(A, n, first, step, [k \in 0 .. n |-> iter[1 .. k]])
    BY <1>1, <1>2, <1>4, <2>1, <2>3, <2>4, FoldCourse
  <2> QED
    BY <2>3, <2>5
<1>8. c[n] = OpsToAtomic(ups)
  <2>1. n \in 0 .. n
    BY <1>1
  <2> HIDE DEF n
  <2> QED
    BY <1>1, <1>5, <2>1
<1> HIDE DEF c
<1>9. c \in [0 .. n -> A] /\ c[0] = <<>>
  BY <1>7 DEF Goes
<1>10. ASSUME NEW k \in 1 .. n PROVE c[k] = Merged(c[k - 1], ups[k])
  <2>1. c[k - 1] \in A
    BY <1>1, <1>9
  <2>2. step[k][c[k - 1]] = Merged(c[k - 1], ups[k])
    BY <2>1
  <2> HIDE DEF step
  <2> QED
    BY <1>7, <2>2 DEF Goes
<1>11. c[n] \in A \ {<<>>}
  <2>1. n \in 1 .. n /\ n - 1 \in 0 .. n
    BY <1>1
  <2>2. c[n - 1] \in A
    BY <1>9, <2>1
  <2>3. c[n] = Merged(c[n - 1], ups[n])
    BY <1>10, <2>1
  <2> HIDE DEF n, step
  <2> QED
    BY <1>3, <2>1, <2>2, <2>3
<1>12. Drafts(c, ups)
  BY <1>9, <1>10 DEF Drafts, A
<1> QED
  BY <1>8, <1>11, <1>12 DEF A, Drafted

\* A draft's operations and its message; the updates are those of the operations, whichever prerequisites it has.
LEMMA DraftIs ==
    ASSUME NEW msg \in Message, OneCname(msg.ups), \A i \in DOMAIN msg.ups : msg.ups[i].do # "clear",
           NEW view
    PROVE  /\ OpsToAtomic(msg.ups) \in Seq(Edit) /\ DraftUpdate(msg, view) \in Message
           /\ DraftUpdate(msg, view).ups = BuildUpdate(OpsToAtomic(msg.ups), view).ups
<1>1. msg.ups \in Seq(Update) \ {<<>>} /\ msg.pre \in SUBSET Prerequisite
  BY DEF Message
<1> DEFINE built == BuildUpdate(OpsToAtomic(msg.ups), view)
<1>2. OpsToAtomic(msg.ups) \in Seq(Edit) \ {<<>>}
  BY <1>1, DraftedIs
<1>3. built \in Message
  BY <1>2, BuiltIs
<1> HIDE DEF built
<1>4. [built EXCEPT !.pre = msg.pre] \in Message
  BY <1>1, <1>3 DEF Message
<1>5. [built EXCEPT !.pre = msg.pre].ups = built.ups
  BY <1>3 DEF Message
<1> QED
  BY <1>2, <1>3, <1>4, <1>5 DEF DraftUpdate, built
--------------------------------------------------------------------------------
(* The updates of several operations *)

\* The updates of a number of operations.
Made(ops) == FlattenSeq([i \in DOMAIN ops |-> UpdatesOf(ops[i])])

\* One more sequence comes at the end.
LEMMA FlattenAppend ==
    ASSUME NEW U, NEW seqs \in Seq(Seq(U)), NEW last \in Seq(U)
    PROVE  FlattenSeq(Append(seqs, last)) = FlattenSeq(seqs) \o last
<1> DEFINE n == Len(seqs)
           more == Append(seqs, last)
<1>1. n \in Nat /\ more \in Seq(Seq(U)) /\ Len(more) = n + 1 /\ more[n + 1] = last
      /\ \A k \in 1 .. n : more[k] = seqs[k]
  BY LenProperties, AppendProperties
<1> HIDE DEF more, n
<1>2. PICK f \in [0 .. n -> Seq(U)] :
          /\ f[0] = <<>> /\ FlattenSeq(seqs) = f[n]
          /\ \A k \in 1 .. n : f[k] = f[k - 1] \o seqs[k]
  BY FlattenIs DEF n
<1>3. PICK g \in [0 .. n + 1 -> Seq(U)] :
          /\ g[0] = <<>> /\ FlattenSeq(more) = g[n + 1]
          /\ \A k \in 1 .. n + 1 : g[k] = g[k - 1] \o more[k]
  <2>1. \E g \in [0 .. Len(more) -> Seq(U)] :
           /\ g[0] = <<>> /\ FlattenSeq(more) = g[Len(more)]
           /\ \A k \in 1 .. Len(more) : g[k] = g[k - 1] \o more[k]
    BY <1>1, FlattenIs
  <2> QED
    BY <1>1, <2>1
<1> DEFINE Good == {k \in Nat : g[k] = f[k]}
<1>4. 0 \in Good
  BY <1>2, <1>3
<1>5. \A k \in 1 .. n : k - 1 \in Good => k \in Good
  <2> SUFFICES ASSUME NEW k \in 1 .. n, k - 1 \in Good PROVE g[k] = f[k]
    BY <1>1
  <2>1. k \in 1 .. n + 1
    BY <1>1
  <2>2. g[k] = g[k - 1] \o more[k] /\ f[k] = f[k - 1] \o seqs[k]
    BY <1>2, <1>3, <2>1
  <2> QED
    BY <1>1, <2>2
<1>6. g[n] = f[n]
  <2>1. Good \in SUBSET Nat
    OBVIOUS
  <2> HIDE DEF Good
  <2>2. 0 .. n \subseteq Good
    BY <1>1, <1>4, <1>5, <2>1, Induct
  <2>3. n \in 0 .. n
    BY <1>1
  <2> QED
    BY <2>2, <2>3 DEF Good
<1>7. n + 1 \in 1 .. n + 1 /\ (n + 1) - 1 = n
  BY <1>1
<1>8. g[n + 1] = g[n] \o last
  BY <1>1, <1>3, <1>7
<1> QED
  BY <1>2, <1>3, <1>6, <1>8 DEF more

\* The updates of one operation more.
LEMMA MadeIs ==
    ASSUME NEW ops \in Seq(Edit)
    PROVE  /\ Made(ops) \in Seq(Update) /\ Made(<<>>) = <<>>
           /\ \A o \in Edit : Made(Append(ops, o)) = Made(ops) \o UpdatesOf(o)
<1> DEFINE parts(s) == [i \in DOMAIN s |-> UpdatesOf(s[i])]
<1>1. ASSUME NEW s \in Seq(Edit)
      PROVE  /\ parts(s) \in Seq(Seq(Update)) /\ Len(parts(s)) = Len(s)
             /\ \A i \in 1 .. Len(s) : parts(s)[i] = UpdatesOf(s[i])
  <2> DEFINE n == Len(s)
  <2>1. n \in Nat /\ DOMAIN s = 1 .. n /\ \A i \in 1 .. n : s[i] \in Edit
    BY LenProperties, ElementOfSeq
  <2>2. \A i \in 1 .. n : UpdatesOf(s[i]) \in Seq(Update)
    BY <2>1, EditUpdates
  <2> HIDE DEF n
  <2>3. parts(s) \in [1 .. n -> Seq(Update)]
    BY <2>1, <2>2
  <2>4. parts(s) \in Seq(Seq(Update)) /\ Len(parts(s)) = n
    <3> HIDE DEF parts
    <3> QED
      BY <2>1, <2>3
  <2> QED
    BY <2>1, <2>4 DEF n
<1>2. Made(ops) \in Seq(Update)
  <2>1. parts(ops) \in Seq(Seq(Update))
    BY <1>1
  <2> HIDE DEF parts
  <2>2. FlattenSeq(parts(ops)) \in Seq(Update)
    BY <2>1, FlattenIn
  <2> QED
    BY <2>2 DEF Made, parts
<1>3. Made(<<>>) = <<>>
  <2>1. <<>> \in Seq(Edit) /\ Len(<<>>) = 0
    BY EmptySeq
  <2> DEFINE none == parts(<<>>)
  <2>2. none \in Seq(Seq(Update)) /\ Len(none) = 0
    BY <1>1, <2>1
  <2> HIDE DEF parts, none
  <2>3. PICK f \in [0 .. Len(none) -> Seq(Update)] : f[0] = <<>> /\ FlattenSeq(none) = f[Len(none)]
    BY <2>2, FlattenIs
  <2>4. FlattenSeq(none) = <<>>
    BY <2>2, <2>3
  <2> QED
    BY <2>4 DEF Made, parts, none
<1>4. ASSUME NEW o \in Edit PROVE Made(Append(ops, o)) = Made(ops) \o UpdatesOf(o)
  <2> DEFINE n == Len(ops)
             more == Append(ops, o)
  <2>1. /\ n \in Nat /\ more \in Seq(Edit) /\ Len(more) = n + 1 /\ more[n + 1] = o
        /\ \A k \in 1 .. n : more[k] = ops[k]
    BY LenProperties, AppendProperties
  <2>2. /\ parts(more) \in Seq(Seq(Update)) /\ Len(parts(more)) = n + 1
        /\ \A i \in 1 .. n + 1 : parts(more)[i] = UpdatesOf(more[i])
    <3> HIDE DEF more, parts
    <3> QED
      BY <1>1, <2>1
  <2>3. /\ parts(ops) \in Seq(Seq(Update)) /\ Len(parts(ops)) = n
        /\ \A i \in 1 .. n : parts(ops)[i] = UpdatesOf(ops[i])
    BY <1>1
  <2>4. UpdatesOf(o) \in Seq(Update)
    BY EditUpdates
  <2> HIDE DEF parts, more, n
  <2> DEFINE a == Append(parts(ops), UpdatesOf(o))
  <2>5. /\ a \in Seq(Seq(Update)) /\ Len(a) = n + 1 /\ a[n + 1] = UpdatesOf(o)
        /\ \A i \in 1 .. n : a[i] = parts(ops)[i]
    BY <2>3, <2>4, AppendProperties
  <2> HIDE DEF a
  <2>6. \A i \in 1 .. n + 1 : parts(more)[i] = a[i]
    <3> SUFFICES ASSUME NEW i \in 1 .. n + 1 PROVE parts(more)[i] = a[i]
      OBVIOUS
    <3>1. CASE i = n + 1
      BY <2>1, <2>2, <2>5, <3>1
    <3>2. CASE i # n + 1
      <4>1. i \in 1 .. n
        BY <2>1, <3>2
      <4>2. parts(more)[i] = UpdatesOf(ops[i]) /\ a[i] = UpdatesOf(ops[i])
        BY <2>1, <2>2, <2>3, <2>5, <4>1
      <4> QED
        BY <4>2
    <3> QED
      BY <3>1, <3>2
  <2>7. parts(more) = a
    BY <2>2, <2>5, <2>6, SeqEqual
  <2>8. FlattenSeq(a) = FlattenSeq(parts(ops)) \o UpdatesOf(o)
    BY <2>3, <2>4, FlattenAppend DEF a
  <2> QED
    BY <2>7, <2>8 DEF Made, parts, more
<1> QED
  BY <1>2, <1>3, <1>4
--------------------------------------------------------------------------------
(* Drafts *)

\* The operation an update becomes.
AsOperation(u) ==
    [action |-> IF u.do = "add" THEN "add" ELSE "delete", name |-> u.name, type |-> u.type,
     data |-> IF u.do = "drop" THEN {} ELSE u.data, listed |-> u.do # "drop"]

\* It makes the same update again.
LEMMA OperationMakes ==
    ASSUME NEW u \in Update, u.do # "clear"
    PROVE  AsOperation(u) \in Edit /\ UpdatesOf(AsOperation(u)) = <<u>>
<1> DEFINE o == AsOperation(u)
<1>1. CASE u \in [do : {"drop"}, name : Name, type : Type]
  <2>1. /\ u.do = "drop" /\ u.name \in Name /\ u.type \in Type
        /\ u = [do |-> "drop", name |-> u.name, type |-> u.type]
    BY <1>1
  <2>2. o = [action |-> "delete", name |-> u.name, type |-> u.type, data |-> {}, listed |-> FALSE]
    BY <2>1 DEF AsOperation
  <2> HIDE DEF o
  <2>3. o \in Edit /\ o.action = "delete" /\ o.data = {} /\ o.name = u.name /\ o.type = u.type
    BY <2>1, <2>2 DEF Edit
  <2>4. UpdatesOf(o) = <<u>>
    BY <2>1, <2>3 DEF UpdatesOf, Deleted, DeleteRRset
  <2> QED
    BY <2>3, <2>4 DEF o
<1>2. CASE u \notin [do : {"drop"}, name : Name, type : Type]
  <2>1. /\ u \in [do : {"add", "remove"}, name : Name, type : Type, data : SUBSET Record]
        /\ u.data # {}
        /\ u.do = "add" => /\ RRs(u.name, u.type, u.data) \subseteq Records
                           /\ u.type = CNAME => \A r, s \in u.data : r = s
    BY <1>2 DEF Update
  <2>2. CASE u.do = "add"
    <3>1. o = [action |-> "add", name |-> u.name, type |-> u.type, data |-> u.data, listed |-> TRUE]
      BY <2>2 DEF AsOperation
    <3> HIDE DEF o
    <3>2. /\ o.action = "add" /\ o.data = u.data /\ o.name = u.name /\ o.type = u.type /\ o.listed
          /\ o \in [action : {"add", "delete", "replace"}, name : Name, type : Type,
                    data : SUBSET Record, listed : BOOLEAN]
      BY <2>1, <3>1
    <3>3. o \in Edit
      BY <2>1, <2>2, <3>2 DEF Edit
    <3>4. UpdatesOf(o) = <<u>>
      <4>1. u = [do |-> "add", name |-> u.name, type |-> u.type, data |-> u.data]
        BY <2>1, <2>2
      <4> QED
        BY <3>2, <4>1 DEF UpdatesOf, AddRRs
    <3> QED
      BY <3>3, <3>4 DEF o
  <2>3. CASE u.do # "add"
    <3>0. u.do = "remove"
      BY <2>1, <2>3
    <3>1. o = [action |-> "delete", name |-> u.name, type |-> u.type, data |-> u.data, listed |-> TRUE]
      BY <3>0 DEF AsOperation
    <3> HIDE DEF o
    <3>2. /\ o.action = "delete" /\ o.data = u.data /\ o.name = u.name /\ o.type = u.type /\ o.listed
          /\ o \in [action : {"add", "delete", "replace"}, name : Name, type : Type,
                    data : SUBSET Record, listed : BOOLEAN]
      BY <2>1, <3>1
    <3>3. o \in Edit
      BY <3>2 DEF Edit
    <3>4. UpdatesOf(o) = <<u>>
      <4>1. u = [do |-> "remove", name |-> u.name, type |-> u.type, data |-> u.data]
        BY <2>1, <3>0
      <4> QED
        BY <2>1, <3>2, <4>1 DEF UpdatesOf, Deleted, DeleteRRs
    <3> QED
      BY <3>3, <3>4 DEF o
  <2> QED
    BY <2>2, <2>3
<1> QED
  BY <1>1, <1>2

\* Two adds of one RRset in succession are one of all their records.
LEMMA AddsMerge ==
    ASSUME NEW zone \in Contents, NEW n \in Name, NEW t \in Type, NEW d1, NEW d2, t = CNAME => d1 = d2
    PROVE  Carried(Carried(zone, AddRRs(n, t, d1)), AddRRs(n, t, d2)) = Carried(zone, AddRRs(n, t, d1 \cup d2))
<1> DEFINE add(d) == AddRRs(n, t, d)
<1>1. \A d : add(d).do = "add" /\ add(d).name = n /\ add(d).type = t /\ add(d).data = d
  BY DEF AddRRs
<1> DEFINE base(z) == IF t = CNAME THEN z \ RRs(n, CNAME, Record) ELSE z
<1>2. ASSUME NEW z, NEW d
      PROVE  Carried(z, add(d)) = IF Conflicting(TypesAt(z, n), t) = {} THEN base(z) \cup RRs(n, t, d) ELSE z
  BY <1>1 DEF Carried
<1> HIDE DEF add
<1>3. CASE Conflicting(TypesAt(zone, n), t) # {}
  <2>1. \A d : Carried(zone, add(d)) = zone
    BY <1>2, <1>3
  <2> QED
    BY <2>1 DEF add
<1>4. CASE Conflicting(TypesAt(zone, n), t) = {}
  <2> DEFINE first == base(zone) \cup RRs(n, t, d1)
  <2>1. Carried(zone, add(d1)) = first
    BY <1>2, <1>4
  <2>2. TypesAt(first, n) \subseteq TypesAt(zone, n) \cup {t}
    BY DEF TypesAt, RRsetOf, RRs
  <2>3. Conflicting(TypesAt(first, n), t) = {}
    BY <1>4, <2>2 DEF Conflicting
  <2>4. Carried(first, add(d2)) = base(first) \cup RRs(n, t, d2)
    BY <1>2, <2>3
  <2>5. base(first) \cup RRs(n, t, d2) = base(zone) \cup RRs(n, t, d1 \cup d2)
    <3>1. CASE t = CNAME
      <4>1. RRs(n, t, d1 \cup d2) = RRs(n, t, d2) /\ d1 = d2
        BY <3>1 DEF RRs
      <4>2. zone \subseteq Records /\ \A x \in Records : x[3] \in Record
        BY RecordIs DEF Contents
      <4> QED
        BY <3>1, <4>1 DEF RRs
    <3>2. CASE t # CNAME
      BY <3>2 DEF RRs
    <3> QED
      BY <3>1, <3>2
  <2>6. Carried(zone, add(d1 \cup d2)) = base(zone) \cup RRs(n, t, d1 \cup d2)
    BY <1>2, <1>4
  <2> HIDE DEF first, base
  <2> QED
    BY <2>1, <2>4, <2>5, <2>6 DEF add
<1> QED
  BY <1>3, <1>4 DEF add

\* A draft's operations do what the transaction it was made from would do.
LEMMA DraftMeans ==
    ASSUME NEW ups \in Seq(Update) \ {<<>>}, OneCname(ups), \A i \in DOMAIN ups : ups[i].do # "clear",
           NEW zone \in Contents
    PROVE  Run(zone, Made(OpsToAtomic(ups))) = Run(zone, ups)
<1> DEFINE n == Len(ups)
<1>1. n \in Nat /\ DOMAIN ups = 1 .. n /\ \A k \in 1 .. n : ups[k] \in Update /\ ups[k].do # "clear"
  BY LenProperties, ElementOfSeq
<1>2. PICK c : Drafts(c, ups) /\ OpsToAtomic(ups) = c[n]
  BY DraftedIs
<1>3. PICK d \in [0 .. n -> Contents] : Chain(d, zone, ups) /\ Run(zone, ups) = d[n]
  BY RunIs
<1> HIDE DEF n
<1> DEFINE Good == {k \in Nat : k \in 0 .. n => Run(zone, Made(c[k])) = d[k]}
<1>4. 0 \in Good
  <2>1. c[0] = <<>> /\ d[0] = zone /\ <<>> \in Seq(Edit)
    BY <1>2, <1>3, EmptySeq DEF Drafts, Chain
  <2> QED
    BY <2>1, MadeIs, RunFew
<1>5. ASSUME NEW k \in 1 .. n, k - 1 \in Good PROVE k \in Good
  <2> DEFINE u == ups[k]
             ops == c[k - 1]
             m == Len(ops)
  <2>1. k - 1 \in 0 .. n /\ k \in 0 .. n /\ u \in Update /\ u.do # "clear"
    BY <1>1
  <2>2. ops \in Drafted(ups) /\ c[k] = Merged(ops, u) /\ d[k] = Carried(d[k - 1], u)
        /\ d[k - 1] \in Contents /\ Run(zone, Made(ops)) = d[k - 1]
    BY <1>2, <1>3, <1>5, <2>1 DEF Drafts, Chain, n
  <2>3. ops \in Seq(Edit) /\ m \in Nat /\ DOMAIN ops = 1 .. m
    BY <2>2, LenProperties DEF Drafted
  <2>4. CASE u.do = "add" /\ ops # <<>> /\ Last(ops).action = "add"
             /\ Last(ops).name = u.name /\ Last(ops).type = u.type
    <3>1. PICK front \in Seq(Edit), last \in Edit : ops = Append(front, last)
      <4>1. ops \in Seq(Edit) /\ ops # <<>>
        BY <2>3, <2>4
      <4> HIDE DEF ops
      <4> QED
        BY <4>1, SequenceEmptyOrAppend
    <3>2. m = Len(front) + 1 /\ Len(front) \in Nat /\ ops[m] = last
          /\ \A i \in 1 .. Len(front) : ops[i] = front[i]
      BY <3>1, AppendProperties, LenProperties
    <3>3. last.action = "add" /\ last.name = u.name /\ last.type = u.type
      BY <2>4, <3>2 DEF Last
    <3> DEFINE new == [last EXCEPT !.data = @ \cup u.data]
    <3>4. /\ new.action = "add" /\ new.name = u.name /\ new.type = u.type
          /\ new.data = last.data \cup u.data
      BY <3>3 DEF Edit
    <3>5. c[k] = Append(front, new) /\ new \in Edit
      <4>1. Merged(ops, u) = [ops EXCEPT ![m] = new]
        BY <2>2, <2>3, <2>4, <3>2 DEF Merged
      <4>2. Merged(ops, u) \in Drafted(ups)
        BY <1>1, <2>1, <2>2, MergedIs
      <4>3. m \in 1 .. m /\ Merged(ops, u) \in Seq(Edit)
        BY <3>2, <4>2 DEF Drafted
      <4>4. /\ Len(Merged(ops, u)) = m /\ Merged(ops, u)[m] = new
            /\ \A i \in 1 .. Len(front) : Merged(ops, u)[i] = front[i]
        <5> HIDE DEF ops, u, m, new
        <5>1. DOMAIN ops = 1 .. m /\ DOMAIN Merged(ops, u) = 1 .. m /\ Merged(ops, u)[m] = new
          BY <2>3, <4>1, <4>3
        <5>2. Len(Merged(ops, u)) = m
          BY <2>3, <4>3, <5>1, LenProperties
        <5>3. ASSUME NEW i \in 1 .. Len(front) PROVE Merged(ops, u)[i] = front[i]
          <6>1. i \in 1 .. m /\ i # m
            BY <3>2
          <6> QED
            BY <2>3, <3>2, <4>1, <6>1
        <5> QED
          BY <5>1, <5>2, <5>3
      <4>5. new \in Edit
        BY <4>3, <4>4, ElementOfSeq
      <4> HIDE DEF new, ops, u, m
      <4> DEFINE a == Append(front, new)
      <4>6. /\ a \in Seq(Edit) /\ Len(a) = m /\ a[m] = new
            /\ \A i \in 1 .. Len(front) : a[i] = front[i]
        BY <3>2, <4>5, AppendProperties
      <4> HIDE DEF a
      <4>7. \A i \in 1 .. m : Merged(ops, u)[i] = a[i]
        BY <3>2, <4>4, <4>6
      <4>8. Merged(ops, u) = a
        BY <4>3, <4>4, <4>6, <4>7, SeqEqual
      <4> QED
        BY <2>2, <4>5, <4>8 DEF a
    <3>6. u.type = CNAME => last.data = u.data
      <4>1. PICK i \in DOMAIN ups : u.type = CNAME =>
               /\ ups[i].do = "add" /\ ups[i].type = CNAME
               /\ ups[i].name = last.name /\ ups[i].data = last.data
        <5>1. m \in DOMAIN ops
          BY <2>3, <3>2
        <5> QED
          BY <1>1, <2>2, <3>2, <3>3, <5>1 DEF Drafted
      <4> QED
        BY <1>1, <2>4, <3>3, <4>1 DEF OneCname
    <3> DEFINE y == Run(zone, Made(front))
    <3>7. y \in Contents /\ Made(front) \in Seq(Update)
      BY MadeIs, RunConcat
    <3>8. ASSUME NEW o \in Edit, o.action = "add", o.name = u.name, o.type = u.type
          PROVE  Run(zone, Made(Append(front, o))) = Carried(y, AddRRs(u.name, u.type, o.data))
      <4>1. UpdatesOf(o) = <<AddRRs(u.name, u.type, o.data)>> /\ AddRRs(u.name, u.type, o.data) \in Update
        BY <3>8, EditUpdates DEF UpdatesOf
      <4>2. Made(Append(front, o)) = Made(front) \o <<AddRRs(u.name, u.type, o.data)>>
        BY <4>1, MadeIs
      <4>3. PICK one : one = <<AddRRs(u.name, u.type, o.data)>>
        OBVIOUS
      <4>4. one \in Seq(Update)
        BY <4>1, <4>3
      <4>5. Run(zone, Made(front) \o one) = Run(y, one)
        BY <3>7, <4>4, RunConcat
      <4>6. Run(zone, Made(Append(front, o))) = Run(y, <<AddRRs(u.name, u.type, o.data)>>)
        BY <4>2, <4>3, <4>5
      <4> QED
        BY <3>7, <4>1, <4>6, RunFew
    <3>9. u = AddRRs(u.name, u.type, u.data) /\ u.name \in Name /\ u.type \in Type
      BY <2>1, <2>4 DEF Update, AddRRs
    <3> HIDE DEF y, u, new, ops
    <3>10. d[k - 1] = Carried(y, AddRRs(u.name, u.type, last.data))
      BY <2>2, <3>1, <3>3, <3>8
    <3>11. Run(zone, Made(c[k])) = Carried(y, AddRRs(u.name, u.type, last.data \cup u.data))
      BY <3>4, <3>5, <3>8
    <3>12. Carried(Carried(y, AddRRs(u.name, u.type, last.data)), AddRRs(u.name, u.type, u.data))
             = Carried(y, AddRRs(u.name, u.type, last.data \cup u.data))
      <4>1. PICK name, type, data : name = u.name /\ type = u.type /\ data = u.data
        OBVIOUS
      <4>2. name \in Name /\ type \in Type /\ (type = CNAME => last.data = data)
        BY <3>6, <3>9, <4>1 DEF u
      <4>3. Carried(Carried(y, AddRRs(name, type, last.data)), AddRRs(name, type, data))
              = Carried(y, AddRRs(name, type, last.data \cup data))
        BY <3>7, <4>2, AddsMerge
      <4> QED
        BY <4>1, <4>3
    <3> QED
      BY <2>2, <3>9, <3>10, <3>11, <3>12
  <2>5. CASE ~ (u.do = "add" /\ ops # <<>> /\ Last(ops).action = "add"
                /\ Last(ops).name = u.name /\ Last(ops).type = u.type)
    <3>1. c[k] = Append(ops, AsOperation(u))
      BY <2>2, <2>5 DEF Merged, AsOperation
    <3>2. AsOperation(u) \in Edit /\ UpdatesOf(AsOperation(u)) = <<u>>
      BY <2>1, OperationMakes
    <3> HIDE DEF u, ops
    <3>3. PICK one : one = <<u>>
      OBVIOUS
    <3>4. one \in Seq(Update)
      BY <2>1, <3>3
    <3>5. Made(ops) \in Seq(Update) /\ Made(Append(ops, AsOperation(u))) = Made(ops) \o one
      BY <2>3, <3>2, <3>3, MadeIs
    <3>6. Run(zone, Made(ops) \o one) = Run(Run(zone, Made(ops)), one)
      BY <3>4, <3>5, RunConcat
    <3>7. Run(zone, Made(c[k])) = Run(d[k - 1], <<u>>)
      BY <2>2, <3>1, <3>3, <3>5, <3>6
    <3> QED
      BY <2>1, <2>2, <3>7, RunFew
  <2> QED
    BY <2>4, <2>5
<1>6. Good \in SUBSET Nat
  OBVIOUS
<1> HIDE DEF Good
<1>7. 0 .. n \subseteq Good
  BY <1>1, <1>4, <1>5, <1>6, Induct
<1>8. n \in 0 .. n
  BY <1>1
<1> QED
  BY <1>2, <1>3, <1>7, <1>8 DEF Good
--------------------------------------------------------------------------------
(* What operations do *)

\* An update touches only the RRset it names.
LEMMA Elsewhere ==
    ASSUME NEW zone, NEW u \in Update, u.do # "clear", NEW n, NEW t, <<n, t>> # <<u.name, u.type>>
    PROVE  RRsetOf(Carried(zone, u), n, t) = RRsetOf(zone, n, t)
<1>1. \A s, data, r : <<n, t, r>> \notin RRs(u.name, u.type, data)
  BY DEF RRs
<1>2. u.do \in {"add", "remove", "drop"}
  BY DEF Update
<1>3. CASE u.do = "add"
  BY <1>1, <1>3 DEF Carried, RRsetOf
<1>4. CASE u.do = "remove"
  BY <1>1, <1>4 DEF Carried, RRsetOf
<1>5. CASE u.do = "drop"
  BY <1>1, <1>5 DEF Carried, RRsetOf
<1> QED
  BY <1>2, <1>3, <1>4, <1>5

\* One operation, carried out.
LEMMA RunUpdates ==
    ASSUME NEW zone \in Contents, NEW o \in Edit
    PROVE  /\ o.action = "add" => Run(zone, UpdatesOf(o)) = Carried(zone, AddRRs(o.name, o.type, o.data))
           /\ o.action = "delete" => Run(zone, UpdatesOf(o)) = Carried(zone, Deleted(o))
           /\ o.action = "replace" =>
                 Run(zone, UpdatesOf(o)) =
                     Carried(Carried(zone, DeleteRRset(o.name, o.type)), AddRRs(o.name, o.type, o.data))
<1> DEFINE add == AddRRs(o.name, o.type, o.data)
           drop == DeleteRRset(o.name, o.type)
<1>1. /\ o.action # "delete" => add \in Update
      /\ drop \in Update /\ Deleted(o) \in Update
  BY EditUpdates
<1> HIDE DEF add, drop
<1>2. CASE o.action = "add"
  <2>1. UpdatesOf(o) = <<add>>
    BY <1>2 DEF UpdatesOf, add
  <2> QED
    BY <1>1, <1>2, <2>1, RunFew DEF add
<1>3. CASE o.action = "delete"
  <2>1. UpdatesOf(o) = <<Deleted(o)>>
    BY <1>3 DEF UpdatesOf
  <2> QED
    BY <1>1, <1>3, <2>1, RunFew
<1>4. CASE o.action = "replace"
  <2>1. UpdatesOf(o) = <<drop, add>>
    BY <1>4 DEF UpdatesOf, add, drop
  <2>2. PICK s, t : s = <<drop>> /\ t = <<add>>
    OBVIOUS
  <2>3. s \in Seq(Update) /\ t \in Seq(Update) /\ UpdatesOf(o) = s \o t
    BY <1>1, <1>4, <2>1, <2>2
  <2>4. Run(zone, UpdatesOf(o)) = Run(Run(zone, s), t) /\ Run(zone, s) \in Contents
    BY <2>3, RunConcat
  <2>5. Run(zone, s) = Carried(zone, drop)
    BY <1>1, <2>2, RunFew
  <2>6. Run(Run(zone, s), t) = Carried(Run(zone, s), add)
    BY <1>1, <1>4, <2>2, <2>4, RunFew
  <2> QED
    BY <1>4, <2>4, <2>5, <2>6 DEF add, drop
<1> QED
  BY <1>2, <1>3, <1>4 DEF Edit

\* It touches only its RRset, on the server and in the cache.
LEMMA OneElsewhere ==
    ASSUME NEW zone \in Contents, NEW o \in Edit, NEW n, NEW t, <<n, t>> # <<o.name, o.type>>
    PROVE  /\ RRsetOf(Run(zone, UpdatesOf(o)), n, t) = RRsetOf(zone, n, t)
           /\ \A view : RRsetOf(Cached(view, o), n, t) = RRsetOf(view, n, t)
<1> DEFINE add == AddRRs(o.name, o.type, o.data)
           drop == DeleteRRset(o.name, o.type)
<1>1. /\ o.action # "delete" => add \in Update
      /\ drop \in Update /\ Deleted(o) \in Update
  BY EditUpdates
<1>2. /\ add.do = "add" /\ add.name = o.name /\ add.type = o.type
      /\ drop.do = "drop" /\ drop.name = o.name /\ drop.type = o.type
      /\ Deleted(o).do \in {"remove", "drop"} /\ Deleted(o).name = o.name /\ Deleted(o).type = o.type
  BY DEF AddRRs, DeleteRRset, Deleted, DeleteRRs
<1> HIDE DEF add, drop
<1>3. o.action \in {"add", "delete", "replace"}
  BY DEF Edit
<1>4. RRsetOf(Run(zone, UpdatesOf(o)), n, t) = RRsetOf(zone, n, t)
  <2>1. CASE o.action = "add"
    <3>1. Run(zone, UpdatesOf(o)) = Carried(zone, add)
      BY <2>1, RunUpdates DEF add
    <3>2. add \in Update
      BY <1>1, <2>1
    <3> QED
      BY <1>2, <3>1, <3>2, Elsewhere
  <2>2. CASE o.action = "delete"
    <3>1. Run(zone, UpdatesOf(o)) = Carried(zone, Deleted(o))
      BY <2>2, RunUpdates
    <3> QED
      BY <1>1, <1>2, <3>1, Elsewhere
  <2>3. CASE o.action = "replace"
    <3>1. Run(zone, UpdatesOf(o)) = Carried(Carried(zone, drop), add)
      BY <2>3, RunUpdates DEF add, drop
    <3>2. add \in Update
      BY <1>1, <2>3
    <3>3. RRsetOf(Carried(Carried(zone, drop), add), n, t) = RRsetOf(Carried(zone, drop), n, t)
      BY <1>2, <3>2, Elsewhere
    <3>4. RRsetOf(Carried(zone, drop), n, t) = RRsetOf(zone, n, t)
      BY <1>1, <1>2, Elsewhere
    <3> QED
      BY <3>1, <3>3, <3>4
  <2> QED
    BY <1>3, <2>1, <2>2, <2>3
<1>5. ASSUME NEW view PROVE RRsetOf(Cached(view, o), n, t) = RRsetOf(view, n, t)
  <2>1. \A data, r : <<n, t, r>> \notin RRs(o.name, o.type, data)
    BY DEF RRs
  <2>2. o.listed \in BOOLEAN
    BY DEF Edit
  <2>3. CASE o.action # "delete"
    BY <2>1, <2>3 DEF Cached, RRsetOf
  <2>4. CASE o.action = "delete" /\ o.listed
    BY <2>1, <2>4 DEF Cached, RRsetOf
  <2>5. CASE o.action = "delete" /\ ~o.listed
    BY <2>1, <2>5 DEF Cached, RRsetOf
  <2> QED
    BY <2>3, <2>4, <2>5
<1> QED
  BY <1>4, <1>5

\* No type at the operation's name keeps the server from adding.
Addable(zone, o) ==
    o.action # "delete" => \A x \in zone : x[1] = o.name => (x[2] = CNAME <=> o.type = CNAME)

\* Then an add adds.
LEMMA AddedFree ==
    ASSUME NEW zone \in Contents, NEW o \in Edit, Addable(zone, o), o.action # "delete"
    PROVE  RRsetOf(Carried(zone, AddRRs(o.name, o.type, o.data)), o.name, o.type)
             = IF o.type = CNAME THEN o.data ELSE RRsetOf(zone, o.name, o.type) \cup o.data
<1> DEFINE add == AddRRs(o.name, o.type, o.data)
           n == o.name
           t == o.type
<1>1. add.do = "add" /\ add.name = n /\ add.type = t /\ add.data = o.data
  BY DEF AddRRs
<1>2. Conflicting(TypesAt(zone, n), t) = {}
  <2>1. \A s \in TypesAt(zone, n) : s = CNAME <=> t = CNAME
    <3> SUFFICES ASSUME NEW s \in TypesAt(zone, n) PROVE s = CNAME <=> t = CNAME
      OBVIOUS
    <3>1. PICK r \in Record : <<n, s, r>> \in zone
      BY DEF TypesAt, RRsetOf
    <3> QED
      BY <3>1 DEF Addable
  <2> QED
    BY <2>1 DEF Conflicting
<1> HIDE DEF add
<1>3. Carried(zone, add) = (IF t = CNAME THEN zone \ RRs(n, CNAME, Record) ELSE zone) \cup RRs(n, t, o.data)
  BY <1>1, <1>2 DEF Carried
<1>4. o.data \in SUBSET Record
  BY DEF Edit
<1>5. \A r : <<n, t, r>> \in RRs(n, t, o.data) <=> r \in o.data
  BY DEF RRs
<1>6. \A r \in Record : <<n, CNAME, r>> \in RRs(n, CNAME, Record)
  BY DEF RRs
<1>7. CASE t = CNAME
  BY <1>3, <1>4, <1>5, <1>6, <1>7 DEF RRsetOf, add
<1>8. CASE t # CNAME
  BY <1>3, <1>4, <1>5, <1>8 DEF RRsetOf, add
<1> QED
  BY <1>7, <1>8

\* The operation does not ask the server for all of a protected RRset.
Lawful(view, o) ==
    <<o.name, o.type>> \in Protected =>
        /\ o.action # "replace"
        /\ o.action = "delete" => RRsetOf(Cached(view, o), o.name, o.type) # {}

\* The RRset of an operation becomes on the server what the cache makes of it.
LEMMA OneEffect ==
    ASSUME NEW zone \in Contents, NEW view, NEW o \in Edit, Addable(zone, o), ~(o.listed /\ o.data = {}),
           Lawful(view, o), RRsetOf(view, o.name, o.type) = RRsetOf(zone, o.name, o.type),
           o.action = "add" => RRsetOf(zone, o.name, o.type) = {}
    PROVE  RRsetOf(Run(zone, UpdatesOf(o)), o.name, o.type) = RRsetOf(Cached(view, o), o.name, o.type)
<1> DEFINE n == o.name
           t == o.type
<1>1. /\ o.action \in {"add", "delete", "replace"} /\ o.data \in SUBSET Record /\ o.listed \in BOOLEAN
      /\ o.data # {} <=> o.listed
  BY DEF Edit
<1>2. /\ \A data, r : <<n, t, r>> \in RRs(n, t, data) <=> r \in data
  BY DEF RRs
<1>3. CASE o.action # "delete"
  <2>1. RRsetOf(Cached(view, o), n, t) = o.data
    BY <1>1, <1>2, <1>3 DEF Cached, RRsetOf
  <2>2. CASE o.action = "add"
    <3>1. RRsetOf(Run(zone, UpdatesOf(o)), n, t) = o.data
      BY <2>2, RunUpdates, AddedFree
    <3> QED
      BY <2>1, <3>1
  <2>3. CASE o.action = "replace"
    <3> DEFINE rest == Carried(zone, DeleteRRset(n, t))
    <3>1. rest = zone \ RRs(n, t, Record)
      <4>1. <<n, t>> \notin Protected
        BY <2>3 DEF Lawful
      <4> QED
        BY <4>1 DEF Carried, DeleteRRset
    <3>2. rest \in Contents /\ Addable(rest, o)
      <4>1. DeleteRRset(n, t) \in Update
        BY EditUpdates
      <4>2. rest \in Contents
        BY <4>1, CarriedKeeps
      <4>3. Addable(rest, o)
        BY <3>1 DEF Addable
      <4> QED
        BY <4>2, <4>3
    <3>3. RRsetOf(rest, n, t) = {}
      BY <1>2, <3>1 DEF RRsetOf
    <3>4. RRsetOf(Run(zone, UpdatesOf(o)), n, t) = RRsetOf(Carried(rest, AddRRs(n, t, o.data)), n, t)
      BY <2>3, RunUpdates
    <3> HIDE DEF rest
    <3>5. RRsetOf(Carried(rest, AddRRs(n, t, o.data)), n, t) = o.data
      BY <1>3, <3>2, <3>3, AddedFree
    <3> QED
      BY <2>1, <3>4, <3>5
  <2> QED
    BY <1>1, <1>3, <2>2, <2>3
<1>4. CASE o.action = "delete"
  <2>1. Run(zone, UpdatesOf(o)) = Carried(zone, Deleted(o))
    BY <1>4, RunUpdates
  <2>2. CASE o.listed
    <3>1. Deleted(o) = DeleteRRs(n, t, o.data)
      BY <1>1, <2>2 DEF Deleted
    <3>3. Cached(view, o) = view \ RRs(n, t, o.data)
      BY <1>4, <2>2 DEF Cached
    <3>4. LastOf(zone, DeleteRRs(n, t, o.data)) = {}
      <4>1. RRsetOf(Cached(view, o), n, t) = RRsetOf(zone, n, t) \ o.data
        BY <1>2, <3>3 DEF RRsetOf
      <4>2. <<n, t>> \in Protected => ~(RRsetOf(zone, n, t) \subseteq o.data)
        BY <1>4, <4>1 DEF Lawful
      <4> QED
        BY <4>2 DEF LastOf, DeleteRRs
    <3>2. Carried(zone, Deleted(o)) = zone \ RRs(n, t, o.data)
      BY <3>1, <3>4 DEF Carried, DeleteRRs
    <3> QED
      BY <1>2, <2>1, <3>2, <3>3 DEF RRsetOf
  <2>3. CASE ~o.listed
    <3>1. Deleted(o) = DeleteRRset(n, t)
      BY <1>1, <2>3 DEF Deleted
    <3>2. Cached(view, o) = view \ RRs(n, t, Record)
      BY <1>4, <2>3 DEF Cached
    <3>3. Carried(zone, Deleted(o)) = zone \ RRs(n, t, Record)
      <4>1. RRsetOf(Cached(view, o), n, t) = {}
        BY <1>2, <3>2 DEF RRsetOf
      <4>2. <<n, t>> \notin Protected
        BY <1>4, <4>1 DEF Lawful
      <4> QED
        BY <3>1, <4>2 DEF Carried, DeleteRRset
    <3> QED
      BY <1>2, <2>1, <3>2, <3>3 DEF RRsetOf
  <2> QED
    BY <2>2, <2>3
<1> QED
  BY <1>3, <1>4

\* Operations that each name an RRset as it is, add only where there is none, add no
\* RRset twice, and leave something of every protected one.
Fitting(ops, zone, view) ==
    /\ \A i \in DOMAIN ops :
          /\ RRsetOf(view, ops[i].name, ops[i].type) = RRsetOf(zone, ops[i].name, ops[i].type)
          /\ ops[i].action = "add" <=> RRsetOf(zone, ops[i].name, ops[i].type) = {}
          /\ ops[i].type # CNAME /\ RRsetOf(zone, ops[i].name, CNAME) = {}
          /\ ~(ops[i].listed /\ ops[i].data = {})
          /\ <<ops[i].name, ops[i].type>> \in Protected =>
                /\ ops[i].action # "replace"
                /\ RRsetOf(FoldLeft(Cached, view, ops), ops[i].name, ops[i].type) # {}
    /\ \A i, k \in DOMAIN ops :
          /\ i # k /\ ops[i].action = "add"
          /\ ops[i].name = ops[k].name /\ ops[i].type = ops[k].type
          => ops[k].action # "add"

\* Operations on the cache that only delete from an RRset.
Deleting(c, ops, m, n, t) ==
    \A j \in 1 .. m :
        /\ ops[j] \in Edit /\ c[j] = Cached(c[j - 1], ops[j])
        /\ ops[j].name = n /\ ops[j].type = t => ops[j].action = "delete"

\* It shrinks from one to the next.
LEMMA OnlyShrinks ==
    ASSUME NEW c, NEW ops, NEW m \in Nat, NEW n, NEW t, Deleting(c, ops, m, n, t), NEW k \in 1 .. m
    PROVE  RRsetOf(c[m], n, t) \subseteq RRsetOf(c[k], n, t)
<1> DEFINE Good == {j \in Nat : k <= j => RRsetOf(c[j], n, t) \subseteq RRsetOf(c[k], n, t)}
<1>1. Good \in SUBSET Nat /\ 0 \in Good
  OBVIOUS
<1>2. ASSUME NEW j \in 1 .. m, j - 1 \in Good PROVE j \in Good
  <2>1. CASE j <= k
    <3>1. j \in Nat /\ (k <= j => j = k)
      BY <2>1
    <3> QED
      BY <3>1
  <2>2. CASE ~(j <= k)
    <3>1. j \in Nat /\ RRsetOf(c[j - 1], n, t) \subseteq RRsetOf(c[k], n, t)
      BY <1>2, <2>2
    <3>2. RRsetOf(c[j], n, t) \subseteq RRsetOf(c[j - 1], n, t)
      <4>1. /\ c[j] = Cached(c[j - 1], ops[j]) /\ ops[j] \in Edit
            /\ ops[j].name = n /\ ops[j].type = t => ops[j].action = "delete"
        BY DEF Deleting
      <4>2. CASE ops[j].action = "delete"
        <5>1. Cached(c[j - 1], ops[j]) \subseteq c[j - 1]
          BY <4>1, <4>2 DEF Cached, Edit
        <5> QED
          BY <4>1, <5>1 DEF RRsetOf
      <4>3. CASE ops[j].action # "delete"
        <5>1. <<n, t>> # <<ops[j].name, ops[j].type>>
          BY <4>1, <4>3
        <5>2. \A data, r : <<n, t, r>> \notin RRs(ops[j].name, ops[j].type, data)
          BY <5>1 DEF RRs
        <5> QED
          BY <4>1, <4>3, <5>2 DEF Cached, RRsetOf
      <4> QED
        BY <4>2, <4>3
    <3> HIDE DEF Good
    <3> QED
      BY <3>1, <3>2 DEF Good
  <2> QED
    BY <2>1, <2>2
<1> HIDE DEF Good
<1>3. 0 .. m \subseteq Good /\ m \in 0 .. m /\ k <= m
  <2>1. 0 .. m \subseteq Good
    BY <1>1, <1>2, Induct
  <2> QED
    BY <2>1
<1> QED
  BY <1>3 DEF Good

\* Their RRsets become on the server what the cache makes of them: by induction, RRset by
\* RRset, with the RRsets that no operation named so far as they were.
LEMMA EffectIs ==
    ASSUME NEW zone \in Contents, NEW view \in SUBSET Records, NEW ops \in Seq(Edit), Fitting(ops, zone, view),
           NEW i \in DOMAIN ops
    PROVE  RRsetOf(FoldLeft(Cached, view, ops), ops[i].name, ops[i].type)
             = RRsetOf(Run(zone, Made(ops)), ops[i].name, ops[i].type)
<1> DEFINE m == Len(ops)
           parts == [k \in DOMAIN ops |-> UpdatesOf(ops[k])]
<1>1. m \in Nat /\ DOMAIN ops = 1 .. m /\ \A k \in 1 .. m : ops[k] \in Edit
  BY LenProperties, ElementOfSeq
<1>2. \A k \in 1 .. m : UpdatesOf(ops[k]) \in Seq(Update)
  BY <1>1, EditUpdates
<1> HIDE DEF m
<1>3. parts \in [1 .. m -> Seq(Update)] /\ \A k \in 1 .. m : parts[k] = UpdatesOf(ops[k])
  BY <1>1, <1>2
<1>4. Made(ops) = FlattenSeq(parts)
  BY DEF Made
<1> HIDE DEF parts
<1>5. parts \in Seq(Seq(Update)) /\ Len(parts) = m
  BY <1>1, <1>3
<1>6. PICK f \in [0 .. m -> Seq(Update)] :
          /\ f[0] = <<>> /\ Made(ops) = f[m] /\ \A k \in 1 .. m : f[k] = f[k - 1] \o UpdatesOf(ops[k])
  <2>1. PICK f \in [0 .. Len(parts) -> Seq(Update)] :
           /\ f[0] = <<>> /\ FlattenSeq(parts) = f[Len(parts)]
           /\ \A k \in 1 .. Len(parts) : f[k] = f[k - 1] \o parts[k]
    BY <1>5, FlattenIs
  <2>2. f \in [0 .. m -> Seq(Update)] /\ Made(ops) = f[m] /\ \A k \in 1 .. m : f[k] = f[k - 1] \o UpdatesOf(ops[k])
    BY <1>3, <1>4, <1>5, <2>1
  <2> QED
    BY <2>1, <2>2
<1>7. PICK c : Edits(c, view, ops) /\ FoldLeft(Cached, view, ops) = c[m]
  BY CachedIs DEF m
<1>8. c[0] = view /\ \A k \in 1 .. m : c[k] = Cached(c[k - 1], ops[k])
  BY <1>7 DEF Edits, m
<1> DEFINE z(k) == Run(zone, f[k])
           Is(k, n, t) == \E j \in 1 .. k : ops[j].name = n /\ ops[j].type = t
           Mentioned(n, t) == \E j \in 1 .. m : ops[j].name = n /\ ops[j].type = t
           Same(k) == \A n, t : Mentioned(n, t) => RRsetOf(z(k), n, t) = RRsetOf(c[k], n, t)
           Untouched(k) == \A n, t : ~Is(k, n, t) => RRsetOf(z(k), n, t) = RRsetOf(zone, n, t)
           Good == {k \in Nat : k \in 0 .. m => Same(k) /\ Untouched(k)}
<1>9. 0 \in Good
  <2>1. z(0) = zone
    BY <1>6, RunFew
  <2>2. ASSUME NEW n, NEW t, Mentioned(n, t) PROVE RRsetOf(zone, n, t) = RRsetOf(view, n, t)
    BY <1>1, <2>2 DEF Fitting
  <2> HIDE DEF z, Mentioned
  <2> QED
    BY <1>8, <2>1, <2>2
<1>10. ASSUME NEW k \in 1 .. m, k - 1 \in Good PROVE k \in Good
  <2> DEFINE o == ops[k]
             y == z(k - 1)
             v == c[k - 1]
  <2>1. k - 1 \in 0 .. m /\ k \in 0 .. m /\ k \in Nat /\ k - 1 \in Nat /\ o \in Edit /\ k \in DOMAIN ops
    BY <1>1
  <2>2. Same(k - 1) /\ Untouched(k - 1)
    <3> HIDE DEF Same, Untouched
    <3> QED
      BY <1>10, <2>1
  <2>3. y \in Contents /\ z(k) = Run(y, UpdatesOf(o))
    <3>1. f[k - 1] \in Seq(Update) /\ f[k] = f[k - 1] \o UpdatesOf(o) /\ UpdatesOf(o) \in Seq(Update)
      BY <1>2, <1>6, <2>1
    <3> HIDE DEF o
    <3> QED
      BY <3>1, RunConcat
  <2>4. c[k] = Cached(v, o)
    BY <1>8
  <2>5. /\ RRsetOf(view, o.name, o.type) = RRsetOf(zone, o.name, o.type)
        /\ o.action = "add" <=> RRsetOf(zone, o.name, o.type) = {}
        /\ o.type # CNAME /\ RRsetOf(zone, o.name, CNAME) = {}
        /\ ~(o.listed /\ o.data = {})
    BY <2>1 DEF Fitting
  <2>14. Lawful(v, o)
    <3> SUFFICES ASSUME <<o.name, o.type>> \in Protected
                 PROVE  /\ o.action # "replace"
                        /\ o.action = "delete" => RRsetOf(c[k], o.name, o.type) # {}
      BY <2>4 DEF Lawful
    <3>1. o.action # "replace" /\ RRsetOf(c[m], o.name, o.type) # {}
      BY <1>7, <2>1 DEF Fitting, m
    <3>2. ASSUME o.action = "delete" PROVE RRsetOf(c[m], o.name, o.type) \subseteq RRsetOf(c[k], o.name, o.type)
      <4>1. \A j \in 1 .. m : ops[j].name = o.name /\ ops[j].type = o.type => ops[j].action = "delete"
        <5> SUFFICES ASSUME NEW j \in 1 .. m, ops[j].name = o.name, ops[j].type = o.type
                     PROVE  ops[j].action = "delete"
          OBVIOUS
        <5>1. j \in DOMAIN ops /\ ops[j] \in Edit
          BY <1>1
        <5>2. RRsetOf(zone, o.name, o.type) # {}
          BY <2>5, <3>2
        <5>3. ops[j].action # "add" /\ ops[j].action # "replace"
          BY <5>1, <5>2 DEF Fitting
        <5> QED
          BY <5>1, <5>3 DEF Edit
      <4> DEFINE n == o.name
                 t == o.type
      <4>2. \A j \in 1 .. m : ops[j].name = n /\ ops[j].type = t => ops[j].action = "delete"
        BY <4>1
      <4>3. k \in 1 .. m
        OBVIOUS
      <4> HIDE DEF n, t
      <4>4. RRsetOf(c[m], n, t) \subseteq RRsetOf(c[k], n, t)
        <5>1. Deleting(c, ops, m, n, t)
          BY <1>1, <1>8, <4>2 DEF Deleting
        <5> QED
          BY <1>1, <4>3, <5>1, OnlyShrinks
      <4> QED
        BY <4>4 DEF n, t
    <3> QED
      BY <3>1, <3>2
  <2>6. RRsetOf(y, o.name, CNAME) = {}
    <3>1. ~Is(k - 1, o.name, CNAME)
      <4>1. \A j \in 1 .. k - 1 : j \in DOMAIN ops
        BY <1>1, <2>1
      <4>2. \A j \in DOMAIN ops : ops[j].type # CNAME
        BY DEF Fitting
      <4> QED
        BY <4>1, <4>2
    <3> HIDE DEF Is, z, o
    <3> QED
      BY <2>2, <2>5, <3>1
  <2>7. Addable(y, o)
    <3>1. ASSUME NEW x \in y, x[1] = o.name PROVE x[2] # CNAME
      <4>1. x = <<x[1], x[2], x[3]>> /\ x[3] \in Record
        BY <2>3, RecordIs DEF Contents
      <4> HIDE DEF y, o
      <4> QED
        BY <2>6, <3>1, <4>1 DEF RRsetOf
    <3> QED
      BY <2>5, <3>1 DEF Addable
  <2>8. o.action = "add" => RRsetOf(y, o.name, o.type) = {}
    <3> SUFFICES ASSUME o.action = "add" PROVE RRsetOf(y, o.name, o.type) = {}
      OBVIOUS
    <3>1. ~Is(k - 1, o.name, o.type)
      <4> SUFFICES ASSUME NEW j \in 1 .. k - 1, ops[j].name = o.name, ops[j].type = o.type PROVE FALSE
        OBVIOUS
      <4>1. j \in DOMAIN ops /\ j # k
        BY <1>1, <2>1
      <4>2. ops[j].action = "add"
        BY <2>5, <4>1 DEF Fitting
      <4> QED
        BY <2>1, <4>1, <4>2 DEF Fitting
    <3> HIDE DEF Is, z, o
    <3> QED
      BY <2>2, <2>5, <3>1
  <2>9. RRsetOf(v, o.name, o.type) = RRsetOf(y, o.name, o.type)
    <3>1. Mentioned(o.name, o.type)
      OBVIOUS
    <3> HIDE DEF Mentioned, z, o
    <3> QED
      BY <2>2, <3>1
  <2>10. RRsetOf(z(k), o.name, o.type) = RRsetOf(c[k], o.name, o.type)
    <3> HIDE DEF y, o, v, z
    <3> QED
      BY <2>1, <2>3, <2>4, <2>5, <2>7, <2>8, <2>9, <2>14, OneEffect
  <2>11. ASSUME NEW n, NEW t, <<n, t>> # <<o.name, o.type>>
         PROVE  RRsetOf(z(k), n, t) = RRsetOf(y, n, t) /\ RRsetOf(c[k], n, t) = RRsetOf(v, n, t)
    <3> HIDE DEF y, o, v, z
    <3> QED
      BY <2>1, <2>3, <2>4, <2>11, OneElsewhere
  <2>12. Same(k)
    <3> SUFFICES ASSUME NEW n, NEW t, Mentioned(n, t) PROVE RRsetOf(z(k), n, t) = RRsetOf(c[k], n, t)
      OBVIOUS
    <3>1. CASE <<n, t>> = <<o.name, o.type>>
      BY <2>10, <3>1
    <3>2. CASE <<n, t>> # <<o.name, o.type>>
      <4>1. RRsetOf(y, n, t) = RRsetOf(v, n, t)
        <5> HIDE DEF z, Mentioned
        <5> QED
          BY <2>2
      <4> HIDE DEF z, o, y, v
      <4> QED
        BY <2>11, <3>2, <4>1
    <3> QED
      BY <3>1, <3>2
  <2>13. Untouched(k)
    <3> SUFFICES ASSUME NEW n, NEW t, ~Is(k, n, t) PROVE RRsetOf(z(k), n, t) = RRsetOf(zone, n, t)
      OBVIOUS
    <3>1. ~Is(k - 1, n, t) /\ <<n, t>> # <<o.name, o.type>>
      <4>1. k \in 1 .. k /\ \A j \in 1 .. k - 1 : j \in 1 .. k
        BY <2>1
      <4> QED
        BY <4>1
    <3>2. RRsetOf(y, n, t) = RRsetOf(zone, n, t)
      <4> HIDE DEF z, Is
      <4> QED
        BY <2>2, <3>1
    <3> HIDE DEF z, o, y, v
    <3> QED
      BY <2>11, <3>1, <3>2
  <2> HIDE DEF Same, Untouched
  <2> QED
    BY <2>1, <2>12, <2>13
<1>11. Good \in SUBSET Nat
  OBVIOUS
<1> HIDE DEF Good
<1>12. 0 .. m \subseteq Good
  BY <1>1, <1>9, <1>10, <1>11, Induct
<1>13. m \in 0 .. m
  BY <1>1
<1>14. Same(m)
  <2> HIDE DEF Same, Untouched
  <2> QED
    BY <1>12, <1>13 DEF Good
<1>15. Mentioned(ops[i].name, ops[i].type)
  BY <1>1
<1> HIDE DEF Mentioned
<1> QED
  BY <1>6, <1>7, <1>14, <1>15
--------------------------------------------------------------------------------
(* Jobs *)

\* The prerequisites of a message vouch for an RRset.
Vouched(pre, n, t, data) ==
    \/ Exact(n, t, data) \in pre
    \/ data = {} /\ (NxRRset(n, t) \in pre \/ (t \in Type /\ NxDomain(n) \in pre))

\* The fields of a job.
Shaped(j) ==
    j \in [at : {j.at}, kind : {j.kind}, msg : {j.msg}, then : {j.then}, edits : {j.edits},
           todo : {j.todo}, data : {j.data}, rcode : {j.rcode},
           seen : {j.seen}, draft : {j.draft}, base : {j.base}, target : {j.target}]

\* What an operation expects is vouched for.
LEMMA ExpectingVouches ==
    ASSUME NEW n, NEW t, NEW data, NEW pre, data # {}, Expecting(n, t, data) \in pre
    PROVE  Vouched(pre, n, t, data)
BY DEF Expecting, Vouched

\* The names that PTRs can be at.
PtrName == {n \in Name : RRs(n, PTR, Record) \subseteq Records}

\* What a request still has to do.
TodoOK(kind, todo, data) ==
    /\ kind = "nsupdate" => todo \in Seq(Message)
    /\ kind \in Mode => todo \in Seq(PtrName) /\ data # {}
    /\ kind \notin Mode \cup {"nsupdate"} => todo = <<>>

\* The type of a job: idle with nothing in it, or with a message.
JobTyped(j) ==
    /\ j \in [at : {"idle", "sent", "answered"}, kind : Kind, msg : Message \cup {NoMessage},
              then : Seq(Message), edits : Seq(Edit), todo : Seq(Message) \cup Seq(PtrName),
              data : SUBSET Record, rcode : {"none", "noerror", "prereq"},
              seen : SUBSET Records, draft : {j.draft}, base : Nat, target : Nat]
    /\ j.at = "idle" => j = NoJob
    /\ j.at # "idle" => j.msg \in Message
    /\ j.at = "answered" <=> j.rcode # "none"
    /\ TodoOK(j.kind, j.todo, j.data)

\* The UPDATE of a PTR request adds one where there is none, or the request saw one.
PtrOK(j) ==
    j.kind \in Mode /\ j.at # "idle" =>
        \/ j.kind # "skip_existing" /\ \E n \in Name : RRsetOf(j.seen, n, PTR) # {}
        \/ /\ j.then = <<>>
           /\ \E n \in Name : j.msg = PrepareAdd(Operation("add", n, PTR, j.data))

\* The message of a request for one RRset, from what it found in the cache.
OneMade(o, view, msg) ==
    LET there == RRsetOf(view, o.name, o.type)
    IN  \/ o.action = "add" /\ there = {} /\ msg = PrepareAdd(o)
        \/ o.action = "delete" /\ there # {} /\ msg = PrepareDelete(o, there)
        \/ o.action = "replace" /\ there # {} /\ msg = PrepareReplace(o, there)

\* What a request sends was made from its operations and from what it saw, or from its
\* transaction; and it is all the request sends.
SourceOK(j) ==
    j.at # "idle" =>
        /\ j.kind \in {"rrset", "atomic", "draft"} => j.then = <<>>
        /\ j.kind = "rrset" => \E o \in Edit : j.edits = <<o>> /\ OneMade(o, j.seen, j.msg)
        /\ j.kind = "atomic" => j.msg = BuildUpdate(j.edits, j.seen) /\ ~BuildError(j.edits, j.seen)
        /\ j.kind = "draft" =>
              /\ j.draft \in Message /\ OneCname(j.draft.ups)
              /\ \A i \in DOMAIN j.draft.ups : j.draft.ups[i].do # "clear"
              /\ j.msg.ups = Made(OpsToAtomic(j.draft.ups))

\* The UPDATE of a rollback restores the zone as it was, if nothing comes between.
RollbackOK(j, h) ==
    /\ j.target <= j.base /\ j.base <= Len(h)
    /\ j.kind = "rollback" /\ j.at # "idle" =>
        /\ 1 <= j.target /\ j.then = <<>>
        /\ Free(Run(h[j.base], j.msg.ups)) = Free(h[j.target])

\* All of it, for a server that has seen h.
SoundJob(j, h) == JobTyped(j) /\ PtrOK(j) /\ SourceOK(j) /\ RollbackOK(j, h)

\* A request that has nothing to do is sound.
LEMMA NoJobSound ==
    ASSUME NEW h \in Seq(Contents)
    PROVE  SoundJob(NoJob, h)
<1>1. <<>> \in Seq(Message) /\ <<>> \in Seq(Edit) /\ Len(h) \in Nat /\ Len(h) >= 0
  BY EmptySeq, LenProperties
<1>2. NoJob.kind = "rrset" /\ NoJob.at = "idle" /\ NoJob.todo = <<>> /\ NoJob.base = 0 /\ NoJob.target = 0
      /\ NoJob.rcode = "none"
  BY DEF NoJob
<1>3. JobTyped(NoJob)
  <2>1. NoJob \in [at : {"idle", "sent", "answered"}, kind : Kind, msg : Message \cup {NoMessage},
              then : Seq(Message), edits : Seq(Edit), todo : Seq(Message) \cup Seq(PtrName),
              data : SUBSET Record, rcode : {"none", "noerror", "prereq"},
              seen : SUBSET Records, draft : {NoJob.draft}, base : Nat, target : Nat]
    BY <1>1 DEF NoJob, Kind
  <2>2. TodoOK("rrset", <<>>, NoJob.data)
    BY DEF TodoOK, Mode
  <2> QED
    BY <1>2, <2>1, <2>2 DEF JobTyped
<1> QED
  BY <1>1, <1>2, <1>3 DEF SoundJob, PtrOK, SourceOK, RollbackOK

\* A request at its beginning.
Fresh(kind, todo, data) == [NoJob EXCEPT !.kind = kind, !.todo = todo, !.data = data]

\* What a request sends for one transaction or one address.
SendsAt(j, m, view) == IF j.kind = "nsupdate" THEN TransactionJob(j, m, view) ELSE PtrJob(j, m, view)

\* The job that comes next sends for one of those that remain, and keeps the ones after it.
LEMMA ProceedIs ==
    ASSUME NEW j, NEW view, NEW k \in Proceed(j, view)
    PROVE  \/ k = NoJob
           \/ \E i \in DOMAIN j.todo : \E x \in SendsAt(j, j.todo[i], view) :
                 k = [x EXCEPT !.todo = SubSeq(j.todo, i + 1, Len(j.todo)), !.seen = view]
<1> DEFINE next(i) == IF j.kind = "nsupdate" THEN TransactionJob(j, j.todo[i], view)
                                             ELSE PtrJob(j, j.todo[i], view)
           sending == {i \in DOMAIN j.todo : next(i) # {}}
           first == {i \in sending : \A m \in sending : i <= m}
           new(i) == {[x EXCEPT !.todo = SubSeq(j.todo, i + 1, Len(j.todo)), !.seen = view] :
                        x \in next(i)}
<1>1. CASE sending = {}
  BY <1>1 DEF Proceed
<1>2. CASE sending # {}
  <2>1. Proceed(j, view) = UNION {new(i) : i \in first}
    BY <1>2 DEF Proceed
  <2> HIDE DEF new, sending
  <2>2. PICK i \in first : k \in new(i)
    BY <2>1
  <2>3. i \in DOMAIN j.todo /\ next(i) = SendsAt(j, j.todo[i], view)
    BY DEF sending, SendsAt
  <2> HIDE DEF next, first
  <2> QED
    BY <2>2, <2>3 DEF new
<1> QED
  BY <1>1, <1>2

\* What a PTR request sends for one address.
PtrSends(j, n, view, x) ==
    \E msg \in Message, then \in Seq(Message), o \in Edit :
        /\ x = [j EXCEPT !.at = "sent", !.msg = msg, !.then = then, !.edits = <<o>>]
        /\ \/ j.kind # "skip_existing" /\ RRsetOf(view, n, PTR) # {}
           \/ then = <<>> /\ msg = PrepareAdd(Operation("add", n, PTR, j.data))

\* The job of a PTR request is such.
LEMMA PtrJobIs ==
    ASSUME NEW j, NEW n \in PtrName, NEW view \in SUBSET Records, NEW x \in PtrJob(j, n, view),
           j.data \in SUBSET Record, j.data # {}
    PROVE  PtrSends(j, n, view, x)
<1> DEFINE there == RRsetOf(view, n, PTR)
           new == Operation("add", n, PTR, j.data)
           all == Operation("replace", n, PTR, IF j.kind = "replace" THEN j.data ELSE there \cup j.data)
           del == Operation("delete", n, PTR, {})
           sent(msg, then, o) == [j EXCEPT !.at = "sent", !.msg = msg, !.then = then, !.edits = <<o>>]
<1>1. there \in SUBSET Record /\ n \in Name /\ PTR \in Type /\ PTR # CNAME
  BY RRsetIn, WritesAssumption DEF PtrName
<1>2. ASSUME NEW data \in SUBSET Record, data # {}, NEW action \in {"add", "replace"}
      PROVE  Operation(action, n, PTR, data) \in Edit
  <2>1. RRs(n, PTR, data) \subseteq Records
    BY DEF RRs, PtrName
  <2>2. (data # {}) \in BOOLEAN /\ Operation(action, n, PTR, data) =
           [action |-> action, name |-> n, type |-> PTR, data |-> data, listed |-> TRUE]
    BY <1>2 DEF Operation
  <2> QED
    BY <1>1, <1>2, <2>1, <2>2 DEF Edit
<1>3. new \in Edit /\ all \in Edit /\ new.action = "add" /\ all.action = "replace"
  <2>1. new \in Edit
    BY <1>2
  <2>2. there \cup j.data \in SUBSET Record /\ there \cup j.data # {}
    BY <1>1
  <2>3. all \in Edit
    <3> HIDE DEF there
    <3> QED
      BY <1>2, <2>2
  <2> QED
    BY <2>1, <2>3 DEF Operation
<1>4. del \in Edit
  <2>1. del = [action |-> "delete", name |-> n, type |-> PTR, data |-> {}, listed |-> FALSE]
    BY DEF Operation
  <2> HIDE DEF del
  <2> QED
    BY <1>1, <2>1 DEF Edit
<1>5. \/ there = {} /\ x = sent(PrepareAdd(new), <<>>, new)
      \/ there # {} /\ j.kind = "replace" /\ x = sent(PrepareDelete(del, {}), <<PrepareAdd(new)>>, all)
      \/ there # {} /\ j.kind = "add_roundrobin" /\ x = sent(PrepareReplace(all, {}), <<>>, all)
  BY DEF PtrJob
<1> HIDE DEF new, all, del, sent, there
<1>6. PrepareAdd(new) \in Message /\ PrepareDelete(del, {}) \in Message /\ PrepareReplace(all, {}) \in Message
  BY <1>3, <1>4, PreparedIs
<1>7. <<>> \in Seq(Message) /\ <<PrepareAdd(new)>> \in Seq(Message)
  BY <1>6
<1>8. \E msg \in Message, then \in Seq(Message), o \in Edit :
         /\ x = sent(msg, then, o)
         /\ \/ j.kind # "skip_existing" /\ there # {}
            \/ then = <<>> /\ msg = PrepareAdd(new)
  <2>1. CASE there = {} /\ x = sent(PrepareAdd(new), <<>>, new)
    BY <1>3, <1>6, <1>7, <2>1
  <2>2. CASE there # {} /\ j.kind = "replace" /\ x = sent(PrepareDelete(del, {}), <<PrepareAdd(new)>>, all)
    BY <1>3, <1>6, <1>7, <2>2
  <2>3. CASE there # {} /\ j.kind = "add_roundrobin" /\ x = sent(PrepareReplace(all, {}), <<>>, all)
    BY <1>3, <1>6, <1>7, <2>3
  <2> QED
    BY <1>5, <2>1, <2>2, <2>3
<1> QED
  BY <1>8 DEF new, sent, there, PtrSends

\* The next job of a request of several is sound.
LEMMA ProceedSound ==
    ASSUME NEW h \in Seq(Contents), NEW kind \in Kind, NEW todo, NEW data \in SUBSET Record,
           TodoOK(kind, todo, data), NEW view \in SUBSET Records,
           NEW k \in Proceed(Fresh(kind, todo, data), view)
    PROVE  SoundJob(k, h)
<1> DEFINE j == Fresh(kind, todo, data)
<1>1. /\ Shaped(j) /\ j.kind = kind /\ j.todo = todo /\ j.data = data
      /\ j.then = <<>> /\ j.edits = <<>> /\ j.rcode = "none" /\ j.base = 0 /\ j.target = 0
  BY DEF Fresh, NoJob, Shaped
<1>2. CASE k = NoJob
  BY <1>2, NoJobSound
<1>3. CASE k # NoJob
  <2> HIDE DEF j
  <2>1. PICK i \in DOMAIN todo : \E x \in SendsAt(j, todo[i], view) :
           k = [x EXCEPT !.todo = SubSeq(todo, i + 1, Len(todo)), !.seen = view]
    <3>1. \/ k = NoJob
          \/ \E i \in DOMAIN j.todo : \E x \in SendsAt(j, j.todo[i], view) :
                k = [x EXCEPT !.todo = SubSeq(j.todo, i + 1, Len(j.todo)), !.seen = view]
      BY ProceedIs DEF j
    <3> QED
      BY <1>1, <1>3, <3>1
  <2>2. PICK x \in SendsAt(j, todo[i], view) :
           k = [x EXCEPT !.todo = SubSeq(todo, i + 1, Len(todo)), !.seen = view]
    BY <2>1
  <2> DEFINE rest == SubSeq(todo, i + 1, Len(todo))
  <2>3. kind \in Mode \cup {"nsupdate"}
    BY <2>1 DEF TodoOK
  <2>4. TodoOK(kind, rest, data) /\ rest \in Seq(Message) \cup Seq(PtrName)
    <3>1. ASSUME NEW S, todo \in Seq(S) PROVE rest \in Seq(S)
      <4>1. Len(todo) \in Nat /\ i \in 1 .. Len(todo) /\ \A m \in i + 1 .. Len(todo) : todo[m] \in S
        BY <3>1, LenProperties, ElementOfSeq
      <4> QED
        BY <4>1, SubSeqProperties
    <3>2. kind = "nsupdate" => rest \in Seq(Message)
      BY <3>1 DEF TodoOK
    <3>3. kind \in Mode => rest \in Seq(PtrName) /\ data # {}
      BY <3>1 DEF TodoOK
    <3> HIDE DEF rest
    <3> QED
      BY <2>3, <3>2, <3>3 DEF TodoOK
  <2>5. \E msg \in Message, then \in Seq(Message), edits \in Seq(Edit) :
           /\ Shaped(x) /\ x.at = "sent" /\ x.msg = msg /\ x.then = then /\ x.edits = edits
           /\ x.kind = kind /\ x.data = data /\ x.rcode = "none" /\ x.base = 0 /\ x.target = 0
           /\ kind \in Mode =>
                \/ kind # "skip_existing" /\ \E n \in Name : RRsetOf(view, n, PTR) # {}
                \/ then = <<>> /\ \E n \in Name : msg = PrepareAdd(Operation("add", n, PTR, data))
    <3>1. CASE kind = "nsupdate"
      <4>1. todo[i] \in Message
        BY <2>1, <3>1, ElementOfSeq, LenProperties DEF TodoOK
      <4>2. x = [j EXCEPT !.at = "sent", !.msg = todo[i]]
        BY <1>1, <2>2, <3>1 DEF SendsAt, TransactionJob
      <4>3. /\ Shaped(x) /\ x.at = "sent" /\ x.msg = todo[i] /\ x.then = <<>> /\ x.edits = <<>>
            /\ x.kind = kind /\ x.data = data /\ x.rcode = "none" /\ x.base = 0 /\ x.target = 0
        BY <1>1, <4>2 DEF Shaped
      <4>4. <<>> \in Seq(Message) /\ <<>> \in Seq(Edit) /\ "nsupdate" \notin Mode
        BY EmptySeq DEF Mode
      <4> QED
        BY <3>1, <4>1, <4>3, <4>4
    <3>2. CASE kind # "nsupdate"
      <4>1. todo \in Seq(PtrName) /\ data # {}
        BY <2>3, <3>2 DEF TodoOK
      <4> DEFINE n == todo[i]
      <4>2. n \in PtrName /\ n \in Name
        BY <2>1, <4>1, ElementOfSeq, LenProperties DEF PtrName
      <4>3. x \in PtrJob(j, n, view)
        BY <1>1, <2>2, <3>2 DEF SendsAt
      <4> HIDE DEF n
      <4>4. j.data \in SUBSET Record /\ j.data # {}
        BY <1>1, <4>1
      <4>5. PtrSends(j, n, view, x)
        BY <4>2, <4>3, <4>4, PtrJobIs
      <4>6. PICK msg \in Message, then \in Seq(Message), o \in Edit :
             /\ x = [j EXCEPT !.at = "sent", !.msg = msg, !.then = then, !.edits = <<o>>]
             /\ \/ j.kind # "skip_existing" /\ RRsetOf(view, n, PTR) # {}
                \/ then = <<>> /\ msg = PrepareAdd(Operation("add", n, PTR, j.data))
        BY <4>5 DEF PtrSends
      <4>7. <<o>> \in Seq(Edit)
        OBVIOUS
      <4>8. /\ Shaped(x) /\ x.at = "sent" /\ x.msg = msg /\ x.then = then /\ x.edits = <<o>>
            /\ x.kind = kind /\ x.data = data /\ x.rcode = "none" /\ x.base = 0 /\ x.target = 0
        BY <1>1, <4>6 DEF Shaped
      <4> QED
        BY <1>1, <4>2, <4>6, <4>7, <4>8
    <3> QED
      BY <3>1, <3>2
  <2>6. PICK msg \in Message, then \in Seq(Message), edits \in Seq(Edit) :
           /\ Shaped(x) /\ x.at = "sent" /\ x.msg = msg /\ x.then = then /\ x.edits = edits
           /\ x.kind = kind /\ x.data = data /\ x.rcode = "none" /\ x.base = 0 /\ x.target = 0
           /\ kind \in Mode =>
                \/ kind # "skip_existing" /\ \E n \in Name : RRsetOf(view, n, PTR) # {}
                \/ then = <<>> /\ \E n \in Name : msg = PrepareAdd(Operation("add", n, PTR, data))
    BY <2>5
  <2> HIDE DEF rest
  <2>7. /\ Shaped(k) /\ k.at = "sent" /\ k.msg = msg /\ k.then = then /\ k.edits = edits
        /\ k.todo = rest /\ k.seen = view
        /\ k.kind = kind /\ k.data = data /\ k.rcode = "none" /\ k.base = 0 /\ k.target = 0
    BY <2>2, <2>6 DEF rest, Shaped
  <2>8. JobTyped(k)
    BY <2>4, <2>7 DEF JobTyped, Shaped
  <2>9. PtrOK(k)
    BY <2>6, <2>7 DEF PtrOK
  <2>10. RollbackOK(k, h)
    <3>1. Len(h) \in Nat
      BY LenProperties
    <3>2. kind # "rollback"
      BY <2>3 DEF Mode
    <3> QED
      BY <2>7, <3>1, <3>2 DEF RollbackOK
  <2>11. SourceOK(k)
    BY <2>3, <2>7 DEF SourceOK, Mode
  <2> QED
    BY <2>8, <2>9, <2>10, <2>11 DEF SoundJob
<1> QED
  BY <1>2, <1>3
--------------------------------------------------------------------------------
(* The invariant, and requests that keep it *)

\* A cached zone: a serial the server had, or none, and records there can be.
CopyOK(c) == c \in [serial : 0 .. Current, records : SUBSET Records]

\* The inductive invariant.
Sound ==
    /\ history \in Seq(Contents) /\ Current \in 1 .. MaxSerial
    /\ CopyOK(copy)
    /\ job = [q \in Request |-> job[q]] /\ \A q \in Request : SoundJob(job[q], history)

\* Its history, unfolded.
LEMMA HistoryIs ==
    ASSUME Sound
    PROVE  /\ Current \in Nat /\ DOMAIN history = 1 .. Current
           /\ \A i \in 1 .. Current : history[i] \in Contents
           /\ Zone \in Contents /\ Contents \subseteq SUBSET Records
<1>1. Current \in Nat /\ DOMAIN history = 1 .. Current
  BY LenProperties DEF Sound, Current
<1>2. \A i \in 1 .. Current : history[i] \in Contents
  BY ElementOfSeq DEF Sound, Current
<1>3. Current \in 1 .. Current
  BY <1>1 DEF Sound
<1>4. Zone \in Contents
  BY <1>2, <1>3 DEF Zone, Current
<1> QED
  BY <1>1, <1>2, <1>4 DEF Contents

\* What a request finds in the cache, or puts there.
LEMMA RefreshedOK ==
    ASSUME Sound, NEW c \in Refreshed(copy) \cup Found(copy)
    PROVE  CopyOK(c)
<1>1. CopyOK(Transferred)
  BY HistoryIs DEF Transferred, CopyOK
<1>2. CopyOK(Patched(copy))
  <2> DEFINE touched == UNION {history[i] \ history[j] : i, j \in copy.serial .. Current}
  <2>1. (copy.records \ touched) \cup (Zone \cap touched) \in SUBSET Records
    BY HistoryIs DEF Sound, CopyOK
  <2> HIDE DEF touched
  <2>2. Current \in 0 .. Current
    BY HistoryIs
  <2>3. Patched(copy) = [serial |-> Current, records |-> (copy.records \ touched) \cup (Zone \cap touched)]
    BY DEF Patched, touched
  <2> QED
    BY <2>1, <2>2, <2>3 DEF CopyOK
<1> QED
  BY <1>1, <1>2 DEF Sound, Refreshed, Found

\* The cache after the edits of a request that succeeded.
LEMMA EditedOK ==
    ASSUME Sound, NEW edits \in Seq(Edit), NEW c \in Edited(copy, edits)
    PROVE  CopyOK(c)
<1>1. PICK found \in Found(copy), s \in {Current} \cup (IF copy = NoCopy THEN {} ELSE {copy.serial}) :
          c = IF found = NoCopy THEN found
              ELSE [serial |-> s, records |-> FoldLeft(Cached, found.records, edits)]
  BY DEF Edited
<1>2. CopyOK(found) /\ s \in 0 .. Current
  <2>1. CopyOK(found)
    BY RefreshedOK
  <2>2. Current \in 0 .. Current /\ copy.serial \in 0 .. Current
    BY HistoryIs DEF Sound, CopyOK
  <2> QED
    BY <2>1, <2>2
<1>3. FoldLeft(Cached, found.records, edits) \in SUBSET Records
  <2>1. found.records \in SUBSET Records
    BY <1>2 DEF CopyOK
  <2> QED
    <3>1. PICK v : Edits(v, found.records, edits) /\ FoldLeft(Cached, found.records, edits) = v[Len(edits)]
      BY <2>1, CachedIs
    <3>2. Len(edits) \in 0 .. Len(edits)
      BY LenProperties
    <3> QED
      BY <3>1, <3>2 DEF Edits
<1> QED
  BY <1>1, <1>2, <1>3 DEF CopyOK

\* A step that leaves the server alone and gives one request a sound job keeps the invariant.
LEMMA Settles ==
    ASSUME Sound, UNCHANGED history, CopyOK(copy'), NEW q \in Request, NEW j, SoundJob(j, history),
           job' = [job EXCEPT ![q] = j]
    PROVE  Sound'
<1>1. job' = [p \in Request |-> job'[p]] /\ \A p \in Request : SoundJob(job'[p], history)
  BY DEF Sound
<1> QED
  BY <1>1 DEF Sound, CopyOK, Current

\* A job stays sound when the zone changes.
LEMMA Stable ==
    ASSUME NEW h \in Seq(Contents), NEW z \in Contents, NEW j, SoundJob(j, h)
    PROVE  SoundJob(j, Append(h, z))
<1>1. Len(h) \in Nat /\ Len(Append(h, z)) = Len(h) + 1 /\ \A i \in 1 .. Len(h) : Append(h, z)[i] = h[i]
  BY LenProperties
<1>2. j.base \in Nat /\ j.target \in Nat
  BY DEF SoundJob, JobTyped
<1>3. RollbackOK(j, Append(h, z))
  <2>1. j.target <= j.base /\ j.base <= Len(Append(h, z))
    BY <1>1, <1>2 DEF SoundJob, RollbackOK
  <2>2. ASSUME j.kind = "rollback", j.at # "idle"
        PROVE  /\ 1 <= j.target /\ j.then = <<>>
               /\ Free(Run(Append(h, z)[j.base], j.msg.ups)) = Free(Append(h, z)[j.target])
    <3>1. 1 <= j.target /\ j.then = <<>> /\ Free(Run(h[j.base], j.msg.ups)) = Free(h[j.target]) /\ j.base <= Len(h)
          /\ j.target <= j.base
      BY <2>2 DEF SoundJob, RollbackOK
    <3>2. j.base \in 1 .. Len(h) /\ j.target \in 1 .. Len(h)
      BY <1>1, <1>2, <3>1
    <3>3. Append(h, z)[j.base] = h[j.base] /\ Append(h, z)[j.target] = h[j.target]
      BY <1>1, <3>2
    <3> QED
      BY <3>1, <3>3
  <2> QED
    BY <2>1, <2>2 DEF RollbackOK
<1> QED
  BY <1>3 DEF SoundJob

\* So does one that changes the server's zone.
LEMMA WrittenSound ==
    ASSUME Sound, NEW zone \in Contents, zone # Zone => Current < MaxSerial, Written(zone), UNCHANGED copy,
           job' = [q \in Request |-> job'[q]], \A q \in Request : SoundJob(job'[q], history)
    PROVE  Sound'
<1>1. CASE history' = history
  BY <1>1 DEF Sound, CopyOK, Current
<1>2. CASE history' = Append(history, zone) /\ Current < MaxSerial
  <2>1. /\ history' \in Seq(Contents) /\ Len(history') = Current + 1 /\ Current \in Nat
        /\ MaxSerial \in Nat /\ Current + 1 <= MaxSerial
    BY <1>2, HistoryIs, WritesAssumption DEF Sound, Current
  <2>2. copy \in [serial : 0 .. Current + 1, records : SUBSET Records]
    BY <2>1 DEF Sound, CopyOK
  <2>3. \A q \in Request : SoundJob(job'[q], history')
    BY <1>2, Stable DEF Sound
  <2>4. Current' = Current + 1
    BY <2>1 DEF Current
  <2>5. Current' \in 1 .. MaxSerial
    BY <2>1, <2>4
  <2>6. CopyOK(copy)'
    BY <2>2, <2>4 DEF CopyOK
  <2> QED
    BY <2>1, <2>3, <2>5, <2>6 DEF Sound
<1> QED
  BY <1>1, <1>2 DEF Written
--------------------------------------------------------------------------------
\* The request of a kind that sends one message, as it begins.
LEMMA SentSound ==
    ASSUME NEW h \in Seq(Contents), NEW kind \in {"rrset", "atomic", "draft"}, NEW msg \in Message,
           NEW edits \in Seq(Edit), NEW view \in SUBSET Records, NEW j, Shaped(j),
           j.at = "sent", j.kind = kind, j.msg = msg, j.edits = edits, j.seen = view,
           j.then = <<>>, j.todo = <<>>, j.data = {}, j.rcode = "none", j.base = 0, j.target = 0, SourceOK(j)
    PROVE  SoundJob(j, h)
<1>1. <<>> \in Seq(Message) /\ Len(h) \in Nat /\ kind \in Kind /\ kind \notin Mode \cup {"nsupdate", "rollback"}
  BY EmptySeq, LenProperties DEF Kind, Mode
<1>2. j \in [at : {"idle", "sent", "answered"}, kind : Kind, msg : Message \cup {NoMessage},
              then : Seq(Message), edits : Seq(Edit), todo : Seq(Message) \cup Seq(PtrName),
              data : SUBSET Record, rcode : {"none", "noerror", "prereq"},
              seen : SUBSET Records, draft : {j.draft}, base : Nat, target : Nat]
  <2>1. /\ j.at \in {"idle", "sent", "answered"} /\ j.kind \in Kind /\ j.msg \in Message \cup {NoMessage}
        /\ j.then \in Seq(Message) /\ j.edits \in Seq(Edit) /\ j.todo \in Seq(Message) \cup Seq(PtrName)
        /\ j.data \in SUBSET Record /\ j.rcode \in {"none", "noerror", "prereq"}
        /\ j.seen \in SUBSET Records /\ j.base \in Nat /\ j.target \in Nat
    BY <1>1
  <2> QED
    BY <2>1 DEF Shaped
<1>3. TodoOK(j.kind, j.todo, j.data)
  BY <1>1 DEF TodoOK
<1>4. JobTyped(j)
  BY <1>2, <1>3 DEF JobTyped
<1> QED
  BY <1>1, <1>4 DEF SoundJob, PtrOK, RollbackOK

\* A request for one RRset begins,
LEMMA SendOneSound ==
    ASSUME Sound, NEW q \in Request, NEW o \in Edit, NEW msg \in Message, NEW c \in Found(copy),
           SendOne(q, o, msg, c), OneMade(o, c.records, msg)
    PROVE  Sound'
<1> DEFINE j == [Sent("rrset", msg) EXCEPT !.edits = <<o>>, !.seen = c.records]
<1>1. /\ Shaped(j) /\ j.at = "sent" /\ j.kind = "rrset" /\ j.msg = msg /\ j.edits = <<o>>
      /\ j.seen = c.records /\ j.todo = <<>> /\ j.then = <<>> /\ j.data = {} /\ j.rcode = "none"
      /\ j.base = 0 /\ j.target = 0
  BY DEF Sent, NoJob, Shaped
<1>2. job' = [job EXCEPT ![q] = j] /\ copy' = c /\ UNCHANGED history
  BY DEF SendOne, Begin
<1> HIDE DEF j
<1>3. CopyOK(c) /\ c.records \in SUBSET Records /\ <<o>> \in Seq(Edit)
  BY RefreshedOK DEF CopyOK
<1>4. history \in Seq(Contents)
  BY DEF Sound
<1>5. SourceOK(j)
  BY <1>1 DEF SourceOK
<1>6. SoundJob(j, history)
  BY <1>1, <1>3, <1>4, <1>5, SentSound
<1> QED
  BY <1>2, <1>3, <1>6, Settles

\* by adding, deleting or replacing it.
LEMMA OneOperationSound ==
    ASSUME Sound, NEW q \in Request, NEW o \in Ops, NEW c \in Found(copy),
           AddRequest(q, o, c) \/ DeleteRequest(q, o, c) \/ ReplaceRequest(q, o, c)
    PROVE  Sound'
<1> DEFINE there == RRsetOf(c.records, o.name, o.type)
<1>1. o \in Edit /\ there \in SUBSET Record
  BY OpsAreEdits, RRsetIn
<1>2. CASE AddRequest(q, o, c)
  <2>1. o.action = "add" /\ there = {} /\ SendOne(q, o, PrepareAdd(o), c)
    BY <1>2 DEF AddRequest
  <2>2. OneMade(o, c.records, PrepareAdd(o))
    BY <2>1 DEF OneMade
  <2> HIDE DEF there
  <2> QED
    BY <1>1, <2>1, <2>2, PreparedIs, SendOneSound
<1>3. CASE DeleteRequest(q, o, c)
  <2>1. o.action = "delete" /\ there # {} /\ SendOne(q, o, PrepareDelete(o, there), c)
    BY <1>3 DEF DeleteRequest
  <2>2. OneMade(o, c.records, PrepareDelete(o, there))
    BY <2>1 DEF OneMade
  <2> HIDE DEF there
  <2> QED
    BY <1>1, <2>1, <2>2, PreparedIs, SendOneSound
<1>4. CASE ReplaceRequest(q, o, c)
  <2>1. o.action = "replace" /\ there # {} /\ SendOne(q, o, PrepareReplace(o, there), c)
    BY <1>4 DEF ReplaceRequest
  <2>2. OneMade(o, c.records, PrepareReplace(o, there))
    BY <2>1 DEF OneMade
  <2> HIDE DEF there
  <2> QED
    BY <1>1, <2>1, <2>2, PreparedIs, SendOneSound
<1> QED
  BY <1>2, <1>3, <1>4

\* An atomic request begins.
LEMMA AtomicSound ==
    ASSUME Sound, NEW q \in Request, NEW ops \in Batches, NEW c \in Found(copy), AtomicUpdate(q, ops, c)
    PROVE  Sound'
<1> DEFINE msg == BuildUpdate(ops, c.records)
           j == [Sent("atomic", msg) EXCEPT !.edits = ops, !.seen = c.records]
<1>1. job' = [job EXCEPT ![q] = j] /\ copy' = c /\ UNCHANGED history /\ ~BuildError(ops, c.records)
  BY DEF AtomicUpdate, Begin
<1>2. ops \in Seq(Edit) \ {<<>>}
  <2>1. ops \in Seq(Ops) /\ ops # <<>>
    BY WritesAssumption
  <2> QED
    BY <2>1, OpsAreEdits, SeqMonotonic
<1>3. msg \in Message
  BY <1>2, BuiltIs
<1> HIDE DEF msg
<1>4. /\ Shaped(j) /\ j.at = "sent" /\ j.kind = "atomic" /\ j.msg = msg /\ j.edits = ops
      /\ j.seen = c.records /\ j.todo = <<>> /\ j.then = <<>> /\ j.data = {} /\ j.rcode = "none"
      /\ j.base = 0 /\ j.target = 0
  BY DEF Sent, NoJob, Shaped
<1> HIDE DEF j
<1>5. CopyOK(c) /\ c.records \in SUBSET Records /\ history \in Seq(Contents)
  BY RefreshedOK DEF CopyOK, Sound
<1>6. SourceOK(j)
  BY <1>1, <1>4 DEF SourceOK, msg
<1>7. SoundJob(j, history)
  BY <1>2, <1>3, <1>4, <1>5, <1>6, SentSound
<1> QED
  BY <1>1, <1>5, <1>7, Settles

\* A draft is applied.
LEMMA DraftSound ==
    ASSUME Sound, NEW q \in Request, NEW script \in Scripts, NEW i \in DOMAIN script, NEW c \in Refreshed(copy),
           ApplyDraft(q, script[i], c)
    PROVE  Sound'
<1> DEFINE msg == script[i]
           built == DraftUpdate(msg, c.records)
           ops == OpsToAtomic(msg.ups)
           j == [Sent("draft", built) EXCEPT !.edits = ops, !.draft = msg]
<1>1. job' = [job EXCEPT ![q] = j] /\ copy' = c /\ UNCHANGED history
  BY DEF ApplyDraft, Begin
<1>2. msg \in Message /\ OneCname(msg.ups) /\ \A k \in DOMAIN msg.ups : msg.ups[k].do # "clear"
  <2>1. script \in Seq(Message) /\ OneCname(msg.ups)
    BY WritesAssumption
  <2> QED
    BY <2>1, ElementOfSeq, LenProperties DEF ApplyDraft
<1>3. ops \in Seq(Edit) /\ built \in Message /\ built.ups = Made(ops)
  <2> HIDE DEF msg
  <2>1. BuildUpdate(ops, c.records).ups = Made(ops)
    BY DEF BuildUpdate, Made
  <2> QED
    BY <1>2, <2>1, DraftIs
<1> HIDE DEF msg, built, ops
<1>4. /\ Shaped(j) /\ j.at = "sent" /\ j.kind = "draft" /\ j.msg = built /\ j.edits = ops /\ j.draft = msg
      /\ j.seen = {} /\ j.todo = <<>> /\ j.then = <<>> /\ j.data = {} /\ j.rcode = "none"
      /\ j.base = 0 /\ j.target = 0
  BY DEF Sent, NoJob, Shaped
<1> HIDE DEF j
<1>5. CopyOK(c) /\ c.records \in SUBSET Records /\ history \in Seq(Contents)
  BY RefreshedOK DEF CopyOK, Sound
<1>6. SourceOK(j)
  BY <1>2, <1>3, <1>4 DEF SourceOK, ops
<1>7. SoundJob(j, history)
  BY <1>3, <1>4, <1>5, <1>6, SentSound
<1> QED
  BY <1>1, <1>5, <1>7, Settles

\* An nsupdate or a PTR request begins.
LEMMA SeveralSound ==
    ASSUME Sound, NEW q \in Request, NEW c \in Found(copy),
           \/ \E script \in Scripts : ExecuteNsupdate(q, script, c)
           \/ \E mode \in Mode, ips \in IpLists, r \in Record : CreateReversePtr(q, mode, ips, r, c)
    PROVE  Sound'
<1>1. CopyOK(c) /\ c.records \in SUBSET Records /\ history \in Seq(Contents)
  BY RefreshedOK DEF CopyOK, Sound
<1>2. ASSUME NEW kind \in Kind, NEW todo, NEW data \in SUBSET Record, TodoOK(kind, todo, data),
             NEW k \in Proceed(Fresh(kind, todo, data), c.records), Begin(q, c, k)
      PROVE  Sound'
  <2>1. SoundJob(k, history)
    BY <1>1, <1>2, ProceedSound
  <2>2. job' = [job EXCEPT ![q] = k] /\ copy' = c /\ UNCHANGED history
    BY <1>2 DEF Begin
  <2> QED
    BY <1>1, <2>1, <2>2, Settles
<1>3. ASSUME NEW script \in Scripts, ExecuteNsupdate(q, script, c) PROVE Sound'
  <2>1. [NoJob EXCEPT !.kind = "nsupdate", !.todo = script] = Fresh("nsupdate", script, {})
    <3> DEFINE f == [NoJob EXCEPT !.kind = "nsupdate", !.todo = script]
    <3>1. Shaped(f) /\ f.data = {}
      BY DEF NoJob, Shaped
    <3> HIDE DEF f
    <3>2. f = [f EXCEPT !.data = {}]
      BY <3>1 DEF Shaped
    <3> QED
      BY <3>2 DEF f, Fresh
  <2>2. "nsupdate" \in Kind /\ TodoOK("nsupdate", script, {})
    BY WritesAssumption DEF Kind, TodoOK, Mode
  <2>3. PICK k \in Proceed(Fresh("nsupdate", script, {}), c.records) : Begin(q, c, k)
    BY <1>3, <2>1 DEF ExecuteNsupdate
  <2> QED
    BY <1>2, <2>2, <2>3
<1>4. ASSUME NEW mode \in Mode, NEW ips \in IpLists, NEW r \in Record, CreateReversePtr(q, mode, ips, r, c)
      PROVE  Sound'
  <2>1. mode \in Kind /\ TodoOK(mode, ips, {r}) /\ {r} \in SUBSET Record
    <3>1. ips \in Seq(PtrName)
      BY WritesAssumption DEF PtrName
    <3>2. mode # "nsupdate" /\ mode \in Kind
      BY DEF Mode, Kind
    <3> QED
      BY <3>1, <3>2 DEF TodoOK
  <2>2. PICK k \in Proceed(Fresh(mode, ips, {r}), c.records) : Begin(q, c, k)
    BY <1>4 DEF CreateReversePtr, Fresh
  <2> QED
    BY <1>2, <2>1, <2>2
<1> QED
  BY <1>3, <1>4

\* A rollback begins: its message undoes the changes since the target.
LEMMA RollbackSound ==
    ASSUME Sound, NEW q \in Request, NEW target \in 1 .. Current - 1, Rollback(q, target)
    PROVE  Sound'
<1> DEFINE ups == ReverseChanges(history, target, Current)
           msg == [pre |-> {}, ups |-> ups]
           j == [Sent("rollback", msg) EXCEPT !.base = Current, !.target = target]
<1>1. job' = [job EXCEPT ![q] = j] /\ UNCHANGED <<history, copy>> /\ ups # <<>>
  BY DEF Rollback
<1>2. target \in Nat /\ Current \in Nat /\ target < Current /\ 1 <= target
  BY HistoryIs
<1>3. ups \in Seq(Update) /\ Free(Run(history[Current], ups)) = Free(history[target])
  <2>1. \A i \in target .. Current : history[i] \in Contents
    BY <1>2, HistoryIs
  <2> QED
    BY <1>2, <2>1, ReverseWorks
<1>4. msg \in Message
  <2>1. {} \in SUBSET Prerequisite
    OBVIOUS
  <2> HIDE DEF ups
  <2> QED
    BY <1>1, <1>3, <2>1, MessageIs
<1>5. msg.ups = ups
  OBVIOUS
<1> HIDE DEF msg, ups
<1>6. /\ Shaped(j) /\ j.at = "sent" /\ j.kind = "rollback" /\ j.msg = msg /\ j.edits = <<>>
      /\ j.seen = {} /\ j.todo = <<>> /\ j.then = <<>> /\ j.data = {} /\ j.rcode = "none"
      /\ j.base = Current /\ j.target = target
  BY DEF Sent, NoJob, Shaped
<1> HIDE DEF j
<1>7. JobTyped(j)
  <2>1. /\ <<>> \in Seq(Message) /\ <<>> \in Seq(Edit) /\ <<>> \in Seq(PtrName)
        /\ "rollback" \in Kind /\ "rollback" \notin Mode
    BY EmptySeq DEF Kind, Mode
  <2> QED
    BY <1>2, <1>4, <1>6, <2>1 DEF JobTyped, Shaped, TodoOK
<1>8. SoundJob(j, history)
  <2>1. RollbackOK(j, history)
    BY <1>2, <1>3, <1>5, <1>6 DEF RollbackOK, Current
  <2>2. PtrOK(j) /\ SourceOK(j)
    BY <1>6 DEF PtrOK, SourceOK, Mode
  <2> QED
    BY <1>7, <2>1, <2>2 DEF SoundJob
<1>9. CopyOK(copy')
  BY <1>1 DEF Sound
<1> QED
  BY <1>1, <1>8, <1>9, Settles
--------------------------------------------------------------------------------
(* The server, the answers, and the theorems of the invariant *)

\* The result of a message is a zone a server can hold.
LEMMA ResultIn ==
    ASSUME NEW zone \in Contents, NEW msg \in Message
    PROVE  Result(zone, msg) \in Contents /\ Result(zone, msg) = Run(zone, msg.ups)
<1>1. msg.ups \in Seq(Update) /\ <<>> \in Seq(Update)
  BY EmptySeq DEF Message
<1>2. Run(zone, msg.ups) \in Contents
  BY <1>1, RunConcat
<1> QED
  BY <1>2, ResultRuns

\* The server's zone after it was written.
LEMMA ZoneIs ==
    ASSUME Sound, NEW zone, Written(zone)
    PROVE  Zone' = zone
<1>1. history \in Seq(Contents) /\ Len(history) \in Nat
  BY LenProperties DEF Sound
<1>2. Len(Append(history, zone)) = Len(history) + 1 /\ Append(history, zone)[Len(history) + 1] = zone
  BY <1>1
<1> QED
  BY <1>2 DEF Written, Zone

\* An answer changes nothing else of a job.
LEMMA AnsweredSound ==
    ASSUME Sound, NEW q \in Request, job[q].at # "idle", NEW rcode \in {"noerror", "prereq"},
           Answered(q, rcode)
    PROVE  \E j : job' = [job EXCEPT ![q] = j] /\ SoundJob(j, history)
<1> DEFINE j == [job[q] EXCEPT !.at = "answered", !.rcode = rcode]
<1>1. SoundJob(job[q], history) /\ job' = [job EXCEPT ![q] = j]
  BY DEF Sound, Answered
<1>2. JobTyped(job[q])
  BY <1>1 DEF SoundJob
<1>3. /\ j \in [at : {"idle", "sent", "answered"}, kind : Kind, msg : Message \cup {NoMessage},
              then : Seq(Message), edits : Seq(Edit), todo : Seq(Message) \cup Seq(PtrName),
              data : SUBSET Record, rcode : {"none", "noerror", "prereq"},
              seen : SUBSET Records, draft : {j.draft}, base : Nat, target : Nat]
      /\ j.at = "answered" /\ j.rcode = rcode /\ j.kind = job[q].kind /\ j.msg = job[q].msg
      /\ j.then = job[q].then /\ j.edits = job[q].edits /\ j.draft = job[q].draft /\ j.todo = job[q].todo /\ j.data = job[q].data
      /\ j.seen = job[q].seen /\ j.base = job[q].base /\ j.target = job[q].target
  BY <1>2 DEF JobTyped
<1> HIDE DEF j
<1>4. JobTyped(j)
  BY <1>2, <1>3 DEF JobTyped
<1>5. PtrOK(j) /\ RollbackOK(j, history)
  BY <1>1, <1>3 DEF SoundJob, PtrOK, RollbackOK
<1>6. SourceOK(j)
  BY <1>1, <1>2, <1>3 DEF SoundJob, SourceOK, JobTyped
<1> QED
  BY <1>1, <1>4, <1>5, <1>6 DEF SoundJob

\* The server carries a message out or refuses it.
LEMMA ServerSound ==
    ASSUME Sound, NEW q \in Request, Execute(q) \/ Refuse(q)
    PROVE  Sound'
<1>1. PICK rcode \in {"noerror", "prereq"} : job[q].at # "idle" /\ Answered(q, rcode)
  BY DEF Execute, Refuse
<1>2. PICK j : job' = [job EXCEPT ![q] = j] /\ SoundJob(j, history)
  BY <1>1, AnsweredSound
<1>3. CASE Execute(q)
  <2> DEFINE zone == Result(Zone, job[q].msg)
  <2>1. (zone # Zone => Current < MaxSerial) /\ Written(zone) /\ UNCHANGED copy
    BY <1>3 DEF Execute
  <2>2. zone \in Contents
    <3>1. job[q].msg \in Message
      BY <1>1 DEF Sound, SoundJob, JobTyped
    <3> QED
      BY <3>1, HistoryIs, ResultIn
  <2>3. job' = [p \in Request |-> job'[p]] /\ \A p \in Request : SoundJob(job'[p], history)
    BY <1>2 DEF Sound
  <2> HIDE DEF zone
  <2> QED
    BY <2>1, <2>2, <2>3, WrittenSound
<1>4. CASE Refuse(q)
  <2>1. UNCHANGED <<history, copy>>
    BY <1>4 DEF Refuse
  <2>2. CopyOK(copy')
    BY <2>1 DEF Sound
  <2> QED
    BY <1>2, <2>1, <2>2, Settles
<1> QED
  BY <1>3, <1>4

\* A request goes on after an answer.
LEMMA GoOnSound ==
    ASSUME Sound, NEW q \in Request, NEW c, CopyOK(c), copy' = c, GoOn(q, c), UNCHANGED history
    PROVE  Sound'
<1> DEFINE kind == job[q].kind
           todo == job[q].todo
           data == job[q].data
<1>1. JobTyped(job[q]) /\ history \in Seq(Contents) /\ c.records \in SUBSET Records
  BY DEF Sound, SoundJob, CopyOK
<1>2. kind \in Kind /\ data \in SUBSET Record /\ TodoOK(kind, todo, data)
  BY <1>1 DEF JobTyped
<1>3. PICK k \in Proceed(Fresh(kind, todo, data), c.records) : job' = [job EXCEPT ![q] = k]
  BY DEF GoOn, Fresh
<1> HIDE DEF kind, todo, data
<1>4. SoundJob(k, history)
  BY <1>1, <1>2, <1>3, ProceedSound
<1> QED
  BY <1>3, <1>4, Settles

\* The second message of a PTR's replacement: only that job has one.
LEMMA ResentSound ==
    ASSUME NEW h, NEW j, SoundJob(j, h), j.at = "answered", j.then # <<>>
    PROVE  SoundJob(Resent(j), h)
<1> DEFINE k == Resent(j)
<1>1. JobTyped(j)
  BY DEF SoundJob
<1>2. j.then[1] \in Message /\ <<>> \in Seq(Message)
  <2>1. j.then \in Seq(Message)
    BY <1>1 DEF JobTyped
  <2>2. 1 \in 1 .. Len(j.then)
    BY <2>1, EmptySeq
  <2> QED
    BY <2>1, <2>2, ElementOfSeq, EmptySeq
<1>3. /\ k \in [at : {"idle", "sent", "answered"}, kind : Kind, msg : Message \cup {NoMessage},
              then : Seq(Message), edits : Seq(Edit), todo : Seq(Message) \cup Seq(PtrName),
              data : SUBSET Record, rcode : {"none", "noerror", "prereq"},
              seen : SUBSET Records, draft : {k.draft}, base : Nat, target : Nat]
      /\ k.at = "sent" /\ k.rcode = "none" /\ k.kind = j.kind /\ k.msg = j.then[1]
      /\ k.todo = j.todo /\ k.data = j.data
      /\ k.seen = j.seen /\ k.base = j.base /\ k.target = j.target
  BY <1>1, <1>2 DEF JobTyped, Resent
<1> HIDE DEF k
<1>4. JobTyped(k)
  BY <1>1, <1>2, <1>3 DEF JobTyped
<1>5. PtrOK(k) /\ RollbackOK(k, h) /\ SourceOK(k)
  BY <1>3 DEF SoundJob, PtrOK, RollbackOK, SourceOK
<1> QED
  BY <1>4, <1>5 DEF SoundJob, k

\* A request handles its answer, or goes on without one.
LEMMA AnswerSound ==
    ASSUME Sound, NEW q \in Request, Succeeded(q) \/ Rejected(q) \/ Fail(q)
    PROVE  Sound'
<1>1. SoundJob(job[q], history) /\ CopyOK(copy)
  BY DEF Sound
<1>2. CASE Succeeded(q) /\ job[q].then # <<>>
  <2>1. job' = [job EXCEPT ![q] = Resent(job[q])] /\ UNCHANGED <<copy, history>> /\ job[q].at = "answered"
    BY <1>2 DEF Succeeded
  <2>2. SoundJob(Resent(job[q]), history)
    BY <1>1, <1>2, <2>1, ResentSound
  <2>3. CopyOK(copy')
    BY <1>1, <2>1
  <2> QED
    BY <2>1, <2>2, <2>3, Settles
<1>3. CASE Succeeded(q) /\ job[q].then = <<>>
  <2>1. PICK c \in CASE job[q].kind = "nsupdate" -> {copy}
                     [] job[q].kind = "rollback" -> Refreshed(copy)
                     [] OTHER -> Edited(copy, job[q].edits) :
            copy' = c /\ GoOn(q, c)
    BY <1>3 DEF Succeeded
  <2>2. job[q].edits \in Seq(Edit)
    BY <1>1 DEF SoundJob, JobTyped
  <2>3. CopyOK(c)
    <3>1. c = copy \/ c \in Refreshed(copy) \/ c \in Edited(copy, job[q].edits)
      BY <2>1
    <3> QED
      BY <1>1, <2>2, <3>1, RefreshedOK, EditedOK
  <2> QED
    BY <1>3, <2>1, <2>3, GoOnSound DEF Succeeded
<1>4. CASE Rejected(q)
  <2>1. PICK c : (c = copy \/ c \in Refreshed(copy)) /\ copy' = c /\ GoOn(q, c)
    BY <1>4 DEF Rejected
  <2>2. CopyOK(c)
    BY <1>1, <2>1, RefreshedOK
  <2> QED
    BY <1>4, <2>1, <2>2, GoOnSound DEF Rejected
<1>5. CASE Fail(q)
  <2>1. GoOn(q, copy) /\ UNCHANGED <<history, copy>>
    BY <1>5 DEF Fail
  <2> QED
    BY <1>1, <2>1, GoOnSound
<1> QED
  BY <1>2, <1>3, <1>4, <1>5

\* The invariant holds at first,
LEMMA InitSound == Init => Sound
<1> SUFFICES ASSUME Init PROVE Sound
  OBVIOUS
<1>1. PICK zone \in Start : history = <<zone>>
  BY DEF Init
<1>2. zone \in Contents
  BY WritesAssumption
<1>3. history \in Seq(Contents) /\ Current = 1
  BY <1>1, <1>2 DEF Current
<1>4. CopyOK(copy)
  BY <1>3 DEF Init, CopyOK, NoCopy
<1>5. 1 \in 1 .. MaxSerial
  BY WritesAssumption
<1> QED
  BY <1>3, <1>4, <1>5, NoJobSound DEF Init, Sound

\* and every step keeps it.
LEMMA NextSound == Sound /\ [Next]_vars => Sound'
<1> SUFFICES ASSUME Sound, [Next]_vars PROVE Sound'
  OBVIOUS
<1>1. ASSUME NEW q \in Request, RequestStep(q) PROVE Sound'
  BY <1>1, OneOperationSound, AtomicSound, SeveralSound, DraftSound, RollbackSound, ServerSound, AnswerSound
     DEF RequestStep
<1>2. ASSUME NEW rr \in Records,
             Other(AddRRs(rr[1], rr[2], {rr[3]})) \/ Other(DeleteRRs(rr[1], rr[2], {rr[3]}))
      PROVE  Sound'
  <2>1. PICK u \in Update : Other(u)
    <3>1. AddRRs(rr[1], rr[2], {rr[3]}) = Single("add", rr) /\ DeleteRRs(rr[1], rr[2], {rr[3]}) = Single("remove", rr)
      BY DEF AddRRs, DeleteRRs, Single
    <3> QED
      BY <1>2, <3>1, SingleIs
  <2> DEFINE zone == Carried(Zone, u)
  <2>2. Current < MaxSerial /\ Written(zone) /\ UNCHANGED <<copy, job>>
    BY <2>1 DEF Other
  <2>3. zone \in Contents
    BY HistoryIs, CarriedKeeps
  <2>4. job' = [p \in Request |-> job'[p]] /\ \A p \in Request : SoundJob(job'[p], history)
    BY <2>2 DEF Sound
  <2> HIDE DEF zone
  <2> QED
    BY <2>2, <2>3, <2>4, WrittenSound
<1>3. CASE Reload
  <2>1. UNCHANGED <<history, job>> /\ CopyOK(copy')
    <3>1. CopyOK(NoCopy)
      BY HistoryIs DEF NoCopy, CopyOK
    <3> QED
      BY <1>3, <3>1, RefreshedOK DEF Reload
  <2> QED
    BY <2>1 DEF Sound, CopyOK, Current
<1>4. CASE UNCHANGED vars
  BY <1>4 DEF vars, Sound, CopyOK, Current
<1> QED
  BY <1>1, <1>2, <1>3, <1>4 DEF Next

\* Every job, the cache and the server's history stay what TypeOK says, for any zone,
\* operations, scripts and number of requests.
THEOREM WritesTypeCorrect == Spec => []TypeOK
<1>1. Sound => TypeOK
  <2> SUFFICES ASSUME Sound PROVE TypeOK
    OBVIOUS
  <2>1. Current \in 1 .. MaxSerial /\ \A i \in DOMAIN history : history[i] \in Contents
    BY HistoryIs DEF Sound
  <2>2. copy.serial \in 0 .. Current /\ copy.records \subseteq Records
    BY DEF Sound, CopyOK
  <2>3. ASSUME NEW q \in Request
        PROVE  /\ job[q].at \in {"idle", "sent", "answered"} /\ job[q].kind \in Kind
               /\ job[q].at = "idle" => job[q] = NoJob
               /\ job[q].at # "idle" => job[q].msg \in Message
               /\ job[q].rcode \in {"none", "noerror", "prereq"}
               /\ job[q].at = "answered" <=> job[q].rcode # "none"
               /\ job[q].target <= job[q].base /\ job[q].base <= Current
    <3>1. JobTyped(job[q]) /\ RollbackOK(job[q], history)
      BY DEF Sound, SoundJob
    <3>2. job[q].target <= job[q].base /\ job[q].base <= Current
      BY <3>1 DEF RollbackOK, Current
    <3> QED
      BY <3>1, <3>2 DEF JobTyped
  <2> QED
    BY <2>1, <2>2, <2>3 DEF TypeOK
<1> QED
  BY <1>1, InitSound, NextSound, PTL DEF Spec

\* The PTR request's prerequisite, that no PTR RRset exists, keeps every existing one, even
\* when the cache knew of none.
THEOREM ExistingPtrKeptAlways == Spec => ExistingPtrKept
<1>1. ASSUME Sound, NEW q \in Request, Execute(q), job[q].kind \in Mode,
             \/ job[q].kind = "skip_existing"
             \/ \A n \in Name : RRsetOf(job[q].seen, n, PTR) = {},
             NEW m \in Name, RRsetOf(Zone, m, PTR) # {}
      PROVE  RRsetOf(Zone', m, PTR) = RRsetOf(Zone, m, PTR)
  <2>1. SoundJob(job[q], history) /\ job[q].at = "sent"
    BY <1>1 DEF Sound, Execute
  <2> DEFINE o(n) == Operation("add", n, PTR, job[q].data)
  <2>2. PICK n \in Name : job[q].msg = PrepareAdd(o(n))
    BY <1>1, <2>1 DEF SoundJob, PtrOK
  <2> DEFINE u == AddRRs(n, PTR, job[q].data)
  <2>3. PTR # CNAME /\ PTR \in Type
    BY WritesAssumption
  <2>4. NxRRset(n, PTR) \in job[q].msg.pre /\ job[q].msg.ups = <<u>>
    BY <2>2, <2>3 DEF PrepareAdd, Operation
  <2>5. job[q].msg \in Message
    BY <2>1 DEF SoundJob, JobTyped
  <2> HIDE DEF u
  <2>6. u \in Update
    <3>1. <<u>> \in Seq(Update)
      BY <2>4, <2>5 DEF Message
    <3> QED
      BY <3>1, ElementOfSeq
  <2>7. Zone' = Carried(Zone, u)
    <3>1. Zone' = Result(Zone, job[q].msg)
      BY <1>1, ZoneIs DEF Execute
    <3>2. Zone \in Contents
      BY <1>1, HistoryIs
    <3>3. Zone' = Run(Zone, job[q].msg.ups)
      BY <2>5, <3>1, <3>2, ResultIn
    <3>4. Run(Zone, <<u>>) = Carried(Zone, u)
      BY <2>6, <3>2, RunFew
    <3> QED
      BY <2>4, <3>3, <3>4
  <2>8. m # n
    <3>1. Holds(NxRRset(n, PTR), Zone)
      BY <1>1, <2>4 DEF Execute, Accepts
    <3>2. RRsetOf(Zone, n, PTR) = {}
      BY <3>1 DEF Holds, NxRRset
    <3> QED
      BY <1>1, <3>2
  <2>9. \A r \in Record : <<m, PTR, r>> \in Carried(Zone, u) <=> <<m, PTR, r>> \in Zone
    BY <2>3, <2>8 DEF Carried, RRs, u, AddRRs
  <2> QED
    BY <2>7, <2>9 DEF RRsetOf
<1>2. Sound /\ [Next]_vars =>
        [\A q \in Request :
            /\ Execute(q) /\ job[q].kind \in Mode
            /\ \/ job[q].kind = "skip_existing"
               \/ \A n \in Name : RRsetOf(job[q].seen, n, PTR) = {}
            => \A n \in Name : RRsetOf(Zone, n, PTR) # {} =>
                   RRsetOf(Zone', n, PTR) = RRsetOf(Zone, n, PTR)]_vars
  BY <1>1
<1> QED
  BY <1>2, InitSound, NextSound, PTL DEF Spec, ExistingPtrKept

\* A rollback that nothing came before restores every RRset that is not protected.
THEOREM RollbackRestoresAlways == Spec => RollbackRestores
<1>1. ASSUME Sound, NEW q \in Request, Execute(q), job[q].kind = "rollback", Current = job[q].base,
             NEW x \in Owner \ Protected
      PROVE  RRsetOf(Zone', x[1], x[2]) = RRsetOf(history[job[q].target], x[1], x[2])
  <2>1. SoundJob(job[q], history) /\ job[q].at = "sent"
    BY <1>1 DEF Sound, Execute
  <2>2. job[q].msg \in Message
    BY <2>1 DEF SoundJob, JobTyped
  <2>3. Zone' = Run(Zone, job[q].msg.ups)
    <3>1. Zone' = Result(Zone, job[q].msg)
      BY <1>1, ZoneIs DEF Execute
    <3> QED
      BY <1>1, <2>2, <3>1, HistoryIs, ResultIn
  <2>4. Free(Zone') = Free(history[job[q].target])
    BY <1>1, <2>1, <2>3 DEF SoundJob, RollbackOK, Zone, Current
  <2>5. x = <<x[1], x[2]>>
    BY DEF Owner
  <2>6. \A zone, r : <<x[1], x[2], r>> \in zone <=> <<x[1], x[2], r>> \in Free(zone)
    BY <1>1, <2>5 DEF Free
  <2> QED
    BY <2>4, <2>6 DEF RRsetOf
<1>2. Sound /\ [Next]_vars =>
        [\A q \in Request :
            Execute(q) /\ job[q].kind = "rollback" /\ Current = job[q].base =>
                \A x \in Owner \ Protected :
                    RRsetOf(Zone', x[1], x[2]) = RRsetOf(history[job[q].target], x[1], x[2])]_vars
  BY <1>1
<1> QED
  BY <1>2, InitSound, NextSound, PTL DEF Spec, RollbackRestores
--------------------------------------------------------------------------------
(* What is seen is what is met, and what is cached is what was done *)

\* An accepted message meets the RRsets it vouches for.
LEMMA VouchedHolds ==
    ASSUME NEW msg, NEW zone, Accepts(zone, msg), NEW n, NEW t, NEW data, Vouched(msg.pre, n, t, data)
    PROVE  RRsetOf(zone, n, t) = data
<1>1. \A p \in msg.pre : Holds(p, zone)
  BY DEF Accepts
<1>2. CASE Exact(n, t, data) \in msg.pre
  <2>1. Holds(Exact(n, t, data), zone)
    BY <1>1, <1>2
  <2> QED
    BY <2>1 DEF Holds, Exact
<1>3. CASE data = {} /\ NxRRset(n, t) \in msg.pre
  <2>1. Holds(NxRRset(n, t), zone)
    BY <1>1, <1>3
  <2> QED
    BY <1>3, <2>1 DEF Holds, NxRRset
<1>4. CASE data = {} /\ t \in Type /\ NxDomain(n) \in msg.pre
  <2>1. Holds(NxDomain(n), zone)
    BY <1>1, <1>4
  <2>2. TypesAt(zone, n) = {}
    BY <2>1 DEF Holds, NxDomain
  <2> QED
    BY <1>4, <2>2 DEF TypesAt
<1> QED
  BY <1>2, <1>3, <1>4 DEF Vouched

\* The message for one RRset vouches for it, and makes the updates of its operation.
LEMMA OneMadeIs ==
    ASSUME NEW o \in Edit, NEW view, NEW msg, OneMade(o, view, msg)
    PROVE  /\ Vouched(msg.pre, o.name, o.type, RRsetOf(view, o.name, o.type))
           /\ msg.ups = UpdatesOf(o)
           /\ o.action = "add" => /\ RRsetOf(view, o.name, o.type) = {}
                                  /\ o.type = CNAME => NxDomain(o.name) \in msg.pre
                                  /\ o.type # CNAME => NxRRset(o.name, CNAME) \in msg.pre
           /\ o.action # "add" => RRsetOf(view, o.name, o.type) # {}
<1> DEFINE there == RRsetOf(view, o.name, o.type)
<1>1. CASE o.action = "add" /\ there = {} /\ msg = PrepareAdd(o)
  <2>1. msg.ups = UpdatesOf(o)
    BY <1>1 DEF PrepareAdd, UpdatesOf
  <2>2. CASE o.type = CNAME
    <3>1. NxDomain(o.name) \in msg.pre
      BY <1>1, <2>2 DEF PrepareAdd
    <3> HIDE DEF there
    <3>2. Vouched(msg.pre, o.name, o.type, there)
      BY <1>1, <2>2, <3>1, UpdateAssumption DEF Vouched
    <3> QED
      BY <1>1, <2>1, <2>2, <3>1, <3>2 DEF there
  <2>3. CASE o.type # CNAME
    <3>1. NxRRset(o.name, o.type) \in msg.pre /\ NxRRset(o.name, CNAME) \in msg.pre
      BY <1>1, <2>3 DEF PrepareAdd
    <3> HIDE DEF there
    <3>2. Vouched(msg.pre, o.name, o.type, there)
      BY <1>1, <3>1 DEF Vouched
    <3> QED
      BY <1>1, <2>1, <2>3, <3>1, <3>2 DEF there
  <2> QED
    BY <2>2, <2>3
<1>2. CASE o.action = "delete" /\ there # {} /\ msg = PrepareDelete(o, there)
  <2>1. msg.ups = UpdatesOf(o) /\ Expecting(o.name, o.type, there) \in msg.pre
    BY <1>2 DEF PrepareDelete, UpdatesOf
  <2>2. Vouched(msg.pre, o.name, o.type, there)
    BY <1>2, <2>1, ExpectingVouches
  <2> QED
    BY <1>2, <2>1, <2>2
<1>3. CASE o.action = "replace" /\ there # {} /\ msg = PrepareReplace(o, there)
  <2>1. msg.ups = UpdatesOf(o) /\ Expecting(o.name, o.type, there) \in msg.pre
    BY <1>3 DEF PrepareReplace, UpdatesOf
  <2>2. Vouched(msg.pre, o.name, o.type, there)
    BY <1>3, <2>1, ExpectingVouches
  <2> QED
    BY <1>3, <2>1, <2>2
<1> QED
  BY <1>1, <1>2, <1>3 DEF OneMade

\* The message of several vouches for each of their RRsets.
LEMMA BuiltVouches ==
    ASSUME NEW ops, NEW view, ~BuildError(ops, view), NEW i \in DOMAIN ops
    PROVE  /\ Vouched(BuildUpdate(ops, view).pre, ops[i].name, ops[i].type,
                      RRsetOf(view, ops[i].name, ops[i].type))
           /\ ops[i].action = "add" <=> RRsetOf(view, ops[i].name, ops[i].type) = {}
           /\ ops[i].action = "add" /\ (\A k \in DOMAIN ops : ops[k].type # CNAME) =>
                 NxRRset(ops[i].name, CNAME) \in BuildUpdate(ops, view).pre
<1> DEFINE there == RRsetOf(view, ops[i].name, ops[i].type)
           pre == AutoPrerequisites(ops[i], view, ops)
           all == BuildUpdate(ops, view).pre
<1>1. (ops[i].action = "add") <=> there = {}
  BY DEF BuildError
<1>2. pre \subseteq all
  BY DEF BuildUpdate
<1>3. CASE ops[i].action = "add"
  <2>1. NxRRset(ops[i].name, ops[i].type) \in pre
    BY <1>3 DEF AutoPrerequisites
  <2>2. (\A k \in DOMAIN ops : ops[k].type # CNAME) => NxRRset(ops[i].name, CNAME) \in pre
    BY <1>3 DEF AutoPrerequisites
  <2> HIDE DEF pre, there, all
  <2>3. Vouched(all, ops[i].name, ops[i].type, there)
    BY <1>1, <1>2, <1>3, <2>1 DEF Vouched
  <2> QED
    BY <1>1, <1>2, <1>3, <2>2, <2>3 DEF there, all
<1>4. CASE ops[i].action # "add"
  <2>1. Expecting(ops[i].name, ops[i].type, there) \in pre
    BY <1>4 DEF AutoPrerequisites
  <2> HIDE DEF pre, all
  <2>2. Vouched(all, ops[i].name, ops[i].type, there)
    BY <1>1, <1>2, <1>4, <2>1, ExpectingVouches
  <2> QED
    BY <1>1, <1>4, <2>2 DEF there, all
<1> QED
  BY <1>3, <1>4

\* A request of one message meets the RRsets it names as it saw them.
LEMMA NamedAsSeen ==
    ASSUME Sound, NEW q \in Request, Execute(q), job[q].kind \in {"rrset", "atomic"}, NEW x \in Named(q)
    PROVE  RRsetOf(Zone, x[1], x[2]) = RRsetOf(job[q].seen, x[1], x[2])
<1>1. SourceOK(job[q]) /\ job[q].at = "sent" /\ Accepts(Zone, job[q].msg)
  BY DEF Sound, SoundJob, Execute
<1>2. PICK i \in DOMAIN job[q].edits : x = <<job[q].edits[i].name, job[q].edits[i].type>>
  BY DEF Named
<1>3. Vouched(job[q].msg.pre, x[1], x[2], RRsetOf(job[q].seen, x[1], x[2]))
  <2>1. CASE job[q].kind = "rrset"
    <3>1. PICK o \in Edit : job[q].edits = <<o>> /\ OneMade(o, job[q].seen, job[q].msg)
      BY <1>1, <2>1 DEF SourceOK
    <3>2. x[1] = o.name /\ x[2] = o.type
      BY <1>2, <3>1
    <3> QED
      BY <3>1, <3>2, OneMadeIs
  <2>2. CASE job[q].kind = "atomic"
    <3>1. job[q].msg = BuildUpdate(job[q].edits, job[q].seen) /\ ~BuildError(job[q].edits, job[q].seen)
      BY <1>1, <2>2 DEF SourceOK
    <3> QED
      BY <1>2, <3>1, BuiltVouches
  <2> QED
    BY <2>1, <2>2
<1> QED
  BY <1>1, <1>3, VouchedHolds

\* What the server makes of a request's message.
LEMMA Carries ==
    ASSUME Sound, NEW q \in Request, Execute(q)
    PROVE  /\ Zone \in Contents /\ Zone' = Run(Zone, job[q].msg.ups) /\ job[q].msg \in Message
           /\ job[q].seen \in SUBSET Records /\ job[q].edits \in Seq(Edit)
<1>1. JobTyped(job[q]) /\ job[q].at = "sent"
  BY DEF Sound, SoundJob, Execute
<1>2. job[q].msg \in Message /\ job[q].seen \in SUBSET Records /\ job[q].edits \in Seq(Edit)
  BY <1>1 DEF JobTyped
<1>3. Zone' = Result(Zone, job[q].msg)
  BY ZoneIs DEF Execute
<1> QED
  BY <1>2, <1>3, HistoryIs, ResultIn

\* One operation in the cache.
LEMMA CachedOne ==
    ASSUME NEW view \in SUBSET Records, NEW o \in Edit, NEW ops, ops = <<o>>
    PROVE  FoldLeft(Cached, view, ops) = Cached(view, o)
<1>1. ops \in Seq(Edit) /\ Len(ops) = 1 /\ ops[1] = o
  OBVIOUS
<1>2. PICK c : Edits(c, view, ops) /\ FoldLeft(Cached, view, ops) = c[Len(ops)]
  BY <1>1, CachedIs
<1> QED
  BY <1>1, <1>2 DEF Edits

\* What is at a name is its RRsets.
LEMMA AtName ==
    ASSUME NEW zone \in Contents, NEW x \in zone
    PROVE  x[3] \in RRsetOf(zone, x[1], x[2]) /\ x[2] \in TypesAt(zone, x[1])
<1>1. x = <<x[1], x[2], x[3]>> /\ x[2] \in Type /\ x[3] \in Record
  BY RecordIs DEF Contents
<1>2. x[3] \in RRsetOf(zone, x[1], x[2])
  BY <1>1 DEF RRsetOf
<1> QED
  BY <1>1, <1>2 DEF TypesAt

\* One operation does on the server what the cache makes of it.
LEMMA OneEdited ==
    ASSUME Sound, NEW q \in Request, Execute(q), job[q].kind = "rrset",
           NEW o \in Edit, job[q].edits = <<o>>, OneMade(o, job[q].seen, job[q].msg),
           ~(o.listed /\ o.data = {}), Lawful(job[q].seen, o)
    PROVE  RRsetOf(FoldLeft(Cached, job[q].seen, job[q].edits), o.name, o.type) = RRsetOf(Zone', o.name, o.type)
<1> DEFINE view == job[q].seen
           msg == job[q].msg
<1>1. Zone \in Contents /\ Zone' = Run(Zone, msg.ups) /\ view \in SUBSET Records /\ Accepts(Zone, msg)
  BY Carries DEF Execute
<1>2. FoldLeft(Cached, view, job[q].edits) = Cached(view, o)
  BY <1>1, CachedOne
<1> HIDE DEF view, msg
<1>3. OneMade(o, view, msg) /\ Lawful(view, o)
  BY DEF view, msg
<1>4. RRsetOf(Zone, o.name, o.type) = RRsetOf(view, o.name, o.type)
  BY <1>1, <1>3, OneMadeIs, VouchedHolds
<1>5. Addable(Zone, o)
  <2> SUFFICES ASSUME o.action # "delete", NEW x \in Zone, x[1] = o.name PROVE x[2] = CNAME <=> o.type = CNAME
    BY DEF Addable
  <2>1. x[3] \in RRsetOf(Zone, o.name, x[2]) /\ x[2] \in TypesAt(Zone, o.name)
    BY <1>1, AtName
  <2>2. CASE o.action = "add" /\ o.type = CNAME
    <3>1. NxDomain(o.name) \in msg.pre
      BY <1>3, <2>2, OneMadeIs
    <3>2. Holds(NxDomain(o.name), Zone)
      BY <1>1, <3>1 DEF Accepts
    <3> QED
      BY <2>1, <3>2 DEF Holds, NxDomain
  <2>3. CASE o.action = "add" /\ o.type # CNAME
    <3>1. NxRRset(o.name, CNAME) \in msg.pre
      BY <1>3, <2>3, OneMadeIs
    <3>2. Holds(NxRRset(o.name, CNAME), Zone)
      BY <1>1, <3>1 DEF Accepts
    <3> QED
      BY <2>1, <2>3, <3>2 DEF Holds, NxRRset
  <2>4. CASE o.action # "add"
    <3>1. RRsetOf(Zone, o.name, o.type) # {}
      BY <1>3, <1>4, <2>4, OneMadeIs
    <3>2. o.type \in TypesAt(Zone, o.name)
      BY <3>1 DEF TypesAt, Edit
    <3>3. o.name \in Name
      BY DEF Edit
    <3> QED
      BY <1>1, <2>1, <3>2, <3>3 DEF Contents
  <2> QED
    BY <2>2, <2>3, <2>4
<1>6. o.action = "add" => RRsetOf(Zone, o.name, o.type) = {}
  BY <1>3, <1>4, OneMadeIs
<1>7. RRsetOf(Run(Zone, UpdatesOf(o)), o.name, o.type) = RRsetOf(Cached(view, o), o.name, o.type)
  BY <1>1, <1>3, <1>4, <1>5, <1>6, OneEffect
<1>8. msg.ups = UpdatesOf(o)
  BY <1>3, OneMadeIs
<1> QED
  BY <1>1, <1>2, <1>7, <1>8 DEF view

\* So do the operations of an atomic request.
LEMMA AllEdited ==
    ASSUME Sound, NEW q \in Request, Execute(q), job[q].kind = "atomic",
           ~CnameInBatch(q), ~AddsTwice(q), ~DeletesNone(q), ~KeepsApex(q), NEW i \in DOMAIN job[q].edits
    PROVE  RRsetOf(FoldLeft(Cached, job[q].seen, job[q].edits), job[q].edits[i].name, job[q].edits[i].type)
             = RRsetOf(Zone', job[q].edits[i].name, job[q].edits[i].type)
<1> DEFINE ops == job[q].edits
           view == job[q].seen
           msg == job[q].msg
<1>1. /\ Zone \in Contents /\ Zone' = Run(Zone, msg.ups) /\ Accepts(Zone, msg)
      /\ view \in SUBSET Records /\ ops \in Seq(Edit)
  BY Carries DEF Execute
<1>2. msg = BuildUpdate(ops, view) /\ ~BuildError(ops, view)
  BY DEF Sound, SoundJob, SourceOK, Execute
<1>3. \A k \in DOMAIN ops : ops[k].type # CNAME
  <2> SUFFICES ASSUME NEW k \in DOMAIN ops, ops[k].type = CNAME PROVE FALSE
    OBVIOUS
  <2>1. <<ops[k].name, ops[k].type>> \in Named(q)
    BY DEF Named
  <2>2. \E x \in Named(q) : x[2] = CNAME
    BY <2>1
  <2> QED
    BY <2>2 DEF CnameInBatch
<1>4. \A k \in DOMAIN ops : RRsetOf(Zone, ops[k].name, ops[k].type) = RRsetOf(view, ops[k].name, ops[k].type)
  <2> SUFFICES ASSUME NEW k \in DOMAIN ops
               PROVE  RRsetOf(Zone, ops[k].name, ops[k].type) = RRsetOf(view, ops[k].name, ops[k].type)
    OBVIOUS
  <2>1. <<ops[k].name, ops[k].type>> \in Named(q)
    BY DEF Named
  <2> QED
    BY <2>1, NamedAsSeen
<1>5. \A k \in DOMAIN ops : ~(ops[k].listed /\ ops[k].data = {})
  BY DEF DeletesNone
<1>6. \A k, m \in DOMAIN ops :
         k # m /\ ops[k].action = "add" /\ ops[k].name = ops[m].name /\ ops[k].type = ops[m].type
         => ops[m].action # "add"
  BY DEF AddsTwice
<1>12. \A k \in DOMAIN ops : <<ops[k].name, ops[k].type>> \in Protected =>
          /\ ops[k].action # "replace"
          /\ RRsetOf(FoldLeft(Cached, view, ops), ops[k].name, ops[k].type) # {}
  BY DEF KeepsApex
<1>7. i \in DOMAIN ops
  OBVIOUS
<1> HIDE DEF ops, view, msg
<1>8. ASSUME NEW k \in DOMAIN ops
      PROVE  /\ ops[k].action = "add" <=> RRsetOf(Zone, ops[k].name, ops[k].type) = {}
             /\ RRsetOf(Zone, ops[k].name, CNAME) = {}
  <2>1. ops[k].action = "add" <=> RRsetOf(Zone, ops[k].name, ops[k].type) = {}
    BY <1>2, <1>4, BuiltVouches
  <2>2. CASE ops[k].action = "add"
    <3>1. NxRRset(ops[k].name, CNAME) \in msg.pre
      BY <1>2, <1>3, <2>2, BuiltVouches
    <3>2. Holds(NxRRset(ops[k].name, CNAME), Zone)
      BY <1>1, <3>1 DEF Accepts
    <3> QED
      BY <2>1, <3>2 DEF Holds, NxRRset
  <2>3. CASE ops[k].action # "add"
    <3>1. ops[k].name \in Name /\ ops[k].type \in Type
      BY <1>1, ElementOfSeq, LenProperties DEF Edit
    <3>2. ops[k].type \in TypesAt(Zone, ops[k].name) /\ ops[k].type # CNAME
      BY <1>3, <2>1, <2>3, <3>1 DEF TypesAt
    <3>3. CNAME \notin TypesAt(Zone, ops[k].name)
      BY <1>1, <3>1, <3>2 DEF Contents
    <3> QED
      BY <2>1, <3>3, UpdateAssumption DEF TypesAt
  <2> QED
    BY <2>2, <2>3
<1>9. Fitting(ops, Zone, view)
  BY <1>3, <1>4, <1>5, <1>6, <1>8, <1>12 DEF Fitting
<1>10. RRsetOf(FoldLeft(Cached, view, ops), ops[i].name, ops[i].type)
         = RRsetOf(Run(Zone, Made(ops)), ops[i].name, ops[i].type)
  BY <1>1, <1>7, <1>9, EffectIs
<1>11. msg.ups = Made(ops)
  BY <1>2 DEF BuildUpdate, Made
<1> QED
  BY <1>1, <1>10, <1>11 DEF ops, view
--------------------------------------------------------------------------------
\* Whatever else goes on, an UPDATE of an RRset or atomic request that the server carries
\* out meets the RRsets it names as the request saw them.
THEOREM NoLostUpdateAlways == Spec => NoLostUpdate
<1>1. Sound /\ [Next]_vars =>
        [\A q \in Request :
            Execute(q) /\ job[q].kind \in {"rrset", "atomic"} =>
                \A x \in Named(q) :
                    RRsetOf(Zone, x[1], x[2]) = RRsetOf(job[q].seen, x[1], x[2])]_vars
  BY NamedAsSeen
<1> QED
  BY <1>1, InitSound, NextSound, PTL DEF Spec, NoLostUpdate

\* What a request writes into the cache is what the server made of its UPDATE, for the
\* RRsets it names and apart from the four exceptions.
THEOREM EditIsEffectAlways == Spec => EditIsEffect
<1>1. ASSUME Sound, NEW q \in Request, Execute(q), job[q].kind \in {"rrset", "atomic"},
             ~CnameInBatch(q), ~AddsTwice(q), ~DeletesNone(q), ~KeepsApex(q), NEW x \in Named(q)
      PROVE  RRsetOf(FoldLeft(Cached, job[q].seen, job[q].edits), x[1], x[2]) = RRsetOf(Zone', x[1], x[2])
  <2>1. PICK i \in DOMAIN job[q].edits : x = <<job[q].edits[i].name, job[q].edits[i].type>>
    BY <1>1 DEF Named
  <2>2. CASE job[q].kind = "rrset"
    <3>1. PICK o \in Edit : job[q].edits = <<o>> /\ OneMade(o, job[q].seen, job[q].msg)
      BY <1>1, <2>2 DEF Sound, SoundJob, SourceOK, Execute
    <3>2. x[1] = o.name /\ x[2] = o.type /\ job[q].edits[i] = o
      BY <2>1, <3>1
    <3>3. ~(o.listed /\ o.data = {})
      BY <1>1, <3>2 DEF DeletesNone
    <3>4. job[q].seen \in SUBSET Records
      BY <1>1, Carries
    <3>5. FoldLeft(Cached, job[q].seen, job[q].edits) = Cached(job[q].seen, o)
      BY <3>1, <3>4, CachedOne
    <3>6. Lawful(job[q].seen, o)
      BY <1>1, <3>2, <3>5 DEF KeepsApex, Lawful
    <3> QED
      BY <1>1, <2>2, <3>1, <3>2, <3>3, <3>6, OneEdited
  <2>3. CASE job[q].kind = "atomic"
    BY <1>1, <2>1, <2>3, AllEdited
  <2> QED
    BY <1>1, <2>2, <2>3
<1>2. Sound /\ [Next]_vars =>
        [\A q \in Request :
            /\ Execute(q) /\ job[q].kind \in {"rrset", "atomic"}
            /\ ~CnameInBatch(q) /\ ~AddsTwice(q) /\ ~DeletesNone(q) /\ ~KeepsApex(q)
            => LET cached == FoldLeft(Cached, job[q].seen, job[q].edits)
               IN  \A x \in Named(q) :
                      RRsetOf(cached, x[1], x[2]) = RRsetOf(Zone', x[1], x[2])]_vars
  BY <1>1
<1> QED
  BY <1>2, InitSound, NextSound, PTL DEF Spec, EditIsEffect

\* A draft that is applied does what its transaction would have done at that moment,
\* however its operations were merged.
THEOREM DraftKeepsMeaningAlways == Spec => DraftKeepsMeaning
<1>1. ASSUME Sound, NEW q \in Request, Execute(q), job[q].kind = "draft"
      PROVE  Zone' = Result(Zone, job[q].draft)
  <2> DEFINE draft == job[q].draft
  <2>1. /\ draft \in Message /\ OneCname(draft.ups) /\ \A i \in DOMAIN draft.ups : draft.ups[i].do # "clear"
        /\ job[q].msg.ups = Made(OpsToAtomic(draft.ups))
    BY <1>1 DEF Sound, SoundJob, SourceOK, Execute
  <2>2. Zone \in Contents /\ Zone' = Run(Zone, job[q].msg.ups)
    BY <1>1, Carries
  <2> HIDE DEF draft
  <2>3. draft.ups \in Seq(Update) \ {<<>>}
    BY <2>1 DEF Message
  <2>4. Run(Zone, Made(OpsToAtomic(draft.ups))) = Run(Zone, draft.ups)
    BY <2>1, <2>2, <2>3, DraftMeans
  <2>5. Result(Zone, draft) = Run(Zone, draft.ups)
    BY ResultRuns
  <2> QED
    BY <2>1, <2>2, <2>4, <2>5 DEF draft
<1>2. Sound /\ [Next]_vars =>
        [\A q \in Request :
            Execute(q) /\ job[q].kind = "draft" => Zone' = Result(Zone, job[q].draft)]_vars
  BY <1>1
<1> QED
  BY <1>2, InitSound, NextSound, PTL DEF Spec, DraftKeepsMeaning
================================================================================
