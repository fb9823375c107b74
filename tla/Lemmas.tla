------------------------------- MODULE Lemmas -------------------------------
(***************************************************************************)
(* What several of the proofs need.                                        *)
(*                                                                         *)
(* Stacks: the walks over descriptors replace the last element of a        *)
(* sequence by other elements.                                             *)
(*                                                                         *)
(* Measures: what only gets less comes to an end.  A measure is a list of  *)
(* finite sets, the weightier first.                                       *)
(***************************************************************************)
EXTENDS Integers, Sequences, Functions, FiniteSets, SequenceTheorems,
        FiniteSetTheorems, WellFoundedInduction, TLAPS

-----------------------------------------------------------------------------
(* Stacks *)

\* The elements of a sequence by their positions.
LEMMA RangeOf ==
    ASSUME NEW S, NEW s \in Seq(S)
    PROVE  Range(s) = {s[i] : i \in 1..Len(s)}
<1>1. DOMAIN s = 1..Len(s)
  BY LenProperties
<1>2. QED
  BY <1>1 DEF Range

\* They are what the sequence is a sequence of.
LEMMA RangeIn ==
    ASSUME NEW S, NEW s \in Seq(S)
    PROVE  Range(s) \subseteq S
  BY RangeOf, ElementOfSeq

\* A sequence without its last element.
LEMMA FrontOf ==
    ASSUME NEW S, NEW s \in Seq(S), s # <<>>
    PROVE  /\ SubSeq(s, 1, Len(s) - 1) \in Seq(S)
           /\ Len(SubSeq(s, 1, Len(s) - 1)) = Len(s) - 1
           /\ \A i \in 1..Len(s) - 1 : SubSeq(s, 1, Len(s) - 1)[i] = s[i]
<1> DEFINE k == Len(s) - 1
<1>1. k \in Nat /\ Len(s) \in Nat
  OBVIOUS
<1>2. \A i \in 1..k : s[i] \in S
  BY <1>1
<1> HIDE DEF k
<1>3. 1 \in Int /\ k \in Int
  BY <1>1
<1>4. /\ SubSeq(s, 1, k) \in Seq(S)
      /\ Len(SubSeq(s, 1, k)) = IF 1 <= k THEN k - 1 + 1 ELSE 0
      /\ \A i \in 1..k - 1 + 1 : SubSeq(s, 1, k)[i] = s[1 + i - 1]
  BY ONLY <1>2, <1>3, SubSeqProperties
<1>5. Len(SubSeq(s, 1, k)) = k /\ \A i \in 1..k : SubSeq(s, 1, k)[i] = s[i]
  BY <1>1, <1>4
<1>6. QED
  BY <1>4, <1>5 DEF k

\* A sequence whose last element is replaced by other elements.
LEMMA ReplaceLast ==
    ASSUME NEW S, NEW s \in Seq(S), s # <<>>, NEW n \in Seq(S)
    PROVE  LET r == SubSeq(s, 1, Len(s) - 1) \o n
           IN  /\ r \in Seq(S) /\ s[Len(s)] \in S
               /\ Range(s) \subseteq Range(r) \cup {s[Len(s)]}
               /\ Range(n) \subseteq Range(r)
               /\ Range(r) \subseteq Range(s) \cup Range(n)
<1> DEFINE front == SubSeq(s, 1, Len(s) - 1)
           r == front \o n
<1>1. Len(s) \in Nat /\ Len(s) > 0 /\ Len(n) \in Nat
  OBVIOUS
<1>2. /\ front \in Seq(S) /\ Len(front) = Len(s) - 1
      /\ \A i \in 1..Len(s) - 1 : front[i] = s[i]
  BY FrontOf
<1> HIDE DEF front
<1>3. /\ r \in Seq(S) /\ Len(r) = Len(front) + Len(n)
      /\ \A i \in 1..Len(r) : r[i] = IF i <= Len(front) THEN front[i] ELSE n[i - Len(front)]
  <2>1. /\ front \o n \in Seq(S) /\ Len(front \o n) = Len(front) + Len(n)
        /\ \A i \in 1..Len(front) + Len(n) :
               (front \o n)[i] = IF i <= Len(front) THEN front[i] ELSE n[i - Len(front)]
    BY <1>2, ConcatProperties
  <2>2. QED
    BY <2>1
<1> HIDE DEF r
<1>4. /\ Range(s) = {s[i] : i \in 1..Len(s)}
      /\ Range(n) = {n[i] : i \in 1..Len(n)}
      /\ Range(r) = {r[i] : i \in 1..Len(r)}
  BY <1>3, RangeOf
<1>5. s[Len(s)] \in S
  BY <1>1
<1>6. ASSUME NEW i \in 1..Len(s), i # Len(s)
      PROVE  s[i] \in Range(r)
  <2>1. i \in 1..Len(s) - 1 /\ i \in 1..Len(r) /\ i <= Len(front)
    BY <1>1, <1>2, <1>3, <1>6
  <2>2. r[i] = s[i]
    BY <1>2, <1>3, <2>1
  <2>3. QED
    BY <1>4, <2>1, <2>2
<1>7. ASSUME NEW i \in 1..Len(n)
      PROVE  n[i] \in Range(r)
  <2>1. Len(front) + i \in 1..Len(r) /\ ~(Len(front) + i <= Len(front))
    BY <1>1, <1>2, <1>3
  <2>2. (Len(front) + i) - Len(front) = i
    BY <1>1, <1>2
  <2>3. r[Len(front) + i] = n[i]
    BY <1>3, <2>1, <2>2
  <2>4. QED
    BY <1>4, <2>1, <2>3
<1>8. ASSUME NEW i \in 1..Len(r)
      PROVE  r[i] \in Range(s) \cup Range(n)
  <2>1. CASE i <= Len(front)
    <3>1. i \in 1..Len(s) - 1 /\ i \in 1..Len(s)
      BY <1>1, <1>2, <2>1
    <3>2. r[i] = s[i]
      BY <1>2, <1>3, <2>1, <3>1
    <3>3. QED
      BY <1>4, <3>1, <3>2
  <2>2. CASE ~(i <= Len(front))
    <3>1. i - Len(front) \in 1..Len(n)
      BY <1>1, <1>2, <1>3, <2>2
    <3>2. r[i] = n[i - Len(front)]
      BY <1>3, <2>2
    <3>3. QED
      BY <1>4, <3>1, <3>2
  <2>3. QED
    BY <2>1, <2>2
<1>9. /\ Range(s) \subseteq Range(r) \cup {s[Len(s)]}
      /\ Range(n) \subseteq Range(r)
      /\ Range(r) \subseteq Range(s) \cup Range(n)
  BY <1>4, <1>6, <1>7, <1>8
<1>10. QED
  BY <1>3, <1>5, <1>9 DEF r, front

-----------------------------------------------------------------------------
(* Measures *)

Measures(S, n) == [1..n -> FiniteSubsetsOf(S)]

\* One of the sets has shrunk, and those before it are the same.
Less(S, n) == LexProductOrdering(StrictSubsetOrdering(S), FiniteSubsetsOf(S), n)

\* A measure cannot get less for ever.
LEMMA LessWellFounded ==
    ASSUME NEW S, NEW n \in Nat
    PROVE  IsWellFoundedOn(Less(S, n), Measures(S, n))
<1>1. IsWellFoundedOn(StrictSubsetOrdering(S), FiniteSubsetsOf(S))
  BY FS_StrictSubsetOrderingWellFounded
<1>2. QED
  BY <1>1, WFLexProductOrdering DEF Less, Measures

\* Set j has shrunk.
LEMMA LessAt ==
    ASSUME NEW S, NEW n \in Nat, NEW s \in Measures(S, n), NEW t \in Measures(S, n),
           NEW j \in 1..n, s[j] \subseteq t[j], s[j] # t[j],
           \A i \in 1..(j - 1) : s[i] = t[i]
    PROVE  <<s, t>> \in Less(S, n)
<1>1. <<s[j], t[j]>> \in StrictSubsetOrdering(S)
  <2>1. s[j] \in SUBSET S /\ t[j] \in SUBSET S
    BY DEF Measures, FiniteSubsetsOf
  <2>2. QED
    BY <2>1 DEF StrictSubsetOrdering
<1>2. QED
  BY <1>1 DEF Less, LexProductOrdering, Measures

\* Five sets are a measure.
LEMMA FiveSets ==
    ASSUME NEW S, NEW a \in FiniteSubsetsOf(S), NEW b \in FiniteSubsetsOf(S),
           NEW c \in FiniteSubsetsOf(S), NEW d \in FiniteSubsetsOf(S),
           NEW e \in FiniteSubsetsOf(S)
    PROVE  <<a, b, c, d, e>> \in Measures(S, 5)
  BY DEF Measures

\* One of five has shrunk.
LEMMA FiveLess ==
    ASSUME NEW S, NEW s \in Measures(S, 5), NEW t \in Measures(S, 5),
           NEW j \in 1..5, s[j] \subseteq t[j], s[j] # t[j],
           j > 1 => s[1] = t[1], j > 2 => s[2] = t[2],
           j > 3 => s[3] = t[3], j > 4 => s[4] = t[4]
    PROVE  <<s, t>> \in Less(S, 5)
<1>1. \A i \in 1..(j - 1) : s[i] = t[i]
  <2> SUFFICES ASSUME NEW i \in 1..(j - 1) PROVE s[i] = t[i]
    OBVIOUS
  <2>1. i = 1 \/ i = 2 \/ i = 3 \/ i = 4
    OBVIOUS
  <2>2. QED
    BY <2>1
<1>2. QED
  BY <1>1, LessAt

\* Numbers as sets.
Numbers(a, b, c, d, e) == <<1..a, 1..b, 1..c, 1..d, 1..e>>

LEMMA NumbersAre ==
    ASSUME NEW a \in Nat, NEW b \in Nat, NEW c \in Nat, NEW d \in Nat, NEW e \in Nat
    PROVE  Numbers(a, b, c, d, e) \in Measures(Nat, 5)
<1>1. \A n \in Nat : 1..n \in FiniteSubsetsOf(Nat)
  BY FS_Interval DEF FiniteSubsetsOf
<1>2. QED
  BY <1>1, FiveSets DEF Numbers

\* The first number that changes gets less.
LEMMA NumbersLess ==
    ASSUME NEW a \in Nat, NEW b \in Nat, NEW c \in Nat, NEW d \in Nat, NEW e \in Nat,
           NEW v \in Nat, NEW w \in Nat, NEW x \in Nat, NEW y \in Nat, NEW z \in Nat,
           \/ v < a
           \/ v <= a /\ w < b
           \/ v <= a /\ w <= b /\ x < c
           \/ v <= a /\ w <= b /\ x <= c /\ y < d
           \/ v <= a /\ w <= b /\ x <= c /\ y <= d /\ z < e
    PROVE  <<Numbers(v, w, x, y, z), Numbers(a, b, c, d, e)>> \in Less(Nat, 5)
<1> DEFINE s == Numbers(v, w, x, y, z)
           t == Numbers(a, b, c, d, e)
<1>1. s \in Measures(Nat, 5) /\ t \in Measures(Nat, 5)
  BY NumbersAre
<1>2. /\ s[1] = 1..v /\ s[2] = 1..w /\ s[3] = 1..x /\ s[4] = 1..y /\ s[5] = 1..z
      /\ t[1] = 1..a /\ t[2] = 1..b /\ t[3] = 1..c /\ t[4] = 1..d /\ t[5] = 1..e
  BY DEF Numbers
<1>3. ASSUME NEW m \in Nat, NEW n \in Nat, m < n
      PROVE  1..m \subseteq 1..n /\ 1..m # 1..n
  <2>1. n \in 1..n /\ n \notin 1..m
    BY <1>3
  <2>2. QED
    BY <1>3, <2>1
<1> HIDE DEF s, t
<1>4. ASSUME NEW j \in 1..5, s[j] \subseteq t[j], s[j] # t[j],
             j > 1 => s[1] = t[1], j > 2 => s[2] = t[2],
             j > 3 => s[3] = t[3], j > 4 => s[4] = t[4]
      PROVE  <<s, t>> \in Less(Nat, 5)
  BY <1>1, <1>4, FiveLess
<1>5. CASE v < a
  <2>1. s[1] \subseteq t[1] /\ s[1] # t[1]
    BY <1>2, <1>3, <1>5
  <2>3. <<s, t>> \in Less(Nat, 5)
    BY <1>4, <2>1
  <2>4. QED
    BY <2>3 DEF s, t
<1>6. CASE v = a /\ w < b
  <2>1. s[2] \subseteq t[2] /\ s[2] # t[2]
    BY <1>2, <1>3, <1>6
  <2>2. s[1] = t[1]
    BY <1>2, <1>6
  <2>3. <<s, t>> \in Less(Nat, 5)
    BY <1>4, <2>1, <2>2
  <2>4. QED
    BY <2>3 DEF s, t
<1>7. CASE v = a /\ w = b /\ x < c
  <2>1. s[3] \subseteq t[3] /\ s[3] # t[3]
    BY <1>2, <1>3, <1>7
  <2>2. s[1] = t[1] /\ s[2] = t[2]
    BY <1>2, <1>7
  <2>3. <<s, t>> \in Less(Nat, 5)
    BY <1>4, <2>1, <2>2
  <2>4. QED
    BY <2>3 DEF s, t
<1>8. CASE v = a /\ w = b /\ x = c /\ y < d
  <2>1. s[4] \subseteq t[4] /\ s[4] # t[4]
    BY <1>2, <1>3, <1>8
  <2>2. s[1] = t[1] /\ s[2] = t[2] /\ s[3] = t[3]
    BY <1>2, <1>8
  <2>3. <<s, t>> \in Less(Nat, 5)
    BY <1>4, <2>1, <2>2
  <2>4. QED
    BY <2>3 DEF s, t
<1>9. CASE v = a /\ w = b /\ x = c /\ y = d /\ z < e
  <2>1. s[5] \subseteq t[5] /\ s[5] # t[5]
    BY <1>2, <1>3, <1>9
  <2>2. s[1] = t[1] /\ s[2] = t[2] /\ s[3] = t[3] /\ s[4] = t[4]
    BY <1>2, <1>9
  <2>3. <<s, t>> \in Less(Nat, 5)
    BY <1>4, <2>1, <2>2
  <2>4. QED
    BY <2>3 DEF s, t
<1>10. v < a \/ v = a
  OBVIOUS
<1>11. v = a => w < b \/ w = b
  OBVIOUS
<1>12. v = a /\ w = b => x < c \/ x = c
  OBVIOUS
<1>13. v = a /\ w = b /\ x = c => y < d \/ (y = d /\ z < e)
  OBVIOUS
<1>14. QED
  BY <1>5, <1>6, <1>7, <1>8, <1>9, <1>10, <1>11, <1>12, <1>13

-----------------------------------------------------------------------------
(* A stack as a measure: where each rank stands on it.  When the top gives way
   to others of a greater rank, its own rank has one place less, and those below
   have the places they had.                                                    *)

Places(s, rank, k) == {i \in 1..Len(s) : rank[s[i]] = k}

LEMMA PlacesFinite ==
    ASSUME NEW S, NEW s \in Seq(S), NEW rank, NEW k
    PROVE  Places(s, rank, k) \in FiniteSubsetsOf(Nat)
<1>1. Len(s) \in Nat
  BY LenProperties
<1>2. IsFiniteSet(1..Len(s))
  BY <1>1, FS_Interval
<1>3. IsFiniteSet(Places(s, rank, k))
  BY <1>2, FS_Subset DEF Places
<1>4. QED
  BY <1>1, <1>3 DEF FiniteSubsetsOf, Places

\* From s to r the rank has lost a place, and those below it have not changed.
PlaceFreed(r, s, rank, top) ==
    /\ Places(r, rank, top) \subseteq Places(s, rank, top)
    /\ Places(r, rank, top) # Places(s, rank, top)
    /\ \A k \in 1..top - 1 : Places(r, rank, k) = Places(s, rank, k)

LEMMA PlacesLess ==
    ASSUME NEW S, NEW n \in Nat, NEW rank, \A e \in S : rank[e] \in 1..n,
           NEW s \in Seq(S), s # <<>>, NEW t \in Seq(S),
           NEW top, top = rank[s[Len(s)]], \A h \in Range(t) : top < rank[h],
           NEW r, r = SubSeq(s, 1, Len(s) - 1) \o t
    PROVE  PlaceFreed(r, s, rank, top)
<1> DEFINE front == SubSeq(s, 1, Len(s) - 1)
<1>1. r = front \o t
  OBVIOUS
<1>2. Len(s) \in Nat /\ Len(s) > 0 /\ Len(t) \in Nat /\ Range(t) = {t[i] : i \in 1..Len(t)}
  BY RangeOf
<1>3. /\ front \in Seq(S) /\ Len(front) = Len(s) - 1
      /\ \A i \in 1..Len(s) - 1 : front[i] = s[i]
  BY FrontOf
<1>4. \A i \in 1..Len(s) : s[i] \in S /\ rank[s[i]] \in 1..n
  BY ElementOfSeq
<1>5. top \in 1..n /\ top <= top
  BY <1>2, <1>4
<1> HIDE DEF front
<1>6. /\ Len(r) = Len(s) - 1 + Len(t)
      /\ \A i \in 1..Len(r) : r[i] = IF i <= Len(s) - 1 THEN front[i] ELSE t[i - (Len(s) - 1)]
  <2>1. /\ Len(front \o t) = Len(front) + Len(t)
        /\ \A i \in 1..Len(front) + Len(t) :
               (front \o t)[i] = IF i <= Len(front) THEN front[i] ELSE t[i - Len(front)]
    BY <1>3, ConcatProperties
  <2>2. QED
    BY <1>1, <1>3, <2>1
<1>7. ASSUME NEW i \in 1..Len(s) - 1
      PROVE  i \in 1..Len(r) /\ r[i] = s[i]
  BY ONLY <1>2, <1>3, <1>6, <1>7
<1>8. ASSUME NEW i \in 1..Len(r), ~(i <= Len(s) - 1)
      PROVE  top < rank[r[i]]
  <2>1. r[i] = t[i - (Len(s) - 1)] /\ i - (Len(s) - 1) \in 1..Len(t)
    BY <1>2, <1>6, <1>8
  <2>2. QED
    BY <1>2, <2>1
<1>9. ASSUME NEW k \in 1..n, k <= top
      PROVE  Places(r, rank, k) = {i \in 1..Len(s) - 1 : rank[s[i]] = k}
  <2>1. ASSUME NEW i \in 1..Len(r), rank[r[i]] = k
        PROVE  i \in 1..Len(s) - 1 /\ rank[s[i]] = k
    <3>1. i <= Len(s) - 1
      <4>1. ~(k < k) /\ (top < k => ~(k <= top))
        BY <1>5
      <4>2. QED
        BY <1>8, <1>9, <2>1, <4>1
    <3>2. i \in 1..Len(s) - 1
      BY <1>2, <1>6, <3>1
    <3>3. QED
      BY <1>7, <2>1, <3>2
  <2>2. QED
    BY <1>7, <2>1 DEF Places
<1>10. Places(s, rank, top) = {i \in 1..Len(s) - 1 : rank[s[i]] = top} \cup {Len(s)}
  BY <1>2 DEF Places
<1>11. ASSUME NEW k \in 1..top - 1
       PROVE  Places(s, rank, k) = {i \in 1..Len(s) - 1 : rank[s[i]] = k}
  <2>1. k # top
    BY <1>5
  <2>2. QED
    BY <1>2, <2>1 DEF Places
<1>12. Places(r, rank, top) = {i \in 1..Len(s) - 1 : rank[s[i]] = top}
  BY ONLY <1>5, <1>9
<1>13. Len(s) \notin 1..Len(s) - 1
  BY <1>2
<1>14. \A k \in 1..top - 1 : k \in 1..n /\ k <= top
  BY <1>5
<1>15. QED
  BY <1>9, <1>10, <1>11, <1>12, <1>13, <1>14 DEF PlaceFreed
=============================================================================
