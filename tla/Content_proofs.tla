---------------------------- MODULE Content_proofs ----------------------------
(***************************************************************************)
(* What a delivery is made from, for captions, titles and texts of any     *)
(* number and length: which transcript is chosen, and which part of a      *)
(* message survives Telegram's limit.                                      *)
(***************************************************************************)
EXTENDS Content, FiniteSetTheorems, SequenceTheorems, WellFoundedInduction, TLAPS

------------------------------------------------------------------------------
\* Least and greatest numbers.

LEMMA Least ==
  ASSUME NEW T \in SUBSET Nat, T # {}
  PROVE  Min(T) \in T /\ \A n \in T : Min(T) <= n
<1> DEFINE R == OpToRel(<, Nat)
<1>1. IsWellFoundedOn(R, Nat)
  BY NatLessThanWellFounded
<1>2. \A m, n \in Nat : m < n => <<m, n>> \in R
  BY DEF OpToRel
<1> HIDE DEF R
<1>3. \E x \in T : \A y \in T : ~ (<<y, x>> \in R)
  BY <1>1, WFMin
<1>4. PICK x \in T : \A y \in T : ~ (<<y, x>> \in R)
  BY <1>3
<1>5. ASSUME NEW n \in T PROVE x <= n
  <2>1. x \in Nat /\ n \in Nat
    OBVIOUS
  <2>2. ~ (n < x)
    BY <1>2, <1>4, <2>1
  <2> QED
    BY <2>1, <2>2
<1>6. \E m \in T : \A n \in T : m <= n
  BY <1>5
<1> QED
  BY <1>6 DEF Min

LEMMA Greatest ==
  ASSUME NEW bound \in Nat, NEW T \in SUBSET (0 .. bound), T # {}
  PROVE  Max(T) \in T /\ \A n \in T : n <= Max(T)
<1> DEFINE U == {bound - n : n \in T}
<1>1. U \in SUBSET Nat /\ U # {}
  <2>1. \A n \in T : bound - n \in Nat
    BY SMT
  <2> QED
    BY <2>1
<1>2. Min(U) \in U /\ \A n \in U : Min(U) <= n
  BY <1>1, Least
<1>3. PICK m \in T : Min(U) = bound - m
  BY <1>2
<1>4. ASSUME NEW n \in T PROVE n <= m
  <2>1. bound - m <= bound - n
    BY <1>2, <1>3
  <2>2. m \in 0 .. bound /\ n \in 0 .. bound
    OBVIOUS
  <2> QED
    BY <2>1, <2>2
<1>5. \E k \in T : \A n \in T : k >= n
  BY <1>4
<1>6. Max(T) \in T /\ \A n \in T : Max(T) >= n
  BY <1>5 DEF Max
<1> QED
  BY <1>6

------------------------------------------------------------------------------
\* The order of captions.

LEMMA MatchRankIs ==
  ASSUME NEW language, NEW preferred, preferred \in Seq(Range(preferred))
  PROVE  LET matching == Matching(language, preferred)
             rank == MatchRank(language, preferred)
         IN  /\ matching \subseteq 1 .. Len(preferred)
             /\ rank = NoRank <=> matching = {}
             /\ matching # {} =>
                  /\ Min(matching) \in matching
                  /\ \A i \in matching : Min(matching) <= i
                  /\ rank[1] = Min(matching)
                  /\ rank[2] = IF preferred[Min(matching)] = language THEN 0 ELSE 1
<1> DEFINE matching == Matching(language, preferred)
<1>1. DOMAIN preferred = 1 .. Len(preferred) /\ Len(preferred) \in Nat
  BY LenProperties
<1>2. matching \subseteq 1 .. Len(preferred)
  BY <1>1 DEF Matching
<1>3. matching # {} => Min(matching) \in matching /\ \A i \in matching : Min(matching) <= i
  BY <1>2, Least
<1>4. \A i, k : <<i, k>> # NoRank
  BY DEF NoRank
<1> QED
  BY <1>2, <1>3, <1>4 DEF MatchRank

\* Preferences for the language spoken in a video, as in Spoken.
SpokenIn(captions, preferred, original) ==
  IF original # <<>>
    THEN Matching(original, preferred)
    ELSE {Min(Matching(c.language, preferred)) :
            c \in {d \in Range(captions) : d.generated /\ Matching(d.language, preferred) # {}}}

LEMMA OriginalRankIs ==
  ASSUME NEW captions, NEW preferred, preferred \in Seq(Range(preferred)), NEW original
  PROVE  LET rank == OriginalRank(captions, preferred, original)
             spoken == SpokenIn(captions, preferred, original)
         IN  /\ spoken \subseteq 1 .. Len(preferred)
             /\ rank = NoRank <=> spoken = {}
             /\ rank # NoRank => rank[1] = Min(spoken)
<1> DEFINE spoken == SpokenIn(captions, preferred, original)
           generated == {d \in Range(captions) :
                           d.generated /\ Matching(d.language, preferred) # {}}
           ranks == {MatchRank(captions[i].language, preferred) :
                       i \in {j \in DOMAIN captions : captions[j].generated}} \ {NoRank}
<1>1. CASE original # <<>>
  BY <1>1, MatchRankIs DEF OriginalRank, SpokenIn
<1>2. CASE original = <<>>
  <2>1. spoken = {Min(Matching(c.language, preferred)) : c \in generated}
    BY <1>2 DEF SpokenIn
  <2>2. ranks = {MatchRank(c.language, preferred) : c \in generated}
    BY MatchRankIs DEF Range
  <2>3. \A c \in generated :
          LET rank == MatchRank(c.language, preferred) IN
          /\ rank[1] = Min(Matching(c.language, preferred)) /\ rank[1] \in 1 .. Len(preferred)
          /\ rank[2] \in {0, 1}
    BY MatchRankIs
  <2>5. \A r \in ranks : r[1] \in 1 .. Len(preferred) /\ r[2] \in {0, 1}
    BY <2>2, <2>3
  <2>6. GeneratedRank(captions, preferred, original) =
          IF ranks = {} THEN NoRank
          ELSE CHOOSE r \in ranks : \A s \in ranks : r[1] < s[1] \/ (r[1] = s[1] /\ r[2] <= s[2])
    BY DEF GeneratedRank
  <2>11. ranks # {} => NoRank \notin ranks
    OBVIOUS
  <2> HIDE DEF ranks, spoken, generated
  <2>4. spoken = {r[1] : r \in ranks}
    <3>1. \A r \in ranks : r[1] \in spoken
      BY <2>1, <2>2, <2>3
    <3>2. \A n \in spoken : \E r \in ranks : n = r[1]
      BY <2>1, <2>2, <2>3
    <3> QED
      BY <3>1, <3>2
  <2>7. OriginalRank(captions, preferred, original) = GeneratedRank(captions, preferred, original)
    BY <1>2 DEF OriginalRank
  <2>8. spoken \subseteq 1 .. Len(preferred)
    BY <2>4, <2>5
  <2>9. CASE ranks = {}
    BY <2>4, <2>6, <2>7, <2>9 DEF spoken
  <2>10. CASE ranks # {}
    <3> DEFINE least == {r \in ranks : r[1] = Min(spoken)}
               variants == {r[2] : r \in least}
    <3>12. spoken \in SUBSET Nat /\ spoken # {}
      BY <2>4, <2>8, <2>10
    <3>1. Min(spoken) \in spoken /\ \A n \in spoken : Min(spoken) <= n
      BY <3>12, Least
    <3>2. variants \in SUBSET Nat /\ variants # {}
      <4>1. PICK r \in ranks : r[1] = Min(spoken)
        BY <2>4, <3>1
      <4>2. r \in least
        BY <4>1
      <4>3. r[2] \in variants
        BY <4>2
      <4>4. \A q \in least : q[2] \in Nat
        BY <2>5
      <4> QED
        BY <4>3, <4>4
    <3>3. Min(variants) \in variants /\ \A n \in variants : Min(variants) <= n
      BY <3>2, Least
    <3>4. PICK r \in least : r[2] = Min(variants)
      BY <3>3
    <3>5. \A s \in ranks : r[1] < s[1] \/ (r[1] = s[1] /\ r[2] <= s[2])
      <4> SUFFICES ASSUME NEW s \in ranks, ~ (r[1] < s[1])
                   PROVE  r[1] = s[1] /\ r[2] <= s[2]
        OBVIOUS
      <4>1. s[1] = r[1]
        <5>1. r[1] = Min(spoken) /\ s[1] \in spoken
          BY <2>4, <3>4
        <5>2. r[1] \in Nat /\ s[1] \in Nat /\ r[1] <= s[1]
          BY <3>1, <3>12, <5>1
        <5> QED
          BY <5>2
      <4>2. s \in least
        BY <4>1
      <4> QED
        BY <3>3, <3>4, <4>1, <4>2
    <3>6. r \in ranks /\ \E q \in ranks : \A s \in ranks : q[1] < s[1] \/ (q[1] = s[1] /\ q[2] <= s[2])
      BY <3>5
    <3> DEFINE chosen == GeneratedRank(captions, preferred, original)
    <3>7. chosen \in ranks
          /\ \A s \in ranks : chosen[1] < s[1] \/ (chosen[1] = s[1] /\ chosen[2] <= s[2])
      BY <2>6, <2>10, <3>6
    <3>8. chosen[1] <= Min(spoken) /\ Min(spoken) <= chosen[1]
      <4>1. r[1] = Min(spoken) /\ chosen[1] \in spoken
        BY <2>4, <3>4, <3>7
      <4>2. chosen[1] <= r[1]
        BY <2>5, <3>6, <3>7
      <4> QED
        BY <3>1, <4>1, <4>2
    <3>9. chosen[1] = Min(spoken)
      BY <2>8, <3>1, <3>7, <3>8, <2>5
    <3>10. chosen # NoRank
      BY <3>7 DEF ranks
    <3>11. spoken # {}
      BY <3>1
    <3> QED
      BY <2>7, <2>8, <3>9, <3>10, <3>11 DEF spoken
  <2> QED
    BY <2>9, <2>10
<1> QED
  BY <1>1, <1>2

\* The place of a caption in this language: captions in the language spoken come
\* first, then the configured languages in order, then all others; the exact code
\* is before its variants.
Placed(place, language, preferred, spoken) ==
  LET matching == Matching(language, preferred) IN
  /\ place[1] \in Nat /\ place[2] \in Nat
  /\ matching = {} => place[1] = Len(preferred) + 1 /\ place[2] = 0
  /\ matching # {} =>
       /\ place[1] = IF spoken # {} /\ Min(matching) = Min(spoken) THEN 0 ELSE Min(matching)
       /\ place[2] = IF preferred[Min(matching)] = language THEN 0 ELSE 1
       /\ Min(matching) \in 1 .. Len(preferred)

LEMMA PlaceIs ==
  ASSUME NEW captions, NEW preferred, preferred \in Seq(Range(preferred)), NEW original,
         NEW caption
  PROVE  Placed(Place(caption, preferred, OriginalRank(captions, preferred, original)),
                caption.language, preferred, SpokenIn(captions, preferred, original))
<1> DEFINE matching == Matching(caption.language, preferred)
           spoken == SpokenIn(captions, preferred, original)
           rank == MatchRank(caption.language, preferred)
           promoted == OriginalRank(captions, preferred, original)
           place == Place(caption, preferred, promoted)
<1>1. Len(preferred) \in Nat
  BY LenProperties
<1>2. /\ matching \subseteq 1 .. Len(preferred)
      /\ rank = NoRank <=> matching = {}
      /\ matching # {} =>
           /\ Min(matching) \in matching
           /\ rank[1] = Min(matching)
           /\ rank[2] = IF preferred[Min(matching)] = caption.language THEN 0 ELSE 1
  BY MatchRankIs
<1>3. /\ promoted = NoRank <=> spoken = {}
      /\ promoted # NoRank => promoted[1] = Min(spoken)
  BY OriginalRankIs
<1>4. place = IF rank = NoRank THEN <<Len(preferred) + 1, 0>>
              ELSE IF promoted # NoRank /\ promoted[1] = rank[1] THEN <<0, rank[2]>>
              ELSE rank
  BY DEF Place
<1> SUFFICES Placed(place, caption.language, preferred, spoken)
  OBVIOUS
<1>5. CASE matching = {}
  <2> HIDE DEF spoken, rank, promoted, place
  <2>1. place = <<Len(preferred) + 1, 0>>
    BY <1>2, <1>4, <1>5
  <2>2. place[1] = Len(preferred) + 1 /\ place[2] = 0
    BY <2>1
  <2> QED
    BY <1>1, <1>5, <2>2 DEF Placed
<1>6. CASE matching # {}
  <2> HIDE DEF spoken, rank, promoted, place
  <2>1. rank # NoRank /\ Min(matching) \in 1 .. Len(preferred)
    BY <1>2, <1>6
  <2>2. place = IF promoted # NoRank /\ promoted[1] = rank[1] THEN <<0, rank[2]>> ELSE rank
    BY <1>4, <2>1
  <2>3. /\ place[1] = IF spoken # {} /\ Min(matching) = Min(spoken) THEN 0 ELSE Min(matching)
        /\ place[2] = IF preferred[Min(matching)] = caption.language THEN 0 ELSE 1
    BY <1>2, <1>3, <1>6, <2>2
  <2> QED
    BY <1>1, <1>6, <2>1, <2>3 DEF Placed
<1> QED
  BY <1>5, <1>6

\* The place of caption i of a listing.
PlaceOf(captions, preferred, original, i) ==
  Place(captions[i], preferred, OriginalRank(captions, preferred, original))

\* Caption i is tried before caption j.
Sooner(captions, preferred, original, i, j) ==
  Before(PlaceOf(captions, preferred, original, i), i,
         PlaceOf(captions, preferred, original, j), j)

LEMMA SoonerIsOrder ==
  ASSUME NEW n \in Nat, NEW captions, DOMAIN captions = 1 .. n,
         NEW preferred, preferred \in Seq(Range(preferred)), NEW original
  PROVE  /\ \A i \in 1 .. n : ~ Sooner(captions, preferred, original, i, i)
         /\ \A i, j, k \in 1 .. n :
              /\ Sooner(captions, preferred, original, i, j)
              /\ Sooner(captions, preferred, original, j, k)
              => Sooner(captions, preferred, original, i, k)
         /\ \A i, j \in 1 .. n :
              i # j => \/ Sooner(captions, preferred, original, i, j)
                      \/ Sooner(captions, preferred, original, j, i)
<1> DEFINE sooner(i, j) == Sooner(captions, preferred, original, i, j)
           group(i) == PlaceOf(captions, preferred, original, i)[1]
           variant(i) == PlaceOf(captions, preferred, original, i)[2]
<1>1. \A i \in 1 .. n : group(i) \in Nat /\ variant(i) \in Nat
  BY PlaceIs DEF PlaceOf, Placed
<1>2. \A i, j \in 1 .. n :
        sooner(i, j) <=>
          \/ group(i) < group(j)
          \/ /\ group(i) = group(j)
             /\ variant(i) < variant(j) \/ (variant(i) = variant(j) /\ i < j)
  BY DEF Sooner, Before
<1> SUFFICES /\ \A i \in 1 .. n : ~ sooner(i, i)
             /\ \A i, j, k \in 1 .. n : sooner(i, j) /\ sooner(j, k) => sooner(i, k)
             /\ \A i, j \in 1 .. n : i # j => sooner(i, j) \/ sooner(j, i)
  OBVIOUS
<1> HIDE DEF sooner, group, variant
<1>3. \A i \in 1 .. n : ~ sooner(i, i)
  BY <1>1, <1>2
<1>4. \A i, j \in 1 .. n : i # j => sooner(i, j) \/ sooner(j, i)
  BY <1>1, <1>2
<1>5. ASSUME NEW i \in 1 .. n, NEW j \in 1 .. n, NEW k \in 1 .. n,
             sooner(i, j), sooner(j, k)
      PROVE  sooner(i, k)
  <2>1. /\ group(i) \in Nat /\ group(j) \in Nat /\ group(k) \in Nat
        /\ variant(i) \in Nat /\ variant(j) \in Nat /\ variant(k) \in Nat
    BY <1>1
  <2> QED
    BY <1>2, <1>5, <2>1
<1> QED
  BY <1>3, <1>4, <1>5

\* The order of captions is a permutation of the listing in which each is tried
\* before all that come later.
LEMMA OrderIsSorted ==
  ASSUME NEW n \in Nat, NEW captions, DOMAIN captions = 1 .. n,
         NEW preferred, preferred \in Seq(Range(preferred)), preferred # <<>>, NEW original
  PROVE  \E f \in [1 .. n -> 1 .. n] :
           /\ OrderCandidates(captions, preferred, original) =
                [m \in 1 .. n |-> captions[f[m]]]
           /\ \A i \in 1 .. n : \E m \in 1 .. n : f[m] = i
           /\ \A l, m \in 1 .. n :
                l < m => Sooner(captions, preferred, original, f[l], f[m])
<1> DEFINE sooner(i, j) == Sooner(captions, preferred, original, i, j)
           preceding(i) == {j \in 1 .. n : sooner(j, i)}
           count(i) == Cardinality(preceding(i))
<1>1. IsFiniteSet(1 .. n) /\ Cardinality(1 .. n) = n
  BY FS_Interval
<1>2. /\ \A i \in 1 .. n : ~ sooner(i, i)
      /\ \A i, j, k \in 1 .. n : sooner(i, j) /\ sooner(j, k) => sooner(i, k)
      /\ \A i, j \in 1 .. n : i # j => sooner(i, j) \/ sooner(j, i)
  BY SoonerIsOrder
<1>3. OrderCandidates(captions, preferred, original) =
        [m \in 1 .. n |-> captions[CHOOSE i \in 1 .. n : count(i) = m - 1]]
  BY DEF OrderCandidates, Sooner, PlaceOf
<1> HIDE DEF sooner
<1>4. ASSUME NEW i \in 1 .. n
      PROVE  IsFiniteSet(preceding(i)) /\ count(i) \in Nat /\ count(i) < n
  <2>1. preceding(i) \in SUBSET (1 .. n) /\ preceding(i) # 1 .. n
    BY <1>2
  <2>2. IsFiniteSet(preceding(i)) /\ count(i) <= n /\ count(i) # n
    BY <1>1, <2>1, FS_Subset
  <2>3. count(i) \in Nat
    BY <2>2, FS_CardinalityType
  <2>4. IsFiniteSet(preceding(i))
    BY <2>2
  <2> HIDE DEF preceding
  <2> QED
    BY <2>2, <2>3, <2>4
<1>5. ASSUME NEW i \in 1 .. n, NEW j \in 1 .. n, sooner(i, j)
      PROVE  count(i) < count(j)
  <2>1. preceding(i) \in SUBSET preceding(j) /\ preceding(i) # preceding(j)
    BY <1>2, <1>5
  <2>2. count(i) <= count(j) /\ count(i) # count(j)
    BY <1>4, <2>1, FS_Subset
  <2>3. count(i) \in Nat /\ count(j) \in Nat
    BY <1>4
  <2> QED
    BY <2>2, <2>3
<1>16. \A i \in 1 .. n : count(i) \in Nat /\ count(i) < n
  BY <1>4
<1> HIDE DEF count, preceding
<1> DEFINE g == [i \in 1 .. n |-> count(i) + 1]
<1>6. g \in [1 .. n -> 1 .. n]
  <2>1. \A i \in 1 .. n : count(i) + 1 \in 1 .. n
    BY <1>16
  <2> QED
    BY <2>1
<1>7. \A i, j \in 1 .. n : g[i] = g[j] => i = j
  <2> SUFFICES ASSUME NEW i \in 1 .. n, NEW j \in 1 .. n, i # j
               PROVE  count(i) + 1 # count(j) + 1
    OBVIOUS
  <2>1. count(i) < count(j) \/ count(j) < count(i)
    BY <1>2, <1>5
  <2>2. count(i) \in Nat /\ count(j) \in Nat
    BY <1>16
  <2> QED
    BY <2>1, <2>2
<1>8. g \in Injection(1 .. n, 1 .. n)
  BY <1>6, <1>7 DEF Injection, IsInjective
<1>9. g \in Surjection(1 .. n, 1 .. n)
  BY <1>1, <1>8, FS_Injection
<1>10. \A m \in 1 .. n : \E i \in 1 .. n : count(i) = m - 1
  <2> SUFFICES ASSUME NEW m \in 1 .. n PROVE \E i \in 1 .. n : count(i) = m - 1
    OBVIOUS
  <2>1. PICK i \in 1 .. n : g[i] = m
    BY <1>9 DEF Surjection
  <2>2. count(i) \in Nat /\ count(i) + 1 = m
    BY <1>16, <2>1
  <2> QED
    BY <2>2
<1> DEFINE f == [m \in 1 .. n |-> CHOOSE i \in 1 .. n : count(i) = m - 1]
<1>11. \A m \in 1 .. n : f[m] \in 1 .. n /\ count(f[m]) = m - 1
  BY <1>10
<1>12. f \in [1 .. n -> 1 .. n]
  BY <1>11
<1>13. OrderCandidates(captions, preferred, original) = [m \in 1 .. n |-> captions[f[m]]]
  BY <1>3
<1> HIDE DEF f, g
<1>14. ASSUME NEW i \in 1 .. n
       PROVE  \E m \in 1 .. n : f[m] = i
  <2>1. count(i) + 1 \in 1 .. n /\ count(i) \in Nat
    BY <1>16
  <2>2. count(f[count(i) + 1]) = count(i) /\ f[count(i) + 1] \in 1 .. n
    BY <1>11, <2>1
  <2>3. f[count(i) + 1] = i
    BY <1>2, <1>5, <2>1, <2>2
  <2> QED
    BY <2>1, <2>3
<1>15. ASSUME NEW l \in 1 .. n, NEW m \in 1 .. n, l < m
       PROVE  sooner(f[l], f[m])
  <2>1. /\ f[l] \in 1 .. n /\ count(f[l]) = l - 1
        /\ f[m] \in 1 .. n /\ count(f[m]) = m - 1
    BY <1>11
  <2>2. f[l] # f[m] /\ ~ sooner(f[m], f[l])
    <3>1. ~ (count(f[m]) < count(f[l])) /\ count(f[l]) # count(f[m])
      BY <1>15, <2>1
    <3> QED
      BY <1>5, <2>1, <3>1
  <2> QED
    BY <1>2, <2>1, <2>2
<1> QED
  BY <1>12, <1>13, <1>14, <1>15 DEF sooner

\* A fetch comes to the first caption in order whose request is decisive.
Decisive(caption) == caption.outcome \in {"text", "blocked"}

LEMMA FetchIsFirst ==
  ASSUME NEW n \in Nat, NEW S, NEW captions \in [1 .. n -> S],
         NEW preferred, preferred \in Seq(Range(preferred)), NEW original
  PROVE  LET fetched == FetchOnce(captions, preferred, original)
             first(i) == \A j \in 1 .. n :
               Decisive(captions[j]) =>
                 j = i \/ IF preferred = <<>> THEN i < j
                          ELSE Sooner(captions, preferred, original, i, j)
         IN  \/ fetched = Unavailable /\ \A i \in 1 .. n : ~ Decisive(captions[i])
             \/ \E i \in 1 .. n :
                  fetched = captions[i] /\ Decisive(captions[i]) /\ first(i)
<1> DEFINE order == OrderCandidates(captions, preferred, original)
           decisive == FirstDecisive(order)
           fetched == FetchOnce(captions, preferred, original)
           sooner(i, j) == IF preferred = <<>> THEN i < j
                           ELSE Sooner(captions, preferred, original, i, j)
<1>1. PICK f \in [1 .. n -> 1 .. n] :
        /\ order = [m \in 1 .. n |-> captions[f[m]]]
        /\ \A i \in 1 .. n : \E m \in 1 .. n : f[m] = i
        /\ \A l, m \in 1 .. n : l < m => sooner(f[l], f[m])
  <2>1. CASE preferred = <<>>
    <3> DEFINE id == [m \in 1 .. n |-> m]
    <3>1. order = captions
      BY <2>1 DEF OrderCandidates
    <3>2. captions = [m \in 1 .. n |-> captions[m]]
      OBVIOUS
    <3>3. order = [m \in 1 .. n |-> captions[id[m]]]
      BY <3>1, <3>2
    <3>4. id \in [1 .. n -> 1 .. n] /\ \A l, m \in 1 .. n : l < m => sooner(id[l], id[m])
      BY <2>1
    <3>5. \A i \in 1 .. n : \E m \in 1 .. n : id[m] = i
      OBVIOUS
    <3> QED
      BY <3>3, <3>4, <3>5
  <2>2. CASE preferred # <<>>
    BY <2>2, OrderIsSorted
  <2> QED
    BY <2>1, <2>2
<1>2. decisive = {m \in 1 .. n : Decisive(captions[f[m]])}
  BY <1>1 DEF FirstDecisive, Decisive
<1>3. fetched = IF decisive = {} THEN Unavailable ELSE order[Min(decisive)]
  BY DEF FetchOnce
<1> HIDE DEF decisive, order, fetched, sooner
<1>4. CASE decisive = {}
  <2>1. fetched = Unavailable
    BY <1>3, <1>4
  <2>2. \A i \in 1 .. n : ~ Decisive(captions[i])
    BY <1>1, <1>2, <1>4
  <2> QED
    BY <2>1, <2>2 DEF fetched
<1>5. CASE decisive # {}
  <2> DEFINE m == Min(decisive)
  <2>5. decisive \in SUBSET Nat
    BY <1>2
  <2>1. m \in decisive /\ \A l \in decisive : m <= l
    BY <1>5, <2>5, Least
  <2> HIDE DEF m
  <2>2. m \in 1 .. n /\ f[m] \in 1 .. n /\ Decisive(captions[f[m]])
    BY <1>2, <2>1
  <2>3. fetched = captions[f[m]]
    BY <1>1, <1>3, <1>5, <2>2 DEF m
  <2>4. ASSUME NEW j \in 1 .. n, Decisive(captions[j]), j # f[m]
        PROVE  sooner(f[m], j)
    <3>1. PICK l \in 1 .. n : f[l] = j
      BY <1>1
    <3>2. m <= l /\ m # l
      BY <1>2, <2>1, <2>4, <3>1
    <3>3. m < l
      BY <2>2, <3>2
    <3> QED
      BY <1>1, <2>2, <3>1, <3>3
  <2> QED
    BY <2>2, <2>3, <2>4 DEF fetched, sooner
<1> QED
  BY <1>4, <1>5

------------------------------------------------------------------------------
\* The decisions of a behaviour.

\* The output is computed from the input once.
Decided ==
  /\ input \in Videos \cup Summaries
  /\ \/ output = Undecided
     \/ /\ input \in Videos
        /\ output = FetchOnce(input.captions, input.preferred, input.original)
     \/ /\ input \in Summaries
        /\ output = FormatMessage(input.channel, input.title, input.text, input.description)

LEMMA DecidedInvariant == Spec => []Decided
<1>1. Init => Decided
  BY DEF Init, Decided
<1>2. Decided /\ [Next]_vars => Decided'
  BY DEF Decided, Next, vars, ChooseCaption, Format
<1> QED
  BY <1>1, <1>2, PTL DEF Spec

LEMMA InputKinds ==
  /\ \A v \in Videos :
       /\ v \notin Summaries
       /\ v.preferred \in Preferences
       /\ \E n \in Nat \ {0} : v.captions \in [1 .. n -> Captions]
  /\ \A v \in Summaries :
       /\ v \notin Videos
       /\ v.channel = <<"x">> /\ v.title \in Seq({"x", "&"})
       /\ v.text \in Seq({"x", "&", Break})
       /\ v.description \in BOOLEAN
<1>1. ASSUME NEW v \in Videos
      PROVE  /\ v.preferred \in Preferences
             /\ \E n \in Nat \ {0} : v.captions \in [1 .. n -> Captions]
             /\ DOMAIN v = {"captions", "preferred", "original"}
  <2>1. /\ DOMAIN v = {"captions", "preferred", "original"}
        /\ v.preferred \in Preferences
        /\ v.captions \in UNION {[1 .. n -> Captions] : n \in 1 .. MaxCaptions}
    BY DEF Videos
  <2>2. PICK n \in 1 .. MaxCaptions : v.captions \in [1 .. n -> Captions]
    BY <2>1
  <2> QED
    BY <2>1, <2>2
<1>2. ASSUME NEW v \in Summaries
      PROVE  /\ v.channel = <<"x">> /\ v.title \in Seq({"x", "&"})
             /\ v.text \in Seq({"x", "&", Break})
             /\ v.description \in BOOLEAN
             /\ DOMAIN v = {"channel", "title", "text", "description"}
  <2>1. /\ DOMAIN v = {"channel", "title", "text", "description"}
        /\ v.channel = <<"x">>
        /\ v.title \in UNION {[1 .. n -> {"x", "&"}] : n \in 0 .. MaxTitle}
        /\ v.text \in UNION {[1 .. n -> {"x", "&", Break}] : n \in 1 .. MaxText}
        /\ v.description \in BOOLEAN
    BY DEF Summaries
  <2>2. PICK n \in 0 .. MaxTitle : v.title \in [1 .. n -> {"x", "&"}]
    BY <2>1
  <2>3. PICK m \in 1 .. MaxText : v.text \in [1 .. m -> {"x", "&", Break}]
    BY <2>1
  <2> QED
    BY <2>1, <2>2, <2>3
<1>3. {"captions", "preferred", "original"} # {"channel", "title", "text", "description"}
  OBVIOUS
<1> QED
  BY <1>1, <1>2, <1>3

\* Caption i is tried before all other decisive ones.
First(i) ==
  /\ i \in DOMAIN input.captions /\ Decisive(input.captions[i])
  /\ \A j \in DOMAIN input.captions :
       Decisive(input.captions[j]) =>
         j = i \/ IF input.preferred = <<>> THEN i < j
                  ELSE Sooner(input.captions, input.preferred, input.original, i, j)

LEMMA ChosenIsFirst ==
  ASSUME Decided, Chosen
  PROVE  /\ input.preferred \in Seq(Range(input.preferred))
         /\ \E n \in Nat \ {0} : input.captions \in [1 .. n -> Captions]
         /\ \/ /\ output = Unavailable
               /\ \A i \in DOMAIN input.captions : ~ Decisive(input.captions[i])
            \/ \E i \in DOMAIN input.captions : First(i) /\ output = input.captions[i]
<1>1. /\ input \in Videos
      /\ output = FetchOnce(input.captions, input.preferred, input.original)
  BY InputKinds DEF Decided, Chosen
<1>2. input.preferred \in Seq(Range(input.preferred))
  BY <1>1, InputKinds, PreferencesAssumption
<1>3. PICK n \in Nat \ {0} : input.captions \in [1 .. n -> Captions]
  BY <1>1, InputKinds
<1> DEFINE captions == input.captions
           preferred == input.preferred
           original == input.original
<1> HIDE DEF captions, preferred, original
<1>4. preferred \in Seq(Range(preferred)) /\ captions \in [1 .. n -> Captions]
      /\ output = FetchOnce(captions, preferred, original) /\ DOMAIN captions = 1 .. n
  BY <1>1, <1>2, <1>3 DEF captions, preferred, original
<1>5. \/ output = Unavailable /\ \A i \in 1 .. n : ~ Decisive(captions[i])
      \/ \E i \in 1 .. n :
           /\ output = captions[i] /\ Decisive(captions[i])
           /\ \A j \in 1 .. n :
                Decisive(captions[j]) =>
                  j = i \/ IF preferred = <<>> THEN i < j
                           ELSE Sooner(captions, preferred, original, i, j)
  BY <1>4, FetchIsFirst
<1> QED
  BY <1>2, <1>3, <1>4, <1>5 DEF First, captions, preferred, original

\* The outcomes of a request.
LEMMA Outcomes ==
  ASSUME Decided, Chosen, NEW i \in DOMAIN input.captions
  PROVE  /\ input.captions[i] \in Range(input.captions)
         /\ input.captions[i].outcome \in {"text", "nothing", "blocked"}
         /\ input.captions[i].outcome # Unavailable.outcome
<1>1. PICK n \in Nat \ {0} : input.captions \in [1 .. n -> Captions]
  BY ChosenIsFirst
<1>2. input.captions[i] \in Captions
  BY <1>1
<1> QED
  BY <1>2 DEF Captions, Range, Unavailable

\* Without a block a fetch comes to the first caption with text.
LEMMA ChosenText ==
  ASSUME Decided, Chosen, Unblocked, NEW i \in DOMAIN input.captions,
         First(i), output = input.captions[i]
  PROVE  /\ output \in Texts
         /\ \A c \in Texts : \E j \in DOMAIN input.captions :
              /\ c = input.captions[j] /\ Decisive(input.captions[j])
<1>1. output.outcome = "text" /\ output \in Range(input.captions)
  BY Outcomes DEF First, Decisive, Unblocked
<1> QED
  BY <1>1 DEF Texts, Range, Decisive

\* The place of a caption, in the words of the properties.
LEMMA PlaceMeans ==
  ASSUME Decided, Chosen, NEW i \in DOMAIN input.captions
  PROVE  LET c == input.captions[i]
             place == PlaceOf(input.captions, input.preferred, input.original, i)
         IN  /\ place[1] \in Nat /\ place[2] \in Nat
             /\ ~ Preferred(c) => place[1] = Len(input.preferred) + 1 /\ place[2] = 0
             /\ Preferred(c) =>
                  /\ place[1] = IF Spoken # {} /\ Preference(c.language) = Min(Spoken) THEN 0
                                ELSE Preference(c.language)
                  /\ place[2] = IF input.preferred[Preference(c.language)] = c.language
                                  THEN 0 ELSE 1
                  /\ Preference(c.language) \in 1 .. Len(input.preferred)
<1>1. input.preferred \in Seq(Range(input.preferred))
  BY ChosenIsFirst
<1>2. SpokenIn(input.captions, input.preferred, input.original) = Spoken
  BY DEF Spoken, SpokenIn, Preferred, Preference
<1>3. Placed(PlaceOf(input.captions, input.preferred, input.original, i),
             input.captions[i].language, input.preferred, Spoken)
  BY <1>1, <1>2, PlaceIs DEF PlaceOf
<1> QED
  BY <1>3 DEF Placed, Preferred, Preference

\* Group and Exact are the place of a caption.
LEMMA GroupMeans ==
  ASSUME Decided, Chosen, NEW i \in DOMAIN input.captions
  PROVE  LET c == input.captions[i]
             place == PlaceOf(input.captions, input.preferred, input.original, i)
         IN  /\ place[1] \in Nat /\ place[1] = Group(c)
             /\ Exact(c) \in BOOLEAN /\ (Exact(c) => place[2] = 0)
             /\ Preferred(c) <=> place[1] # Len(input.preferred) + 1
             /\ Preferred(c) => place[2] = IF Exact(c) THEN 0 ELSE 1
             /\ ~ Preferred(c) => place[2] = 0 /\ ~ Exact(c)
<1> DEFINE c == input.captions[i]
           place == PlaceOf(input.captions, input.preferred, input.original, i)
<1>1. /\ place[1] \in Nat /\ place[2] \in Nat
      /\ ~ Preferred(c) => place[1] = Len(input.preferred) + 1 /\ place[2] = 0
      /\ Preferred(c) =>
           /\ place[1] = IF Spoken # {} /\ Preference(c.language) = Min(Spoken) THEN 0
                         ELSE Preference(c.language)
           /\ place[2] = IF input.preferred[Preference(c.language)] = c.language THEN 0 ELSE 1
           /\ Preference(c.language) \in 1 .. Len(input.preferred)
  BY PlaceMeans
<1>2. Len(input.preferred) \in Nat
  BY ChosenIsFirst, LenProperties
<1> HIDE DEF place
<1>3. Preferred(c) => place[1] # Len(input.preferred) + 1
  BY <1>1, <1>2
<1>4. place[1] = Group(c)
  BY <1>1 DEF Group
<1>5. Exact(c) \in BOOLEAN /\ (Exact(c) => place[2] = 0)
  BY <1>1 DEF Exact
<1>6. Preferred(c) => place[2] = IF Exact(c) THEN 0 ELSE 1
  BY <1>1 DEF Exact
<1>7. ~ Preferred(c) => ~ Exact(c)
  BY DEF Exact
<1> QED
  BY <1>1, <1>3, <1>4, <1>5, <1>6, <1>7 DEF place

\* The caption a fetch comes to, and any other whose request is decisive.
LEMMA FirstBeats ==
  ASSUME Decided, Chosen, NEW i \in DOMAIN input.captions, First(i), NEW j \in Rivals
  PROVE  LET c == input.captions[i]
             d == input.captions[j]
         IN  /\ i \in Rivals /\ Group(c) <= Group(d)
             /\ Group(d) = Group(c) => IF Exact(d) = Exact(c) THEN i <= j ELSE Exact(c)
<1> DEFINE c == input.captions[i]
           d == input.captions[j]
           place(k) == PlaceOf(input.captions, input.preferred, input.original, k)
           group(k) == place(k)[1]
           variant(k) == place(k)[2]
<1>1. j \in DOMAIN input.captions /\ Decisive(d)
  BY Outcomes DEF Rivals, Decisive
<1>2. i \in Rivals
  BY Outcomes DEF First, Rivals, Decisive
<1>3. i \in Nat /\ j \in Nat
  BY <1>1, ChosenIsFirst
<1>4. \A k \in {i, j} :
        LET e == input.captions[k] IN
        /\ group(k) \in Nat /\ group(k) = Group(e)
        /\ Preferred(e) <=> group(k) # Len(input.preferred) + 1
        /\ Preferred(e) => variant(k) = IF Exact(e) THEN 0 ELSE 1
        /\ ~ Preferred(e) => variant(k) = 0 /\ ~ Exact(e)
  BY <1>1, GroupMeans
<1>5. ~ Exact(c) /\ ~ Exact(d) => Exact(d) = Exact(c)
  BY <1>1, GroupMeans
<1>6. CASE j = i
  <2>1. Group(c) = Group(d) /\ Group(c) \in Nat
    BY <1>4, <1>6
  <2>2. Group(c) <= Group(d) /\ i <= j
    BY <1>3, <1>6, <2>1
  <2> QED
    BY <1>2, <1>6, <2>2
<1>7. CASE j # i /\ input.preferred = <<>>
  <2>1. ~ Preferred(c) /\ ~ Preferred(d)
    BY <1>7 DEF Preferred, Matching
  <2>2. Group(c) = Group(d) /\ Group(c) \in Nat /\ ~ Exact(c) /\ ~ Exact(d)
    BY <1>4, <2>1
  <2>3. i < j
    BY <1>1, <1>7 DEF First
  <2>4. Group(c) <= Group(d) /\ i <= j
    BY <1>3, <2>2, <2>3
  <2>5. Exact(d) = Exact(c)
    BY <1>5, <2>2
  <2> QED
    BY <1>2, <2>4, <2>5
<1>8. CASE j # i /\ input.preferred # <<>>
  <2>1. \/ group(i) < group(j)
        \/ group(i) = group(j) /\ (variant(i) < variant(j) \/ (variant(i) = variant(j) /\ i < j))
    BY <1>1, <1>8 DEF First, Sooner, Before
  <2> HIDE DEF group, variant
  <2>2. group(i) \in Nat /\ group(j) \in Nat /\ group(i) = Group(c) /\ group(j) = Group(d)
    BY <1>4
  <2>3. Group(c) <= Group(d)
    BY <2>1, <2>2
  <2>4. ASSUME Group(d) = Group(c)
        PROVE  IF Exact(d) = Exact(c) THEN i <= j ELSE Exact(c)
    <3>1. variant(i) < variant(j) \/ (variant(i) = variant(j) /\ i < j)
      BY <2>1, <2>2, <2>4
    <3>2. Preferred(c) <=> Preferred(d)
      BY <1>4, <2>2, <2>4
    <3>3. CASE ~ Preferred(c)
      <4>1. variant(i) = 0 /\ variant(j) = 0 /\ ~ Exact(c) /\ ~ Exact(d)
        BY <1>4, <3>2, <3>3
      <4>2. i <= j
        BY <1>3, <3>1, <4>1
      <4>3. Exact(d) = Exact(c)
        BY <1>5, <4>1
      <4> QED
        BY <4>2, <4>3
    <3>4. CASE Preferred(c)
      <4>1. /\ variant(i) = IF Exact(c) THEN 0 ELSE 1
            /\ variant(j) = IF Exact(d) THEN 0 ELSE 1
        BY <1>4, <3>2, <3>4
      <4>2. Exact(c) <=> Exact(d) => i <= j
        BY <1>3, <3>1, <4>1
      <4>3. Exact(d) => Exact(c)
        BY <3>1, <4>1
      <4>4. Exact(c) \in BOOLEAN /\ Exact(d) \in BOOLEAN
        BY <1>1, GroupMeans
      <4>5. Exact(d) = Exact(c) => i <= j
        BY <4>2
      <4>6. Exact(d) # Exact(c) => Exact(c)
        BY <4>3, <4>4, Zenon
      <4> QED
        BY <4>5, <4>6, Zenon
    <3> QED
      BY <3>3, <3>4
  <2> QED
    BY <1>2, <2>3, <2>4
<1> QED
  BY <1>6, <1>7, <1>8

\* A fetch without a transcript met no caption with text and no block.
LEMMA NoneOrFirst ==
  ASSUME Decided, Chosen
  PROVE  \/ output = Unavailable /\ Rivals = {}
         \/ /\ output # Unavailable
            /\ \E i \in Rivals : First(i) /\ output = input.captions[i]
<1>1. CASE output = Unavailable /\ \A i \in DOMAIN input.captions : ~ Decisive(input.captions[i])
  BY <1>1, Outcomes DEF Rivals, Decisive
<1>2. ASSUME NEW i \in DOMAIN input.captions, First(i), output = input.captions[i]
      PROVE  output # Unavailable /\ i \in Rivals
  BY <1>2, Outcomes DEF First, Rivals, Decisive
<1> QED
  BY <1>1, <1>2, ChosenIsFirst

\* BlockInItsPlace, whatever captions a video has and whatever their requests
\* come to: a block is reported if and only if no text is in a language as good
\* and ahead of it.
THEOREM BlockReported == Spec => []BlockInItsPlace
<1>1. ASSUME Decided, Chosen, output # Unavailable, NEW j \in Rivals
      PROVE  Group(output) <= Group(input.captions[j])
  <2>1. PICK i \in Rivals : First(i) /\ output = input.captions[i]
    BY <1>1, NoneOrFirst
  <2>2. i \in DOMAIN input.captions
    BY DEF Rivals
  <2> QED
    BY <1>1, <2>1, <2>2, FirstBeats
<1>2. Decided => BlockInItsPlace
  BY <1>1, NoneOrFirst DEF BlockInItsPlace
<1> QED
  BY <1>2, DecidedInvariant, PTL

\* Which of two captions with text is tried first.
LEMMA FirstMeans ==
  ASSUME Decided, Chosen, Unblocked, input.preferred # <<>>,
         NEW i \in DOMAIN input.captions, First(i), output = input.captions[i],
         NEW c \in Texts
  PROVE  /\ Preferred(c) => Preferred(output)
         /\ Preferred(c) /\ Spoken # {} /\ Preference(c.language) = Min(Spoken)
              => Preference(output.language) = Min(Spoken)
         /\ Preferred(c) =>
              \/ Spoken # {} /\ Preference(output.language) = Min(Spoken)
              \/ Preference(output.language) <= Preference(c.language)
<1> DEFINE place(k) == PlaceOf(input.captions, input.preferred, input.original, k)
           group(k) == place(k)[1]
           variant(k) == place(k)[2]
<1>1. PICK j \in DOMAIN input.captions : c = input.captions[j] /\ Decisive(input.captions[j])
  BY ChosenText
<1>2. j = i \/ group(i) < group(j) \/ (group(i) = group(j) /\ variant(i) <= variant(j))
  <2>1. j = i \/ Sooner(input.captions, input.preferred, input.original, i, j)
    BY <1>1 DEF First
  <2>2. variant(i) \in Nat /\ variant(j) \in Nat
    BY PlaceMeans
  <2> QED
    BY <2>1, <2>2 DEF Sooner, Before
<1>3. \A k \in {i, j} :
        LET d == input.captions[k] IN
        /\ group(k) \in Nat /\ variant(k) \in Nat
        /\ ~ Preferred(d) => group(k) = Len(input.preferred) + 1 /\ variant(k) = 0
        /\ Preferred(d) =>
             /\ group(k) = IF Spoken # {} /\ Preference(d.language) = Min(Spoken) THEN 0
                           ELSE Preference(d.language)
             /\ variant(k) = IF input.preferred[Preference(d.language)] = d.language
                             THEN 0 ELSE 1
             /\ Preference(d.language) \in 1 .. Len(input.preferred)
  BY PlaceMeans
<1>4. Len(input.preferred) \in Nat
  BY ChosenIsFirst, LenProperties
<1> HIDE DEF group, variant
<1>5. ASSUME Preferred(c)
      PROVE  /\ Preferred(output) /\ group(i) <= group(j)
             /\ group(i) = group(j) => variant(i) <= variant(j)
  BY <1>1, <1>2, <1>3, <1>4, <1>5
<1>6. ASSUME Preferred(c)
      PROVE  \/ Spoken # {} /\ Preference(output.language) = Min(Spoken)
             \/ /\ ~ (Spoken # {} /\ Preference(c.language) = Min(Spoken))
                /\ Preference(output.language) <= Preference(c.language)
  BY <1>1, <1>3, <1>5, <1>6
<1> QED
  BY <1>5, <1>6

\* Whatever languages are configured: the language spoken wins if there is text in
\* it, then the first configured language with text (order_candidates).
THEOREM LanguagesInOrder == Spec => []LanguageOrder
<1>1. ASSUME Decided, Chosen, Unblocked, Texts # {}
      PROVE  LanguageOrder
  <2> DEFINE spoken == {c \in Texts : /\ Preferred(c) /\ Spoken # {}
                                     /\ Preference(c.language) = Min(Spoken)}
             configured == {c \in Texts : Preferred(c)}
             texts == {i \in DOMAIN input.captions : input.captions[i] \in Texts}
  <2> SUFFICES \/ output \in spoken
               \/ spoken = {} /\ output \in configured
                    /\ \A c \in configured :
                         Preference(output.language) <= Preference(c.language)
               \/ configured = {} /\ output = input.captions[Min(texts)]
    BY DEF LanguageOrder
  <2>1. PICK i \in DOMAIN input.captions : First(i) /\ output = input.captions[i]
    <3>1. PICK j \in DOMAIN input.captions : Decisive(input.captions[j])
      BY <1>1 DEF Texts, Range, Decisive
    <3> QED
      BY <1>1, <3>1, ChosenIsFirst
  <2>2. output \in Texts
    BY <1>1, <2>1, ChosenText
  <2>3. ASSUME \A j \in texts : i <= j
        PROVE  output = input.captions[Min(texts)]
    <3>1. texts \in SUBSET Nat /\ i \in texts
      BY <1>1, <2>1, <2>2, ChosenIsFirst
    <3>2. Min(texts) \in texts /\ \A j \in texts : Min(texts) <= j
      BY <3>1, Least
    <3>3. Min(texts) = i
      BY <2>3, <3>1, <3>2
    <3> QED
      BY <2>1, <3>3
  <2>4. \A j \in texts : Decisive(input.captions[j])
    BY DEF Texts, Decisive
  <2>5. DOMAIN input.captions \in SUBSET Nat
    BY <1>1, ChosenIsFirst
  <2>6. CASE input.preferred = <<>>
    <3>1. \A c \in Texts : ~ Preferred(c)
      BY <2>6 DEF Preferred, Matching
    <3>2. \A j \in texts : i <= j
      BY <2>1, <2>4, <2>5, <2>6 DEF First
    <3> QED
      BY <2>3, <3>1, <3>2
  <2>7. CASE input.preferred # <<>> /\ configured = {}
    <3>1. \A j \in texts : i <= j
      <4> SUFFICES ASSUME NEW j \in texts, j # i PROVE i <= j
        BY <2>5
      <4>1. Sooner(input.captions, input.preferred, input.original, i, j)
        BY <2>1, <2>4, <2>7 DEF First
      <4>2. ~ Preferred(input.captions[i]) /\ ~ Preferred(input.captions[j])
        BY <2>1, <2>2, <2>7
      <4>3. \A k \in {i, j} :
              LET place == PlaceOf(input.captions, input.preferred, input.original, k)
              IN  place[1] = Len(input.preferred) + 1 /\ place[2] = 0
        BY <1>1, <4>2, PlaceMeans
      <4>4. Len(input.preferred) \in Nat
        BY <1>1, ChosenIsFirst, LenProperties
      <4>5. i < j
        BY <4>1, <4>3, <4>4 DEF Sooner, Before
      <4> QED
        BY <2>5, <4>5
    <3> QED
      BY <2>3, <2>7, <3>1
  <2>8. CASE input.preferred # <<>> /\ configured # {}
    BY <1>1, <2>1, <2>2, <2>8, FirstMeans
  <2> QED
    BY <2>6, <2>7, <2>8
<1>2. Decided => LanguageOrder
  BY <1>1 DEF LanguageOrder
<1> QED
  BY <1>2, DecidedInvariant, PTL

\* ExactBeforeVariant, whatever languages are configured and in whatever order
\* captions are listed: the exact code wins over variants, and the listing decides
\* between captions that are equal (transcript_language_match_rank, order_candidates).
THEOREM ExactFirst == Spec => []ExactBeforeVariant
<1>1. ASSUME Decided, Chosen, output # Unavailable
      PROVE  \E i \in Rivals :
               /\ output = input.captions[i]
               /\ \A j \in Rivals :
                    Group(input.captions[j]) = Group(output) =>
                      IF Exact(input.captions[j]) = Exact(output) THEN i <= j ELSE Exact(output)
  <2>1. PICK i \in Rivals : First(i) /\ output = input.captions[i]
    BY <1>1, NoneOrFirst
  <2>2. i \in DOMAIN input.captions
    BY DEF Rivals
  <2>3. \A j \in Rivals :
          Group(input.captions[j]) = Group(output) =>
            IF Exact(input.captions[j]) = Exact(output) THEN i <= j ELSE Exact(output)
    BY <1>1, <2>1, <2>2, FirstBeats
  <2> QED
    BY <2>1, <2>3
<1>2. Decided => ExactBeforeVariant
  BY <1>1 DEF ExactBeforeVariant
<1> QED
  BY <1>2, DecidedInvariant, PTL

------------------------------------------------------------------------------
\* Messages: escaped texts.

Char == {"x", "&", "a", ";", "<", ">", Break} \cup Range(Link) \cup Range(Notice)

LEMMA OffsetStep ==
  ASSUME NEW text, NEW i \in Nat \ {0}
  PROVE  /\ Offset(text, i) \in Nat
         /\ Offset(text, i + 1) = Offset(text, i) + IF text[i] = "&" THEN 3 ELSE 1
         /\ \A j \in Nat \ {0} : j <= i => Offset(text, j) <= Offset(text, i)
         /\ Offset(text, 1) = 0
<1> DEFINE entities(k) == {j \in 1 .. k - 1 : text[j] = "&"}
<1>1. ASSUME NEW k \in Nat \ {0}
      PROVE  /\ IsFiniteSet(entities(k)) /\ Cardinality(entities(k)) \in Nat
             /\ Offset(text, k) = k - 1 + 2 * Cardinality(entities(k))
  <2>1. entities(k) \in SUBSET (1 .. k - 1) /\ IsFiniteSet(1 .. k - 1)
    BY FS_Interval
  <2>2. IsFiniteSet(entities(k))
    BY <2>1, FS_Subset
  <2> QED
    BY <2>2, FS_CardinalityType DEF Offset
<1>2. entities(1) = {}
  BY SMT
<1>3. entities(i + 1) = IF text[i] = "&" THEN entities(i) \cup {i} ELSE entities(i)
  BY SMT
<1>4. i \notin entities(i)
  BY SMT
<1>5. ASSUME NEW j \in Nat \ {0}, j <= i
      PROVE  entities(j) \in SUBSET entities(i)
  BY <1>5, SMT
<1> HIDE DEF entities
<1>6. Cardinality(entities(i + 1)) =
        Cardinality(entities(i)) + IF text[i] = "&" THEN 1 ELSE 0
  BY <1>1, <1>3, <1>4, FS_AddElement
<1>7. ASSUME NEW j \in Nat \ {0}, j <= i
      PROVE  Offset(text, j) <= Offset(text, i)
  <2>1. Cardinality(entities(j)) <= Cardinality(entities(i))
    BY <1>1, <1>5, <1>7, FS_Subset
  <2> QED
    BY <1>1, <1>7, <2>1
<1>8. Offset(text, 1) = 0
  <2>1. Cardinality(entities(1)) = 0
    BY <1>2, FS_EmptySet
  <2> QED
    BY <1>1, <2>1
<1>9. Offset(text, i) \in Nat
  BY <1>1
<1>10. Offset(text, i + 1) = Offset(text, i) + IF text[i] = "&" THEN 3 ELSE 1
  BY <1>1, <1>6
<1> QED
  BY <1>7, <1>8, <1>9, <1>10

LEMMA EscapedIs ==
  ASSUME NEW char \in Char
  PROVE  /\ Len(Escaped(char)) = IF char = "&" THEN 3 ELSE 1
         /\ \A k \in 1 .. Len(Escaped(char)) : Escaped(char)[k] \in Char
         /\ char = "&" => /\ Escaped(char)[1] = "&" /\ Escaped(char)[2] = "a"
                          /\ Escaped(char)[3] = ";"
         /\ char # "&" => Escaped(char)[1] = char
<1>1. CASE char = "&"
  <2>1. Len(Escaped(char)) = 3
    BY <1>1 DEF Escaped
  <2>2. \A k \in 1 .. 3 : k = 1 \/ k = 2 \/ k = 3
    OBVIOUS
  <2>3. Escaped(char)[1] = "&" /\ Escaped(char)[2] = "a" /\ Escaped(char)[3] = ";"
    BY <1>1 DEF Escaped
  <2>4. "&" \in Char /\ "a" \in Char /\ ";" \in Char
    BY DEF Char
  <2>5. \A k \in 1 .. 3 : Escaped(char)[k] \in Char
    BY <2>2, <2>3, <2>4
  <2> QED
    BY <1>1, <2>1, <2>3, <2>5
<1>2. CASE char # "&"
  <2>1. Len(Escaped(char)) = 1 /\ Escaped(char)[1] = char
    BY <1>2 DEF Escaped
  <2>2. \A k \in 1 .. 1 : k = 1
    OBVIOUS
  <2> QED
    BY <1>2, <2>1, <2>2
<1> QED
  BY <1>1, <1>2

\* Every character of an escaped text comes from one of the text, and the other
\* way round.
LEMMA EscapeIs ==
  ASSUME NEW text \in Seq(Char)
  PROVE  LET size == Offset(text, Len(text) + 1) IN
         /\ Escape(text) \in Seq(Char)
         /\ size \in Nat /\ Len(Escape(text)) = size
         /\ \A i \in 1 .. Len(text) : \A k \in 1 .. Len(Escaped(text[i])) :
              /\ Offset(text, i) + k \in 1 .. size
              /\ Escape(text)[Offset(text, i) + k] = Escaped(text[i])[k]
         /\ \A n \in 1 .. size : \E i \in 1 .. Len(text) :
              \E k \in 1 .. Len(Escaped(text[i])) : n = Offset(text, i) + k
<1> DEFINE length == Len(text)
           size == Offset(text, length + 1)
           before(n) == {i \in 1 .. length : Offset(text, i) < n}
           source(n) == Max(before(n))
<1>1. length \in Nat /\ DOMAIN text = 1 .. length /\ \A i \in 1 .. length : text[i] \in Char
  BY LenProperties
<1>2. Escape(text) = [n \in 1 .. size |->
                        Escaped(text[source(n)])[n - Offset(text, source(n))]]
  BY <1>1 DEF Escape
<1>3. \A i \in 1 .. length + 1 : Offset(text, i) \in Nat
  BY <1>1, OffsetStep
<1>4. size \in Nat
  BY <1>1, <1>3
<1>5. \A i \in 1 .. length : Offset(text, i + 1) = Offset(text, i) + Len(Escaped(text[i]))
  <2> SUFFICES ASSUME NEW i \in 1 .. length
               PROVE  Offset(text, i + 1) = Offset(text, i) + Len(Escaped(text[i]))
    OBVIOUS
  <2>1. i \in Nat \ {0} /\ text[i] \in Char
    BY <1>1
  <2>2. Offset(text, i + 1) = Offset(text, i) + IF text[i] = "&" THEN 3 ELSE 1
    BY <2>1, OffsetStep
  <2>3. Len(Escaped(text[i])) = IF text[i] = "&" THEN 3 ELSE 1
    BY <2>1, EscapedIs
  <2> QED
    BY <2>2, <2>3
<1>13. \A i \in 1 .. length : Len(Escaped(text[i])) \in Nat
  <2> SUFFICES ASSUME NEW i \in 1 .. length PROVE Len(Escaped(text[i])) \in Nat
    OBVIOUS
  <2>1. Len(Escaped(text[i])) = IF text[i] = "&" THEN 3 ELSE 1
    BY <1>1, EscapedIs
  <2> QED
    BY <2>1
<1>6. \A i, j \in 1 .. length + 1 : i <= j => Offset(text, i) <= Offset(text, j)
  BY <1>1, OffsetStep
<1>7. ASSUME NEW i \in 1 .. length, NEW k \in 1 .. Len(Escaped(text[i]))
      PROVE  /\ Offset(text, i) + k \in 1 .. size
             /\ source(Offset(text, i) + k) = i
  <2> DEFINE n == Offset(text, i) + k
  <2>1. /\ i + 1 \in 1 .. length + 1 /\ Offset(text, i) \in Nat
        /\ Offset(text, i + 1) \in Nat /\ k \in Nat \ {0}
        /\ n <= Offset(text, i + 1)
    BY <1>1, <1>3, <1>5, <1>13
  <2>2. Offset(text, i + 1) <= size
    BY <1>1, <1>6, <2>1
  <2>3. i \in before(n)
    BY <2>1
  <2>4. \A j \in before(n) : j <= i
    <3> SUFFICES ASSUME NEW j \in before(n), ~ (j <= i) PROVE FALSE
      OBVIOUS
    <3>1. j \in 1 .. length + 1 /\ i + 1 <= j /\ Offset(text, j) \in Nat
      BY <1>1, <1>3
    <3>2. Offset(text, i + 1) <= Offset(text, j)
      BY <1>6, <2>1, <3>1
    <3> QED
      BY <2>1, <3>1, <3>2
  <2>5. before(n) \in SUBSET (0 .. length)
    BY <1>1
  <2> HIDE DEF n, before
  <2>6. Max(before(n)) \in before(n) /\ \A j \in before(n) : j <= Max(before(n))
    BY <1>1, <2>3, <2>5, Greatest
  <2>7. Max(before(n)) = i
    BY <2>3, <2>4, <2>5, <2>6
  <2>8. n \in 1 .. size
    BY <1>4, <2>1, <2>2 DEF n
  <2> QED
    BY <2>7, <2>8 DEF n, source
<1>8. ASSUME NEW n \in 1 .. size
      PROVE  \E i \in 1 .. length : \E k \in 1 .. Len(Escaped(text[i])) : n = Offset(text, i) + k
  <2>1. length # 0
    BY <1>4, OffsetStep
  <2>11. Offset(text, 1) = 0
    BY OffsetStep
  <2>2. 1 \in before(n)
    BY <1>1, <2>1, <2>11
  <2>3. before(n) \in SUBSET (0 .. length)
    BY <1>1
  <2>4. source(n) \in before(n) /\ \A j \in before(n) : j <= source(n)
    BY <1>1, <2>2, <2>3, Greatest
  <2> DEFINE i == source(n)
  <2>5. i \in 1 .. length /\ Offset(text, i) < n
    BY <2>4
  <2>6. n <= Offset(text, i + 1)
    <3>1. CASE i = length
      BY <3>1
    <3>2. CASE i # length
      <4>1. i + 1 \in 1 .. length /\ i + 1 \notin before(n)
        BY <1>1, <2>4, <2>5, <3>2
      <4>2. ~ (Offset(text, i + 1) < n)
        BY <4>1
      <4> QED
        BY <1>1, <1>3, <4>1, <4>2
    <3> QED
      BY <3>1, <3>2
  <2> HIDE DEF i
  <2>7. Offset(text, i) \in Nat /\ Offset(text, i + 1) = Offset(text, i) + Len(Escaped(text[i]))
    BY <1>1, <1>3, <1>5, <2>5
  <2>8. Len(Escaped(text[i])) \in Nat
    BY <1>13, <2>5
  <2>9. n - Offset(text, i) \in 1 .. Len(Escaped(text[i]))
    BY <1>4, <2>5, <2>6, <2>7, <2>8
  <2>10. n = Offset(text, i) + (n - Offset(text, i))
    BY <1>4, <2>7
  <2> QED
    BY <2>5, <2>9, <2>10
<1> HIDE DEF source, before, size
<1>9. ASSUME NEW i \in 1 .. length, NEW k \in 1 .. Len(Escaped(text[i]))
      PROVE  /\ Escape(text)[Offset(text, i) + k] = Escaped(text[i])[k]
             /\ Escaped(text[i])[k] \in Char
  <2>1. Offset(text, i) \in Nat /\ k \in Int
    BY <1>1, <1>3
  <2>2. Offset(text, i) + k - Offset(text, i) = k
    BY <2>1
  <2>3. Escaped(text[i])[k] \in Char
    BY <1>1, EscapedIs
  <2>4. Offset(text, i) + k \in 1 .. size /\ source(Offset(text, i) + k) = i
    BY <1>7
  <2> DEFINE n == Offset(text, i) + k
  <2>5. n - Offset(text, i) = k
    BY <2>1
  <2>6. n \in 1 .. size /\ source(n) = i
    BY <2>4
  <2> HIDE DEF n
  <2>7. Escape(text)[n] = Escaped(text[i])[k]
    BY <1>2, <2>5, <2>6
  <2> QED
    BY <2>3, <2>7 DEF n
<1>10. \A n \in 1 .. size : Escape(text)[n] \in Char
  BY <1>8, <1>9
<1>11. Escape(text) \in [1 .. size -> Char]
  BY <1>2, <1>10
<1>12. Escape(text) \in Seq(Char) /\ Len(Escape(text)) = size
  BY <1>4, <1>11
<1> QED
  BY <1>4, <1>7, <1>8, <1>9, <1>12 DEF size

\* Where a text has a character.
Marks(text, char) == {n \in 1 .. Len(text) : text[n] = char}

\* A text of which no entity and no tag is cut, with the places of its tags.
Sound(text, tags) ==
  /\ text \in Seq(Char)
  /\ Marks(text, "<") = tags
  /\ \A n \in Marks(text, "<") : n + 1 \in Marks(text, ">")
  /\ \A n \in Marks(text, "&") : n + 1 \in Marks(text, "a") /\ n + 2 \in Marks(text, ";")

\* Strip removes nothing from the start of such a text.
InkFirst(text) == text # <<>> => text[1] # Break

LEMMA MarksConcat ==
  ASSUME NEW s \in Seq(Char), NEW t \in Seq(Char), NEW c
  PROVE  Marks(s \o t, c) = Marks(s, c) \cup {Len(s) + n : n \in Marks(t, c)}
<1> DEFINE u == s \o t
           k == Len(s)
           l == Len(t)
<1>1. k \in Nat /\ l \in Nat
  BY LenProperties
<1>2. /\ Len(u) = k + l
      /\ \A n \in 1 .. k + l : u[n] = IF n <= k THEN s[n] ELSE t[n - k]
  BY ConcatProperties
<1> HIDE DEF u, k, l
<1>3. ASSUME NEW n \in 1 .. k + l, u[n] = c
      PROVE  \/ n \in 1 .. k /\ s[n] = c
             \/ \E m \in 1 .. l : t[m] = c /\ n = k + m
  <2>1. CASE n <= k
    BY <1>1, <1>2, <1>3, <2>1
  <2>2. CASE ~ (n <= k)
    <3>1. n - k \in 1 .. l /\ n = k + (n - k)
      BY <1>1, <2>2
    <3>2. t[n - k] = c
      BY <1>2, <1>3, <2>2
    <3> QED
      BY <3>1, <3>2
  <2> QED
    BY <2>1, <2>2
<1>4. ASSUME NEW n \in 1 .. k, s[n] = c
      PROVE  n \in 1 .. k + l /\ u[n] = c
  <2>1. n \in 1 .. k + l /\ n <= k
    BY <1>1
  <2> QED
    BY <1>2, <1>4, <2>1
<1>5. ASSUME NEW m \in 1 .. l, t[m] = c
      PROVE  k + m \in 1 .. k + l /\ u[k + m] = c
  <2>1. k + m \in 1 .. k + l /\ ~ (k + m <= k) /\ (k + m) - k = m
    BY <1>1
  <2>2. u[k + m] = t[(k + m) - k]
    BY <1>2, <2>1
  <2> QED
    BY <1>5, <2>1, <2>2
<1>6. {n \in 1 .. k + l : u[n] = c} =
        {n \in 1 .. k : s[n] = c} \cup {k + n : n \in {m \in 1 .. l : t[m] = c}}
  BY <1>3, <1>4, <1>5
<1>7. Len(u) = k + l
  BY <1>2
<1> QED
  BY <1>6, <1>7 DEF Marks, u, k, l

LEMMA EscapeSound ==
  ASSUME NEW text \in Seq(Char), "<" \notin Range(text)
  PROVE  /\ Sound(Escape(text), {})
         /\ InkFirst(text) => InkFirst(Escape(text))
<1> DEFINE size == Len(Escape(text))
<1>1. Len(text) \in Nat /\ \A i \in 1 .. Len(text) : text[i] \in Char /\ text[i] # "<"
  BY LenProperties DEF Range
<1>2. /\ Escape(text) \in Seq(Char) /\ size \in Nat
      /\ \A i \in 1 .. Len(text) : \A k \in 1 .. Len(Escaped(text[i])) :
           /\ Offset(text, i) + k \in 1 .. size
           /\ Escape(text)[Offset(text, i) + k] = Escaped(text[i])[k]
      /\ \A n \in 1 .. size : \E i \in 1 .. Len(text) :
           \E k \in 1 .. Len(Escaped(text[i])) : n = Offset(text, i) + k
  BY EscapeIs
<1>3. ASSUME NEW n \in 1 .. size
      PROVE  /\ Escape(text)[n] # "<"
             /\ Escape(text)[n] = "&" =>
                  /\ n + 2 <= size
                  /\ Escape(text)[n + 1] = "a" /\ Escape(text)[n + 2] = ";"
  <2>7. PICK i \in 1 .. Len(text) :
          \E k \in 1 .. Len(Escaped(text[i])) : n = Offset(text, i) + k
    BY <1>2
  <2>1. PICK k \in 1 .. Len(Escaped(text[i])) : n = Offset(text, i) + k
    BY <2>7
  <2>2. Escape(text)[n] = Escaped(text[i])[k]
    BY <1>2, <2>1
  <2>3. Offset(text, i) \in Nat
    BY <1>1, OffsetStep
  <2>4. text[i] \in Char /\ text[i] # "<"
    BY <1>1
  <2>5. CASE text[i] # "&"
    <3>1. Len(Escaped(text[i])) = 1
      BY <2>4, <2>5, EscapedIs
    <3>2. k \in 1 .. 1
      BY <3>1
    <3>3. k = 1
      BY <3>2
    <3>4. Escaped(text[i])[1] = text[i]
      BY <2>4, <2>5, EscapedIs
    <3> QED
      BY <2>2, <2>4, <2>5, <3>3, <3>4
  <2>6. CASE text[i] = "&"
    <3>1. /\ Escaped(text[i])[1] = "&" /\ Escaped(text[i])[2] = "a"
          /\ Escaped(text[i])[3] = ";"
      BY <2>4, <2>6, EscapedIs
    <3>5. Len(Escaped(text[i])) = 3
      BY <2>4, <2>6, EscapedIs
    <3>6. k \in 1 .. 3
      BY <3>5
    <3>2. k = 1 \/ k = 2 \/ k = 3
      BY <3>6
    <3>3. CASE k = 1
      <4> DEFINE e == Offset(text, i)
      <4>1. n = e + 1 /\ e \in Nat
        BY <2>1, <2>3, <3>3
      <4>5. 2 \in 1 .. Len(Escaped(text[i])) /\ 3 \in 1 .. Len(Escaped(text[i]))
        BY <3>5
      <4>2. /\ e + 2 \in 1 .. size /\ Escape(text)[e + 2] = "a"
            /\ e + 3 \in 1 .. size /\ Escape(text)[e + 3] = ";"
        BY <1>2, <3>1, <4>5
      <4> HIDE DEF e
      <4>3. n + 1 = e + 2 /\ n + 2 = e + 3
        BY <4>1
      <4>6. n + 2 \in 1 .. size
        BY <4>2, <4>3
      <4>7. size \in Nat
        BY <1>2
      <4>8. n + 2 <= size
        BY <4>6, <4>7
      <4>4. Escape(text)[n + 1] = "a" /\ Escape(text)[n + 2] = ";"
        BY <4>2, <4>3
      <4>9. Escape(text)[n] # "<"
        BY <2>2, <3>1, <3>3
      <4> QED
        BY <4>4, <4>8, <4>9
    <3>4. CASE k = 2 \/ k = 3
      BY <2>2, <3>1, <3>4
    <3> QED
      BY <3>2, <3>3, <3>4
  <2> QED
    BY <2>5, <2>6
<1>6. Marks(Escape(text), "<") = {}
  BY <1>3 DEF Marks
<1>7. ASSUME NEW n \in Marks(Escape(text), "&")
      PROVE  n + 1 \in Marks(Escape(text), "a") /\ n + 2 \in Marks(Escape(text), ";")
  <2>1. n \in 1 .. size /\ Escape(text)[n] = "&"
    BY <1>7 DEF Marks
  <2>2. Escape(text)[n + 1] = "a" /\ Escape(text)[n + 2] = ";"
    BY <1>3, <2>1
  <2>3. n + 2 <= size
    BY <1>3, <2>1
  <2>4. size \in Nat
    BY <1>2
  <2>5. n + 1 \in 1 .. size /\ n + 2 \in 1 .. size
    BY <2>1, <2>3, <2>4
  <2> QED
    BY <2>2, <2>5 DEF Marks
<1>4. Sound(Escape(text), {})
  BY <1>2, <1>6, <1>7 DEF Sound
<1>5. ASSUME InkFirst(text), Escape(text) # <<>>
      PROVE  Escape(text)[1] # Break
  <2>1. 1 \in 1 .. size
    BY <1>2, <1>5, EmptySeq
  <2>2. \E i \in 1 .. Len(text) : TRUE
    BY <1>2, <2>1
  <2>3. 1 \in 1 .. Len(text) /\ text # <<>>
    BY <1>1, <2>2
  <2>4. text[1] # Break /\ text[1] \in Char
    BY <1>1, <1>5, <2>3 DEF InkFirst
  <2>5. Len(Escaped(text[1])) = IF text[1] = "&" THEN 3 ELSE 1
    BY <2>4, EscapedIs
  <2>6. Escaped(text[1])[1] = text[1]
    BY <2>4, EscapedIs
  <2>7. Offset(text, 1) + 1 = 1
    BY OffsetStep
  <2>8. 1 \in 1 .. Len(Escaped(text[1]))
    BY <2>5
  <2>9. Escape(text)[Offset(text, 1) + 1] = Escaped(text[1])[1]
    BY <1>2, <2>3, <2>8
  <2> QED
    BY <2>4, <2>6, <2>7, <2>9
<1> QED
  BY <1>4, <1>5 DEF InkFirst

LEMMA SoundConcat ==
  ASSUME NEW s, NEW t, NEW A, NEW B, Sound(s, A), Sound(t, B)
  PROVE  Sound(s \o t, A \cup {Len(s) + n : n \in B})
<1> DEFINE u == s \o t
           k == Len(s)
<1>1. s \in Seq(Char) /\ t \in Seq(Char) /\ u \in Seq(Char) /\ k \in Nat
  BY LenProperties, ConcatProperties DEF Sound
<1>2. \A c : Marks(u, c) = Marks(s, c) \cup {k + n : n \in Marks(t, c)}
  BY <1>1, MarksConcat
<1>3. \A c : Marks(t, c) \in SUBSET Int
  BY DEF Marks
<1>4. /\ Marks(s, "<") = A /\ Marks(t, "<") = B
      /\ \A n \in Marks(s, "<") : n + 1 \in Marks(s, ">")
      /\ \A n \in Marks(t, "<") : n + 1 \in Marks(t, ">")
      /\ \A n \in Marks(s, "&") : n + 1 \in Marks(s, "a") /\ n + 2 \in Marks(s, ";")
      /\ \A n \in Marks(t, "&") : n + 1 \in Marks(t, "a") /\ n + 2 \in Marks(t, ";")
  BY DEF Sound
<1> HIDE DEF u, k
<1>5. \A n \in Int : (k + n) + 1 = k + (n + 1) /\ (k + n) + 2 = k + (n + 2)
  BY <1>1
<1>6. \A n \in Marks(u, "<") : n + 1 \in Marks(u, ">")
  <2>1. ASSUME NEW n \in Marks(t, "<") PROVE (k + n) + 1 \in Marks(u, ">")
    <3>1. (k + n) + 1 = k + (n + 1) /\ n + 1 \in Marks(t, ">")
      BY <1>3, <1>4, <1>5
    <3> QED
      BY <1>2, <3>1
  <2>2. Marks(u, "<") = Marks(s, "<") \cup {k + n : n \in Marks(t, "<")}
    BY <1>2
  <2>3. \A n \in Marks(s, "<") : n + 1 \in Marks(u, ">")
    BY <1>2, <1>4
  <2> QED
    BY <2>1, <2>2, <2>3
<1>7. \A n \in Marks(u, "&") : n + 1 \in Marks(u, "a") /\ n + 2 \in Marks(u, ";")
  <2>1. ASSUME NEW n \in Marks(t, "&")
        PROVE  (k + n) + 1 \in Marks(u, "a") /\ (k + n) + 2 \in Marks(u, ";")
    <3>1. /\ (k + n) + 1 = k + (n + 1) /\ (k + n) + 2 = k + (n + 2)
          /\ n + 1 \in Marks(t, "a") /\ n + 2 \in Marks(t, ";")
      BY <1>3, <1>4, <1>5
    <3> QED
      BY <1>2, <3>1
  <2>2. Marks(u, "&") = Marks(s, "&") \cup {k + n : n \in Marks(t, "&")}
    BY <1>2
  <2>3. \A n \in Marks(s, "&") : n + 1 \in Marks(u, "a") /\ n + 2 \in Marks(u, ";")
    BY <1>2, <1>4
  <2> QED
    BY <2>1, <2>2, <2>3
<1>8. Sound(u, A \cup {k + n : n \in B})
  BY <1>1, <1>2, <1>4, <1>6, <1>7 DEF Sound
<1> QED
  BY <1>8 DEF u, k

------------------------------------------------------------------------------
\* Parts of a text.

LEMMA UptoIs ==
  ASSUME NEW text \in Seq(Char), NEW n \in Nat
  PROVE  LET m == IF n < Len(text) THEN n ELSE Len(text) IN
         /\ Upto(text, n) \in Seq(Char) /\ m \in 0 .. Len(text) /\ m <= n
         /\ Upto(text, n) = Upto(text, m)
         /\ Len(Upto(text, n)) = m
         /\ \A i \in 1 .. m : Upto(text, n)[i] = text[i]
<1> DEFINE m == IF n < Len(text) THEN n ELSE Len(text)
<1>1. /\ Len(text) \in Nat
      /\ \A i \in 1 .. Len(text) : text[i] \in Char
  BY LenProperties
<1>2. m \in Nat /\ m <= Len(text) /\ m <= n
  BY <1>1
<1>3. (IF m < Len(text) THEN m ELSE Len(text)) = m
  BY <1>1
<1>4. Upto(text, n) = SubSeq(text, 1, m)
  BY DEF Upto
<1> HIDE DEF m
<1>5. Upto(text, m) = SubSeq(text, 1, m)
  BY <1>3 DEF Upto
<1>6. \A i \in 1 .. m : i \in 1 .. Len(text)
  BY <1>1, <1>2
<1>7. \A i \in 1 .. m : text[i] \in Char
  BY <1>1, <1>6
<1>8. m \in Int /\ 1 \in Int
  BY <1>2
<1>9. /\ SubSeq(text, 1, m) \in Seq(Char)
      /\ Len(SubSeq(text, 1, m)) = IF 1 <= m THEN m - 1 + 1 ELSE 0
      /\ \A i \in 1 .. m - 1 + 1 : SubSeq(text, 1, m)[i] = text[1 + i - 1]
  BY <1>7, <1>8, SubSeqProperties
<1>10. (IF 1 <= m THEN m - 1 + 1 ELSE 0) = m
  BY <1>2
<1>11. m - 1 + 1 = m /\ \A i \in 1 .. m : 1 + i - 1 = i
  BY <1>2
<1>12. \A i \in 1 .. m : SubSeq(text, 1, m)[i] = text[i]
  BY <1>9, <1>11
<1>13. m \in 0 .. Len(text)
  BY <1>1, <1>2
<1>14. Len(SubSeq(text, 1, m)) = m
  BY <1>9, <1>10
<1> QED
  BY <1>2, <1>4, <1>5, <1>9, <1>12, <1>13, <1>14 DEF m

LEMMA UptoUpto ==
  ASSUME NEW text \in Seq(Char), NEW n \in 0 .. Len(text), NEW q \in 0 .. n
  PROVE  Upto(Upto(text, n), q) = Upto(text, q)
<1>1. Len(text) \in Nat
  BY LenProperties
<1>2. n \in Nat /\ n <= Len(text) /\ q \in Nat /\ q <= n /\ q <= Len(text)
  BY <1>1
<1>3. /\ (IF n < Len(text) THEN n ELSE Len(text)) = n
      /\ (IF q < Len(text) THEN q ELSE Len(text)) = q
      /\ (IF q < n THEN q ELSE n) = q
  BY <1>1, <1>2
<1> DEFINE u == Upto(text, n)
<1>4. /\ u \in Seq(Char) /\ Len(u) = n /\ \A i \in 1 .. n : u[i] = text[i]
  BY <1>2, <1>3, UptoIs
<1>5. /\ Upto(text, q) \in Seq(Char) /\ Len(Upto(text, q)) = q
      /\ \A i \in 1 .. q : Upto(text, q)[i] = text[i]
  BY <1>2, <1>3, UptoIs
<1> HIDE DEF u
<1>6. /\ Upto(u, q) \in Seq(Char) /\ Len(Upto(u, q)) = q
      /\ \A i \in 1 .. q : Upto(u, q)[i] = u[i]
  BY <1>2, <1>3, <1>4, UptoIs
<1>7. \A i \in 1 .. q : i \in 1 .. n
  BY <1>2
<1>8. Upto(u, q) = Upto(text, q)
  BY <1>4, <1>5, <1>6, <1>7, SeqEqual
<1> QED
  BY <1>8 DEF u

\* A whole text.
LEMMA UptoAll ==
  ASSUME NEW text \in Seq(Char)
  PROVE  Len(text) \in Nat /\ Upto(text, Len(text)) = text
<1>1. Len(text) \in Nat
  BY LenProperties
<1>2. (IF Len(text) < Len(text) THEN Len(text) ELSE Len(text)) = Len(text)
  BY <1>1
<1>3. Upto(text, Len(text)) = SubSeq(text, 1, Len(text))
  BY <1>2 DEF Upto
<1> QED
  BY <1>1, <1>3, SubSeqFull

\* The end of a line is between two entities or tags.
LEMMA LineSound ==
  ASSUME NEW text \in Seq(Char), Sound(text, {}), NEW n \in LineEnds(text)
  PROVE  Sound(Upto(text, n), {})
<1>1. Len(text) \in Nat
  BY LenProperties
<1>2. n \in 0 .. Len(text) /\ (n = Len(text) \/ text[n + 1] = Break)
  BY DEF LineEnds
<1>3. n \in Nat /\ n <= Len(text)
  BY <1>1, <1>2
<1>4. (IF n < Len(text) THEN n ELSE Len(text)) = n
  BY <1>1, <1>3
<1> DEFINE u == Upto(text, n)
<1>5. u \in Seq(Char) /\ Len(u) = n /\ \A i \in 1 .. n : u[i] = text[i]
  BY <1>3, <1>4, UptoIs
<1> HIDE DEF u
<1>6. \A i \in 1 .. n : i \in 1 .. Len(text)
  BY <1>1, <1>3
<1>7. \A c : \A i \in Marks(u, c) : i \in 1 .. n /\ i \in Marks(text, c)
  BY <1>5, <1>6 DEF Marks
<1>8. \A c : \A i \in Marks(text, c) : i <= n => i \in Marks(u, c)
  <2> SUFFICES ASSUME NEW c, NEW i \in Marks(text, c), i <= n PROVE i \in Marks(u, c)
    OBVIOUS
  <2>1. i \in 1 .. Len(text) /\ text[i] = c
    BY DEF Marks
  <2>2. i \in 1 .. n
    BY <1>1, <1>3, <2>1
  <2> QED
    BY <1>5, <2>1, <2>2 DEF Marks
<1>9. /\ Marks(text, "<") = {}
      /\ \A i \in Marks(text, "&") : i + 1 \in Marks(text, "a") /\ i + 2 \in Marks(text, ";")
  BY DEF Sound
<1>10. Marks(u, "<") = {}
  BY <1>7, <1>9
<1>11. n + 1 \notin Marks(text, "a") /\ n + 1 \notin Marks(text, ";")
  <2>1. CASE n = Len(text)
    <3>1. n + 1 \notin 1 .. Len(text)
      BY <1>3, <2>1
    <3> QED
      BY <3>1 DEF Marks
  <2>2. CASE text[n + 1] = Break
    <3>1. Break # "a" /\ Break # ";"
      BY DEF Break
    <3> QED
      BY <2>2, <3>1 DEF Marks
  <2> QED
    BY <1>2, <2>1, <2>2
<1>12. ASSUME NEW i \in Marks(u, "&")
       PROVE  i + 1 \in Marks(u, "a") /\ i + 2 \in Marks(u, ";")
  <2>1. i \in 1 .. n /\ i + 1 \in Marks(text, "a") /\ i + 2 \in Marks(text, ";")
    BY <1>7, <1>9
  <2>2. i + 1 # n + 1 /\ i + 2 # n + 1
    BY <1>11, <2>1
  <2>3. i \in 1 .. n
    BY <2>1
  <2>4. i + 1 <= n /\ i + 2 <= n
    BY <1>3, <2>2, <2>3
  <2> QED
    BY <1>8, <2>1, <2>4
<1>13. Sound(u, {})
  BY <1>5, <1>10, <1>12 DEF Sound
<1> QED
  BY <1>13 DEF u

\* Nothing but line breaks in a text from n to i.
Blank(text, n, i) == \A k \in n + 1 .. i : text[k] = Break

\* Stripping a text that starts with ink leaves the start of it, up to the end
\* of a line, and takes line breaks only.
LEMMA StripIs ==
  ASSUME NEW text \in Seq(Char), InkFirst(text)
  PROVE  /\ \E q \in LineEnds(text) :
              Strip(text) = Upto(text, q) /\ Blank(text, q, Len(text))
         /\ text # <<>> => Strip(text) # <<>>
<1>1. Len(text) \in Nat /\ DOMAIN text = 1 .. Len(text)
  BY LenProperties
<1>2. CASE text = <<>>
  <2>1. Len(text) = 0 /\ \A i : i \notin 1 .. 0
    BY <1>2
  <2>2. Inked(text) = {}
    BY <1>1, <2>1 DEF Inked
  <2>3. Strip(text) = text
    BY <1>2, <2>2 DEF Strip
  <2>4. 0 \in LineEnds(text)
    BY <1>1, <2>1 DEF LineEnds
  <2>5. Upto(text, 0) = text
    BY <2>1, UptoAll
  <2>6. Blank(text, 0, Len(text))
    BY <2>1 DEF Blank
  <2> QED
    BY <1>2, <2>3, <2>4, <2>5, <2>6
<1>3. CASE text # <<>>
  <2> DEFINE q == Max(Inked(text))
  <2>1. Len(text) \in Nat \ {0}
    BY <1>3, EmptySeq
  <2>2. 1 \in 1 .. Len(text)
    BY <2>1
  <2>3. 1 \in Inked(text)
    BY <1>1, <1>3, <2>2 DEF Inked, InkFirst
  <2>4. \A i \in Inked(text) : i \in 1 .. Len(text) /\ text[i] # Break
    BY <1>1 DEF Inked
  <2>18. \A i \in 1 .. Len(text) : i \in Nat /\ i \in 0 .. Len(text)
    BY <1>1
  <2>5. Inked(text) \in SUBSET Nat /\ Inked(text) \in SUBSET (0 .. Len(text))
    BY <2>4, <2>18
  <2>6. Min(Inked(text)) \in Inked(text) /\ Min(Inked(text)) <= 1
    BY <2>3, <2>5, Least
  <2>7. Min(Inked(text)) = 1
    <3> DEFINE m == Min(Inked(text))
    <3>1. m \in 1 .. Len(text) /\ m <= 1
      BY <2>4, <2>6
    <3> HIDE DEF m
    <3>2. m = 1
      BY <1>1, <3>1
    <3> QED
      BY <3>2 DEF m
  <2>8. q \in Inked(text) /\ \A i \in Inked(text) : i <= q
    BY <1>1, <2>3, <2>5, Greatest
  <2> HIDE DEF q
  <2>9. q \in 1 .. Len(text)
    BY <2>4, <2>8
  <2>10. q \in Nat /\ q >= 1 /\ q <= Len(text)
    BY <2>1, <2>9
  <2>19. Len(text) \in Nat
    BY <1>1
  <2>11. (IF q < Len(text) THEN q ELSE Len(text)) = q
    BY <2>10, <2>19
  <2>12. Strip(text) = Upto(text, q)
    BY <2>3, <2>7, <2>11 DEF Strip, Upto, q
  <2>13. q = Len(text) \/ text[q + 1] = Break
    <3> SUFFICES ASSUME q # Len(text) PROVE text[q + 1] = Break
      OBVIOUS
    <3>1. q + 1 \in 1 .. Len(text) /\ ~ (q + 1 <= q)
      BY <2>10, <2>19
    <3>2. q + 1 \notin Inked(text)
      BY <2>8, <3>1
    <3> QED
      BY <1>1, <3>1, <3>2 DEF Inked
  <2>14. q \in 0 .. Len(text)
    BY <1>1, <2>10
  <2>15. q \in LineEnds(text)
    BY <2>13, <2>14 DEF LineEnds
  <2>16. Len(Upto(text, q)) = q
    BY <2>10, <2>11, UptoIs
  <2>17. Upto(text, q) # <<>>
    <3>1. Len(<<>>) = 0 /\ q # 0
      BY <2>10
    <3> QED
      BY <2>16, <3>1
  <2>20. Blank(text, q, Len(text))
    <3> SUFFICES ASSUME NEW k \in q + 1 .. Len(text) PROVE text[k] = Break
      BY DEF Blank
    <3>1. k \in 1 .. Len(text) /\ ~ (k <= q)
      BY <2>10, <2>19
    <3>2. k \notin Inked(text)
      BY <2>8, <3>1
    <3> QED
      BY <1>1, <3>1, <3>2 DEF Inked
  <2> QED
    BY <2>12, <2>15, <2>17, <2>20
<1> QED
  BY <1>2, <1>3

LEMMA UptoNone ==
  ASSUME NEW text \in Seq(Char)
  PROVE  Upto(text, 0) \in Seq(Char) /\ Len(Upto(text, 0)) = 0
<1>1. Len(text) \in Nat
  BY LenProperties
<1>2. (IF 0 < Len(text) THEN 0 ELSE Len(text)) = 0
  BY <1>1
<1> QED
  BY <1>2, UptoIs

LEMMA StartStripped ==
  ASSUME NEW body \in Seq(Char), InkFirst(body), NEW n \in 0 .. Len(body)
  PROVE  /\ \E q \in 0 .. n :
              /\ Strip(Upto(body, n)) = Upto(body, q)
              /\ Sound(Upto(body, n), {}) => Sound(Upto(body, q), {})
              /\ Blank(body, q, n)
              /\ n # 0 => q # 0
         /\ n # 0 => Strip(Upto(body, n)) # <<>>
<1> DEFINE u == Upto(body, n)
<1>1. Len(body) \in Nat
  BY LenProperties
<1>2. n \in Nat /\ n <= Len(body)
  BY <1>1
<1>3. (IF n < Len(body) THEN n ELSE Len(body)) = n
  BY <1>1, <1>2
<1>4. u \in Seq(Char) /\ Len(u) = n /\ \A i \in 1 .. n : u[i] = body[i]
  BY <1>2, <1>3, UptoIs
<1>5. n # 0 => 1 \in 1 .. n /\ Len(body) # 0
  BY <1>1, <1>2
<1>6. n # 0 => u # <<>> /\ body # <<>>
  BY <1>4, <1>5
<1>10. u # <<>> => n # 0
  BY <1>4, EmptySeq
<1> HIDE DEF u
<1>7. InkFirst(u)
  BY <1>4, <1>5, <1>6, <1>10 DEF InkFirst
<1>8. PICK q \in LineEnds(u) : Strip(u) = Upto(u, q) /\ Blank(u, q, Len(u))
  BY <1>4, <1>7, StripIs
<1>9. q \in 0 .. n
  BY <1>4, <1>8 DEF LineEnds
<1>11. Upto(u, q) = Upto(body, q)
  BY <1>9, UptoUpto DEF u
<1>12. Sound(u, {}) => Sound(Upto(body, q), {})
  BY <1>4, <1>8, <1>11, LineSound
<1>13. n # 0 => Strip(u) # <<>>
  BY <1>4, <1>6, <1>7, StripIs
<1>14. Blank(body, q, n)
  <2>1. \A k \in q + 1 .. n : k \in 1 .. n
    BY <1>2, <1>9
  <2>2. \A k \in q + 1 .. n : u[k] = Break
    BY <1>4, <1>8 DEF Blank
  <2> QED
    BY <1>4, <2>1, <2>2 DEF Blank
<1>15. n # 0 => q # 0
  <2> SUFFICES ASSUME n # 0, q = 0 PROVE FALSE
    OBVIOUS
  <2>1. Strip(u) = Upto(body, 0)
    BY <1>8, <1>11
  <2>2. Len(Upto(body, 0)) = 0 /\ Upto(body, 0) \in Seq(Char)
    BY UptoNone
  <2> QED
    BY <1>13, <2>1, <2>2, EmptySeq
<1> QED
  BY <1>8, <1>9, <1>11, <1>12, <1>13, <1>14, <1>15 DEF u

\* What remains of a body within the room for it: the lines that fit, or the start
\* of the first one.
Longest(body, n, limit) ==
  /\ n # 0 \/ body = <<>>
  /\ \A i \in LineEnds(body) : i <= limit => Blank(body, n, i)
  /\ limit < Min(LineEnds(body)) => n = Len(body) \/ Blank(body, n, limit)

\* A trimmed body is the longest such start of the body; if the first line fits,
\* no entity is cut.
LEMMA TrimmedIs ==
  ASSUME NEW body \in Seq(Char), InkFirst(body), Sound(body, {}),
         NEW limit \in Nat \ {0}, NEW available, available - Reserve = limit
  PROVE  \E n \in 0 .. Len(body) :
           /\ Trimmed(body, available) = Upto(body, n) /\ n <= limit
           /\ Longest(body, n, limit)
           /\ Min(LineEnds(body)) <= limit => Sound(Upto(body, n), {})
<1> DEFINE ends == {i \in LineEnds(body) : i <= limit}
           m == Max({0} \cup ends)
<1>1. Len(body) \in Nat
  BY LenProperties
<1>2. /\ LineEnds(body) \in SUBSET (0 .. Len(body))
      /\ Len(body) \in LineEnds(body)
  BY <1>1 DEF LineEnds
<1>17. 0 .. Len(body) \in SUBSET Nat /\ 0 \in 0 .. Len(body)
  BY <1>1
<1>3. /\ {0} \cup ends \in SUBSET (0 .. Len(body)) /\ {0} \cup ends # {}
      /\ LineEnds(body) \in SUBSET Nat /\ LineEnds(body) # {}
  BY <1>2, <1>17
<1>4. m \in {0} \cup ends /\ \A i \in {0} \cup ends : i <= m
  BY <1>1, <1>3, Greatest
<1>5. m \in 0 .. Len(body)
  BY <1>3, <1>4
<1>6. m <= limit
  BY <1>4
<1>7. WholeLines(body, limit) = Upto(body, m)
  BY DEF WholeLines
<1>8. Min(LineEnds(body)) \in LineEnds(body)
  BY <1>3, Least
<1>9. Min(LineEnds(body)) <= limit => m \in LineEnds(body)
  <2> SUFFICES ASSUME Min(LineEnds(body)) <= limit PROVE m \in LineEnds(body)
    OBVIOUS
  <2>1. Min(LineEnds(body)) \in ends
    BY <1>8
  <2>2. CASE m \in ends
    BY <2>2
  <2>3. CASE m = 0
    <3> DEFINE e == Min(LineEnds(body))
    <3>1. e \in 0 .. Len(body) /\ e <= m
      BY <1>2, <1>4, <1>8, <2>1
    <3>2. e \in LineEnds(body)
      BY <1>8
    <3> HIDE DEF e, m
    <3>3. e = 0
      BY <1>1, <2>3, <3>1
    <3> QED
      BY <2>3, <3>2, <3>3
  <2> QED
    BY <1>4, <2>2, <2>3
<1> HIDE DEF m, ends
<1>10. CASE Strip(Upto(body, m)) # <<>>
  <2>1. PICK q \in 0 .. m :
          /\ Strip(Upto(body, m)) = Upto(body, q)
          /\ Sound(Upto(body, m), {}) => Sound(Upto(body, q), {})
          /\ Blank(body, q, m) /\ (m # 0 => q # 0)
    BY <1>5, StartStripped
  <2>2. Trimmed(body, available) = Upto(body, q)
    BY <1>7, <1>10, <2>1 DEF Trimmed
  <2>3. Len(body) \in Nat /\ m \in 0 .. Len(body)
    BY <1>1, <1>5
  <2>4. q \in 0 .. Len(body) /\ q <= limit
    BY <1>6, <2>3
  <2>5. Min(LineEnds(body)) <= limit => Sound(Upto(body, m), {})
    BY <1>9, LineSound
  <2>6. m # 0
    <3> SUFFICES ASSUME m = 0 PROVE FALSE
      OBVIOUS
    <3>1. q = 0
      BY <2>1
    <3>2. Len(Upto(body, 0)) = 0 /\ Upto(body, 0) \in Seq(Char)
      BY UptoNone
    <3> QED
      BY <1>10, <2>1, <3>1, <3>2, EmptySeq
  <2>7. ASSUME NEW i \in LineEnds(body), i <= limit PROVE Blank(body, q, i)
    <3>1. i <= m /\ i \in Nat /\ m \in Nat /\ q \in Nat
      BY <1>3, <1>4, <1>5, <1>17, <2>1, <2>7 DEF ends
    <3>2. \A k \in q + 1 .. i : k \in q + 1 .. m
      BY <3>1
    <3> QED
      BY <2>1, <3>2 DEF Blank
  <2>8. limit < Min(LineEnds(body)) => FALSE
    <3> SUFFICES ASSUME limit < Min(LineEnds(body)) PROVE FALSE
      OBVIOUS
    <3>1. m \in LineEnds(body) /\ m <= limit
      BY <1>4, <1>6, <2>6 DEF ends
    <3>2. Min(LineEnds(body)) <= m /\ Min(LineEnds(body)) \in Nat /\ m \in Nat
      BY <1>3, <3>1, Least
    <3> QED
      BY <3>1, <3>2
  <2>9. Longest(body, q, limit)
    BY <2>1, <2>6, <2>7, <2>8 DEF Longest
  <2> QED
    BY <2>1, <2>2, <2>4, <2>5, <2>9
<1>11. CASE Strip(Upto(body, m)) = <<>>
  <2>1. m = 0
    BY <1>5, <1>11, StartStripped
  <2> DEFINE n == IF limit < Len(body) THEN limit ELSE Len(body)
  <2>2. n \in 0 .. Len(body) /\ n <= limit /\ Upto(body, limit) = Upto(body, n)
    BY UptoIs
  <2>10. /\ n \in Nat /\ (body # <<>> => n # 0)
         /\ limit < Len(body) => n = limit
         /\ ~ (limit < Len(body)) => n = Len(body)
    <3>1. body # <<>> => Len(body) # 0
      BY EmptySeq
    <3> QED
      BY <1>1, <3>1 DEF n
  <2> HIDE DEF n
  <2>3. PICK q \in 0 .. n :
          /\ Strip(Upto(body, n)) = Upto(body, q)
          /\ Blank(body, q, n) /\ (n # 0 => q # 0)
    BY <2>2, StartStripped
  <2>4. Trimmed(body, available) = Upto(body, q)
    BY <1>7, <1>11, <2>2, <2>3 DEF Trimmed
  <2>5. q \in 0 .. Len(body) /\ q <= limit
    BY <1>1, <2>2
  <2>6. Min(LineEnds(body)) <= limit => Sound(Upto(body, q), {})
    <3> SUFFICES ASSUME Min(LineEnds(body)) <= limit PROVE Sound(Upto(body, q), {})
      OBVIOUS
    <3>1. 0 \in LineEnds(body)
      BY <1>9, <2>1
    <3>2. Len(body) = 0 \/ body[0 + 1] = Break
      BY <3>1 DEF LineEnds
    <3>3. body = <<>>
      BY <3>2, EmptySeq DEF InkFirst
    <3>4. Len(body) = 0
      BY <3>3
    <3>5. q = 0 /\ Len(body) = q
      BY <2>5, <3>4
    <3>6. Upto(body, q) = body
      BY <3>5, UptoAll
    <3> QED
      BY <3>6
  <2>7. ASSUME NEW i \in LineEnds(body), i <= limit PROVE Blank(body, q, i)
    <3>1. i <= m /\ i \in Nat /\ q \in Nat
      BY <1>3, <1>4, <1>17, <2>3, <2>7, <2>10 DEF ends
    <3>2. \A k \in q + 1 .. i : FALSE
      BY <2>1, <3>1
    <3> QED
      BY <3>2 DEF Blank
  <2>8. ASSUME limit < Min(LineEnds(body)) PROVE Blank(body, q, limit)
    <3>1. /\ Min(LineEnds(body)) <= Len(body) /\ Min(LineEnds(body)) \in Nat
      BY <1>2, <1>3, Least
    <3>2. limit < Len(body)
      BY <1>1, <2>8, <3>1
    <3> QED
      BY <2>3, <2>10, <3>2
  <2>9. Longest(body, q, limit)
    BY <2>3, <2>7, <2>8, <2>10 DEF Longest
  <2> QED
    BY <2>4, <2>5, <2>6, <2>9
<1> QED
  BY <1>10, <1>11

------------------------------------------------------------------------------
\* The parts of a message.

LEMMA TagSound == Sound(<<"<", ">">>, {1}) /\ Sound(Gap, {}) /\ Sound(Link, {})
<1> DEFINE tag == <<"<", ">">>
<1>1. /\ "<" \in Char /\ ">" \in Char /\ Break \in Char
      /\ \A c \in Range(Link) : c \in Char /\ c # "<" /\ c # "&"
  BY LinkAssumption DEF Char
<1>2. /\ tag \in Seq(Char) /\ Len(tag) = 2 /\ tag[1] = "<" /\ tag[2] = ">"
      /\ Gap \in Seq(Char) /\ Len(Gap) = 2 /\ Gap[1] = Break /\ Gap[2] = Break
  BY <1>1 DEF Gap
<1>3. \A n \in 1 .. 2 : n = 1 \/ n = 2
  OBVIOUS
<1>4. 1 \in 1 .. 2 /\ 2 \in 1 .. 2 /\ 1 + 1 = 2
  OBVIOUS
<1> HIDE DEF tag
<1>5. Marks(tag, "<") = {1} /\ Marks(tag, "&") = {} /\ 2 \in Marks(tag, ">")
  BY <1>2, <1>3, <1>4 DEF Marks
<1>6. Sound(tag, {1})
  BY <1>2, <1>4, <1>5 DEF Sound
<1>7. Marks(Gap, "<") = {} /\ Marks(Gap, "&") = {}
  BY <1>2, <1>3 DEF Marks, Break
<1>8. Sound(Gap, {})
  BY <1>2, <1>7 DEF Sound
<1>9. Link \in Seq(Char)
  BY <1>1, LinkAssumption, SeqMonotonic
<1>10. \A n \in 1 .. Len(Link) : Link[n] \in Range(Link)
  BY LinkAssumption, ElementOfSeq
<1>11. Marks(Link, "<") = {} /\ Marks(Link, "&") = {}
  BY <1>1, <1>10 DEF Marks
<1>12. Sound(Link, {})
  BY <1>9, <1>11 DEF Sound
<1> QED
  BY <1>6, <1>8, <1>12 DEF tag

\* Two texts without tags.
LEMMA PlainConcat ==
  ASSUME NEW s, NEW t, NEW A, Sound(s, A), Sound(t, {})
  PROVE  Sound(s \o t, A)
<1>1. Sound(s \o t, A \cup {Len(s) + n : n \in {}})
  BY SoundConcat
<1>2. A \cup {Len(s) + n : n \in {}} = A
  OBVIOUS
<1> QED
  BY <1>1, <1>2

\* The two tags of a header.
LEMMA HeaderSound ==
  ASSUME NEW channel \in Seq(Char), NEW title \in Seq(Char),
         "<" \notin Range(channel), "<" \notin Range(title)
  PROVE  \E place \in Nat \ {0, 1} : Sound(Header(channel, title), {1, place})
<1> DEFINE tag == <<"<", ">">>
           start == tag \o Escape(channel)
           place == Len(start) + 1
<1>1. Sound(tag, {1})
  BY TagSound
<1>2. Sound(Escape(channel), {}) /\ Sound(Escape(title), {})
  BY EscapeSound
<1>3. Len(tag) = 2
  OBVIOUS
<1>13. Sound(start, {1})
  BY <1>1, <1>2, PlainConcat
<1>4. tag \in Seq(Char) /\ Escape(channel) \in Seq(Char)
  BY <1>1, <1>2 DEF Sound
<1>5. Len(start) = Len(tag) + Len(Escape(channel))
  BY <1>4, ConcatProperties
<1>6. Len(Escape(channel)) \in Nat
  BY <1>4, LenProperties
<1>7. Header(channel, title) = start \o tag \o Escape(title)
  BY DEF Header
<1> HIDE DEF start, tag
<1>8. place \in Nat /\ place # 0 /\ place # 1
  BY <1>3, <1>5, <1>6
<1>9. Sound(start \o tag, {1} \cup {Len(start) + n : n \in {1}})
  BY <1>1, <1>13, SoundConcat
<1>10. {1} \cup {Len(start) + n : n \in {1}} = {1, place}
  OBVIOUS
<1>11. Sound(start \o tag \o Escape(title), {1, place})
  BY <1>2, <1>9, <1>10, PlainConcat
<1> HIDE DEF place
<1> QED
  BY <1>7, <1>8, <1>11

\* A message of complete parts is complete.
LEMMA ComposeIs ==
  ASSUME NEW header \in Seq(Char), NEW body \in Seq(Char)
  PROVE  /\ Compose(header, body) \in Seq(Char)
         /\ Len(Compose(header, body)) = Len(header) + Len(body) + Len(Link) + 4
         /\ \A tags : Sound(header, tags) /\ Sound(body, {}) =>
                        Sound(Compose(header, body), tags)
<1>1. Sound(Gap, {}) /\ Sound(Link, {})
  BY TagSound
<1>2. Gap \in Seq(Char) /\ Link \in Seq(Char)
  BY <1>1 DEF Sound
<1>3. Len(Gap) = 2
  BY DEF Gap
<1> DEFINE a == header \o Gap
           b == a \o body
           c == b \o Gap
           d == c \o Link
<1>4. a \in Seq(Char) /\ Len(a) = Len(header) + Len(Gap)
  BY <1>2, ConcatProperties
<1> HIDE DEF a
<1>5. b \in Seq(Char) /\ Len(b) = Len(a) + Len(body)
  BY <1>4, ConcatProperties
<1> HIDE DEF b
<1>6. c \in Seq(Char) /\ Len(c) = Len(b) + Len(Gap)
  BY <1>2, <1>5, ConcatProperties
<1> HIDE DEF c
<1>7. d \in Seq(Char) /\ Len(d) = Len(c) + Len(Link)
  BY <1>2, <1>6, ConcatProperties
<1>8. Compose(header, body) = d
  BY DEF Compose, a, b, c
<1>9. Len(header) \in Nat /\ Len(body) \in Nat /\ Len(Link) \in Nat
  BY <1>2, LenProperties
<1> HIDE DEF d
<1>10. Len(d) = Len(header) + Len(body) + Len(Link) + 4
  BY <1>3, <1>4, <1>5, <1>6, <1>7, <1>9
<1>11. ASSUME NEW tags, Sound(header, tags), Sound(body, {})
       PROVE  Sound(d, tags)
  <2>1. Sound(a, tags)
    BY <1>1, <1>11, PlainConcat DEF a
  <2>2. Sound(b, tags)
    BY <1>11, <2>1, PlainConcat DEF b
  <2>3. Sound(c, tags)
    BY <1>1, <2>2, PlainConcat DEF c
  <2> QED
    BY <1>1, <2>3, PlainConcat DEF d
<1> QED
  BY <1>7, <1>8, <1>10, <1>11

LEMMA StripPlain ==
  ASSUME NEW text \in Seq(Char), "<" \notin Range(text)
  PROVE  Strip(text) \in Seq(Char) /\ "<" \notin Range(Strip(text)) /\ InkFirst(Strip(text))
<1>1. /\ Len(text) \in Nat /\ DOMAIN text = 1 .. Len(text)
      /\ \A i \in 1 .. Len(text) : text[i] \in Char /\ text[i] # "<"
  BY LenProperties DEF Range
<1>2. CASE Inked(text) = {}
  <2>1. Strip(text) = <<>>
    BY <1>2 DEF Strip
  <2>2. Range(<<>>) = {}
    BY DEF Range
  <2> QED
    BY <2>1, <2>2, EmptySeq DEF InkFirst
<1>3. CASE Inked(text) # {}
  <2> DEFINE a == Min(Inked(text))
             b == Max(Inked(text))
  <2>1. \A i \in Inked(text) : i \in 1 .. Len(text) /\ text[i] # Break
    BY <1>1 DEF Inked
  <2>15. Len(text) \in Nat
    BY <1>1
  <2>2. \A i \in 1 .. Len(text) : i \in Nat /\ i \in 0 .. Len(text)
    BY <2>15
  <2>3. Inked(text) \in SUBSET Nat /\ Inked(text) \in SUBSET (0 .. Len(text))
    BY <2>1, <2>2
  <2>4. a \in Inked(text)
    BY <1>3, <2>3, Least
  <2>5. b \in Inked(text) /\ a <= b
    BY <1>3, <2>3, <2>4, <2>15, Greatest
  <2>6. Strip(text) = SubSeq(text, a, b)
    BY <1>3 DEF Strip
  <2>7. a \in 1 .. Len(text) /\ b \in 1 .. Len(text) /\ text[a] # Break
    BY <2>1, <2>4, <2>5
  <2> HIDE DEF a, b
  <2> DEFINE s == SubSeq(text, a, b)
             l == b - a + 1
  <2>8. a \in Int /\ b \in Int /\ l \in Nat /\ 1 \in 1 .. l /\ a + 1 - 1 = a
    BY <2>5, <2>7, <2>15
  <2>9. \A i \in a .. b : i \in 1 .. Len(text)
    BY <2>7, <2>15
  <2>10. \A i \in a .. b : text[i] \in Char
    BY <1>1, <2>9
  <2>11. /\ s \in Seq(Char) /\ Len(s) = IF a <= b THEN b - a + 1 ELSE 0
         /\ \A i \in 1 .. b - a + 1 : s[i] = text[a + i - 1]
    BY <2>8, <2>10, SubSeqProperties
  <2>12. /\ Len(s) = l
         /\ \A i \in 1 .. l : s[i] = text[a + i - 1]
    BY <2>5, <2>11
  <2>13. s[1] # Break
    BY <2>7, <2>8, <2>12
  <2>14. \A i \in 1 .. l : a + i - 1 \in a .. b
    BY <2>8
  <2>16. \A i \in 1 .. l : s[i] # "<"
    BY <1>1, <2>9, <2>12, <2>14
  <2>17. DOMAIN s = 1 .. l
    BY <2>11, <2>12, LenProperties
  <2>18. "<" \notin Range(s)
    BY <2>16, <2>17 DEF Range
  <2> QED
    BY <2>6, <2>11, <2>13, <2>18 DEF InkFirst
<1> QED
  BY <1>2, <1>3

\* The body of a message: no tag and no cut entity, and ink first.
LEMMA BodyIs ==
  ASSUME NEW text \in Seq(Char), "<" \notin Range(text), NEW description \in BOOLEAN
  PROVE  LET body == Body(text, description) IN
         body \in Seq(Char) /\ Sound(body, {}) /\ InkFirst(body)
<1> DEFINE s == Strip(text)
           u == IF description THEN Notice \o Gap \o s ELSE s
<1>1. s \in Seq(Char) /\ "<" \notin Range(s) /\ InkFirst(s)
  BY StripPlain
<1> HIDE DEF s
<1>2. ASSUME description
      PROVE  u \in Seq(Char) /\ "<" \notin Range(u) /\ InkFirst(u)
  <2>1. \A c \in Range(Notice) : c \in Char /\ c # "<"
    BY NoticeAssumption DEF Char
  <2>2. Notice \in Seq(Char)
    BY <2>1, NoticeAssumption, SeqMonotonic
  <2>3. Gap \in Seq(Char) /\ Gap = <<Break, Break>>
    BY TagSound DEF Sound, Gap
  <2>4. /\ DOMAIN Notice = 1 .. Len(Notice) /\ DOMAIN s = 1 .. Len(s)
        /\ Len(Notice) \in Nat /\ Len(s) \in Nat
    BY <1>1, <2>2, LenProperties
  <2>5. \A i \in 1 .. Len(Notice) : Notice[i] # "<"
    BY <2>1, <2>4 DEF Range
  <2>6. \A i \in 1 .. Len(s) : s[i] # "<"
    BY <1>1, <2>4 DEF Range
  <2> DEFINE n == Notice \o Gap
  <2>7. Marks(Notice, "<") = {} /\ Marks(s, "<") = {} /\ Marks(Gap, "<") = {}
    <3>1. Marks(Gap, "<") = {}
      BY TagSound DEF Sound
    <3> QED
      BY <2>5, <2>6, <3>1 DEF Marks
  <2>8. n \in Seq(Char) /\ Marks(n, "<") = {}
    <3>1. Marks(n, "<") = Marks(Notice, "<") \cup {Len(Notice) + i : i \in Marks(Gap, "<")}
      BY <2>2, <2>3, MarksConcat
    <3>2. n \in Seq(Char)
      BY <2>2, <2>3, ConcatProperties
    <3> QED
      BY <2>7, <3>1, <3>2
  <2>11. Notice # <<>> /\ Notice[1] # Break
    BY NoticeAssumption
  <2>12. Len(Notice) \in Nat \ {0}
    BY <2>2, <2>11, EmptySeq
  <2>13. Len(Gap) = 2
    BY <2>3
  <2>14. /\ Len(n) = Len(Notice) + Len(Gap)
         /\ \A i \in 1 .. Len(Notice) + Len(Gap) :
              n[i] = IF i <= Len(Notice) THEN Notice[i] ELSE Gap[i - Len(Notice)]
    BY <2>2, <2>3, ConcatProperties
  <2>15. 1 \in 1 .. Len(Notice) + Len(Gap) /\ 1 <= Len(Notice)
    BY <2>12, <2>13
  <2>16. n[1] = Notice[1] /\ 1 <= Len(n) /\ Len(n) \in Nat
    BY <2>12, <2>13, <2>14, <2>15
  <2> HIDE DEF n
  <2> DEFINE m == n \o s
  <2>9. /\ m \in Seq(Char) /\ Len(m) = Len(n) + Len(s)
        /\ \A i \in 1 .. Len(n) + Len(s) : m[i] = IF i <= Len(n) THEN n[i] ELSE s[i - Len(n)]
    BY <1>1, <2>8, ConcatProperties
  <2>17. Marks(m, "<") = {}
    BY <1>1, <2>7, <2>8, MarksConcat
  <2>18. 1 \in 1 .. Len(n) + Len(s)
    BY <2>4, <2>16
  <2>19. m[1] # Break
    BY <2>9, <2>11, <2>16, <2>18
  <2>20. DOMAIN m = 1 .. Len(m)
    BY <2>9, LenProperties
  <2>21. "<" \notin Range(m)
    BY <2>17, <2>20 DEF Range, Marks
  <2>22. u = m
    BY <1>2 DEF n
  <2> QED
    BY <2>9, <2>19, <2>21, <2>22 DEF InkFirst
<1>3. u \in Seq(Char) /\ "<" \notin Range(u) /\ InkFirst(u)
  BY <1>1, <1>2
<1>4. Body(text, description) = Escape(u)
  BY DEF Body, s
<1> HIDE DEF u
<1>5. Sound(Escape(u), {}) /\ InkFirst(Escape(u))
  BY <1>3, EscapeSound
<1> QED
  BY <1>4, <1>5 DEF Sound

LEMMA SoundWellFormed ==
  ASSUME NEW message, NEW place \in Nat \ {0, 1}, Sound(message, {1, place})
  PROVE  WellFormed(message)
<1>1. message \in Seq(Char)
  BY DEF Sound
<1>2. DOMAIN message = 1 .. Len(message)
  BY <1>1, LenProperties
<1>8. Len(message) \in Nat
  BY <1>1, LenProperties
<1>3. {n \in DOMAIN message : message[n] = "<"} = {1, place}
  BY <1>2 DEF Sound, Marks
<1>4. Cardinality({1, place}) = 2
  <2>1. IsFiniteSet({1}) /\ Cardinality({1}) = 1
    BY FS_Singleton
  <2>2. {1, place} = {1} \cup {place} /\ place \notin {1}
    OBVIOUS
  <2>3. Cardinality({1} \cup {place}) = 1 + 1
    BY <2>1, <2>2, FS_AddElement
  <2> QED
    BY <2>2, <2>3
<1>5. ASSUME NEW i \in DOMAIN message, message[i] = "&"
      PROVE  i + 2 <= Len(message) /\ message[i + 1] = "a" /\ message[i + 2] = ";"
  <2>1. i \in Marks(message, "&")
    BY <1>2, <1>5 DEF Marks
  <2>2. i + 1 \in Marks(message, "a") /\ i + 2 \in Marks(message, ";")
    BY <2>1 DEF Sound
  <2>3. i + 2 \in 1 .. Len(message) /\ message[i + 1] = "a" /\ message[i + 2] = ";"
    BY <2>2 DEF Marks
  <2>4. i + 2 \in 1 .. Len(message)
    BY <2>3
  <2>5. i + 2 <= Len(message)
    BY <1>8, <2>4
  <2> QED
    BY <2>3, <2>5
<1>6. ASSUME NEW i \in DOMAIN message, message[i] = "<"
      PROVE  i + 1 <= Len(message) /\ message[i + 1] = ">"
  <2>1. i \in Marks(message, "<")
    BY <1>2, <1>6 DEF Marks
  <2>2. i + 1 \in Marks(message, ">")
    BY <2>1 DEF Sound
  <2>3. i + 1 \in 1 .. Len(message) /\ message[i + 1] = ">"
    BY <2>2 DEF Marks
  <2>4. i + 1 \in 1 .. Len(message)
    BY <2>3
  <2>5. i + 1 <= Len(message)
    BY <1>8, <2>4
  <2> QED
    BY <2>3, <2>5
<1>7. Cardinality({n \in DOMAIN message : message[n] = "<"}) \in {0, 2}
  BY <1>3, <1>4
<1> QED
  BY <1>5, <1>6, <1>7 DEF WellFormed

------------------------------------------------------------------------------
\* Messages.

\* The parts of a message of this input.
InputHeader == Header(input.channel, input.title)
InputBody == Body(input.text, input.description)

LEMMA Parts ==
  ASSUME input \in Summaries
  PROVE  /\ InputBody \in Seq(Char) /\ Sound(InputBody, {}) /\ InkFirst(InputBody)
         /\ \E place \in Nat \ {0, 1} : Sound(InputHeader, {1, place})
         /\ InputHeader \in Seq(Char)
<1>1. /\ input.channel = <<"x">> /\ input.title \in Seq({"x", "&"})
      /\ input.text \in Seq({"x", "&", Break}) /\ input.description \in BOOLEAN
  BY InputKinds
<1>2. {"x"} \in SUBSET Char /\ {"x", "&"} \in SUBSET Char /\ {"x", "&", Break} \in SUBSET Char
  BY DEF Char
<1>3. input.channel \in Seq({"x"})
  BY <1>1
<1>4. "<" \notin {"x"} /\ "<" \notin {"x", "&"} /\ "<" \notin {"x", "&", Break}
  BY DEF Break
<1>5. ASSUME NEW C, NEW s \in Seq(C), "<" \notin C, C \in SUBSET Char
      PROVE  s \in Seq(Char) /\ "<" \notin Range(s)
  <2>1. DOMAIN s = 1 .. Len(s) /\ \A i \in 1 .. Len(s) : s[i] \in C
    BY <1>5, LenProperties
  <2>2. "<" \notin Range(s)
    BY <1>5, <2>1 DEF Range
  <2> QED
    BY <1>5, <2>2, SeqMonotonic
<1>6. /\ input.channel \in Seq(Char) /\ "<" \notin Range(input.channel)
      /\ input.title \in Seq(Char) /\ "<" \notin Range(input.title)
      /\ input.text \in Seq(Char) /\ "<" \notin Range(input.text)
  BY <1>1, <1>2, <1>3, <1>4, <1>5
<1>7. \E place \in Nat \ {0, 1} : Sound(InputHeader, {1, place})
  BY <1>6, HeaderSound DEF InputHeader
<1>8. InputHeader \in Seq(Char)
  BY <1>7 DEF Sound
<1> QED
  BY <1>1, <1>6, <1>7, <1>8, BodyIs DEF InputBody

\* A formatted message: cut where the header leaves no room, or its header, a
\* start of its body and its link.
LEMMA Messages ==
  ASSUME Decided, Formatted
  PROVE  \/ /\ Available(InputHeader) <= Room /\ Len(output) <= MaxLength
            /\ LET message == Compose(InputHeader, InputBody)
               IN  /\ Len(message) > MaxLength
                   /\ \E n \in 0 .. Len(message) : output = Upto(message, n)
         \/ \E n \in 0 .. Len(InputBody) :
              /\ output = Compose(InputHeader, Upto(InputBody, n))
              /\ Longest(InputBody, n, Available(InputHeader) - Reserve)
              /\ Len(output) <= MaxLength
              /\ \/ Sound(Upto(InputBody, n), {})
                 \/ Min(LineEnds(InputBody)) > Available(InputHeader) - Reserve
<1> DEFINE message == Compose(InputHeader, InputBody)
<1>1. /\ InputBody \in Seq(Char) /\ Sound(InputBody, {}) /\ InkFirst(InputBody) /\ InputHeader \in Seq(Char)
  BY Parts DEF Formatted
<1>2. output = FormatMessage(input.channel, input.title, input.text, input.description)
  BY InputKinds DEF Decided, Formatted
<1>3. output = CASE Len(message) <= MaxLength -> message
                 [] Len(message) > MaxLength /\ Available(InputHeader) <= Room
                                              -> Upto(message, MaxLength - 1)
                 [] OTHER -> Compose(InputHeader, Trimmed(InputBody, Available(InputHeader)))
  BY <1>2 DEF FormatMessage, InputHeader, InputBody
<1>4. message \in Seq(Char) /\ Len(message) \in Nat
  BY <1>1, ComposeIs, LenProperties
<1> HIDE DEF message
<1>5. CASE Len(message) <= MaxLength
  <2>5. ~ (Len(message) > MaxLength)
    BY <1>4, <1>5, LengthAssumption
  <2>1. output = message
    BY <1>3, <1>5, <2>5
  <2>2. Len(InputBody) \in Nat /\ Upto(InputBody, Len(InputBody)) = InputBody
    BY <1>1, UptoAll
  <2>3. Len(InputBody) \in 0 .. Len(InputBody)
    BY <2>2
  <2>4. /\ output = Compose(InputHeader, Upto(InputBody, Len(InputBody)))
        /\ Sound(Upto(InputBody, Len(InputBody)), {})
    BY <1>1, <2>1, <2>2 DEF message
  <2>6. Len(InputBody) # 0 \/ InputBody = <<>>
    BY <1>1, EmptySeq
  <2>7. \A i \in LineEnds(InputBody) : Blank(InputBody, Len(InputBody), i)
    <3>1. \A i \in 0 .. Len(InputBody) : \A k \in Len(InputBody) + 1 .. i : FALSE
      BY <2>2
    <3> QED
      BY <3>1 DEF LineEnds, Blank
  <2>8. Longest(InputBody, Len(InputBody), Available(InputHeader) - Reserve)
    BY <2>6, <2>7 DEF Longest
  <2> QED
    BY <1>5, <2>1, <2>3, <2>4, <2>8
<1>6. CASE Len(message) > MaxLength /\ Available(InputHeader) <= Room
  <2>1. ~ (Len(message) <= MaxLength) /\ MaxLength - 1 \in Nat /\ MaxLength - 1 <= MaxLength
    BY <1>4, <1>6, LengthAssumption
  <2>2. output = Upto(message, MaxLength - 1)
    BY <1>3, <1>6, <2>1
  <2> DEFINE m == IF MaxLength - 1 < Len(message) THEN MaxLength - 1 ELSE Len(message)
  <2>3. Len(output) = m /\ m <= MaxLength - 1 /\ m \in 0 .. Len(message)
    BY <1>4, <2>1, <2>2, UptoIs
  <2>4. m \in Nat
    BY <1>4, <2>1
  <2>7. Upto(message, MaxLength - 1) = Upto(message, m)
    BY <1>4, <2>1, UptoIs
  <2> HIDE DEF m
  <2>5. m <= MaxLength
    BY <2>1, <2>3, <2>4, LengthAssumption
  <2>6. m \in 0 .. Len(message) /\ output = Upto(message, m)
    BY <2>2, <2>3, <2>7
  <2> QED
    BY <1>6, <2>3, <2>5, <2>6 DEF message
<1>7. CASE Len(message) > MaxLength /\ Available(InputHeader) > Room
  <2>1. /\ Len(InputHeader) \in Nat /\ Len(Link) \in Nat /\ Len(InputBody) \in Nat
    BY <1>1, TagSound, LenProperties DEF Sound
  <2>2. /\ Available(InputHeader) = MaxLength - (Len(InputHeader) + Len(Link) + 4)
        /\ MaxLength \in Nat /\ Room \in Nat /\ Reserve \in 0 .. Room
    BY LengthAssumption DEF Available
  <2> DEFINE limit == Available(InputHeader) - Reserve
  <2>3. limit \in Nat \ {0} /\ Available(InputHeader) \in Int
    BY <1>7, <2>1, <2>2
  <2>4. PICK n \in 0 .. Len(InputBody) :
          /\ Trimmed(InputBody, Available(InputHeader)) = Upto(InputBody, n) /\ n <= limit
          /\ Longest(InputBody, n, limit)
          /\ Min(LineEnds(InputBody)) <= limit => Sound(Upto(InputBody, n), {})
    BY <1>1, <2>3, TrimmedIs
  <2>5. ~ (Len(message) <= MaxLength) /\ ~ (Available(InputHeader) <= Room)
    BY <1>4, <1>7, <2>2, <2>3
  <2>6. output = Compose(InputHeader, Upto(InputBody, n))
    BY <1>3, <2>4, <2>5
  <2>7. n \in Nat /\ (IF n < Len(InputBody) THEN n ELSE Len(InputBody)) = n
    BY <2>1, <2>4
  <2>8. Upto(InputBody, n) \in Seq(Char) /\ Len(Upto(InputBody, n)) = n
    BY <1>1, <2>7, UptoIs
  <2>9. Len(output) = Len(InputHeader) + n + Len(Link) + 4
    <3> DEFINE u == Upto(InputBody, n)
    <3>1. u \in Seq(Char) /\ Len(u) = n /\ output = Compose(InputHeader, u)
      BY <2>6, <2>8
    <3> HIDE DEF u
    <3>2. Len(Compose(InputHeader, u)) = Len(InputHeader) + Len(u) + Len(Link) + 4
      BY <1>1, <3>1, ComposeIs
    <3> QED
      BY <3>1, <3>2
  <2>10. n <= limit
    BY <2>4
  <2>11. Len(output) <= MaxLength
    BY <2>1, <2>2, <2>7, <2>9, <2>10
  <2>12. Min(LineEnds(InputBody)) <= limit \/ Min(LineEnds(InputBody)) > limit
    <3>1. LineEnds(InputBody) \in SUBSET (0 .. Len(InputBody)) /\ Len(InputBody) \in 0 .. Len(InputBody)
      BY <2>1 DEF LineEnds
    <3>2. 0 .. Len(InputBody) \in SUBSET Nat
      BY <2>1
    <3>3. Len(InputBody) \in LineEnds(InputBody)
      BY <3>1 DEF LineEnds
    <3>4. Min(LineEnds(InputBody)) \in Nat
      BY <3>1, <3>2, <3>3, Least
    <3> QED
      BY <2>3, <3>4
  <2> QED
    BY <2>4, <2>6, <2>11, <2>12
<1>8. Available(InputHeader) <= Room \/ Available(InputHeader) > Room
  <2>1. Len(InputHeader) \in Nat /\ Len(Link) \in Nat
    BY <1>1, TagSound, LenProperties DEF Sound
  <2>2. Available(InputHeader) = MaxLength - (Len(InputHeader) + Len(Link) + 4)
    BY DEF Available
  <2> QED
    BY <2>1, <2>2, LengthAssumption
<1>9. Len(message) <= MaxLength \/ Len(message) > MaxLength
  BY <1>4, LengthAssumption
<1> QED
  BY <1>5, <1>6, <1>7, <1>8, <1>9

\* WithinLength: no message is longer than Telegram accepts, whatever its
\* characters become when they are escaped and however it is trimmed.
THEOREM Accepted == Spec => []WithinLength
<1>1. Decided => WithinLength
  BY Messages DEF WithinLength
<1> QED
  BY <1>1, DecidedInvariant, PTL

\* CompleteUnlessNoRoom: only a header without room or a first line that is too
\* long costs a message an entity or a tag.
THEOREM Complete == Spec => []CompleteUnlessNoRoom
<1>1. ASSUME Decided, Formatted, ~ (Available(InputHeader) <= Room),
             ~ (Min(LineEnds(InputBody)) > Available(InputHeader) - Reserve)
      PROVE  WellFormed(output)
  <2>1. PICK n \in 0 .. Len(InputBody) :
          output = Compose(InputHeader, Upto(InputBody, n)) /\ Sound(Upto(InputBody, n), {})
    BY <1>1, Messages
  <2>2. PICK place \in Nat \ {0, 1} : Sound(InputHeader, {1, place})
    BY <1>1, Parts DEF Formatted
  <2>3. InputHeader \in Seq(Char) /\ Upto(InputBody, n) \in Seq(Char)
    BY <2>1, <2>2 DEF Sound
  <2>4. Sound(output, {1, place})
    BY <2>1, <2>2, <2>3, ComposeIs
  <2> QED
    BY <2>4, SoundWellFormed
<1>2. Decided => CompleteUnlessNoRoom
  BY <1>1 DEF CompleteUnlessNoRoom, InputHeader, InputBody
<1> QED
  BY <1>2, DecidedInvariant, PTL

\* LongestStartKept: of a message that is too long header, link and the longest
\* possible start of the body remain, unless the header leaves no room.
THEOREM StartKept == Spec => []LongestStartKept
<1> DEFINE limit == Available(InputHeader) - Reserve
<1>1. ASSUME NEW n \in 0 .. Len(InputBody), Longest(InputBody, n, limit)
      PROVE  /\ n > 0 \/ InputBody = <<>>
             /\ \A i \in LineEnds(InputBody) :
                  i <= limit => \A k \in n + 1 .. i : InputBody[k] = Break
             /\ limit < Min(LineEnds(InputBody)) =>
                  n = Len(InputBody) \/ \A k \in n + 1 .. limit : InputBody[k] = Break
  <2>1. n # 0 => n > 0
    OBVIOUS
  <2> HIDE DEF limit
  <2> QED
    BY <1>1, <2>1 DEF Longest, Blank
<1>2. Decided => LongestStartKept
  BY <1>1, Messages DEF LongestStartKept, InputHeader, InputBody
<1> QED
  BY <1>2, DecidedInvariant, PTL

=============================================================================
