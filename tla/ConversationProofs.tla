-------------------------- MODULE ConversationProofs --------------------------
(***************************************************************************)
(* Theorems about Conversation for every number of messages, of files and  *)
(* of requests, every page size and every history.                         *)
(***************************************************************************)
EXTENDS Conversation, FiniteSetTheorems, SequenceTheorems, WellFoundedInduction, TLAPS

----------------------------------------------------------------------------
(* Sorting a set of numbers, and keeping a part of a sequence *)

LEMMA LeastOf ==
  ASSUME NEW T \in SUBSET Nat, T # {}
  PROVE  \E m \in T : \A k \in T : m <= k
<1>1. IsWellFoundedOn(OpToRel(<, Nat), Nat)
  BY NatLessThanWellFounded
<1>2. PICK m \in T : \A k \in T : ~(<<k, m>> \in OpToRel(<, Nat))
  BY <1>1, WFMin
<1>3. \A k \in T : ~(k < m)
  BY <1>2 DEF OpToRel
<1> QED BY <1>3

LEMMA GreatestOf ==
  ASSUME NEW n \in Nat, NEW S \in SUBSET (1..n), S # {}
  PROVE  \E m \in S : \A k \in S : k <= m
<1> DEFINE T == {n - i : i \in S}
<1>1. \A i \in S : n - i \in Nat
  OBVIOUS
<1>2. T \in SUBSET Nat /\ T # {}
  BY <1>1
<1>3. PICK j \in T : \A k \in T : j <= k
  BY <1>2, LeastOf
<1>4. PICK m \in S : j = n - m
  OBVIOUS
<1>5. \A k \in S : n - m <= n - k
  BY <1>3, <1>4
<1>6. \A k \in S : k \in 1..n
  OBVIOUS
<1>7. \A k \in S : k <= m
  BY <1>5, <1>6
<1> QED BY <1>7

LEMMA PartsAreFinite ==
  ASSUME NEW n \in Nat, NEW S \in SUBSET (1..n)
  PROVE  IsFiniteSet(S) /\ Cardinality(S) \in Nat
<1>1. IsFiniteSet(1..n)
  BY FS_Interval
<1> QED BY <1>1, FS_Subset, FS_CardinalityType

Enumerates(s, S) ==
  /\ s \in [1..Cardinality(S) -> S]
  /\ \A m, k \in 1..Cardinality(S) : m < k => s[m] < s[k]

\* By induction on the number of elements: the set without its greatest, and that.
LEMMA Enumerable ==
  ASSUME NEW n \in Nat, NEW S \in SUBSET (1..n)
  PROVE  \E s : Enumerates(s, S)
<1> DEFINE Bad == {c \in Nat : \E X \in SUBSET (1..n) :
                                 Cardinality(X) = c /\ ~\E s : Enumerates(s, X)}
<1> SUFFICES ASSUME Bad # {} PROVE FALSE
  BY PartsAreFinite
<1>1. PICK c \in Bad : \A d \in Bad : c <= d
  BY LeastOf
<1>2. PICK X \in SUBSET (1..n) : Cardinality(X) = c /\ ~\E s : Enumerates(s, X)
  OBVIOUS
<1>3. X # {}
  <2> SUFFICES ASSUME X = {} PROVE FALSE
    OBVIOUS
  <2>1. Cardinality(X) = 0
    BY FS_EmptySet
  <2>2. Enumerates([k \in 1..0 |-> 0], X)
    BY <2>1 DEF Enumerates
  <2> QED BY <1>2, <2>2
<1>4. PICK m \in X : \A k \in X : k <= m
  BY <1>3, GreatestOf
<1> DEFINE Y == X \ {m}
<1>5. Y \in SUBSET (1..n) /\ Cardinality(Y) = c - 1 /\ c - 1 \in Nat /\ c \in Nat
  <2>1. IsFiniteSet(X) /\ c \in Nat
    BY PartsAreFinite
  <2>2. Cardinality(Y) = c - 1
    BY <1>2, <2>1, FS_RemoveElement
  <2>3. Cardinality(Y) \in Nat
    BY PartsAreFinite
  <2> QED BY <2>1, <2>2, <2>3
<1>6. PICK s : Enumerates(s, Y)
  <2>1. c - 1 \notin Bad
    BY <1>1, <1>5
  <2> QED BY <1>5, <2>1
<1> DEFINE t == [k \in 1..c |-> IF k = c THEN m ELSE s[k]]
<1>7. \A k \in 1..c : k # c => k \in 1..(c - 1) /\ s[k] \in Y
  <2>1. s \in [1..(c - 1) -> Y]
    BY <1>5, <1>6 DEF Enumerates
  <2>2. \A k \in 1..c : k # c => k \in 1..(c - 1)
    BY <1>5
  <2> HIDE DEF Y
  <2> QED BY <2>1, <2>2
<1>8. t \in [1..c -> X]
  BY <1>7
<1>9. ASSUME NEW j \in 1..c, NEW k \in 1..c, j < k PROVE t[j] < t[k]
  <2>1. j # c /\ j \in 1..(c - 1) /\ s[j] \in Y
    BY <1>5, <1>7, <1>9
  <2>2. CASE k = c
    <3>1. s[j] \in 1..n /\ m \in 1..n /\ s[j] <= m /\ s[j] # m
      BY <1>4, <2>1
    <3> QED BY <2>1, <2>2, <3>1
  <2>3. CASE k # c
    BY <1>5, <1>6, <1>7, <1>9, <2>1, <2>3 DEF Enumerates
  <2> QED BY <2>2, <2>3
<1>10. Enumerates(t, X)
  <2> HIDE DEF t
  <2> QED BY <1>2, <1>8, <1>9 DEF Enumerates
<1> QED BY <1>2, <1>10

LEMMA AscendingIs ==
  ASSUME NEW n \in Nat, NEW S \in SUBSET (1..n)
  PROVE  /\ Ascending(S) \in [1..Cardinality(S) -> S]
         /\ \A m, k \in 1..Cardinality(S) : m < k => Ascending(S)[m] < Ascending(S)[k]
         /\ Cardinality(S) \in Nat
BY Enumerable, PartsAreFinite DEF Ascending, Enumerates

\* Every element has its place: an injection between sets of a size.
LEMMA AscendingHasAll ==
  ASSUME NEW n \in Nat, NEW S \in SUBSET (1..n), NEW x \in S
  PROVE  \E k \in 1..Cardinality(S) : Ascending(S)[k] = x
<1> DEFINE c == Cardinality(S)
           s == Ascending(S)
           R == {s[k] : k \in 1..c}
<1>1. /\ s \in [1..c -> S] /\ c \in Nat
      /\ \A m, k \in 1..c : m < k => s[m] < s[k]
      /\ IsFiniteSet(S)
  BY AscendingIs, PartsAreFinite
<1>nat. \A y \in S : y \in Nat
  OBVIOUS
<1> HIDE DEF s
<1>2. R \subseteq S
  BY <1>1
<1>3. IsFiniteSet(R) /\ Cardinality(R) <= Cardinality(S)
  BY <1>1, <1>2, FS_Subset
<1>4. s \in Bijection(1..c, R)
  <2>1. \A m, k \in 1..c : s[m] = s[k] => m = k
    <3> SUFFICES ASSUME NEW m \in 1..c, NEW k \in 1..c, s[m] = s[k], m # k PROVE FALSE
      OBVIOUS
    <3> HIDE DEF c
    <3>1. m \in Nat /\ k \in Nat /\ (m < k \/ k < m)
      BY <1>1
    <3>2. s[m] \in S /\ s[k] \in S
      BY <1>1
    <3>3. s[m] \in Nat /\ s[k] \in Nat
      BY <1>nat, <3>2
    <3> QED BY <1>1, <3>1, <3>3
  <2>2. s \in [1..c -> R] /\ \A y \in R : \E k \in 1..c : s[k] = y
    BY <1>1
  <2> HIDE DEF R, c
  <2>3. IsInjective(s)
    BY <2>1, <2>2 DEF IsInjective
  <2> QED BY <2>2, <2>3 DEF Bijection, Injection, Surjection
<1>5. Cardinality(R) = c
  <2>1. ExistsBijection(1..c, R)
    BY <1>4 DEF ExistsBijection
  <2>2. IsFiniteSet(1..c) /\ Cardinality(1..c) = c
    BY <1>1, FS_Interval
  <2> QED BY <2>1, <2>2, FS_Bijection
<1>6. R = S
  BY <1>1, <1>2, <1>5, FS_Subset
<1> QED BY <1>6 DEF s

\* As a sequence: sorted, without a repetition, of the members of the set.
LEMMA AscendingSequence ==
  ASSUME NEW n \in Nat, NEW S \in SUBSET (1..n)
  PROVE  /\ Ascending(S) \in Seq(S)
         /\ ToSet(Ascending(S)) = S
         /\ \A m, k \in DOMAIN Ascending(S) : Ascending(S)[m] = Ascending(S)[k] => m = k
<1> DEFINE c == Cardinality(S)
<1>1. /\ Ascending(S) \in [1..c -> S] /\ c \in Nat
      /\ \A m, k \in 1..c : m < k => Ascending(S)[m] < Ascending(S)[k]
  BY AscendingIs
<1>2. \A x \in S : \E k \in 1..c : Ascending(S)[k] = x
  BY AscendingHasAll
<1>nat. \A y \in S : y \in Nat
  OBVIOUS
<1>3. ASSUME NEW m \in 1..c, NEW k \in 1..c, Ascending(S)[m] = Ascending(S)[k], m # k
      PROVE  FALSE
  <2> HIDE DEF c
  <2>1. Ascending(S)[m] \in S /\ Ascending(S)[k] \in S /\ (m < k \/ k < m)
    BY <1>1, <1>3
  <2>2. Ascending(S)[m] \in Nat /\ Ascending(S)[k] \in Nat
    BY <2>1, <1>nat
  <2> QED BY <1>1, <1>3, <2>1, <2>2
<1>4. DOMAIN Ascending(S) = 1..c
  BY <1>1
<1> HIDE DEF c
<1>5. ToSet(Ascending(S)) = S
  BY <1>1, <1>2, <1>4 DEF ToSet
<1>6. Ascending(S) \in Seq(S)
  BY <1>1
<1> QED BY <1>3, <1>4, <1>5, <1>6

\* What is kept of a sequence is there in the same order, and all of it.
LEMMA KeepIs ==
  ASSUME NEW X, NEW s \in Seq(X), NEW S \in SUBSET (DOMAIN s)
  PROVE  /\ Keep(s, S) \in Seq(X)
         /\ Len(Keep(s, S)) = Cardinality(S)
         /\ \A k \in 1..Cardinality(S) :
              Ascending(S)[k] \in S /\ Keep(s, S)[k] = s[Ascending(S)[k]]
         /\ Ascending(S) \in [1..Cardinality(S) -> S] /\ Cardinality(S) \in Nat
         /\ \A m, k \in 1..Cardinality(S) : m < k => Ascending(S)[m] < Ascending(S)[k]
         /\ \A x \in S : \E k \in 1..Cardinality(S) : Ascending(S)[k] = x
<1>1. Len(s) \in Nat /\ S \in SUBSET (1..Len(s))
  OBVIOUS
<1>2. /\ Ascending(S) \in [1..Cardinality(S) -> S] /\ Cardinality(S) \in Nat
      /\ \A m, k \in 1..Cardinality(S) : m < k => Ascending(S)[m] < Ascending(S)[k]
  BY <1>1, AscendingIs
<1>3. \A x \in S : \E k \in 1..Cardinality(S) : Ascending(S)[k] = x
  BY <1>1, AscendingHasAll
<1>4. Keep(s, S) = [k \in 1..Cardinality(S) |-> s[Ascending(S)[k]]]
  BY DEF Keep
<1>5. \A k \in 1..Cardinality(S) : Ascending(S)[k] \in S /\ s[Ascending(S)[k]] \in X
  BY <1>1, <1>2
<1>6. Keep(s, S) \in [1..Cardinality(S) -> X]
  BY <1>4, <1>5
<1>7. Keep(s, S) \in Seq(X) /\ Len(Keep(s, S)) = Cardinality(S)
  BY <1>2, <1>6
<1> QED BY <1>2, <1>3, <1>4, <1>5, <1>7

----------------------------------------------------------------------------
(* The list *)

Views == {s \in Seq(Ids) : \A m, n \in DOMAIN s : s[m] = s[n] => m = n}

LEMMA ViewsHaveIds ==
  ASSUME NEW s \in Views
  PROVE  ToSet(s) \in SUBSET Ids
BY DEF Views, ToSet

LEMMA MergeIs ==
  ASSUME NEW s \in Views, NEW page \in SUBSET Ids
  PROVE  Merge(s, page) \in Views /\ ToSet(Merge(s, page)) = ToSet(s) \union page
<1> DEFINE S == ToSet(s) \union page
<1>1. S \in SUBSET (1..MaxMessages) /\ MaxMessages \in Nat
  BY ViewsHaveIds, HistoryAssumption DEF Ids
<1> HIDE DEF S
<1>2. /\ Ascending(S) \in Seq(S) /\ ToSet(Ascending(S)) = S
      /\ \A m, k \in DOMAIN Ascending(S) : Ascending(S)[m] = Ascending(S)[k] => m = k
  BY <1>1, AscendingSequence
<1>3. Ascending(S) \in Seq(Ids)
  <2>1. S \subseteq Ids
    BY <1>1 DEF Ids
  <2> QED BY <1>2, <2>1
<1> QED BY <1>2, <1>3 DEF S, Merge, Views

LEMMA AppendIs ==
  ASSUME NEW s \in Views, NEW i \in Ids
  PROVE  Append1(s, i) \in Views /\ ToSet(Append1(s, i)) = ToSet(s) \union {i}
BY MergeIs DEF Append1

\* A page in front of the list repeats nothing of it.
LEMMA OlderIs ==
  ASSUME NEW s \in Views, NEW page \in SUBSET Ids
  PROVE  mergeOlder(s, page) \in Views /\ ToSet(mergeOlder(s, page)) = ToSet(s) \union page
<1> DEFINE S == page \ ToSet(s)
           a == Ascending(S)
           t == mergeOlder(s, page)
<1>1. S \in SUBSET (1..MaxMessages) /\ MaxMessages \in Nat
  BY ViewsHaveIds, HistoryAssumption DEF Ids
<1>2. /\ a \in Seq(S) /\ ToSet(a) = S
      /\ \A m, k \in DOMAIN a : a[m] = a[k] => m = k
  <2> HIDE DEF S
  <2> QED BY <1>1, AscendingSequence
<1>3. a \in Seq(Ids) /\ s \in Seq(Ids) /\ t = a \o s
      /\ \A m, k \in DOMAIN s : s[m] = s[k] => m = k
  <2>1. a \in Seq(Ids)
    BY <1>1, <1>2 DEF Ids
  <2> QED BY <2>1 DEF mergeOlder, Views
<1>4. /\ \A k \in DOMAIN a : a[k] \notin ToSet(s)
      /\ \A k \in DOMAIN s : s[k] \in ToSet(s)
  <2>1. \A k \in DOMAIN a : a[k] \in S
    BY <1>2
  <2> QED BY <2>1 DEF ToSet
<1> HIDE DEF a
<1>5. /\ t \in Seq(Ids) /\ Len(t) = Len(a) + Len(s)
      /\ \A k \in 1..Len(t) : t[k] = IF k <= Len(a) THEN a[k] ELSE s[k - Len(a)]
  BY <1>3
<1> HIDE DEF t
<1>6. \A k \in 1..Len(t) : /\ k <= Len(a) => k \in DOMAIN a
                           /\ ~(k <= Len(a)) => k - Len(a) \in DOMAIN s
  BY <1>3, <1>5
<1>7. ASSUME NEW m \in DOMAIN t, NEW k \in DOMAIN t, t[m] = t[k] PROVE m = k
  <2>1. m \in 1..Len(t) /\ k \in 1..Len(t) /\ Len(a) \in Nat
    BY <1>3, <1>5
  <2>2. CASE m <= Len(a) /\ k <= Len(a)
    BY <1>2, <1>5, <1>6, <1>7, <2>1, <2>2
  <2>3. CASE ~(m <= Len(a)) /\ ~(k <= Len(a))
    <3>1. m - Len(a) = k - Len(a)
      BY <1>3, <1>5, <1>6, <1>7, <2>1, <2>3
    <3> QED BY <2>1, <3>1
  <2>4. CASE m <= Len(a) /\ ~(k <= Len(a))
    BY <1>4, <1>5, <1>6, <1>7, <2>1, <2>4
  <2>5. CASE ~(m <= Len(a)) /\ k <= Len(a)
    BY <1>4, <1>5, <1>6, <1>7, <2>1, <2>5
  <2> QED BY <2>2, <2>3, <2>4, <2>5
<1>8. ToSet(t) = ToSet(s) \union page
  <2>1. \A k \in DOMAIN t : t[k] \in ToSet(s) \union ToSet(a)
    BY <1>3, <1>5, <1>6 DEF ToSet
  <2>2. ASSUME NEW k \in DOMAIN a PROVE a[k] \in ToSet(t)
    <3>1. k \in 1..Len(t) /\ t[k] = a[k]
      BY <1>3, <1>5, <2>2
    <3> QED BY <1>5, <3>1 DEF ToSet
  <2>3. ASSUME NEW k \in DOMAIN s PROVE s[k] \in ToSet(t)
    <3>1. k + Len(a) \in 1..Len(t) /\ t[k + Len(a)] = s[k]
      BY <1>3, <1>5, <2>3
    <3> QED BY <1>5, <3>1 DEF ToSet
  <2>4. ToSet(t) = ToSet(s) \union ToSet(a)
    BY <2>1, <2>2, <2>3 DEF ToSet
  <2> QED BY <1>2, <2>4
<1> QED BY <1>5, <1>7, <1>8 DEF Views, t

LEMMA WithoutIs ==
  ASSUME NEW s \in Views, NEW i
  PROVE  Without(s, i) \in Views /\ ToSet(Without(s, i)) = ToSet(s) \ {i}
<1> DEFINE S == {n \in DOMAIN s : s[n] # i}
           a == Ascending(S)
           c == Cardinality(S)
           t == Without(s, i)
<1>1. s \in Seq(Ids) /\ \A m, k \in DOMAIN s : s[m] = s[k] => m = k
  BY DEF Views
<1>2. S \in SUBSET (DOMAIN s) /\ \A n \in S : s[n] # i
  OBVIOUS
<1>3. t = Keep(s, S)
  BY DEF Without
<1>4. \A n \in DOMAIN s : s[n] # i => n \in S
  OBVIOUS
<1> HIDE DEF S, t
<1>5. /\ t \in Seq(Ids) /\ Len(t) = c
      /\ \A k \in 1..c : a[k] \in S /\ t[k] = s[a[k]]
      /\ a \in [1..c -> S] /\ c \in Nat
      /\ \A m, k \in 1..c : m < k => a[m] < a[k]
      /\ \A x \in S : \E k \in 1..c : a[k] = x
  BY <1>1, <1>2, <1>3, KeepIs
<1> HIDE DEF a, c
<1>6. ASSUME NEW m \in DOMAIN t, NEW k \in DOMAIN t, t[m] = t[k], m # k PROVE FALSE
  <2>1. m \in 1..c /\ k \in 1..c
    BY <1>5
  <2>2. a[m] = a[k]
    BY <1>1, <1>2, <1>5, <1>6, <2>1
  <2>3. a[m] \in Nat /\ (m < k \/ k < m)
    BY <1>1, <1>2, <1>5, <1>6, <2>1
  <2> QED BY <1>5, <2>1, <2>2, <2>3
<1>7. ToSet(t) = ToSet(s) \ {i}
  <2>1. DOMAIN t = 1..c
    BY <1>5
  <2>2. \A k \in DOMAIN t : t[k] \in ToSet(s) \ {i}
    BY <1>2, <1>5, <2>1 DEF ToSet
  <2>3. ASSUME NEW n \in DOMAIN s, s[n] # i PROVE s[n] \in ToSet(t)
    <3>1. PICK k \in 1..c : a[k] = n
      BY <1>4, <1>5, <2>3
    <3> QED BY <1>5, <2>1, <3>1 DEF ToSet
  <2> QED BY <2>2, <2>3 DEF ToSet
<1> QED BY <1>5, <1>6, <1>7 DEF Views, t

\* The last ones of a set go up to its end, and are all of it when they fit the page.
LEMMA LastOfIs ==
  ASSUME NEW S \in SUBSET Ids
  PROVE  /\ LastOf(S) \in SUBSET S
         /\ \A m \in LastOf(S), i \in S : m <= i => i \in LastOf(S)
         /\ ~(Cardinality(S) > PageSize) => LastOf(S) = S
<1> DEFINE Above(i) == {j \in S : j > i}
<1>1. MaxMessages \in Nat /\ PageSize \in Nat /\ Ids = 1..MaxMessages
  BY HistoryAssumption, PageAssumption DEF Ids
<1>2. /\ \A i \in S : i \in Nat
      /\ IsFiniteSet(S) /\ Cardinality(S) \in Nat
      /\ \A i \in S : IsFiniteSet(Above(i)) /\ Cardinality(Above(i)) \in Nat
  <2>1. S \in SUBSET (1..MaxMessages)
    BY <1>1
  <2>2. \A i \in S : Above(i) \in SUBSET (1..MaxMessages)
    BY <2>1
  <2> HIDE DEF Above
  <2>3. \A X \in SUBSET (1..MaxMessages) : IsFiniteSet(X) /\ Cardinality(X) \in Nat
    BY <1>1, PartsAreFinite
  <2>4. \A i \in S : i \in Nat
    BY <2>1
  <2> QED BY <2>1, <2>2, <2>3, <2>4
<1>3. ASSUME NEW m \in LastOf(S), NEW i \in S, m <= i PROVE i \in LastOf(S)
  <2>1. m \in S /\ Cardinality(Above(m)) < PageSize
    BY DEF LastOf
  <2>2. Above(i) \subseteq Above(m)
    BY <1>2, <1>3, <2>1
  <2>3. Cardinality(Above(i)) <= Cardinality(Above(m))
    <3> HIDE DEF Above
    <3> QED BY <1>2, <2>1, <2>2, FS_Subset
  <2>4. Cardinality(Above(i)) < PageSize
    <3> HIDE DEF Above
    <3> QED BY <1>1, <1>2, <2>1, <2>3
  <2> QED BY <2>4 DEF LastOf
<1>4. ASSUME ~(Cardinality(S) > PageSize), NEW i \in S PROVE i \in LastOf(S)
  <2>1. Above(i) \subseteq S /\ Above(i) # S
    BY <1>2
  <2>2. Cardinality(Above(i)) < Cardinality(S)
    <3> HIDE DEF Above
    <3>1. Cardinality(Above(i)) <= Cardinality(S) /\ Cardinality(Above(i)) # Cardinality(S)
      BY <1>2, <2>1, FS_Subset
    <3> QED BY <1>2, <3>1
  <2>3. Cardinality(Above(i)) < PageSize
    <3> HIDE DEF Above
    <3> QED BY <1>1, <1>2, <1>4, <2>2
  <2> QED BY <2>3 DEF LastOf
<1>5. LastOf(S) \in SUBSET S
  BY DEF LastOf
<1> QED BY <1>3, <1>4, <1>5

----------------------------------------------------------------------------
(* The wire *)

LEMMA EventIs ==
  ASSUME NEW kind \in {"message", "deleted"}, NEW i \in Ids
  PROVE  /\ Event(kind, i) \in Packet
         /\ Event(kind, i).kind = kind /\ Event(kind, i).id = i /\ Event(kind, i).to = "all"
<1>1. i \in 0..MaxMessages
  BY HistoryAssumption DEF Ids
<1> QED BY <1>1 DEF Event, Packet

LEMMA SentOne ==
  ASSUME NEW w \in Seq(Packet), NEW p \in Packet
  PROVE  /\ w \o <<p>> \in Seq(Packet) /\ Len(w \o <<p>>) = Len(w) + 1
         /\ \A n \in 1..Len(w) : (w \o <<p>>)[n] = w[n]
         /\ (w \o <<p>>)[Len(w) + 1] = p
         /\ DOMAIN w = 1..Len(w) /\ Len(w) \in Nat
         /\ DOMAIN (w \o <<p>>) = 1..(Len(w) + 1)
OBVIOUS

LEMMA PairIs ==
  ASSUME NEW p \in Packet, NEW r \in Packet
  PROVE  <<p>> \o <<r>> = <<p, r>> /\ <<>> \o <<r>> = <<r>>
<1>1. <<p>> \in Seq(Packet) /\ <<r>> \in Seq(Packet) /\ <<p, r>> \in Seq(Packet)
  OBVIOUS
<1>2. /\ <<p>> \o <<r>> \in Seq(Packet) /\ Len(<<p>> \o <<r>>) = 2 /\ Len(<<p, r>>) = 2
      /\ (<<p>> \o <<r>>)[1] = p /\ (<<p>> \o <<r>>)[2] = r
  BY <1>1
<1>3. \A n \in 1..2 : n = 1 \/ n = 2
  OBVIOUS
<1>4. \A n \in 1..2 : (<<p>> \o <<r>>)[n] = <<p, r>>[n]
  BY <1>2, <1>3
<1>5. <<p>> \o <<r>> = <<p, r>>
  BY <1>1, <1>2, <1>4, SeqEqual
<1>6. <<>> \o <<r>> = <<r>>
  BY <1>1, ConcatEmptySeq
<1> QED BY <1>5, <1>6

LEMMA SentTwo ==
  ASSUME NEW w \in Seq(Packet), NEW p \in Packet, NEW r \in Packet
  PROVE  /\ w \o <<p, r>> \in Seq(Packet) /\ Len(w \o <<p, r>>) = Len(w) + 2
         /\ \A n \in 1..Len(w) : (w \o <<p, r>>)[n] = w[n]
         /\ (w \o <<p, r>>)[Len(w) + 1] = p /\ (w \o <<p, r>>)[Len(w) + 2] = r
         /\ DOMAIN w = 1..Len(w) /\ Len(w) \in Nat
         /\ DOMAIN (w \o <<p, r>>) = 1..(Len(w) + 2)
OBVIOUS

LEMMA PacketsKept ==
  ASSUME NEW s \in Seq(Packet), NEW S \in SUBSET (DOMAIN s)
  PROVE  /\ Keep(s, S) \in Seq(Packet)
         /\ Len(Keep(s, S)) = Cardinality(S)
         /\ \A k \in 1..Cardinality(S) :
              Ascending(S)[k] \in S /\ Keep(s, S)[k] = s[Ascending(S)[k]]
         /\ Ascending(S) \in [1..Cardinality(S) -> S] /\ Cardinality(S) \in Nat
         /\ \A m, k \in 1..Cardinality(S) : m < k => Ascending(S)[m] < Ascending(S)[k]
         /\ \A x \in S : \E k \in 1..Cardinality(S) : Ascending(S)[k] = x
BY KeepIs

LEMMA TailIs ==
  ASSUME NEW w \in Seq(Packet), w # <<>>
  PROVE  /\ Tail(w) \in Seq(Packet) /\ Len(Tail(w)) = Len(w) - 1
         /\ Len(w) \in Nat \ {0} /\ DOMAIN w = 1..Len(w)
         /\ Head(w) = w[1] /\ Head(w) \in Packet
         /\ DOMAIN Tail(w) = 1..(Len(w) - 1)
         /\ \A n \in 1..(Len(w) - 1) : Tail(w)[n] = w[n + 1] /\ n + 1 \in 1..Len(w)
OBVIOUS

----------------------------------------------------------------------------
(* The requests *)

LEMMA RequestIs ==
  ASSUME NEW r \in Request \union {Idle}
  PROVE  /\ r.op # "idle" =>
              /\ r \in Request /\ r.op \in Ops /\ r.stage \in Stages /\ r.id \in 0..MaxMessages
              /\ r.text \in 0..New /\ r.page \in SUBSET Ids /\ r.more \in BOOLEAN
         /\ r.op = "idle" <=> r = Idle
         /\ r \in Request => r.op # "idle"
BY DEF Request, Idle, Ops

LEMMA Restaged ==
  ASSUME NEW r \in Request, NEW stage \in Stages
  PROVE  /\ [r EXCEPT !.stage = stage] \in Request
         /\ [r EXCEPT !.stage = stage].op = r.op /\ [r EXCEPT !.stage = stage].stage = stage
         /\ [r EXCEPT !.stage = stage].id = r.id /\ [r EXCEPT !.stage = stage].text = r.text
         /\ [r EXCEPT !.stage = stage].page = r.page
         /\ [r EXCEPT !.stage = stage].more = r.more
BY DEF Request

LEMMA Asked ==
  ASSUME NEW op \in Ops, NEW id \in 0..MaxMessages
  PROVE  /\ Ask(op, id) \in Request
         /\ Ask(op, id).op = op /\ Ask(op, id).stage = "asked" /\ Ask(op, id).id = id
BY HistoryAssumption DEF Ask, Request, Stages, New, Empty

\* A step at one slot.
LEMMA Became ==
  ASSUME TypeOK, NEW q \in Requests, req[q].op # "idle", NEW stage \in Stages,
         Become(q, stage)
  PROVE  /\ req' \in [Requests -> Request \union {Idle}]
         /\ req'[q] = [req[q] EXCEPT !.stage = stage]
         /\ req'[q].op = req[q].op /\ req'[q].stage = stage /\ req'[q].id = req[q].id
         /\ req'[q].text = req[q].text
         /\ \A p \in Requests : p # q => req'[p] = req[p]
<1>1. req \in [Requests -> Request \union {Idle}] /\ req[q] \in Request \union {Idle}
  BY DEF TypeOK
<1>2. req[q] \in Request
  BY <1>1, RequestIs
<1>3. req' = [req EXCEPT ![q] = [req[q] EXCEPT !.stage = stage]]
  BY DEF Become
<1> QED BY <1>1, <1>2, <1>3, Restaged

LEMMA Finished ==
  ASSUME TypeOK, NEW q \in Requests, Finish(q)
  PROVE  /\ req' \in [Requests -> Request \union {Idle}]
         /\ req'[q] = Idle
         /\ \A p \in Requests : p # q => req'[p] = req[p]
BY DEF TypeOK, Finish

LEMMA Begun ==
  ASSUME TypeOK, NEW q \in Requests, NEW r \in Request, Begin(q, r)
  PROVE  /\ req' \in [Requests -> Request \union {Idle}]
         /\ req'[q] = r
         /\ req[q] = Idle
         /\ \A p \in Requests : p # q => req'[p] = req[p]
BY DEF TypeOK, Begin, Busy

\* A page is read.
LEMMA PageRead ==
  ASSUME TypeOK, NEW q \in Requests, req[q].op # "idle", NEW S \in SUBSET Ids, ReadPage(q, S)
  PROVE  /\ req' \in [Requests -> Request \union {Idle}]
         /\ req'[q].op = req[q].op /\ req'[q].stage = "done" /\ req'[q].id = req[q].id
         /\ req'[q].page = LastOf(S) /\ req'[q].more = (Cardinality(S) > PageSize)
         /\ \A p \in Requests : p # q => req'[p] = req[p]
<1>1. req \in [Requests -> Request \union {Idle}] /\ req[q] \in Request \union {Idle}
  BY DEF TypeOK
<1>2. req[q] \in Request
  BY <1>1, RequestIs
<1> DEFINE b == Cardinality(S) > PageSize
           c == LastOf(S)
           r == [req[q] EXCEPT !.stage = "done", !.page = c, !.more = b]
<1>3. req' = [req EXCEPT ![q] = r]
  BY <1>1 DEF ReadPage
<1>4. c \in SUBSET Ids /\ b \in BOOLEAN
  BY LastOfIs
<1>5. c = LastOf(S) /\ b = (Cardinality(S) > PageSize)
  OBVIOUS
<1> HIDE DEF c, b
<1>6. /\ r \in Request /\ r.op = req[q].op /\ r.stage = "done" /\ r.id = req[q].id
      /\ r.page = c /\ r.more = b
  BY <1>2, <1>4 DEF Request, Stages
<1> HIDE DEF r
<1>7. req'[q] = r
  BY <1>1, <1>3
<1>8. req' \in [Requests -> Request \union {Idle}]
  BY <1>1, <1>3, <1>6
<1>9. \A p \in Requests : p # q => req'[p] = req[p]
  BY <1>1, <1>3
<1> QED BY <1>5, <1>6, <1>7, <1>8, <1>9

\* A step leaves a slot alone, frees it, takes a request on without a page or an id, or has
\* to do with sends.
Gentle(p) ==
  \/ req'[p] = req[p]
  \/ req'[p] = Idle
  \/ /\ req'[p] \in Request /\ req[p] \in Request
     /\ req'[p].op = req[p].op /\ req'[p].id = req[p].id /\ req'[p].text = req[p].text
     /\ req'[p].stage \in {"asked", "done"} => req[p].op \in {"send", "edit"}
  \/ req'[p] \in Request /\ req'[p].op = "send" /\ req[p] = Idle

Weighty(q) ==
  \/ ServeLatest(q) \/ ServeOlder(q) \/ ServeUpload(q) \/ ServeDelete(q)
  \/ LoadOlder(q) \/ SubmitEdit(q) \/ SubmitFile(q) \/ \E i \in Ids : SubmitDelete(q, i)

LEMMA SlotsStep ==
  ASSUME TypeOK, Next
  PROVE  \/ /\ req' \in [Requests -> Request \union {Idle}]
            /\ \A p \in Requests : Gentle(p)
         \/ \E q \in Requests : Weighty(q)
<1> DEFINE Goal == /\ req' \in [Requests -> Request \union {Idle}]
                   /\ \A p \in Requests : Gentle(p)
<1>1. req \in [Requests -> Request \union {Idle}]
  BY DEF TypeOK
<1>2. ASSUME req' = req PROVE Goal
  BY <1>1, <1>2 DEF Gentle
<1>3. ASSUME NEW q \in Requests, Finish(q) PROVE Goal
  BY <1>3, Finished DEF Gentle
<1>4. ASSUME NEW q \in Requests, NEW stage \in Stages, Become(q, stage), req[q].op # "idle",
             stage \notin {"asked", "done"} \/ req[q].op \in {"send", "edit"}
      PROVE  Goal
  <2>1. /\ req' \in [Requests -> Request \union {Idle}]
        /\ req'[q].op = req[q].op /\ req'[q].stage = stage /\ req'[q].id = req[q].id
        /\ req'[q].text = req[q].text
        /\ \A p \in Requests : p # q => req'[p] = req[p]
    BY <1>4, Became
  <2>2. req[q] \in Request \union {Idle} /\ req'[q] \in Request \union {Idle}
    BY <1>1, <2>1
  <2>3. req[q] \in Request /\ req'[q] \in Request
    BY <1>4, <2>1, <2>2, RequestIs
  <2>4. Gentle(q)
    BY <1>4, <2>1, <2>3 DEF Gentle
  <2>5. \A p \in Requests : Gentle(p)
    BY <2>1, <2>4 DEF Gentle
  <2> QED BY <2>1, <2>5
<1>5. ASSUME NEW q \in Requests, Serve(q) PROVE Goal \/ Weighty(q)
  <2>1. CASE ServeEdit(q)
    <3>1. req[q].op = "edit" /\ (Become(q, "done") \/ Become(q, "failed"))
      <4>1. CASE row[req[q].id] = "mine"
        BY <2>1, <4>1 DEF ServeEdit, At
      <4>2. CASE row[req[q].id] # "mine"
        BY <2>1, <4>2 DEF ServeEdit, At
      <4> QED BY <4>1, <4>2
    <3> HIDE DEF Goal
    <3> QED BY <1>4, <3>1 DEF Stages
  <2>2. CASE ServeSend(q)
    <3>1. req[q].op = "send" /\ Become(q, "answered")
      BY <2>2 DEF ServeSend, At
    <3> HIDE DEF Goal
    <3> QED BY <1>4, <3>1 DEF Stages
  <2>3. CASE RefuseSend(q)
    <3>1. req[q].op = "send" /\ Become(q, "answered")
      BY <2>3 DEF RefuseSend, At
    <3> HIDE DEF Goal
    <3> QED BY <1>4, <3>1 DEF Stages
  <2>4. CASE Fail(q)
    <3>1. req[q].op # "idle" /\ Become(q, "failed")
      BY <2>4 DEF Fail, Ops
    <3> HIDE DEF Goal
    <3> QED BY <1>4, <3>1 DEF Stages
  <2> QED BY <1>5, <2>1, <2>2, <2>3, <2>4 DEF Serve, Weighty
<1>6. ASSUME NEW q \in Requests, User(q) PROVE Goal \/ Weighty(q)
  <2>1. CASE SubmitText(q)
    <3>1. req[q] = Idle
      BY <2>1 DEF SubmitText, Busy
    <3> DEFINE r == [Ask("send", 0) EXCEPT !.text = text]
               c == [Ask("send", 0) EXCEPT !.text = text, !.stage = "connecting"]
    <3>2. r \in Request /\ r.op = "send" /\ c \in Request /\ c.op = "send"
      <4>1. text \in 0..New
        BY DEF TypeOK
      <4>2. Ask("send", 0) \in Request /\ Ask("send", 0).op = "send"
        BY Asked, HistoryAssumption DEF Ops
      <4> QED BY <4>1, <4>2 DEF Request, Stages
    <3>3. CASE conn
      <4>1. req' = [req EXCEPT ![q] = r]
        BY <2>1, <3>3 DEF SubmitText
      <4> HIDE DEF r, c
      <4> QED BY <1>1, <3>1, <3>2, <4>1 DEF Gentle
    <3>4. CASE ~conn
      <4> DEFINE Waits(p) == p # q /\ At(p, "send", "connecting")
                 s(p) == [req[p] EXCEPT !.stage = "stranded"]
      <4>1. req' = [p \in Requests |-> CASE p = q -> c [] Waits(p) -> s(p) [] OTHER -> req[p]]
        BY <2>1, <3>4 DEF SubmitText
      <4>2. ASSUME NEW p \in Requests, Waits(p)
            PROVE  /\ s(p) \in Request /\ req[p] \in Request /\ p # q
                   /\ s(p).op = req[p].op /\ s(p).id = req[p].id /\ s(p).text = req[p].text
                   /\ s(p).stage = "stranded"
        <5>1. req[p] \in Request \union {Idle} /\ req[p].op # "idle" /\ p # q
          BY <1>1, <4>2 DEF At
        <5>2. req[p] \in Request
          BY <5>1, RequestIs
        <5> QED BY <5>1, <5>2, Restaged DEF Stages
      <4> HIDE DEF c, s, Waits
      <4>3. /\ req'[q] = c
            /\ \A p \in Requests : p # q /\ Waits(p) => req'[p] = s(p)
            /\ \A p \in Requests : p # q /\ ~Waits(p) => req'[p] = req[p]
        <5>1. ASSUME NEW p \in Requests
              PROVE  req'[p] = CASE p = q -> c [] Waits(p) -> s(p) [] OTHER -> req[p]
          BY <4>1
        <5>2. ~Waits(q)
          BY <4>2
        <5>3. ASSUME NEW p \in Requests, p # q, Waits(p) PROVE req'[p] = s(p)
          BY <5>1, <5>3
        <5>4. ASSUME NEW p \in Requests, p # q, ~Waits(p) PROVE req'[p] = req[p]
          BY <5>1, <5>4
        <5> QED BY <5>1, <5>2, <5>3, <5>4
      <4>4. Gentle(q)
        BY <3>1, <3>2, <4>3 DEF Gentle
      <4>5. ASSUME NEW p \in Requests, p # q PROVE Gentle(p) /\ req'[p] \in Request \union {Idle}
        BY <1>1, <4>2, <4>3, <4>5 DEF Gentle
      <4>6. req' \in [Requests -> Request \union {Idle}]
        <5>1. \A p \in Requests : req'[p] \in Request \union {Idle}
          BY <3>2, <4>3, <4>5
        <5> QED BY <4>1, <5>1
      <4> QED BY <4>4, <4>5, <4>6
    <3> QED BY <3>3, <3>4
  <2> QED BY <1>6, <2>1 DEF User, Weighty
<1>7. ASSUME NEW q \in Requests, Answer(q) PROVE Goal
  <2>1. Finish(q)
    BY <1>7 DEF Answer, ShowLatest, LatestFailed, ShowOlder, OlderFailed, EditSaved,
                EditFailed, Uploaded, Deleted, GiveUp
  <2> HIDE DEF Goal
  <2> QED BY <1>3, <2>1
<1>8. ASSUME Deliver PROVE Goal
  <2>1. req' = req \/ Finish(Head(wire).to)
    BY <1>8 DEF Deliver
  <2>2. ASSUME Finish(Head(wire).to) PROVE req' = req \/ Head(wire).to \in Requests
    BY <1>1, <2>2 DEF Finish
  <2> HIDE DEF Goal
  <2> QED BY <1>2, <1>3, <2>1, <2>2
<1>9. ASSUME Environment PROVE Goal
  <2> DEFINE Sends(p, stage) == [req[p] EXCEPT !.stage = stage]
  <2>1. ASSUME NEW p \in Requests, req[p].op = "send", NEW stage \in Stages
        PROVE  /\ Sends(p, stage) \in Request /\ req[p] \in Request
               /\ Sends(p, stage).op = req[p].op /\ Sends(p, stage).id = req[p].id
               /\ Sends(p, stage).text = req[p].text
    <3>1. req[p] \in Request
      BY <1>1, <2>1, RequestIs
    <3> QED BY <3>1, Restaged
  <2>2. CASE Drop
    <3>1. req' = [p \in Requests |-> IF req[p].op = "send" THEN Sends(p, "stranded") ELSE req[p]]
      BY <2>2 DEF Drop
    <3> HIDE DEF Sends
    <3>2. "stranded" \in Stages
      BY DEF Stages
    <3>3. ASSUME NEW p \in Requests PROVE Gentle(p) /\ req'[p] \in Request \union {Idle}
      BY <1>1, <2>1, <3>1, <3>2 DEF Gentle
    <3> QED BY <3>1, <3>3
  <2>3. CASE Reconnect
    <3>1. req' = [p \in Requests |->
                    IF At(p, "send", "connecting") THEN Sends(p, "asked") ELSE req[p]]
      BY <2>3 DEF Reconnect
    <3> HIDE DEF Sends
    <3>2. "asked" \in Stages
      BY DEF Stages
    <3>3. ASSUME NEW p \in Requests PROVE Gentle(p) /\ req'[p] \in Request \union {Idle}
      BY <1>1, <2>1, <3>1, <3>2 DEF Gentle, At
    <3> QED BY <3>1, <3>3
  <2>4. CASE Post \/ ServeLate \/ JoinChannel \/ RefuseJoin \/ \E i \in Ids : Withdraw(i)
    <3>1. req' = req
      BY <2>4 DEF Post, ServeLate, JoinChannel, RefuseJoin, Withdraw
    <3> HIDE DEF Goal
    <3> QED BY <1>2, <3>1
  <2> QED BY <1>9, <2>2, <2>3, <2>4 DEF Environment
<1>10. ASSUME Type \/ CancelEdit \/ Reply \/ AttachFile \/ \E i \in Ids : StartEdit(i)
       PROVE  Goal
  <2>1. req' = req
    BY <1>10 DEF Type, CancelEdit, Reply, AttachFile, StartEdit
  <2> HIDE DEF Goal
  <2> QED BY <1>2, <2>1
<1> HIDE DEF Goal
<1>11. Goal \/ \E q \in Requests : Weighty(q)
  BY <1>5, <1>6, <1>7, <1>8, <1>9, <1>10 DEF Next
<1> QED BY <1>11 DEF Goal

----------------------------------------------------------------------------
(* The rows, the wire and the list *)

\* The next id is one whose message does not exist yet.
LEMMA NextIdIs ==
  ASSUME NEW i \in NextId
  PROVE  i \in Ids /\ row[i] = "none"
BY DEF NextId

LEMMA SendsOne ==
  ASSUME TypeOK, NEW p \in Packet, Send(<<p>>)
  PROVE  /\ wire' = IF conn THEN wire \o <<p>> ELSE wire
         /\ wire' \in Seq(Packet)
         /\ \A n \in DOMAIN wire' : (n \in DOMAIN wire /\ wire'[n] = wire[n]) \/ wire'[n] = p
<1>1. wire \in Seq(Packet) /\ wire' = IF conn THEN wire \o <<p>> ELSE wire
  BY DEF TypeOK, Send
<1>2. CASE conn
  <2>1. wire' = wire \o <<p>>
    BY <1>1, <1>2
  <2>2. /\ wire \o <<p>> \in Seq(Packet)
        /\ \A n \in 1..Len(wire) : (wire \o <<p>>)[n] = wire[n]
        /\ (wire \o <<p>>)[Len(wire) + 1] = p
        /\ DOMAIN wire = 1..Len(wire) /\ Len(wire) \in Nat
        /\ DOMAIN (wire \o <<p>>) = 1..(Len(wire) + 1)
    BY <1>1, SentOne
  <2>3. \A n \in 1..(Len(wire) + 1) : n \in 1..Len(wire) \/ n = Len(wire) + 1
    BY <2>2
  <2> QED BY <1>1, <2>1, <2>2, <2>3
<1>3. CASE ~conn
  BY <1>1, <1>3
<1> QED BY <1>2, <1>3

LEMMA SendsTwo ==
  ASSUME TypeOK, NEW p \in Packet, NEW r \in Packet, conn, Send(<<p, r>>)
  PROVE  /\ wire' = wire \o <<p, r>>
         /\ wire' \in Seq(Packet)
         /\ \A n \in DOMAIN wire' :
              (n \in DOMAIN wire /\ wire'[n] = wire[n]) \/ wire'[n] = p \/ wire'[n] = r
<1>1. wire \in Seq(Packet) /\ wire' = wire \o <<p, r>>
  BY DEF TypeOK, Send
<1>2. /\ wire \o <<p, r>> \in Seq(Packet)
      /\ \A n \in 1..Len(wire) : (wire \o <<p, r>>)[n] = wire[n]
      /\ (wire \o <<p, r>>)[Len(wire) + 1] = p /\ (wire \o <<p, r>>)[Len(wire) + 2] = r
      /\ DOMAIN wire = 1..Len(wire) /\ Len(wire) \in Nat
      /\ DOMAIN (wire \o <<p, r>>) = 1..(Len(wire) + 2)
  BY <1>1, SentTwo
<1>3. \A n \in 1..(Len(wire) + 2) : n \in 1..Len(wire) \/ n = Len(wire) + 1 \/ n = Len(wire) + 2
  BY <1>2
<1> QED BY <1>1, <1>2, <1>3

\* Events go out while the channel is joined.
LEMMA SendsEvent ==
  ASSUME TypeOK, NEW kind \in {"message", "deleted"}, NEW i \in Ids, Send(Told(kind, i))
  PROVE  \/ channel = "in" /\ Send(<<Event(kind, i)>>)
         \/ channel # "in" /\ wire' = wire
<1>1. CASE channel = "in"
  BY <1>1 DEF Told
<1>2. CASE channel # "in"
  <2>1. wire \in Seq(Packet) /\ (wire' = wire \o <<>> \/ wire' = wire)
    BY <1>2 DEF Told, Send, TypeOK
  <2>2. wire \o <<>> = wire
    BY <2>1
  <2> QED BY <1>2, <2>1, <2>2
<1> QED BY <1>1, <1>2

\* So does an acknowledgement, behind its event.
LEMMA SendsAck ==
  ASSUME TypeOK, NEW q \in Requests, ServeSend(q)
  PROVE  \E i \in NextId, p \in Packet, r \in Packet :
           /\ p = Event("message", i) /\ r = [kind |-> "ack", id |-> i, to |-> q]
           /\ row' = [row EXCEPT ![i] = "mine"] /\ conn
           /\ \/ channel = "in" /\ Send(<<p, r>>)
              \/ channel # "in" /\ Send(<<r>>)
<1>1. PICK i \in NextId :
        /\ row' = [row EXCEPT ![i] = "mine"]
        /\ Send(Told("message", i) \o <<[kind |-> "ack", id |-> i, to |-> q]>>)
  BY DEF ServeSend
<1>2. conn /\ i \in Ids /\ i \in 0..MaxMessages
  BY NextIdIs, HistoryAssumption DEF ServeSend, Ids
<1>3. PICK p \in Packet : p = Event("message", i)
  BY <1>2, EventIs
<1>4. PICK r \in Packet : r = [kind |-> "ack", id |-> i, to |-> q]
  <2>1. [kind |-> "ack", id |-> i, to |-> q] \in Packet
    BY <1>2 DEF Packet
  <2> QED BY <2>1
<1>5. Told("message", i) = IF channel = "in" THEN <<p>> ELSE <<>>
  BY <1>3 DEF Told
<1>6. <<p>> \o <<r>> = <<p, r>> /\ <<>> \o <<r>> = <<r>>
  BY PairIs
<1>7. Send(Told("message", i) \o <<r>>)
  BY <1>1, <1>4
<1>8. (channel = "in" /\ Send(<<p, r>>)) \/ (channel # "in" /\ Send(<<r>>))
  BY <1>5, <1>6, <1>7
<1> QED BY <1>1, <1>2, <1>3, <1>4, <1>8

\* What a step puts on the wire.
Fresh(p) ==
  \/ \E i \in NextId : channel = "in" /\ p = Event("message", i)
  \/ \E i \in Ids : row'[i] = "deleted" /\ p = Event("deleted", i)
  \/ p \in Packet /\ p.kind = "ack" /\ p.to \in Requests /\ (p.id # 0 => row'[p.id] # "none")

LEMMA WireStep ==
  ASSUME TypeOK, WellNamed, [Next]_vars
  PROVE  /\ wire' \in Seq(Packet)
         /\ \A n \in DOMAIN wire' :
              (\E m \in DOMAIN wire : wire'[n] = wire[m]) \/ Fresh(wire'[n])
<1> DEFINE Goal == /\ wire' \in Seq(Packet)
                   /\ \A n \in DOMAIN wire' :
                        (\E m \in DOMAIN wire : wire'[n] = wire[m]) \/ Fresh(wire'[n])
<1>1. wire \in Seq(Packet) /\ row \in [Ids -> {"none", "mine", "theirs", "deleted"}]
  BY DEF TypeOK
<1>2. ASSUME wire' = wire PROVE Goal
  BY <1>1, <1>2
<1>3. ASSUME NEW p \in Packet, Send(<<p>>), Fresh(p) PROVE Goal
  BY <1>3, SendsOne
<1>4. ASSUME NEW p \in Packet, NEW r \in Packet, conn, Send(<<p, r>>), Fresh(p), Fresh(r)
      PROVE  Goal
  BY <1>4, SendsTwo
<1>e. \A i \in Ids : \A kind \in {"message", "deleted"} : Event(kind, i) \in Packet
  BY EventIs
<1>n. \A i \in NextId : i \in Ids
  BY NextIdIs
<1> HIDE DEF Goal
<1>5. ASSUME NEW i \in NextId, Send(Told("message", i)) PROVE Goal
  <2>1. \/ channel = "in" /\ Send(<<Event("message", i)>>)
        \/ wire' = wire
    BY <1>5, <1>n, SendsEvent
  <2>2. channel = "in" => Fresh(Event("message", i))
    BY DEF Fresh
  <2> QED BY <1>2, <1>3, <1>e, <1>n, <2>1, <2>2
<1>6. ASSUME NEW i \in Ids, Send(Told("deleted", i)), row'[i] = "deleted" PROVE Goal
  <2>1. \/ channel = "in" /\ Send(<<Event("deleted", i)>>)
        \/ wire' = wire
    BY <1>6, SendsEvent
  <2>2. Fresh(Event("deleted", i))
    BY <1>6 DEF Fresh
  <2> QED BY <1>2, <1>3, <1>e, <2>1, <2>2
<1>8. ASSUME Post PROVE Goal
  <2>1. \E i \in NextId : Send(Told("message", i))
    BY <1>8 DEF Post
  <2> QED BY <1>5, <2>1
<1>9. ASSUME NEW i \in Ids, Withdraw(i) PROVE Goal
  BY <1>1, <1>6, <1>9 DEF Withdraw
<1>10. ASSUME ServeLate PROVE Goal
  <2>1. \E i \in NextId : Send(Told("message", i))
    BY <1>10 DEF ServeLate
  <2> QED BY <1>5, <2>1
<1>11. ASSUME Drop PROVE Goal
  <2>1. wire' = <<>>
    BY <1>11 DEF Drop
  <2> QED BY <2>1 DEF Goal
<1>12. ASSUME NEW q \in Requests, ServeUpload(q) PROVE Goal
  <2>1. \E i \in NextId : Send(Told("message", i))
    BY <1>12 DEF ServeUpload
  <2> QED BY <1>5, <2>1
<1>13. ASSUME NEW q \in Requests, ServeDelete(q) PROVE Goal
  <2>1. CASE row[req[q].id] = "mine"
    <3>1. req[q].id \in 0..MaxMessages
      <4>1. req[q] \in Request \union {Idle} /\ req[q].op # "idle"
        BY <1>13 DEF ServeDelete, At, TypeOK
      <4> QED BY <4>1, RequestIs
    <3>2. /\ row' = [row EXCEPT ![req[q].id] = "deleted"]
          /\ Send(Told("deleted", req[q].id))
      BY <1>13, <2>1 DEF ServeDelete
    <3>3. PICK i \in 0..MaxMessages : i = req[q].id
      BY <3>1
    <3>4. row' = [row EXCEPT ![i] = "deleted"] /\ Send(Told("deleted", i))
      BY <3>2, <3>3
    <3>5. i \in Ids
      BY <1>13, <3>3 DEF ServeDelete, At, WellNamed
    <3> QED BY <1>1, <1>6, <3>4, <3>5
  <2>2. CASE row[req[q].id] # "mine"
    BY <1>2, <1>13, <2>2 DEF ServeDelete
  <2> QED BY <2>1, <2>2
<1>14. ASSUME NEW q \in Requests, ServeSend(q) PROVE Goal
  <2>1. PICK i \in NextId, p \in Packet, r \in Packet :
          /\ p = Event("message", i) /\ r = [kind |-> "ack", id |-> i, to |-> q]
          /\ row' = [row EXCEPT ![i] = "mine"] /\ conn
          /\ \/ channel = "in" /\ Send(<<p, r>>)
             \/ channel # "in" /\ Send(<<r>>)
    BY <1>14, SendsAck
  <2>2. row'[i] = "mine"
    BY <1>1, <1>n, <2>1
  <2>3. r.kind = "ack" /\ r.id = i /\ r.to = q
    BY <2>1
  <2>4. Fresh(r)
    BY <2>2, <2>3 DEF Fresh
  <2>5. channel = "in" => Fresh(p)
    BY <2>1 DEF Fresh
  <2> QED BY <1>3, <1>4, <2>1, <2>4, <2>5
<1>15. ASSUME NEW q \in Requests, RefuseSend(q) PROVE Goal
  <2>1. Send(<<[kind |-> "ack", id |-> 0, to |-> q]>>)
    BY <1>15 DEF RefuseSend
  <2>2. [kind |-> "ack", id |-> 0, to |-> q] \in Packet
        /\ Fresh([kind |-> "ack", id |-> 0, to |-> q])
    BY HistoryAssumption DEF Packet, Fresh
  <2> QED BY <1>3, <2>1, <2>2
<1>16. ASSUME NEW q \in Requests, GiveUp(q) PROVE Goal
  <2> DEFINE S == {n \in DOMAIN wire : wire[n].to # q}
             c == Cardinality(S)
             a == Ascending(S)
  <2>1. wire' = Keep(wire, S)
    BY <1>16 DEF GiveUp
  <2>2. S \in SUBSET (DOMAIN wire)
    OBVIOUS
  <2> HIDE DEF S
  <2>3. /\ Keep(wire, S) \in Seq(Packet) /\ Len(Keep(wire, S)) = c
        /\ \A k \in 1..c : a[k] \in S /\ Keep(wire, S)[k] = wire[a[k]]
    BY <1>1, <2>2, PacketsKept
  <2> HIDE DEF a, c
  <2>4. DOMAIN Keep(wire, S) = 1..c
    BY <2>3
  <2> QED BY <2>1, <2>2, <2>3, <2>4 DEF Goal
<1>17. ASSUME Deliver PROVE Goal
  <2>1. wire # <<>> /\ wire' = Tail(wire)
    BY <1>17 DEF Deliver
  <2>2. /\ Tail(wire) \in Seq(Packet) /\ DOMAIN wire = 1..Len(wire)
        /\ DOMAIN Tail(wire) = 1..(Len(wire) - 1)
        /\ \A n \in 1..(Len(wire) - 1) : Tail(wire)[n] = wire[n + 1] /\ n + 1 \in 1..Len(wire)
    BY <1>1, <2>1, TailIs
  <2> QED BY <2>1, <2>2 DEF Goal
<1>18. ASSUME NEW q \in Requests, ServeLatest(q) \/ ServeOlder(q) \/ ServeEdit(q) \/ Fail(q)
                                  \/ User(q)
       PROVE  Goal
  <2>1. wire' = wire
    BY <1>18 DEF ServeLatest, ServeOlder, ServeEdit, Fail, User, LoadOlder, SubmitEdit,
                 SubmitFile, SubmitText, SubmitDelete, socket
  <2> QED BY <1>2, <2>1
<1>19. ASSUME NEW q \in Requests, Answer(q), ~GiveUp(q) PROVE Goal
  <2>1. wire' = wire
    BY <1>19 DEF Answer, ShowLatest, LatestFailed, ShowOlder, OlderFailed, EditSaved,
                 EditFailed, Uploaded, Deleted, socket
  <2> QED BY <1>2, <2>1
<1>20. ASSUME JoinChannel \/ RefuseJoin \/ Reconnect \/ Type \/ CancelEdit \/ Reply \/ AttachFile
              \/ \E i \in Ids : StartEdit(i)
       PROVE  Goal
  <2>1. wire' = wire
    BY <1>20 DEF JoinChannel, RefuseJoin, Reconnect, Type, CancelEdit, Reply, AttachFile,
                 StartEdit, socket
  <2> QED BY <1>2, <2>1
<1>21. ASSUME UNCHANGED vars PROVE Goal
  <2>1. wire' = wire
    BY <1>21 DEF vars, socket
  <2> QED BY <1>2, <2>1
<1>22. Goal
  BY <1>8, <1>9, <1>10, <1>11, <1>12, <1>13, <1>14, <1>15, <1>16, <1>17, <1>18, <1>19, <1>20,
     <1>21 DEF Next, Environment, Serve
<1> QED BY <1>22 DEF Goal

\* A message is posted at most once and never comes back.
RowMoves(i) ==
  \/ row'[i] = row[i]
  \/ row[i] = "none" /\ row'[i] \in {"mine", "theirs"}
  \/ row[i] \in {"mine", "theirs"} /\ row'[i] = "deleted"

LEMMA RowStep ==
  ASSUME TypeOK, WellNamed, [Next]_vars
  PROVE  /\ row' \in [Ids -> {"none", "mine", "theirs", "deleted"}]
         /\ \A i \in Ids : RowMoves(i)
<1> DEFINE Goal == /\ row' \in [Ids -> {"none", "mine", "theirs", "deleted"}]
                   /\ \A i \in Ids : RowMoves(i)
<1>1. row \in [Ids -> {"none", "mine", "theirs", "deleted"}]
  BY DEF TypeOK
<1>2. ASSUME row' = row PROVE Goal
  BY <1>1, <1>2 DEF RowMoves
<1>3. ASSUME NEW i \in NextId, NEW r \in {"mine", "theirs"}, row' = [row EXCEPT ![i] = r]
      PROVE  Goal
  <2>1. i \in Ids /\ row[i] = "none"
    BY NextIdIs
  <2> QED BY <1>1, <1>3, <2>1 DEF RowMoves
<1>4. ASSUME NEW i \in Ids, row[i] \in {"mine", "theirs"}, row' = [row EXCEPT ![i] = "deleted"]
      PROVE  Goal
  BY <1>1, <1>4 DEF RowMoves
<1> HIDE DEF Goal
<1>5. ASSUME Post PROVE Goal
  <2>1. PICK i \in NextId : row' = [row EXCEPT ![i] = "theirs"]
    BY <1>5 DEF Post
  <2> QED BY <1>3, <2>1
<1>6. ASSUME NEW i \in Ids, Withdraw(i) PROVE Goal
  BY <1>4, <1>6 DEF Withdraw, Present
<1>7. ASSUME ServeLate PROVE Goal
  <2>1. PICK i \in NextId : row' = [row EXCEPT ![i] = "mine"]
    BY <1>7 DEF ServeLate
  <2> QED BY <1>3, <2>1
<1>8. ASSUME NEW q \in Requests, ServeUpload(q) PROVE Goal
  <2>1. PICK i \in NextId : row' = [row EXCEPT ![i] = "mine"]
    BY <1>8 DEF ServeUpload
  <2> QED BY <1>3, <2>1
<1>9. ASSUME NEW q \in Requests, ServeSend(q) PROVE Goal
  <2>1. PICK i \in NextId : row' = [row EXCEPT ![i] = "mine"]
    BY <1>9 DEF ServeSend
  <2> QED BY <1>3, <2>1
<1>10. ASSUME NEW q \in Requests, ServeDelete(q) PROVE Goal
  <2>1. req[q].id \in Ids
    BY <1>10 DEF ServeDelete, At, WellNamed
  <2>2. PICK i \in Ids : i = req[q].id
    BY <2>1
  <2>3. CASE row[i] = "mine"
    <3>1. row' = [row EXCEPT ![i] = "deleted"]
      BY <1>10, <2>2, <2>3 DEF ServeDelete
    <3> QED BY <1>4, <2>3, <3>1
  <2>4. CASE row[i] # "mine"
    BY <1>2, <1>10, <2>2, <2>4 DEF ServeDelete
  <2> QED BY <2>3, <2>4
<1>11. ASSUME NEW q \in Requests, ServeLatest(q) \/ ServeOlder(q) \/ ServeEdit(q)
                                  \/ RefuseSend(q) \/ Fail(q) \/ User(q)
       PROVE  Goal
  <2>1. row' = row
    BY <1>11 DEF ServeLatest, ServeOlder, ServeEdit, RefuseSend, Fail, User, LoadOlder,
                 SubmitEdit, SubmitFile, SubmitText, SubmitDelete, server
  <2> QED BY <1>2, <2>1
<1>12. ASSUME NEW q \in Requests, Answer(q) PROVE Goal
  <2>1. row' = row
    BY <1>12 DEF Answer, ShowLatest, LatestFailed, ShowOlder, OlderFailed, EditSaved,
                 EditFailed, Uploaded, Deleted, GiveUp, server
  <2> QED BY <1>2, <2>1
<1>13. ASSUME JoinChannel \/ RefuseJoin \/ Drop \/ Reconnect \/ Type \/ CancelEdit \/ Reply
              \/ AttachFile \/ Deliver \/ \E i \in Ids : StartEdit(i)
       PROVE  Goal
  <2>1. row' = row
    BY <1>13 DEF JoinChannel, RefuseJoin, Drop, Reconnect, 
                 Type, CancelEdit, Reply, AttachFile, Deliver, StartEdit, server
  <2> QED BY <1>2, <2>1
<1>14. ASSUME UNCHANGED vars PROVE Goal
  <2>1. row' = row
    BY <1>14 DEF vars, server
  <2> QED BY <1>2, <2>1
<1>15. Goal
  BY <1>5, <1>6, <1>7, <1>8, <1>9, <1>10, <1>11, <1>12, <1>13, <1>14
  DEF Next, Environment, Serve
<1> QED BY <1>15 DEF Goal

\* What is added to the list beside pages, and what is taken out of it.
Arrives(i) ==
  \/ wire # <<>> /\ wire[1].kind = "message" /\ wire[1].id = i
  \/ \E q \in Requests : At(q, "upload", "done") /\ req[q].id = i

Leaves(i) ==
  \/ wire # <<>> /\ wire[1].kind = "deleted" /\ wire[1].id = i
  \/ \E q \in Requests : At(q, "delete", "done") /\ req[q].id = i

Shows(q) == ShowLatest(q) \/ ShowOlder(q)

ViewMoves ==
  \/ ToSet(view') = ToSet(view)
  \/ \E i \in Ids : Arrives(i) /\ ToSet(view') = ToSet(view) \union {i}
  \/ \E i \in Ids : Leaves(i) /\ ToSet(view') = ToSet(view) \ {i}
  \/ \E q \in Requests : Shows(q) /\ ToSet(view') = ToSet(view) \union req[q].page

LEMMA ViewStep ==
  ASSUME TypeOK, WellNamed, ShownOnce, [Next]_vars
  PROVE  view' \in Views /\ ViewMoves
<1> DEFINE Goal == view' \in Views /\ ViewMoves
<1>1. view \in Views
  BY DEF TypeOK, ShownOnce, Views
<1>2. ASSUME view' = view PROVE Goal
  BY <1>1, <1>2 DEF ViewMoves
<1>3. ASSUME NEW i \in Ids, Arrives(i), view' = Append1(view, i) PROVE Goal
  BY <1>1, <1>3, AppendIs DEF ViewMoves
<1>4. ASSUME NEW i \in Ids, Leaves(i), view' = Without(view, i) PROVE Goal
  BY <1>1, <1>4, WithoutIs DEF ViewMoves
<1> HIDE DEF Goal
<1>5. ASSUME NEW q \in Requests, Shows(q) PROVE Goal
  <2>1. req[q] \in Request \union {Idle} /\ req[q].op # "idle"
    BY <1>5 DEF Shows, ShowLatest, ShowOlder, At, TypeOK
  <2>2. req[q].page \in SUBSET Ids
    BY <2>1, RequestIs
  <2>3. PICK page \in SUBSET Ids : page = req[q].page
    BY <2>2
  <2>4. view' = Merge(view, page) \/ view' = mergeOlder(view, page)
    BY <1>5, <2>3 DEF Shows, ShowLatest, ShowOlder
  <2>5. view' \in Views /\ ToSet(view') = ToSet(view) \union page
    BY <1>1, <2>4, MergeIs, OlderIs
  <2> QED BY <1>5, <2>3, <2>5 DEF Goal, ViewMoves
<1>6. ASSUME NEW q \in Requests, Uploaded(q) PROVE Goal
  <2>1. CASE req[q].stage = "done"
    <3>1. At(q, "upload", "done") /\ view' = Append1(view, req[q].id)
      BY <1>6, <2>1 DEF Uploaded, At
    <3>2. PICK i \in Ids : i = req[q].id
      BY <3>1 DEF WellNamed
    <3>3. Arrives(i) /\ view' = Append1(view, i)
      BY <3>1, <3>2 DEF Arrives
    <3> QED BY <1>3, <3>3
  <2>2. CASE req[q].stage # "done"
    BY <1>2, <1>6, <2>2 DEF Uploaded
  <2> QED BY <2>1, <2>2
<1>7. ASSUME NEW q \in Requests, Deleted(q) PROVE Goal
  <2>1. CASE req[q].stage = "done"
    <3>1. At(q, "delete", "done") /\ view' = Without(view, req[q].id)
      BY <1>7, <2>1 DEF Deleted, At
    <3>2. PICK i \in Ids : i = req[q].id
      BY <3>1 DEF WellNamed, At
    <3>3. Leaves(i) /\ view' = Without(view, i)
      BY <3>1, <3>2 DEF Leaves
    <3> QED BY <1>4, <3>3
  <2>2. CASE req[q].stage # "done"
    BY <1>2, <1>7, <2>2 DEF Deleted
  <2> QED BY <2>1, <2>2
<1>8. ASSUME Deliver PROVE Goal
  <2>1. wire \in Seq(Packet) /\ wire # <<>>
    BY <1>8 DEF Deliver, TypeOK
  <2>2. Head(wire) = wire[1] /\ 1 \in DOMAIN wire
    BY <2>1
  <2>3. CASE wire[1].kind = "message" /\ view' = Append1(view, wire[1].id)
    <3>1. PICK i \in Ids : i = wire[1].id
      BY <2>2, <2>3 DEF WellNamed
    <3>2. Arrives(i) /\ view' = Append1(view, i)
      BY <2>1, <2>3, <3>1 DEF Arrives
    <3> QED BY <1>3, <3>2
  <2>4. CASE wire[1].kind = "deleted" /\ view' = Without(view, wire[1].id)
    <3>1. PICK i \in Ids : i = wire[1].id
      BY <2>2, <2>4 DEF WellNamed
    <3>2. Leaves(i) /\ view' = Without(view, i)
      BY <2>1, <2>4, <3>1 DEF Leaves
    <3> QED BY <1>4, <3>2
  <2> QED BY <1>2, <1>8, <2>2, <2>3, <2>4 DEF Deliver, OnDeleted
<1>9. ASSUME NEW q \in Requests, Serve(q) \/ User(q) PROVE Goal
  <2>1. view' = view
    BY <1>9 DEF Serve, ServeLatest, ServeOlder, ServeUpload, ServeEdit, ServeDelete, ServeSend,
                RefuseSend, Fail, User, LoadOlder, SubmitEdit, SubmitFile, SubmitText,
                SubmitDelete, thread
  <2> QED BY <1>2, <2>1
<1>10. ASSUME NEW q \in Requests, LatestFailed(q) \/ OlderFailed(q) \/ EditSaved(q)
                                  \/ EditFailed(q) \/ GiveUp(q)
       PROVE  Goal
  <2>1. view' = view
    BY <1>10 DEF LatestFailed, OlderFailed, EditSaved, EditFailed, GiveUp, thread
  <2> QED BY <1>2, <2>1
<1>11. ASSUME Environment \/ Type \/ CancelEdit \/ Reply \/ AttachFile
              \/ \E i \in Ids : StartEdit(i)
       PROVE  Goal
  <2>1. view' = view
    BY <1>11 DEF Environment, Post, Withdraw, ServeLate, JoinChannel, RefuseJoin, Drop, Reconnect, Type, CancelEdit,
                 Reply, AttachFile, StartEdit, thread
  <2> QED BY <1>2, <2>1
<1>12. ASSUME UNCHANGED vars PROVE Goal
  <2>1. view' = view
    BY <1>12 DEF vars, thread
  <2> QED BY <1>2, <2>1
<1>13. Goal
  BY <1>5, <1>6, <1>7, <1>8, <1>9, <1>10, <1>11, <1>12 DEF Next, Answer, Shows
<1> QED BY <1>13 DEF Goal

\* What the steps of weight do to their slot.
Turns(q) ==
  \/ /\ ServeLatest(q) /\ req[q].op = "latest" /\ req'[q].op = "latest"
     /\ req'[q].stage = "done" /\ req'[q].page = LastOf(PresentIds)
     /\ req'[q].more = (Cardinality(PresentIds) > PageSize)
  \/ /\ ServeOlder(q) /\ req[q].op = "older" /\ req'[q].op = "older" /\ req'[q].id = req[q].id
     /\ \/ req'[q].stage = "failed"
        \/ /\ req'[q].stage = "done" /\ req'[q].page = LastOf({i \in PresentIds : i < req[q].id})
           /\ req'[q].more = (Cardinality({i \in PresentIds : i < req[q].id}) > PageSize)
  \/ /\ ServeUpload(q) /\ At(q, "upload", "asked")
     /\ req'[q].op = "upload" /\ req'[q].stage = "done" /\ req'[q].id \in NextId
     /\ req'[q].id >= paged'
  \/ /\ ServeDelete(q) /\ req[q].op = "delete" /\ req'[q].op = "delete" /\ req'[q].id = req[q].id
     /\ \/ req'[q].stage = "failed"
        \/ req'[q].stage = "done" /\ row'[req[q].id] = "deleted"
  \/ /\ LoadOlder(q) /\ req[q] = Idle /\ view # <<>>
     /\ req'[q].op = "older" /\ req'[q].stage = "asked" /\ req'[q].id = Head(view)
  \/ /\ SubmitEdit(q) /\ req[q] = Idle
     /\ req'[q].op = "edit" /\ req'[q].stage = "asked" /\ req'[q].id = editing
     /\ req'[q].text = text
  \/ /\ SubmitFile(q) /\ req[q] = Idle /\ req'[q].op = "upload" /\ req'[q].stage = "asked"
  \/ /\ \E i \in Ids : SubmitDelete(q, i) /\ req'[q].id = i
     /\ req[q] = Idle /\ req'[q].op = "delete" /\ req'[q].stage = "asked"

LEMMA WeightyStep ==
  ASSUME TypeOK, WellNamed, NEW q \in Requests, Weighty(q)
  PROVE  /\ req' \in [Requests -> Request \union {Idle}]
         /\ \A p \in Requests : p # q => req'[p] = req[p]
         /\ Turns(q)
<1> DEFINE Goal == /\ req' \in [Requests -> Request \union {Idle}]
                   /\ \A p \in Requests : p # q => req'[p] = req[p]
                   /\ Turns(q)
<1>1. req[q] \in Request \union {Idle} /\ PresentIds \in SUBSET Ids
  BY DEF TypeOK, PresentIds
<1>2. "done" \in Stages /\ "failed" \in Stages
  BY DEF Stages
<1>3. Ids \subseteq 0..MaxMessages /\ 0 \in 0..MaxMessages
  BY HistoryAssumption DEF Ids
<1>4. ASSUME ServeLatest(q) PROVE Goal
  <2>1. req[q].op = "latest" /\ ReadPage(q, PresentIds)
    BY <1>4 DEF ServeLatest, At
  <2>2. /\ req' \in [Requests -> Request \union {Idle}]
        /\ req'[q].op = req[q].op /\ req'[q].stage = "done" /\ req'[q].id = req[q].id
        /\ req'[q].page = LastOf(PresentIds)
        /\ req'[q].more = (Cardinality(PresentIds) > PageSize)
        /\ \A p \in Requests : p # q => req'[p] = req[p]
    <3>1. PICK S \in SUBSET Ids : S = PresentIds
      BY <1>1
    <3>2. req[q].op # "idle" /\ ReadPage(q, S)
      BY <2>1, <3>1
    <3>3. /\ req' \in [Requests -> Request \union {Idle}]
          /\ req'[q].op = req[q].op /\ req'[q].stage = "done" /\ req'[q].id = req[q].id
          /\ req'[q].page = LastOf(S) /\ req'[q].more = (Cardinality(S) > PageSize)
          /\ \A p \in Requests : p # q => req'[p] = req[p]
      BY <3>2, PageRead
    <3> QED BY <3>1, <3>3
  <2> QED BY <1>4, <2>1, <2>2 DEF Turns
<1>5. ASSUME ServeOlder(q) PROVE Goal
  <2>1. req[q].op = "older"
    BY <1>5 DEF ServeOlder, At
  <2>2. CASE Present(req[q].id)
    <3> DEFINE T == {i \in PresentIds : i < req[q].id}
    <3>1. ReadPage(q, T)
      BY <1>5, <2>2 DEF ServeOlder
    <3>2. PICK S \in SUBSET Ids : S = T
      BY <1>1
    <3>3. req[q].op # "idle" /\ ReadPage(q, S)
      BY <2>1, <3>1, <3>2
    <3>4. /\ req' \in [Requests -> Request \union {Idle}]
          /\ req'[q].op = req[q].op /\ req'[q].stage = "done" /\ req'[q].id = req[q].id
          /\ req'[q].page = LastOf(S) /\ req'[q].more = (Cardinality(S) > PageSize)
          /\ \A p \in Requests : p # q => req'[p] = req[p]
      BY <3>3, PageRead
    <3> QED BY <1>5, <2>1, <3>2, <3>4 DEF Turns
  <2>3. CASE ~Present(req[q].id)
    <3>1. Become(q, "failed") /\ req[q].op # "idle"
      BY <1>5, <2>1, <2>3 DEF ServeOlder
    <3>2. /\ req' \in [Requests -> Request \union {Idle}]
          /\ req'[q].op = req[q].op /\ req'[q].stage = "failed" /\ req'[q].id = req[q].id
          /\ \A p \in Requests : p # q => req'[p] = req[p]
      BY <1>2, <3>1, Became
    <3> QED BY <1>5, <2>1, <3>2 DEF Turns
  <2> QED BY <2>2, <2>3
<1>6. ASSUME ServeUpload(q) PROVE Goal
  <2>1. At(q, "upload", "asked")
    BY <1>6 DEF ServeUpload
  <2>2. PICK i \in NextId : /\ req' = [req EXCEPT ![q].stage = "done", ![q].id = i]
                            /\ paged' = Lower(paged, i)
    BY <1>6 DEF ServeUpload
  <2>l. i >= paged'
    <3>1. i \in Nat /\ paged \in Nat
      BY NextIdIs DEF TypeOK, Ids
    <3> QED BY <2>2, <3>1 DEF Lower
  <2>3. req[q] \in Request /\ i \in 0..MaxMessages
    BY <1>1, <1>3, <2>1, RequestIs, NextIdIs DEF At
  <2> DEFINE r == [req[q] EXCEPT !.stage = "done", !.id = i]
  <2>4. r \in Request /\ r.op = "upload" /\ r.stage = "done" /\ r.id = i
    BY <1>2, <2>1, <2>3 DEF Request, At
  <2>5. req' = [req EXCEPT ![q] = r]
    BY <2>2 DEF TypeOK
  <2> HIDE DEF r
  <2>6. /\ req' \in [Requests -> Request \union {Idle}] /\ req'[q] = r
        /\ \A p \in Requests : p # q => req'[p] = req[p]
    BY <2>4, <2>5 DEF TypeOK
  <2> QED BY <1>6, <2>1, <2>4, <2>6, <2>l DEF Turns
<1>7. ASSUME ServeDelete(q) PROVE Goal
  <2>1. req[q].op = "delete" /\ req[q].id \in Ids /\ req[q].op # "idle"
    BY <1>7 DEF ServeDelete, At, WellNamed
  <2>2. CASE row[req[q].id] = "mine"
    <3>1. Become(q, "done") /\ row' = [row EXCEPT ![req[q].id] = "deleted"]
      BY <1>7, <2>2 DEF ServeDelete
    <3>2. row'[req[q].id] = "deleted"
      BY <2>1, <3>1 DEF TypeOK
    <3>3. /\ req' \in [Requests -> Request \union {Idle}]
          /\ req'[q].op = req[q].op /\ req'[q].stage = "done" /\ req'[q].id = req[q].id
          /\ \A p \in Requests : p # q => req'[p] = req[p]
      BY <1>2, <2>1, <3>1, Became
    <3> QED BY <1>7, <2>1, <3>2, <3>3 DEF Turns
  <2>3. CASE row[req[q].id] # "mine"
    <3>1. Become(q, "failed")
      BY <1>7, <2>3 DEF ServeDelete
    <3>2. /\ req' \in [Requests -> Request \union {Idle}]
          /\ req'[q].op = req[q].op /\ req'[q].stage = "failed" /\ req'[q].id = req[q].id
          /\ \A p \in Requests : p # q => req'[p] = req[p]
      BY <1>2, <2>1, <3>1, Became
    <3> QED BY <1>7, <2>1, <3>2 DEF Turns
  <2> QED BY <2>2, <2>3
<1>8. ASSUME LoadOlder(q) PROVE Goal
  <2>1. view # <<>> /\ Head(view) \in 0..MaxMessages /\ Begin(q, Ask("older", Head(view)))
    <3>1. view # <<>> /\ Begin(q, Ask("older", Head(view))) /\ view \in Seq(Ids)
      BY <1>8 DEF LoadOlder, TypeOK
    <3>2. Head(view) \in Ids
      BY <3>1
    <3> QED BY <1>3, <3>1, <3>2
  <2>2. PICK i \in 0..MaxMessages : i = Head(view)
    BY <2>1
  <2>3. PICK r \in Request : r = Ask("older", i)
    BY Asked DEF Ops
  <2>4. Begin(q, r) /\ r.op = "older" /\ r.stage = "asked" /\ r.id = i
    BY <2>1, <2>2, <2>3, Asked DEF Ops
  <2>5. /\ req' \in [Requests -> Request \union {Idle}] /\ req'[q] = r /\ req[q] = Idle
        /\ \A p \in Requests : p # q => req'[p] = req[p]
    BY <2>4, Begun
  <2> QED BY <1>8, <2>1, <2>2, <2>4, <2>5 DEF Turns
<1>9. ASSUME SubmitEdit(q) PROVE Goal
  <2>1. editing \in 0..MaxMessages /\ text \in 0..New
    BY DEF TypeOK
  <2> DEFINE t == [Ask("edit", editing) EXCEPT !.text = text]
  <2>2. t \in Request /\ t.op = "edit" /\ t.stage = "asked" /\ t.id = editing /\ t.text = text
    BY <2>1, Asked DEF Request, Ops
  <2>3. Begin(q, t)
    BY <1>9 DEF SubmitEdit
  <2> HIDE DEF t
  <2>4. PICK r \in Request : r = t
    BY <2>2
  <2>5. Begin(q, r)
    BY <2>3, <2>4
  <2>6. /\ req' \in [Requests -> Request \union {Idle}] /\ req'[q] = r /\ req[q] = Idle
        /\ \A p \in Requests : p # q => req'[p] = req[p]
    BY <2>5, Begun
  <2> QED BY <1>9, <2>2, <2>4, <2>6 DEF Turns
<1>10. ASSUME SubmitFile(q) PROVE Goal
  <2>1. PICK r \in Request : r = Ask("upload", 0)
    BY <1>3, Asked DEF Ops
  <2>2. r.op = "upload" /\ r.stage = "asked" /\ Begin(q, r)
    BY <1>3, <1>10, <2>1, Asked DEF SubmitFile, Ops
  <2>3. /\ req' \in [Requests -> Request \union {Idle}] /\ req'[q] = r /\ req[q] = Idle
        /\ \A p \in Requests : p # q => req'[p] = req[p]
    BY <2>2, Begun
  <2> QED BY <1>10, <2>2, <2>3 DEF Turns
<1>11. ASSUME NEW i \in Ids, SubmitDelete(q, i) PROVE Goal
  <2>1. PICK r \in Request : r = Ask("delete", i)
    BY <1>3, Asked DEF Ops
  <2>2. r.op = "delete" /\ r.stage = "asked" /\ r.id = i /\ Begin(q, r)
    BY <1>3, <1>11, <2>1, Asked DEF SubmitDelete, Ops
  <2>3. /\ req' \in [Requests -> Request \union {Idle}] /\ req'[q] = r /\ req[q] = Idle
        /\ \A p \in Requests : p # q => req'[p] = req[p]
    BY <2>2, Begun
  <2> QED BY <1>11, <2>2, <2>3 DEF Turns
<1> HIDE DEF Goal
<1>12. Goal
  BY <1>4, <1>5, <1>6, <1>7, <1>8, <1>9, <1>10, <1>11 DEF Weighty
<1> QED BY <1>12 DEF Goal

----------------------------------------------------------------------------
(* The shape of the state *)

\* TypeOK but for the rows, the wire, the list, the requests and what is noted of the messages.
Scalars ==
  /\ late \in 0..1 /\ phase \in {"loading", "loaded", "failed"}
  /\ {conn, live, listening, direct, hasMore, loadingOlder, uploading, editSaving, file}
       \subseteq BOOLEAN
  /\ channel \in {"asked", "in", "out"}
  /\ editing \in 0..MaxMessages /\ text \in 0..New
  /\ attached \in 0..MaxFiles /\ stored \in Nat

LEMMA ScalarsStep ==
  ASSUME TypeOK, [Next]_vars
  PROVE  Scalars'
<1>1. /\ Scalars
      /\ MaxMessages \in Nat /\ MaxFiles \in Nat
      /\ \A i \in Ids : i \in 0..MaxMessages /\ i \in 0..New
      /\ 0 \in 0..MaxMessages /\ Empty \in 0..New /\ New \in 0..New
      /\ \A i \in 0..MaxMessages : i \in 0..New
  BY HistoryAssumption, BoundsAssumption DEF TypeOK, Scalars, Ids, New, Empty
<1>2. ASSUME UNCHANGED <<thread, composer, late, stored, link>>
      PROVE  Scalars'
  BY <1>1, <1>2 DEF Scalars, thread, composer, link
<1>3. CASE Environment
  <2>1. CASE Post \/ \E i \in Ids : Withdraw(i)
    BY <1>2, <2>1 DEF Post, Withdraw
  <2>2. CASE ServeLate
    BY <1>1, <2>2 DEF Scalars, ServeLate, thread, composer, link
  <2>3. CASE Drop
    <3>1. conn' \in BOOLEAN /\ live' \in BOOLEAN /\ late' = 0
      <4>1. conn' = FALSE /\ live' = FALSE
        BY <2>3 DEF Drop
      <4> QED BY <2>3, <4>1 DEF Drop
    <3>2. UNCHANGED <<stored, listening, direct, thread, composer>>
          /\ channel' \in {"asked", "in", "out"}
      BY <2>3 DEF Drop, Left
    <3> QED BY <1>1, <3>1, <3>2 DEF Scalars, thread, composer
  <2>4. CASE Reconnect
    BY <1>1, <2>4 DEF Scalars, Reconnect, thread, composer, server
  <2>5. CASE JoinChannel \/ RefuseJoin
    BY <1>1, <2>5 DEF Scalars, JoinChannel, RefuseJoin, thread, composer, server
  <2> QED BY <1>3, <2>1, <2>2, <2>3, <2>4, <2>5 DEF Environment
<1>4. ASSUME NEW q \in Requests, Serve(q) PROVE Scalars'
  <2>1. CASE ServeUpload(q)
    BY <1>1, <2>1 DEF Scalars, ServeUpload, thread, composer, link
  <2> QED BY <1>2, <1>4, <2>1 DEF Serve, ServeLatest, ServeOlder, ServeEdit, ServeDelete,
                                  ServeSend, RefuseSend, Fail, server, socket
<1>5. ASSUME NEW q \in Requests, User(q) PROVE Scalars'
  <2>1. CASE SubmitText(q)
    <3>1. UNCHANGED <<late, stored, conn, direct, thread, composer>>
      BY <2>1 DEF SubmitText, server
    <3>2. CASE UNCHANGED <<live, listening, channel>>
      BY <1>1, <3>1, <3>2 DEF Scalars, thread, composer
    <3>3. CASE live' = FALSE /\ listening' = FALSE /\ channel' = Left
      <4>1. channel' \in {"asked", "in", "out"}
        BY <3>3 DEF Left
      <4>2. live' \in BOOLEAN /\ listening' \in BOOLEAN
        BY <3>3
      <4> QED BY <1>1, <3>1, <4>1, <4>2 DEF Scalars, thread, composer
    <3> QED BY <2>1, <3>2, <3>3 DEF SubmitText
  <2> QED BY <1>1, <1>5, <2>1 DEF Scalars, User, LoadOlder, SubmitEdit, SubmitFile, SubmitDelete,
                                  server, socket, link, thread, composer
<1>6. ASSUME NEW q \in Requests, ShowLatest(q) \/ ShowOlder(q) PROVE Scalars'
  <2>1. req[q] \in Request \union {Idle} /\ req[q].op # "idle"
    BY <1>6 DEF ShowLatest, ShowOlder, At, TypeOK
  <2>2. req[q].more \in BOOLEAN
    BY <2>1, RequestIs
  <2> QED BY <1>1, <1>6, <2>2 DEF Scalars, ShowLatest, ShowOlder, server, socket, link, composer
<1>7. ASSUME NEW q \in Requests, LatestFailed(q) \/ OlderFailed(q) \/ EditSaved(q)
                                 \/ EditFailed(q) \/ Uploaded(q) \/ Deleted(q)
      PROVE  Scalars'
  BY <1>1, <1>7 DEF Scalars, LatestFailed, OlderFailed, EditSaved, EditFailed, Uploaded, Deleted,
                    server, socket, link, thread, composer
<1>8. ASSUME NEW q \in Requests, GiveUp(q) PROVE Scalars'
  BY <1>1, <1>8 DEF Scalars, GiveUp, link, thread
<1>9. CASE Deliver
  BY <1>1, <1>9 DEF Scalars, Deliver, OnDeleted, server, link
<1>10. CASE Type \/ CancelEdit \/ Reply \/ AttachFile \/ \E i \in Ids : StartEdit(i)
  <2>1. CASE Type \/ CancelEdit \/ Reply
    BY <1>1, <2>1 DEF Scalars, Type, CancelEdit, Reply, server, socket, link, thread
  <2>2. CASE AttachFile
    BY <1>1, <2>2 DEF Scalars, AttachFile, server, socket, link, thread
  <2>3. ASSUME NEW i \in Ids, StartEdit(i) PROVE Scalars'
    BY <1>1, <2>3 DEF Scalars, StartEdit, server, socket, link, thread
  <2> QED BY <1>10, <2>1, <2>2, <2>3
<1>11. CASE UNCHANGED vars
  BY <1>2, <1>11 DEF vars, server, socket
<1> QED BY <1>3, <1>4, <1>5, <1>6, <1>7, <1>8, <1>9, <1>10, <1>11 DEF Next, Answer

LEMMA LowerIs ==
  ASSUME NEW m \in 0..MaxMessages, NEW n \in 0..MaxMessages
  PROVE  Lower(m, n) \in 0..MaxMessages /\ Lower(m, n) <= m /\ Lower(m, n) <= n
BY HistoryAssumption DEF Lower

\* What is noted of the messages only goes down: with the first page and files, and when the
\* channel is joined.
LEMMA HistoriesStep ==
  ASSUME TypeOK, [Next]_vars
  PROVE  /\ paged' \in 0..MaxMessages /\ paged' <= paged
         /\ unheard' \in 0..MaxMessages /\ unheard' <= unheard
         /\ unheard' = unheard \/ JoinChannel
         /\ channel' = "in" => channel = "in" \/ JoinChannel
<1> DEFINE Goal == /\ paged' \in 0..MaxMessages /\ paged' <= paged
                   /\ unheard' \in 0..MaxMessages /\ unheard' <= unheard
                   /\ unheard' = unheard \/ JoinChannel
                   /\ channel' = "in" => channel = "in" \/ JoinChannel
<1>1. /\ paged \in 0..MaxMessages /\ unheard \in 0..MaxMessages
      /\ paged <= paged /\ unheard <= unheard
      /\ \A i \in Ids : i \in 0..MaxMessages
  BY HistoryAssumption DEF TypeOK, Ids
<1>2. ASSUME paged' = paged, unheard' = unheard, channel' = "in" => channel = "in" PROVE Goal
  BY <1>1, <1>2
<1>3. ASSUME NEW n \in 0..MaxMessages, paged' = Lower(paged, n), UNCHANGED <<unheard, channel>>
      PROVE  Goal
  BY <1>1, <1>3, LowerIs
<1> SUFFICES Goal
  OBVIOUS
<1> HIDE DEF Goal
<1>4. CASE Environment
  <2>1. CASE JoinChannel
    <3>1. PICK n \in 0..MaxMessages : unheard' = Lower(unheard, n) /\ paged' = paged
      BY <2>1 DEF JoinChannel, server
    <3> QED BY <1>1, <2>1, <3>1, LowerIs DEF Goal
  <2>2. CASE Drop
    <3>1. paged' = paged /\ unheard' = unheard /\ channel' # "in"
      BY <2>2 DEF Drop, Left
    <3> QED BY <1>2, <3>1
  <2>3. CASE RefuseJoin
    <3>1. paged' = paged /\ unheard' = unheard /\ channel' # "in"
      BY <2>3 DEF RefuseJoin, server
    <3> QED BY <1>2, <3>1
  <2>4. ASSUME Post \/ (\E i \in Ids : Withdraw(i)) \/ ServeLate \/ Reconnect PROVE Goal
    <3>1. paged' = paged /\ unheard' = unheard /\ channel' = channel
      BY <2>4 DEF Post, Withdraw, ServeLate, Reconnect, server, link
    <3> QED BY <1>2, <3>1
  <2> QED BY <1>4, <2>1, <2>2, <2>3, <2>4 DEF Environment
<1>5. ASSUME NEW q \in Requests, Serve(q) PROVE Goal
  <2>1. CASE ServeLatest(q)
    <3>1. PICK n \in 0..MaxMessages : paged' = Lower(paged, n) /\ UNCHANGED <<unheard, channel>>
      BY <2>1 DEF ServeLatest, socket, link
    <3> QED BY <1>3, <3>1
  <2>2. CASE ServeUpload(q)
    <3>1. PICK i \in NextId : paged' = Lower(paged, i) /\ UNCHANGED <<unheard, channel>>
      BY <2>2 DEF ServeUpload, link
    <3>2. i \in 0..MaxMessages
      BY <1>1, NextIdIs
    <3> QED BY <1>3, <3>1, <3>2
  <2> QED BY <1>2, <1>5, <2>1, <2>2 DEF Serve, ServeOlder, ServeEdit, ServeDelete, ServeSend,
                                        RefuseSend, Fail, server, socket, link
<1>6. ASSUME NEW q \in Requests, User(q) PROVE Goal
  <2>1. CASE SubmitText(q)
    <3>1. paged' = paged /\ unheard' = unheard /\ (channel' # "in" \/ channel' = channel)
      BY <2>1 DEF SubmitText, Left, server
    <3> QED BY <1>2, <3>1
  <2> QED BY <1>2, <1>6, <2>1 DEF User, LoadOlder, SubmitEdit, SubmitFile, SubmitDelete,
                                  server, socket, link
<1>7. ASSUME NEW q \in Requests, Answer(q) PROVE Goal
  BY <1>2, <1>7 DEF Answer, ShowLatest, LatestFailed, ShowOlder, OlderFailed, EditSaved,
                    EditFailed, Uploaded, Deleted, GiveUp, server, socket, link
<1>8. ASSUME Type \/ CancelEdit \/ Reply \/ AttachFile \/ Deliver \/ \E i \in Ids : StartEdit(i)
      PROVE  Goal
  BY <1>2, <1>8 DEF Type, CancelEdit, Reply, AttachFile, Deliver, StartEdit, server, socket, link
<1>9. CASE UNCHANGED vars
  <2>1. paged' = paged /\ unheard' = unheard /\ channel' = channel
    BY <1>9 DEF vars, server, socket, link
  <2> QED BY <1>2, <2>1
<1> QED BY <1>4, <1>5, <1>6, <1>7, <1>8, <1>9 DEF Next

LEMMA TypeStep ==
  ASSUME TypeOK, WellNamed, ShownOnce, [Next]_vars
  PROVE  TypeOK' /\ ShownOnce'
<1>1. Scalars'
  BY ScalarsStep
<1>2. row' \in [Ids -> {"none", "mine", "theirs", "deleted"}]
  BY RowStep
<1>3. wire' \in Seq(Packet)
  BY WireStep
<1>4. view' \in Views
  BY ViewStep
<1>5. req' \in [Requests -> Request \union {Idle}]
  <2>1. CASE Next
    BY <2>1, SlotsStep, WeightyStep
  <2>2. CASE UNCHANGED vars
    BY <2>2 DEF vars, TypeOK
  <2> QED BY <2>1, <2>2
<1> QED BY <1>1, <1>2, <1>3, <1>4, <1>5, HistoriesStep DEF TypeOK, Scalars, Views, ShownOnce

LEMMA WellNamedStep ==
  ASSUME TypeOK, WellNamed, ShownOnce, [Next]_vars
  PROVE  WellNamed'
<1> DEFINE Wires == \A n \in DOMAIN wire :
                      IF wire[n].kind = "ack" THEN wire[n].to \in Requests
                      ELSE wire[n].to = "all" /\ wire[n].id \in Ids
           Slot(q) == /\ req[q].op \in {"older", "edit", "delete"} => req[q].id \in Ids
                      /\ At(q, "upload", "done") => req[q].id \in Ids
<1>1. Wires'
  <2>1. \A n \in DOMAIN wire' :
          (\E m \in DOMAIN wire : wire'[n] = wire[m]) \/ Fresh(wire'[n])
    BY WireStep
  <2>2. ASSUME NEW p, Fresh(p)
        PROVE  IF p.kind = "ack" THEN p.to \in Requests ELSE p.to = "all" /\ p.id \in Ids
    BY <2>2, NextIdIs, EventIs DEF Fresh
  <2> QED BY <2>1, <2>2 DEF WellNamed
<1>2. ASSUME NEW q \in Requests PROVE Slot(q)'
  <2>1. CASE Next /\ \A p \in Requests : Gentle(p)
    BY <1>2, <2>1 DEF Gentle, WellNamed, At, Idle
  <2>2. ASSUME NEW p \in Requests, Weighty(p) PROVE Slot(q)'
    <3>1. Turns(p) /\ \A r \in Requests : r # p => req'[r] = req[r]
      BY <2>2, WeightyStep
    <3>2. CASE q # p
      BY <3>1, <3>2 DEF WellNamed, At
    <3>3. CASE q = p
      <4>1. view # <<>> => Head(view) \in Ids
        BY DEF TypeOK
      <4>2. SubmitEdit(p) => editing \in Ids
        BY HistoryAssumption DEF TypeOK, SubmitEdit, Ids
      <4> QED BY <3>1, <3>3, <4>1, <4>2, NextIdIs DEF Turns, WellNamed, At
    <3> QED BY <3>2, <3>3
  <2>3. CASE UNCHANGED vars
    BY <2>3 DEF vars, WellNamed, At
  <2> QED BY <2>1, <2>2, <2>3, SlotsStep
<1> QED BY <1>1, <1>2 DEF WellNamed

----------------------------------------------------------------------------
(* The composer *)

LEMMA DraftsKeptStep ==
  ASSUME TypeOK, DraftsKept, [Next]_vars
  PROVE  DraftsKept'
<1>1. ASSUME UNCHANGED <<editing, text>> PROVE DraftsKept'
  BY <1>1 DEF DraftsKept
<1>2. ASSUME editing' = 0 PROVE DraftsKept'
  BY <1>2 DEF DraftsKept
<1>3. CASE Type
  BY <1>3 DEF Type, DraftsKept
<1>4. ASSUME NEW i \in Ids, StartEdit(i) PROVE DraftsKept'
  BY <1>4 DEF StartEdit, DraftsKept
<1>5. CASE CancelEdit \/ Reply
  BY <1>2, <1>5 DEF CancelEdit, Reply
<1>6. CASE AttachFile \/ Environment
  BY <1>1, <1>6 DEF AttachFile, Environment, Post, Withdraw, ServeLate, JoinChannel, RefuseJoin, Drop, Reconnect, composer
<1>7. ASSUME NEW q \in Requests, Serve(q) \/ User(q) PROVE DraftsKept'
  BY <1>1, <1>7 DEF Serve, ServeLatest, ServeOlder, ServeUpload, ServeEdit, ServeDelete, ServeSend,
                    RefuseSend, Fail, User, LoadOlder, SubmitEdit, SubmitFile, SubmitText,
                    SubmitDelete, composer
<1>8. ASSUME NEW q \in Requests, Answer(q) PROVE DraftsKept'
  <2>1. CASE ShowLatest(q) \/ LatestFailed(q) \/ ShowOlder(q) \/ OlderFailed(q)
             \/ EditFailed(q) \/ Deleted(q)
    BY <1>1, <2>1 DEF ShowLatest, LatestFailed, ShowOlder, OlderFailed, EditFailed, Deleted,
                      composer
  <2>2. CASE EditSaved(q) \/ Uploaded(q) \/ GiveUp(q)
    BY <2>2 DEF EditSaved, Uploaded, GiveUp, DraftsKept
  <2> QED BY <1>8, <2>1, <2>2 DEF Answer
<1>9. CASE Deliver
  BY <1>9 DEF Deliver, OnDeleted, DraftsKept
<1>10. CASE UNCHANGED vars
  BY <1>1, <1>10 DEF vars, composer
<1> QED BY <1>3, <1>4, <1>5, <1>6, <1>7, <1>8, <1>9, <1>10 DEF Next

LEMMA EditsStep ==
  ASSUME TypeOK, WellNamed, DraftsKept, EditsKeepToTheirMessage, [Next]_vars
  PROVE  EditsKeepToTheirMessage'
<1> SUFFICES ASSUME NEW q \in Requests, req'[q].op = "edit" PROVE req'[q].text = req'[q].id
  BY DEF EditsKeepToTheirMessage
<1>1. CASE Next /\ \A p \in Requests : Gentle(p)
  BY <1>1 DEF Gentle, EditsKeepToTheirMessage, Idle
<1>2. ASSUME NEW p \in Requests, Weighty(p) PROVE req'[q].text = req'[q].id
  <2>1. Turns(p) /\ \A r \in Requests : r # p => req'[r] = req[r]
    BY <1>2, WeightyStep
  <2>2. CASE q # p
    BY <2>1, <2>2 DEF EditsKeepToTheirMessage
  <2>3. CASE q = p
    <3>1. SubmitEdit(p) => text = editing
      BY DEF SubmitEdit, DraftsKept
    <3> QED BY <2>1, <2>3, <3>1 DEF Turns
  <2> QED BY <2>2, <2>3
<1>3. CASE UNCHANGED vars
  BY <1>3 DEF vars, EditsKeepToTheirMessage
<1> QED BY <1>1, <1>2, <1>3, SlotsStep

\* The steps other than these leave the files and the uploads alone.
Filing(q) == SubmitFile(q) \/ ServeUpload(q) \/ Uploaded(q)

FilesAlone ==
  /\ UNCHANGED <<uploading, stored, attached>>
  /\ file' = file \/ file' = FALSE

LEMMA FilesStep ==
  ASSUME TypeOK, [Next]_vars
  PROVE  FilesAlone \/ AttachFile \/ \E q \in Requests : Filing(q)
<1>1. CASE Environment
  BY <1>1 DEF Environment, Post, Withdraw, ServeLate, JoinChannel, RefuseJoin, Drop, Reconnect, server, composer, FilesAlone
<1>2. CASE Type \/ CancelEdit \/ Reply \/ Deliver
  BY <1>2 DEF Type, CancelEdit, Reply, Deliver, server, FilesAlone
<1>3. ASSUME NEW i \in Ids, StartEdit(i) PROVE FilesAlone
  BY <1>3 DEF StartEdit, server, FilesAlone
<1>4. ASSUME NEW q \in Requests, Serve(q), ~Filing(q) PROVE FilesAlone
  BY <1>4 DEF Serve, ServeLatest, ServeOlder, ServeEdit, ServeDelete, ServeSend, RefuseSend, Fail,
              Filing, server, composer, FilesAlone
<1>5. ASSUME NEW q \in Requests, User(q), ~Filing(q) PROVE FilesAlone
  BY <1>5 DEF User, LoadOlder, SubmitEdit, SubmitText, SubmitDelete, Filing, server, composer,
              FilesAlone
<1>6. ASSUME NEW q \in Requests, Answer(q), ~Filing(q) PROVE FilesAlone
  BY <1>6 DEF Answer, ShowLatest, LatestFailed, ShowOlder, OlderFailed, EditSaved, EditFailed,
              Deleted, GiveUp, Filing, server, composer, FilesAlone
<1>7. CASE UNCHANGED vars
  BY <1>7 DEF vars, server, composer, FilesAlone
<1> QED BY <1>1, <1>2, <1>3, <1>4, <1>5, <1>6, <1>7 DEF Next

\* Of uploads, a step of any other kind begins and serves none.
LEMMA UploadsStep ==
  ASSUME TypeOK, WellNamed, [Next]_vars, \A q \in Requests : ~SubmitFile(q) /\ ~ServeUpload(q)
  PROVE  \A q \in Requests : /\ req'[q].op = "upload" => req[q].op = "upload"
                             /\ At(q, "upload", "asked")' => At(q, "upload", "asked")
<1> TAKE q \in Requests
<1>1. CASE Next /\ \A p \in Requests : Gentle(p)
  BY <1>1 DEF Gentle, At, Idle
<1>2. ASSUME NEW p \in Requests, Weighty(p)
      PROVE  /\ req'[q].op = "upload" => req[q].op = "upload"
             /\ At(q, "upload", "asked")' => At(q, "upload", "asked")
  <2>1. Turns(p) /\ \A r \in Requests : r # p => req'[r] = req[r]
    BY <1>2, WeightyStep
  <2>2. CASE q # p
    BY <2>1, <2>2 DEF At
  <2>3. CASE q = p
    BY <2>1, <2>3 DEF Turns, At
  <2> QED BY <2>2, <2>3
<1>3. CASE UNCHANGED vars
  BY <1>3 DEF vars, At
<1> QED BY <1>1, <1>2, <1>3, SlotsStep

LEMMA UploadsCountedStep ==
  ASSUME TypeOK, WellNamed, UploadsCounted, UploadedOnce, [Next]_vars
  PROVE  UploadsCounted' /\ UploadedOnce'
<1> DEFINE Goal == UploadsCounted' /\ UploadedOnce'
<1>1. stored \in Nat /\ attached \in Nat
  BY BoundsAssumption DEF TypeOK
<1>2. ASSUME NEW q \in Requests, SubmitFile(q) PROVE Goal
  <2>1. Turns(q) /\ \A p \in Requests : p # q => req'[p] = req[p]
    BY <1>2, WeightyStep DEF Weighty
  <2>2. /\ file /\ ~uploading /\ uploading' = TRUE
        /\ UNCHANGED <<file, attached, stored>>
    BY <1>2 DEF SubmitFile, Enabled, server
  <2>3. \A p \in Requests : p # q => req'[p].op # "upload"
    BY <2>1, <2>2 DEF UploadsCounted
  <2>4. stored < attached
    BY <2>2 DEF UploadsCounted
  <2> QED BY <2>2, <2>3, <2>4 DEF UploadsCounted, UploadedOnce, At
<1>3. ASSUME NEW q \in Requests, ServeUpload(q) PROVE Goal
  <2>1. Turns(q) /\ \A p \in Requests : p # q => req'[p] = req[p]
    BY <1>3, WeightyStep DEF Weighty
  <2>2. /\ At(q, "upload", "asked") /\ stored' = stored + 1
        /\ UNCHANGED <<uploading, file, attached>>
    BY <1>3 DEF ServeUpload, composer
  <2>3. stored < attached /\ uploading
    BY <2>2 DEF UploadsCounted, At
  <2>4. \A p \in Requests : p # q => req'[p].op # "upload"
    BY <2>1, <2>2 DEF UploadsCounted, At
  <2>5. req'[q].stage = "done" /\ req'[q].op = "upload"
    <3>1. req[q].op = "upload" /\ req[q].op # "idle" /\ Idle.op = "idle"
      BY <2>2 DEF At, Idle
    <3>2. PICK i \in NextId : req' = [req EXCEPT ![q].stage = "done", ![q].id = i]
      BY <1>3 DEF ServeUpload
    <3> QED BY <3>1, <3>2, <2>1, RequestIs DEF TypeOK, Request
  <2> QED BY <1>1, <2>2, <2>3, <2>4, <2>5 DEF UploadsCounted, UploadedOnce, At
<1>4. ASSUME \A q \in Requests : ~SubmitFile(q) /\ ~ServeUpload(q) PROVE Goal
  <2>1. \A q \in Requests : /\ req'[q].op = "upload" => req[q].op = "upload"
                            /\ At(q, "upload", "asked")' => At(q, "upload", "asked")
    BY <1>4, UploadsStep
  <2>2. CASE FilesAlone
    BY <2>1, <2>2 DEF FilesAlone, UploadsCounted, UploadedOnce
  <2>3. CASE AttachFile
    <3>1. /\ ~uploading /\ attached' = attached + 1
          /\ UNCHANGED <<uploading, stored>>
      BY <2>3 DEF AttachFile, Enabled, server
    <3> QED BY <1>1, <2>1, <3>1 DEF UploadsCounted, UploadedOnce
  <2>4. ASSUME NEW q \in Requests, Uploaded(q) PROVE Goal
    <3>1. /\ file' = FALSE /\ UNCHANGED <<stored, attached>>
          /\ req[q].op = "upload" /\ Finish(q)
      BY <2>4 DEF Uploaded, server, At
    <3>2. req'[q] = Idle /\ \A p \in Requests : p # q => req'[p] = req[p]
      BY <3>1, Finished
    <3>3. \A p \in Requests : req'[p].op # "upload"
      BY <3>1, <3>2 DEF UploadsCounted, Idle
    <3> QED BY <3>1, <3>3 DEF UploadsCounted, UploadedOnce, At
  <2> QED BY <1>4, <2>2, <2>3, <2>4, FilesStep DEF Filing
<1> HIDE DEF Goal
<1>5. Goal
  BY <1>2, <1>3, <1>4
<1> QED BY <1>5 DEF Goal

----------------------------------------------------------------------------
(* Deletions and pages *)

LEMMA AnswersTrueStep ==
  ASSUME TypeOK, WellNamed, AnswersTrue, [Next]_vars
  PROVE  AnswersTrue'
<1>1. \A i \in Ids : row[i] = "deleted" => row'[i] = "deleted"
  BY RowStep DEF RowMoves
<1>2. ASSUME NEW n \in DOMAIN wire', wire'[n].kind = "deleted"
      PROVE  row'[wire'[n].id] = "deleted"
  <2>1. (\E m \in DOMAIN wire : wire'[n] = wire[m]) \/ Fresh(wire'[n])
    BY WireStep
  <2>2. CASE \E m \in DOMAIN wire : wire'[n] = wire[m]
    BY <1>1, <1>2, <2>2 DEF AnswersTrue, WellNamed
  <2>3. CASE Fresh(wire'[n])
    <3>1. \A i \in NextId : wire'[n] # Event("message", i)
      BY <1>2, NextIdIs, EventIs
    <3>2. PICK i \in Ids : row'[i] = "deleted" /\ wire'[n] = Event("deleted", i)
      BY <1>2, <2>3, <3>1 DEF Fresh
    <3> QED BY <3>2, EventIs
  <2> QED BY <2>1, <2>2, <2>3
<1>3. ASSUME NEW q \in Requests, At(q, "delete", "done")' PROVE row'[req'[q].id] = "deleted"
  <2>1. CASE Next /\ \A p \in Requests : Gentle(p)
    <3>1. req'[q] = req[q]
      BY <1>3, <2>1 DEF Gentle, At, Idle
    <3> QED BY <1>1, <1>3, <3>1 DEF AnswersTrue, WellNamed, At
  <2>2. ASSUME NEW p \in Requests, Weighty(p) PROVE row'[req'[q].id] = "deleted"
    <3>1. Turns(p) /\ \A r \in Requests : r # p => req'[r] = req[r]
      BY <2>2, WeightyStep
    <3>2. CASE q # p
      BY <1>1, <1>3, <3>1, <3>2 DEF AnswersTrue, WellNamed, At
    <3>3. CASE q = p
      BY <1>3, <3>1, <3>3 DEF Turns, At
    <3> QED BY <3>2, <3>3
  <2>3. CASE UNCHANGED vars
    BY <1>1, <1>3, <2>3 DEF vars, AnswersTrue, WellNamed, At
  <2> QED BY <2>1, <2>2, <2>3, SlotsStep
<1>4. \A i \in Ids : row[i] # "none" => row'[i] # "none"
  BY RowStep DEF RowMoves
<1>5. ASSUME NEW n \in DOMAIN wire', wire'[n].kind = "ack", wire'[n].id # 0
      PROVE  row'[wire'[n].id] # "none"
  <2>1. (\E m \in DOMAIN wire : wire'[n] = wire[m]) \/ Fresh(wire'[n])
    BY WireStep
  <2>2. ASSUME NEW m \in DOMAIN wire, wire'[n] = wire[m] PROVE row'[wire'[n].id] # "none"
    <3>1. wire[m] \in Packet
      <4>1. wire \in Seq(Packet)
        BY DEF TypeOK
      <4> QED BY <4>1
    <3>2. wire[m].id \in Ids
      BY <1>5, <2>2, <3>1, HistoryAssumption DEF Packet, Ids
    <3>3. row[wire[m].id] # "none"
      BY <1>5, <2>2 DEF AnswersTrue
    <3> QED BY <1>4, <2>2, <3>2, <3>3
  <2>3. CASE Fresh(wire'[n])
    BY <1>5, <2>3, NextIdIs, EventIs DEF Fresh
  <2> QED BY <2>1, <2>2, <2>3
<1> QED BY <1>2, <1>3, <1>5 DEF AnswersTrue

LEMMA OldIs ==
  ASSUME TypeOK, NEW i \in Old
  PROVE  /\ i \in Ids /\ i \in Nat /\ Present(i)
         /\ i <= paged /\ paged \in Nat /\ i <= unheard /\ unheard \in Nat
BY DEF Old, PresentIds, Ids, TypeOK

\* A newer message below an old one is that one.
LEMMA NewerAbove ==
  ASSUME TypeOK, NEW m \in Ids, Newer(m), NEW i \in Old, m <= i
  PROVE  m = i
BY OldIs DEF Newer, Ids

LEMMA NewerStays ==
  ASSUME TypeOK, [Next]_vars, NEW m \in Ids, Newer(m)
  PROVE  Newer(m)'
<1>1. /\ m \in Nat /\ paged \in Nat /\ unheard \in Nat /\ paged' \in Nat /\ unheard' \in Nat
      /\ paged' <= paged /\ unheard' <= unheard
  BY HistoriesStep DEF TypeOK, Ids
<1> QED BY <1>1 DEF Newer

\* The first page has been read.
Read == phase = "loaded" \/ \E q \in Requests : At(q, "latest", "done")

\* Old messages are added only by posting before it has.
LEMMA OldShrinks ==
  ASSUME TypeOK, WellNamed, PagesReach, [Next]_vars, NEW i \in Old'
  PROVE  \/ i \in Old
         \/ ~Read /\ row[i] = "none" /\ row' # row
<1>1. /\ i \in Ids /\ row'[i] \in {"mine", "theirs"} /\ i <= paged' /\ i <= unheard'
  BY DEF Old, PresentIds, Present
<1>2. i <= paged /\ i <= unheard
  <2>1. /\ i \in Nat /\ paged \in Nat /\ unheard \in Nat /\ paged' \in Nat /\ unheard' \in Nat
        /\ paged' <= paged /\ unheard' <= unheard
    BY <1>1, HistoriesStep DEF TypeOK, Ids
  <2> QED BY <1>1, <2>1
<1>3. RowMoves(i)
  BY <1>1, RowStep
<1>4. CASE row[i] = "none"
  <2>1. ~Read
    BY <1>1, <1>2, <1>4 DEF PagesReach, Read
  <2>2. row' # row
    BY <1>1, <1>4
  <2> QED BY <1>4, <2>1, <2>2
<1>5. CASE row[i] # "none"
  BY <1>1, <1>2, <1>3, <1>5 DEF RowMoves, Old, PresentIds, Present
<1> QED BY <1>4, <1>5

\* The messages that there were when the first page was read still are, or were.
LEMMA ReadStays ==
  ASSUME TypeOK, WellNamed, PagesReach, [Next]_vars,
         phase' = "loaded" \/ \E q \in Requests : At(q, "latest", "done")',
         Read \/ \E q \in Requests : ServeLatest(q),
         NEW i \in Ids, i <= paged'
  PROVE  row'[i] # "none"
<1>1. RowMoves(i)
  BY RowStep
<1>2. /\ i \in Nat /\ paged \in Nat /\ paged' \in Nat /\ paged' <= paged
  BY HistoriesStep DEF TypeOK, Ids
<1>3. CASE Read
  <2>1. i <= paged
    BY <1>2
  <2>2. row[i] # "none"
    BY <1>3, <2>1 DEF PagesReach, Read
  <2> QED BY <1>1, <2>2 DEF RowMoves
<1>4. ASSUME NEW q \in Requests, ServeLatest(q) PROVE row'[i] # "none"
  <2>1. PICK n \in 0..MaxMessages : Now(n) /\ paged' = Lower(paged, n) /\ row' = row
    BY <1>4 DEF ServeLatest
  <2>2. paged' <= n
    BY <2>1, LowerIs DEF TypeOK
  <2>3. i <= n
    BY <1>2, <2>1, <2>2
  <2> QED BY <2>1, <2>3 DEF Now
<1> QED BY <1>3, <1>4

LEMMA NewIdsAreNew ==
  ASSUME TypeOK, NewOnesCome, NEW i \in NextId, channel = "in"
  PROVE  i \in Ids /\ i \in Nat /\ i > unheard /\ unheard \in Nat
<1>1. i \in Ids /\ row[i] = "none"
  BY NextIdIs
<1>2. ~(i <= unheard)
  BY <1>1 DEF NewOnesCome
<1> QED BY <1>1, <1>2 DEF Ids, TypeOK

\* What comes beside pages is newer, and what leaves is gone.
LEMMA ComingsAndGoings ==
  ASSUME TypeOK, AnswersTrue, PagesReach
  PROVE  /\ \A i \in Ids : Arrives(i) => Newer(i)
         /\ \A i \in Ids : Leaves(i) => row[i] = "deleted" /\ i \notin Old
<1>1. wire # <<>> => 1 \in DOMAIN wire
  BY DEF TypeOK
<1>2. \A i \in Ids : Arrives(i) => Newer(i)
  BY <1>1 DEF Arrives, PagesReach, Newer
<1>3. \A i \in Ids : Leaves(i) => row[i] = "deleted"
  BY <1>1 DEF Leaves, AnswersTrue
<1> QED BY <1>2, <1>3, OldIs DEF Present

LEMMA ShowsIs ==
  ASSUME TypeOK, ShownOnce, NEW q \in Requests, Shows(q)
  PROVE  /\ ToSet(view') = ToSet(view) \union req[q].page
         /\ hasMore' = req[q].more
         /\ req[q].page \in SUBSET Ids
<1>1. view \in Views
  BY DEF TypeOK, ShownOnce, Views
<1>2. req[q] \in Request \union {Idle} /\ req[q].op # "idle"
  BY DEF Shows, ShowLatest, ShowOlder, At, TypeOK
<1>3. req[q].page \in SUBSET Ids
  BY <1>2, RequestIs
<1>4. PICK page \in SUBSET Ids : page = req[q].page
  BY <1>3
<1>5. (view' = Merge(view, page) \/ view' = mergeOlder(view, page)) /\ hasMore' = req[q].more
  BY <1>4 DEF Shows, ShowLatest, ShowOlder
<1> QED BY <1>1, <1>4, <1>5, MergeIs, OlderIs

LEMMA PhaseStep ==
  ASSUME [Next]_vars
  PROVE  \/ UNCHANGED <<phase, hasMore>>
         \/ \E q \in Requests : Shows(q) \/ LatestFailed(q)
<1>1. CASE Environment \/ Type \/ CancelEdit \/ Reply \/ AttachFile \/ Deliver
           \/ \E i \in Ids : StartEdit(i)
  BY <1>1 DEF Environment, Post, Withdraw, ServeLate, JoinChannel, RefuseJoin, Drop, Reconnect, Type, CancelEdit, Reply,
              AttachFile, Deliver, StartEdit, thread
<1>2. ASSUME NEW q \in Requests, Serve(q) \/ User(q) PROVE UNCHANGED <<phase, hasMore>>
  BY <1>2 DEF Serve, ServeLatest, ServeOlder, ServeUpload, ServeEdit, ServeDelete, ServeSend,
              RefuseSend, Fail, User, LoadOlder, SubmitEdit, SubmitFile, SubmitText, SubmitDelete,
              thread
<1>3. ASSUME NEW q \in Requests, OlderFailed(q) \/ EditSaved(q) \/ EditFailed(q) \/ Uploaded(q)
                                 \/ Deleted(q) \/ GiveUp(q)
      PROVE  UNCHANGED <<phase, hasMore>>
  BY <1>3 DEF OlderFailed, EditSaved, EditFailed, Uploaded, Deleted, GiveUp, thread
<1>4. CASE UNCHANGED vars
  BY <1>4 DEF vars, thread
<1> QED BY <1>1, <1>2, <1>3, <1>4 DEF Next, Answer, Shows

\* Of pages, a step of any other kind begins and serves none.
LEMMA PagesStep ==
  ASSUME TypeOK, WellNamed, [Next]_vars, NEW q \in Requests
  PROVE  /\ req'[q].op = "latest" => req[q].op = "latest"
         /\ req'[q].op = "older" =>
              \/ req[q].op = "older" /\ req'[q].id = req[q].id
              \/ LoadOlder(q) /\ view # <<>> /\ req'[q].id = Head(view)
                 /\ req'[q].stage = "asked"
         /\ At(q, "latest", "done")' \/ At(q, "older", "done")' =>
              \/ req'[q] = req[q]
              \/ /\ ServeLatest(q) /\ req'[q].page = LastOf(PresentIds)
                 /\ req'[q].more = (Cardinality(PresentIds) > PageSize)
              \/ /\ ServeOlder(q) /\ req[q].op = "older"
                 /\ req'[q].page = LastOf({i \in PresentIds : i < req[q].id})
                 /\ req'[q].more = (Cardinality({i \in PresentIds : i < req[q].id}) > PageSize)
         /\ At(q, "upload", "done")' => req'[q] = req[q] \/ req'[q].id >= paged'
<1>1. CASE Next /\ \A p \in Requests : Gentle(p)
  BY <1>1 DEF Gentle, At, Idle
<1>2. ASSUME NEW p \in Requests, Weighty(p), q # p PROVE req'[q] = req[q]
  BY <1>2, WeightyStep
<1>3. CASE Weighty(q)
  <2>1. Turns(q)
    BY <1>3, WeightyStep
  <2> QED BY <2>1 DEF Turns, At
<1>4. CASE UNCHANGED vars
  BY <1>4 DEF vars
<1> QED BY <1>1, <1>2, <1>3, <1>4, SlotsStep DEF At

\* A page that is the last of S, when what is beyond S is shown, leaves no gap.
LEMMA PageFits ==
  ASSUME NEW S \in SUBSET Ids, NEW V \in SUBSET Ids, UpTo(V), Old \subseteq V \union S
  PROVE  /\ UpTo(V \union LastOf(S))
         /\ ~(Cardinality(S) > PageSize) => Old \subseteq V \union LastOf(S)
<1>1. /\ LastOf(S) \in SUBSET S
      /\ \A m \in LastOf(S), i \in S : m <= i => i \in LastOf(S)
      /\ ~(Cardinality(S) > PageSize) => LastOf(S) = S
  BY LastOfIs
<1>2. ASSUME NEW m \in V \union LastOf(S), NEW i \in Old, m <= i PROVE i \in V \union LastOf(S)
  <2>1. CASE m \in V
    BY <1>2, <2>1 DEF UpTo
  <2>2. CASE m \in LastOf(S)
    BY <1>1, <1>2, <2>2
  <2> QED BY <2>1, <2>2
<1> QED BY <1>1, <1>2 DEF UpTo

LEMMA PagesReachStep ==
  ASSUME TypeOK, WellNamed, ShownOnce, AnswersTrue, NewOnesCome, PagesReach, [Next]_vars
  PROVE  PagesReach'
<1> DEFINE V == ToSet(view)
           W == ToSet(view')
<1>1. \A i \in Old' : \/ i \in Old
                      \/ ~Read /\ row[i] = "none" /\ row' # row
  BY OldShrinks
<1>2. V \in SUBSET Ids /\ W \in SUBSET Ids /\ UpTo(V) /\ ViewMoves
  <2>1. view \in Views /\ view' \in Views /\ ViewMoves
    BY ViewStep DEF TypeOK, ShownOnce, Views
  <2> QED BY <2>1, ViewsHaveIds DEF PagesReach
<1>3. /\ \A i \in Ids : Arrives(i) => Newer(i)
      /\ \A i \in Ids : Leaves(i) => row[i] = "deleted" /\ i \notin Old
  BY ComingsAndGoings
<1>4. \A i \in Old : i \in Ids /\ i \in Nat
  BY OldIs
\* What was shown of the old messages still is.
<1>5. \A i \in Old : i \in V => i \in W
  BY <1>2, <1>3 DEF ViewMoves
\* The requests whose page is shown.
<1>6. ASSUME NEW q \in Requests, Shows(q)
      PROVE  /\ W = V \union req[q].page /\ hasMore' = req[q].more
             /\ UpTo(W) /\ (~req[q].more => Old \subseteq W)
  <2>1. W = V \union req[q].page /\ hasMore' = req[q].more
    BY <1>6, ShowsIs
  <2>2. At(q, "latest", "done") \/ At(q, "older", "done")
    BY <1>6 DEF Shows, ShowLatest, ShowOlder
  <2>3. PageReaches(q)
    BY <2>2 DEF PagesReach
  <2> QED BY <2>1, <2>3 DEF PageReaches
<1>8. \/ UNCHANGED <<phase, hasMore>>
      \/ \E q \in Requests : Shows(q) \/ LatestFailed(q)
  BY PhaseStep
\* Of the phase.
<1>9. \A q \in Requests :
        /\ ShowLatest(q) \/ LatestFailed(q) =>
             /\ phase = "loading" /\ req[q].op = "latest" /\ req'[q] = Idle
             /\ phase' \in {"loaded", "failed"}
        /\ ShowLatest(q) => phase' = "loaded"
        /\ LatestFailed(q) => phase' = "failed" /\ UNCHANGED <<hasMore, view>>
        /\ ShowOlder(q) => phase = "loaded" /\ phase' = "loaded"
  BY Finished DEF ShowLatest, LatestFailed, ShowOlder, At, PagesReach
<1>10. ASSUME phase' = "loaded", ~hasMore' PROVE Old' \subseteq W
  <2>1. CASE UNCHANGED <<phase, hasMore>>
    <3>1. Read
      BY <1>10, <2>1 DEF Read
    <3> QED BY <1>1, <1>5, <1>10, <2>1, <3>1 DEF PagesReach
  <2>2. ASSUME NEW q \in Requests, Shows(q) PROVE Old' \subseteq W
    <3>1. Read
      BY <1>9, <2>2 DEF Read, Shows, ShowLatest
    <3> QED BY <1>1, <1>6, <1>10, <2>2, <3>1
  <2> QED BY <1>8, <1>9, <1>10, <2>1, <2>2
<1>11. ASSUME phase' # "loaded" PROVE ~hasMore' /\ \A m \in W : Newer(m)'
  <2>1. \A q \in Requests : ~Shows(q)
    BY <1>9, <1>11 DEF Shows
  <2>2. ~hasMore' /\ phase # "loaded"
    <3>1. CASE UNCHANGED <<phase, hasMore>>
      BY <1>11, <3>1 DEF PagesReach
    <3>2. ASSUME NEW q \in Requests, LatestFailed(q) PROVE ~hasMore' /\ phase # "loaded"
      BY <1>9, <3>2 DEF PagesReach
    <3> QED BY <1>8, <2>1, <3>1, <3>2
  <2>3. \A m \in V : Newer(m)
    BY <2>2 DEF PagesReach
  <2>4. \A m \in W : Newer(m)
    BY <1>2, <1>3, <2>1, <2>3 DEF ViewMoves
  <2> QED BY <1>2, <2>2, <2>4, NewerStays
\* What is shown has no gap.
<1>7. ASSUME NEW m \in W, NEW i \in Old', m <= i PROVE i \in W
  <2>1. CASE i \notin Old
    <3>1. ~Read /\ row' # row
      BY <1>1, <1>7, <2>1
    <3>2. \A q \in Requests : ~ShowLatest(q) /\ ~ShowOlder(q)
      BY <3>1, <1>9 DEF Read, ShowLatest, ShowOlder
    <3>3. phase' # "loaded"
      BY <1>8, <1>9, <3>1, <3>2 DEF Read, Shows
    <3>4. Newer(m)'
      BY <1>7, <1>11, <3>3
    <3>5. TypeOK'
      BY TypeStep
    <3>6. m \in Ids /\ m \in Nat /\ i \in Nat /\ i <= paged' /\ i <= unheard'
          /\ paged' \in Nat /\ unheard' \in Nat
      <4>1. m \in Ids /\ i \in Ids /\ i <= paged' /\ i <= unheard'
        BY <1>2, <1>7 DEF Old, PresentIds
      <4>2. paged' \in Nat /\ unheard' \in Nat
        BY <3>5 DEF TypeOK
      <4> QED BY <4>1, <4>2 DEF Ids
    <3>7. m = i
      BY <1>7, <3>4, <3>6 DEF Newer
    <3> QED BY <1>7, <3>7
  <2>2. CASE i \in Old /\ m \in V
    BY <1>2, <1>5, <1>7, <2>2 DEF UpTo
  <2>3. CASE i \in Old /\ m \notin V /\ \E a \in Ids : Arrives(a) /\ W = V \union {a}
    BY <1>2, <1>3, <1>7, <2>3, NewerAbove
  <2>4. ASSUME NEW q \in Requests, Shows(q), i \in Old PROVE i \in W
    BY <1>6, <1>7, <2>4 DEF UpTo
  <2> QED BY <1>2, <1>7, <2>1, <2>2, <2>3, <2>4 DEF ViewMoves
<1>12. ASSUME NEW q \in Requests, req'[q].op = "latest" PROVE phase' = "loading"
  <2>1. req[q].op = "latest" /\ phase = "loading"
    BY <1>12, PagesStep DEF PagesReach
  <2>2. \A p \in Requests : ~ShowLatest(p) /\ ~LatestFailed(p)
    <3> SUFFICES ASSUME NEW p \in Requests, ShowLatest(p) \/ LatestFailed(p) PROVE FALSE
      OBVIOUS
    <3>1. p = q
      BY <1>9, <2>1 DEF PagesReach
    <3> QED BY <1>9, <1>12, <3>1 DEF Idle
  <2>3. \A p \in Requests : ~ShowOlder(p)
    BY <1>9, <2>1
  <2> QED BY <1>8, <2>1, <2>2, <2>3 DEF Shows
<1>13. ASSUME NEW q \in Requests, req'[q].op = "older"
       PROVE  phase' = "loaded" /\ \A i \in Old' : i >= req'[q].id => i \in W
  <2>1. \/ req[q].op = "older" /\ req'[q].id = req[q].id
        \/ LoadOlder(q) /\ view # <<>> /\ req'[q].id = Head(view)
    BY <1>13, PagesStep
  <2>2. phase = "loaded"
    <3>1. LoadOlder(q) => hasMore
      BY DEF LoadOlder
    <3> QED BY <2>1, <3>1 DEF PagesReach
  <2>3. phase' = "loaded"
    BY <1>8, <1>9, <2>2 DEF Shows
  <2>4. \A i \in Old : i >= req'[q].id => i \in V
    <3>1. CASE req[q].op = "older" /\ req'[q].id = req[q].id
      BY <3>1 DEF PagesReach
    <3>2. CASE view # <<>> /\ req'[q].id = Head(view)
      <4>1. Head(view) \in V /\ Head(view) \in Nat
        <5>1. view \in Seq(Ids) /\ view # <<>>
          BY <3>2 DEF TypeOK
        <5>2. 1 \in DOMAIN view /\ Head(view) = view[1] /\ view[1] \in Ids
          BY <5>1
        <5> QED BY <5>2 DEF ToSet, Ids
      <4>2. PICK h \in V : h = Head(view) /\ h \in Nat
        BY <4>1
      <4>3. \A i \in Old : i >= h => h <= i
        BY <1>4, <4>2
      <4> QED BY <1>2, <3>2, <4>2, <4>3 DEF UpTo
    <3> QED BY <2>1, <3>1, <3>2
  <2> QED BY <1>1, <1>5, <2>2, <2>3, <2>4 DEF Read
<1>14. ASSUME NEW q \in Requests, At(q, "latest", "done")' \/ At(q, "older", "done")'
       PROVE  PageReaches(q)'
  <2> DEFINE page == req'[q].page
  <2>o. Old' \subseteq Old
    <3>1. Read \/ ServeLatest(q) \/ ServeOlder(q)
      BY <1>14, PagesStep DEF At, PagesReach, Read
    <3>2. ServeOlder(q) => Read
      BY DEF ServeOlder, At, PagesReach, Read
    <3>3. ServeLatest(q) => row' = row
      BY DEF ServeLatest
    <3> QED BY <1>1, <3>1, <3>2, <3>3
  <2>1. UpTo(V \union page) /\ (~req'[q].more => Old \subseteq V \union page)
    <3>1. CASE req'[q] = req[q]
      <4>1. PageReaches(q)
        BY <1>14, <3>1 DEF At, PagesReach
      <4> QED BY <3>1, <4>1 DEF PageReaches
    <3>2. CASE ServeLatest(q) /\ page = LastOf(PresentIds)
               /\ req'[q].more = (Cardinality(PresentIds) > PageSize)
      <4>1. PresentIds \in SUBSET Ids /\ Old \subseteq V \union PresentIds
        BY DEF PresentIds, Old
      <4>2. /\ UpTo(V \union LastOf(PresentIds))
            /\ ~(Cardinality(PresentIds) > PageSize) => Old \subseteq V \union LastOf(PresentIds)
        BY <1>2, <4>1, PageFits
      <4> QED BY <3>2, <4>2
    <3>3. CASE ServeOlder(q) /\ req[q].op = "older"
               /\ page = LastOf({i \in PresentIds : i < req[q].id})
               /\ req'[q].more = (Cardinality({i \in PresentIds : i < req[q].id}) > PageSize)
      <4> DEFINE S == {i \in PresentIds : i < req[q].id}
      <4>1. S \in SUBSET Ids
        BY DEF PresentIds
      <4>2. Old \subseteq V \union S
        <5>1. req[q].id \in Nat
          BY <3>3 DEF WellNamed, Ids
        <5>2. \A i \in Old : i >= req[q].id => i \in V
          BY <3>3 DEF PagesReach
        <5>3. \A i \in Old : i \in PresentIds
          BY DEF Old
        <5> QED BY <1>4, <5>1, <5>2, <5>3
      <4> HIDE DEF S
      <4>3. /\ UpTo(V \union LastOf(S))
            /\ ~(Cardinality(S) > PageSize) => Old \subseteq V \union LastOf(S)
        BY <1>2, <4>1, <4>2, PageFits
      <4> QED BY <3>3, <4>3 DEF S
    <3> QED BY <1>14, <3>1, <3>2, <3>3, PagesStep
  <2>2. ASSUME NEW m \in W \union page, NEW i \in Old', m <= i PROVE i \in W \union page
    <3>1. CASE m \in W
      BY <1>7, <2>2, <3>1
    <3>2. CASE m \in page
      BY <1>5, <2>o, <2>1, <2>2, <3>2 DEF UpTo
    <3> QED BY <3>1, <3>2
  <2>3. ~req'[q].more => Old' \subseteq W \union page
    BY <1>5, <2>o, <2>1
  <2> QED BY <2>2, <2>3 DEF PageReaches, UpTo
<1>15. ASSUME NEW n \in DOMAIN wire', wire'[n].kind = "message" PROVE wire'[n].id > unheard'
  <2>1. (\E m \in DOMAIN wire : wire'[n] = wire[m]) \/ Fresh(wire'[n])
    BY WireStep
  <2>h. unheard \in Nat /\ unheard' \in Nat /\ unheard' <= unheard
    BY HistoriesStep DEF TypeOK
  <2>2. ASSUME NEW m \in DOMAIN wire, wire'[n] = wire[m] PROVE wire'[n].id > unheard'
    <3>1. wire[m].id > unheard /\ wire[m].id \in Nat
      BY <1>15, <2>2 DEF PagesReach, WellNamed, Ids
    <3> QED BY <2>h, <2>2, <3>1
  <2>3. CASE Fresh(wire'[n])
    <3>1. \A i \in Ids : wire'[n] # Event("deleted", i)
      BY <1>15, EventIs
    <3>2. PICK i \in NextId : wire'[n] = Event("message", i) /\ channel = "in"
      BY <1>15, <2>3, <3>1 DEF Fresh
    <3>3. wire'[n].id = i /\ i > unheard /\ i \in Nat
      BY <3>2, EventIs, NewIdsAreNew
    <3> QED BY <2>h, <3>3
  <2> QED BY <2>1, <2>2, <2>3
<1>16. ASSUME NEW q \in Requests, At(q, "upload", "done")' PROVE req'[q].id >= paged'
  <2>1. req'[q] = req[q] \/ req'[q].id >= paged'
    BY <1>16, PagesStep
  <2>2. CASE req'[q] = req[q]
    <3>1. req[q].id >= paged /\ req[q].id \in Nat
      BY <1>16, <2>2 DEF At, PagesReach, WellNamed, Ids
    <3>2. paged \in Nat /\ paged' \in Nat /\ paged' <= paged
      BY HistoriesStep DEF TypeOK
    <3> QED BY <2>2, <3>1, <3>2
  <2> QED BY <2>1, <2>2
<1>17. ASSUME NEW p \in Requests, NEW q \in Requests, req'[p].op = "latest",
              req'[q].op = "latest"
       PROVE  p = q
  BY <1>17, PagesStep DEF PagesReach
<1>18. ASSUME phase' = "loaded" \/ \E q \in Requests : At(q, "latest", "done")'
       PROVE  \A i \in Ids : i <= paged' => row'[i] # "none"
  <2>1. phase' = "loaded" => Read
    BY <1>8, <1>9 DEF Read, Shows, ShowLatest
  <2>2. ASSUME NEW q \in Requests, At(q, "latest", "done")'
        PROVE  Read \/ ServeLatest(q)
    BY <2>2, PagesStep DEF At, Read
  <2>3. Read \/ \E q \in Requests : ServeLatest(q)
    BY <1>18, <2>1, <2>2
  <2> QED BY <1>18, <2>3, ReadStays
<1> QED BY <1>18, <1>7, <1>10, <1>11, <1>12, <1>13, <1>14, <1>15, <1>16, <1>17
        DEF PagesReach, UpTo

----------------------------------------------------------------------------
(* What is new comes over the socket *)

\* What was accounted for still is, when the events ahead of position n are now ahead of
\* position k, or have been shown, or are of messages that are gone.
LEMMA StillAccounted ==
  ASSUME TypeOK, WellNamed, ShownOnce, AnswersTrue, PagesReach, [Next]_vars,
         NEW i \in Ids, NEW n \in Nat, NEW k \in Nat, Accounted(i, n),
         Announced(i, n) => i \in ToSet(view') \/ row'[i] = "deleted" \/ Announced(i, k)'
  PROVE  Accounted(i, k)'
<1>1. RowMoves(i)
  BY RowStep
<1>2. CASE i \in ToSet(view)
  <2>1. ViewMoves
    BY ViewStep
  <2>2. ASSUME Leaves(i) PROVE row'[i] = "deleted"
    BY <1>1, <2>2, ComingsAndGoings DEF RowMoves
  <2> QED BY <1>2, <2>1, <2>2 DEF ViewMoves, Accounted
<1>3. CASE row[i] = "deleted"
  BY <1>1, <1>3 DEF RowMoves, Accounted
<1> QED BY <1>2, <1>3 DEF Accounted

NewOnes ==
  /\ \A i \in Ids : Present(i) /\ i > unheard => Accounted(i, Len(wire))
  /\ \A n \in DOMAIN wire :
       wire[n].kind = "ack" /\ wire[n].id > unheard => Accounted(wire[n].id, n)

\* A message that was there is accounted for at the end of the wire if its event is
\* somewhere on it, or has been shown; and a new one's is there.
LEMMA NewOnesStay ==
  ASSUME TypeOK, WellNamed, ShownOnce, AnswersTrue, PagesReach, [Next]_vars, NewOnes,
         TypeOK', unheard' = unheard,
         \A i \in Ids : row[i] = "none" => row'[i] = "none" \/ Announced(i, Len(wire))',
         \A i \in Ids : Announced(i, Len(wire)) =>
           i \in ToSet(view') \/ row'[i] = "deleted" \/ Announced(i, Len(wire))',
         \A n \in DOMAIN wire', i \in Ids :
           wire'[n].kind = "ack" /\ wire'[n].id = i /\ i > unheard => Accounted(i, n)'
  PROVE  NewOnes'
<1>1. wire \in Seq(Packet) /\ wire' \in Seq(Packet) /\ Len(wire) \in Nat /\ Len(wire') \in Nat
  BY DEF TypeOK
<1>2. ASSUME NEW i \in Ids, row'[i] \in {"mine", "theirs"}, i > unheard
      PROVE  Accounted(i, Len(wire))'
  <2>1. PICK n \in Nat : n = Len(wire)
    BY <1>1
  <2>2. PICK k \in Nat : k = Len(wire')
    BY <1>1
  <2>3. Announced(i, Len(wire))' <=> Announced(i, k)'
    BY <2>2 DEF Announced
  <2>4. Accounted(i, Len(wire))' <=> Accounted(i, k)'
    BY <2>2, <2>3 DEF Accounted
  <2>5. CASE row[i] = "none"
    BY <1>2, <2>3, <2>4, <2>5 DEF Accounted
  <2>6. CASE row[i] # "none"
    <3>1. row[i] \in {"mine", "theirs"}
      BY <1>2, <2>6, RowStep DEF RowMoves
    <3>2. Accounted(i, n)
      BY <1>2, <2>1, <3>1 DEF NewOnes, Present
    <3>3. Announced(i, n) => i \in ToSet(view') \/ row'[i] = "deleted" \/ Announced(i, k)'
      BY <2>1, <2>3
    <3>4. Accounted(i, k)'
      BY <3>2, <3>3, StillAccounted
    <3> QED BY <2>4, <3>4
  <2> QED BY <2>5, <2>6
<1>3. ASSUME NEW n \in DOMAIN wire', wire'[n].kind = "ack", wire'[n].id > unheard
      PROVE  \E i \in Ids : i = wire'[n].id /\ Accounted(i, n)'
  <2>1. wire'[n].id \in 0..MaxMessages
    <3>1. wire'[n] \in Packet
      BY <1>1
    <3> QED BY <3>1 DEF Packet
  <2>2. wire'[n].id \in Ids
    BY <1>3, <2>1, HistoryAssumption DEF Ids, TypeOK
  <2> QED BY <1>3, <2>2
<1> QED BY <1>2, <1>3 DEF NewOnes, Present

\* Packets are added: those that were on the wire are still there, at their places.
LEMMA NewOnesAdded ==
  ASSUME TypeOK, WellNamed, ShownOnce, AnswersTrue, PagesReach, [Next]_vars, NewOnes,
         TypeOK', unheard' = unheard, Len(wire) <= Len(wire'),
         \A n \in 1..Len(wire) : wire'[n] = wire[n],
         \A i \in Ids : row[i] = "none" => row'[i] = "none" \/ Announced(i, Len(wire))',
         \A n \in 1..Len(wire'), i \in Ids :
           n > Len(wire) /\ wire'[n].kind = "ack" /\ wire'[n].id = i => Accounted(i, n)'
  PROVE  NewOnes'
<1>1. /\ wire \in Seq(Packet) /\ DOMAIN wire = 1..Len(wire) /\ DOMAIN wire' = 1..Len(wire')
      /\ Len(wire) \in Nat /\ Len(wire') \in Nat
  BY DEF TypeOK
<1>2. ASSUME NEW i \in Ids, NEW n \in 0..Len(wire), Announced(i, n) PROVE Announced(i, n)'
  BY <1>1, <1>2 DEF Announced
<1>3. ASSUME NEW i \in Ids, Announced(i, Len(wire)) PROVE Announced(i, Len(wire))'
  BY <1>1, <1>3 DEF Announced
<1>4. ASSUME NEW n \in DOMAIN wire', NEW i \in Ids, wire'[n].kind = "ack", wire'[n].id = i,
             i > unheard
      PROVE  Accounted(i, n)'
  <2>1. CASE n > Len(wire)
    BY <1>1, <1>4, <2>1
  <2>2. CASE n \in 1..Len(wire)
    <3>1. n \in Nat
      BY <1>1, <1>4
    <3>2. Accounted(i, n)
      BY <1>1, <1>4, <2>2 DEF NewOnes
    <3>3. Announced(i, n) => Announced(i, n)'
      BY <1>1, <1>2, <2>2
    <3> QED BY <3>1, <3>2, <3>3, StillAccounted
  <2> QED BY <1>1, <2>1, <2>2
<1> QED BY <1>3, <1>4, NewOnesStay

LEMMA NothingAdded ==
  ASSUME TypeOK, WellNamed, ShownOnce, AnswersTrue, PagesReach, [Next]_vars, NewOnes,
         TypeOK', unheard' = unheard, wire' = wire,
         \A i \in Ids : row[i] = "none" => row'[i] = "none"
  PROVE  NewOnes'
<1>1. wire \in Seq(Packet) /\ Len(wire') = Len(wire) /\ Len(wire) \in Nat
  BY DEF TypeOK
<1>2. /\ Len(wire) <= Len(wire')
      /\ \A n \in 1..Len(wire) : wire'[n] = wire[n]
      /\ \A i \in Ids : row[i] = "none" => row'[i] = "none" \/ Announced(i, Len(wire))'
      /\ \A n \in 1..Len(wire'), i \in Ids :
           n > Len(wire) /\ wire'[n].kind = "ack" /\ wire'[n].id = i => Accounted(i, n)'
  BY <1>1
<1> QED BY <1>2, NewOnesAdded

LEMMA OneAdded ==
  ASSUME TypeOK, WellNamed, ShownOnce, AnswersTrue, PagesReach, [Next]_vars, NewOnes,
         TypeOK', unheard' = unheard, conn,
         NEW p \in Packet, Send(<<p>>), p.kind = "ack" => p.id = 0,
         \A i \in Ids : row[i] = "none" => row'[i] = "none" \/ p = Event("message", i)
  PROVE  NewOnes'
<1>1. wire' = wire \o <<p>> /\ wire \in Seq(Packet)
  BY SendsOne DEF TypeOK
<1>2. /\ Len(wire \o <<p>>) = Len(wire) + 1 /\ Len(wire) \in Nat
      /\ \A n \in 1..Len(wire) : (wire \o <<p>>)[n] = wire[n]
      /\ (wire \o <<p>>)[Len(wire) + 1] = p
  BY <1>1, SentOne
<1>3. /\ Len(wire') = Len(wire) + 1
      /\ \A n \in 1..Len(wire) : wire'[n] = wire[n]
      /\ wire'[Len(wire) + 1] = p
  BY <1>1, <1>2
<1>4. \A i \in Ids : row[i] = "none" => row'[i] = "none" \/ Announced(i, Len(wire))'
  <2>1. ASSUME NEW i \in Ids, p = Event("message", i) PROVE Announced(i, Len(wire))'
    <3>1. p.kind = "message" /\ p.id = i
      BY <2>1, EventIs
    <3> QED BY <1>2, <1>3, <3>1 DEF Announced
  <2> QED BY <2>1
<1>5. \A n \in 1..Len(wire'), i \in Ids :
        n > Len(wire) /\ wire'[n].kind = "ack" /\ wire'[n].id = i => Accounted(i, n)'
  <2> SUFFICES ASSUME NEW n \in 1..Len(wire'), NEW i \in Ids, n > Len(wire),
                      wire'[n].kind = "ack", wire'[n].id = i
               PROVE  FALSE
    OBVIOUS
  <2>1. n = Len(wire) + 1
    BY <1>2, <1>3
  <2> QED BY <1>3, <2>1, HistoryAssumption DEF Ids
<1>6. Len(wire) <= Len(wire')
  BY <1>2, <1>3
<1> QED BY <1>3, <1>4, <1>5, <1>6, NewOnesAdded

\* The event of a message that is sent is ahead of its acknowledgement.
LEMMA SendAdded ==
  ASSUME TypeOK, WellNamed, ShownOnce, AnswersTrue, PagesReach, [Next]_vars, NewOnes,
         TypeOK', unheard' = unheard, channel = "in", NEW q \in Requests, ServeSend(q)
  PROVE  NewOnes'
<1>1. PICK i \in NextId, p \in Packet, r \in Packet :
        /\ p = Event("message", i) /\ r = [kind |-> "ack", id |-> i, to |-> q]
        /\ row' = [row EXCEPT ![i] = "mine"] /\ conn
        /\ Send(<<p, r>>)
  BY SendsAck
<1>2. i \in Ids
  BY NextIdIs
<1>3. p.kind = "message" /\ p.id = i
  BY <1>1, <1>2, EventIs
<1>4. r.id = i
  BY <1>1
<1>6. wire' = wire \o <<p, r>> /\ wire \in Seq(Packet)
  BY <1>1, SendsTwo DEF TypeOK
<1>7. /\ Len(wire \o <<p, r>>) = Len(wire) + 2 /\ Len(wire) \in Nat
      /\ \A n \in 1..Len(wire) : (wire \o <<p, r>>)[n] = wire[n]
      /\ (wire \o <<p, r>>)[Len(wire) + 1] = p /\ (wire \o <<p, r>>)[Len(wire) + 2] = r
  BY <1>6, SentTwo
<1>8. /\ Len(wire') = Len(wire) + 2
      /\ \A n \in 1..Len(wire) : wire'[n] = wire[n]
      /\ wire'[Len(wire) + 1] = p /\ wire'[Len(wire) + 2] = r
  BY <1>6, <1>7
<1>9. \A n \in 1..Len(wire') : n > Len(wire) => n >= Len(wire) + 1
  BY <1>7, <1>8
<1>10. \A n \in 1..Len(wire') : n > Len(wire) => Announced(i, n)'
  BY <1>3, <1>7, <1>8, <1>9 DEF Announced
<1>11. Announced(i, Len(wire))'
  BY <1>3, <1>7, <1>8 DEF Announced
<1>12. \A j \in Ids : row[j] = "none" => row'[j] = "none" \/ Announced(j, Len(wire))'
  BY <1>1, <1>11 DEF TypeOK
<1>13. \A n \in 1..Len(wire'), j \in Ids :
         n > Len(wire) /\ wire'[n].kind = "ack" /\ wire'[n].id = j => Accounted(j, n)'
  <2> SUFFICES ASSUME NEW n \in 1..Len(wire'), NEW j \in Ids, n > Len(wire), wire'[n].id = j
               PROVE  Accounted(j, n)'
    OBVIOUS
  <2>1. n = Len(wire) + 1 \/ n = Len(wire) + 2
    BY <1>7, <1>8
  <2>2. j = i
    BY <1>3, <1>4, <1>8, <2>1
  <2> QED BY <1>10, <2>2 DEF Accounted
<1>14. Len(wire) <= Len(wire')
  BY <1>7, <1>8
<1> QED BY <1>8, <1>12, <1>13, <1>14, NewOnesAdded

\* A send that is given up takes only its acknowledgement off the wire.
LEMMA AckTaken ==
  ASSUME TypeOK, WellNamed, ShownOnce, AnswersTrue, PagesReach, [Next]_vars, NewOnes,
         TypeOK', unheard' = unheard, NEW q \in Requests, GiveUp(q)
  PROVE  NewOnes'
<1> DEFINE S == {n \in DOMAIN wire : wire[n].to # q}
           c == Cardinality(S)
           a == Ascending(S)
<1>1. wire' = Keep(wire, S) /\ row' = row /\ wire \in Seq(Packet)
  BY DEF GiveUp, TypeOK
<1>2. S \in SUBSET (DOMAIN wire) /\ \A n \in DOMAIN wire : wire[n].kind = "message" => n \in S
  BY SlotsAssumption DEF WellNamed
<1> HIDE DEF S
<1>3. /\ Keep(wire, S) \in Seq(Packet) /\ Len(Keep(wire, S)) = c
      /\ \A k \in 1..c : a[k] \in S /\ Keep(wire, S)[k] = wire[a[k]]
      /\ c \in Nat
      /\ \A m, k \in 1..c : m < k => a[m] < a[k]
      /\ \A x \in S : \E k \in 1..c : a[k] = x
  <2>1. wire \in Seq(Packet)
    BY <1>1
  <2>2. S \in SUBSET (DOMAIN wire)
    BY <1>2
  <2>3. PICK w \in Seq(Packet) : w = wire
    BY <2>1
  <2>4. /\ Keep(w, S) \in Seq(Packet) /\ Len(Keep(w, S)) = c
        /\ \A k \in 1..c : a[k] \in S /\ Keep(w, S)[k] = w[a[k]]
        /\ c \in Nat
        /\ \A m, k \in 1..c : m < k => a[m] < a[k]
        /\ \A x \in S : \E k \in 1..c : a[k] = x
    <3>1. S \in SUBSET (DOMAIN w)
      BY <2>2, <2>3
    <3> QED BY <3>1, PacketsKept
  <2> QED BY <2>3, <2>4
<1> HIDE DEF a, c
<1>4. /\ Len(wire') = c /\ DOMAIN wire' = 1..c /\ DOMAIN wire = 1..Len(wire) /\ Len(wire) \in Nat
      /\ \A k \in 1..c : a[k] \in 1..Len(wire) /\ wire'[k] = wire[a[k]]
  BY <1>1, <1>2, <1>3
<1>5. ASSUME NEW i \in Ids, NEW n \in 1..c, Announced(i, a[n]) PROVE Announced(i, n)'
  <2>1. PICK m \in 1..a[n] : wire[m].kind = "message" /\ wire[m].id = i
    BY <1>5 DEF Announced
  <2>2. m \in DOMAIN wire
    BY <1>4, <2>1
  <2>3. PICK k \in 1..c : a[k] = m
    BY <1>2, <1>3, <2>1, <2>2
  <2>4. ~(n < k)
    <3>1. a[n] \in Nat /\ a[k] \in Nat /\ a[k] <= a[n]
      BY <1>4, <2>1, <2>3
    <3> QED BY <1>3, <3>1
  <2>5. k \in 1..n
    BY <1>3, <2>3, <2>4
  <2> QED BY <1>4, <2>1, <2>3, <2>5 DEF Announced
<1>6. ASSUME NEW i \in Ids, Announced(i, Len(wire)) PROVE Announced(i, Len(wire))'
  <2>1. PICK m \in 1..Len(wire) : wire[m].kind = "message" /\ wire[m].id = i
    BY <1>6 DEF Announced
  <2>2. PICK k \in 1..c : a[k] = m
    BY <1>2, <1>3, <1>4, <2>1
  <2> QED BY <1>4, <2>1, <2>2 DEF Announced
<1>7. ASSUME NEW n \in DOMAIN wire', NEW i \in Ids, wire'[n].kind = "ack", wire'[n].id = i,
             i > unheard
      PROVE  Accounted(i, n)'
  <2>1. PICK m \in 1..Len(wire) : m = a[n] /\ wire'[n] = wire[m]
    BY <1>4, <1>7
  <2>2. n \in 1..c /\ n \in Nat /\ m \in Nat
    BY <1>3, <1>4, <2>1
  <2>3. Accounted(i, m)
    BY <1>4, <1>7, <2>1, <2>2 DEF NewOnes
  <2>4. Announced(i, m) => Announced(i, n)'
    BY <1>5, <2>1, <2>2
  <2> QED BY <2>2, <2>3, <2>4, StillAccounted
<1>8. \A i \in Ids : row[i] = "none" => row'[i] = "none" \/ Announced(i, Len(wire))'
  BY <1>1
<1> QED BY <1>6, <1>7, <1>8, NewOnesStay

\* The first packet is delivered; a message's event has then been shown.
LEMMA FirstTaken ==
  ASSUME TypeOK, WellNamed, ShownOnce, AnswersTrue, PagesReach, [Next]_vars, NewOnes,
         TypeOK', unheard' = unheard, listening, Deliver
  PROVE  NewOnes'
<1>1. wire # <<>> /\ wire' = Tail(wire) /\ row' = row /\ wire \in Seq(Packet)
  BY DEF Deliver, server, TypeOK
<1>2. /\ Len(Tail(wire)) = Len(wire) - 1 /\ Len(wire) \in Nat \ {0} /\ DOMAIN wire = 1..Len(wire)
      /\ Head(wire) = wire[1] /\ DOMAIN Tail(wire) = 1..(Len(wire) - 1)
      /\ \A n \in 1..(Len(wire) - 1) : Tail(wire)[n] = wire[n + 1] /\ n + 1 \in 1..Len(wire)
  BY <1>1, TailIs
<1>3. ASSUME NEW i \in Ids, wire[1].kind = "message", wire[1].id = i PROVE i \in ToSet(view')
  <2>1. view' = Append1(view, i)
    BY <1>2, <1>3 DEF Deliver
  <2> QED BY <2>1, AppendIs DEF TypeOK, ShownOnce, Views
<1>4. ASSUME NEW i \in Ids, NEW n \in 0..(Len(wire) - 1), Announced(i, n + 1)
      PROVE  i \in ToSet(view') \/ Announced(i, n)'
  <2>1. PICK m \in 1..(n + 1) : wire[m].kind = "message" /\ wire[m].id = i
    BY <1>4 DEF Announced
  <2>2. CASE m = 1
    BY <1>3, <2>1, <2>2
  <2>3. CASE m # 1
    <3>1. m - 1 \in 1..n /\ m - 1 \in 1..(Len(wire) - 1) /\ (m - 1) + 1 = m
      BY <1>2, <2>1, <2>3
    <3>2. wire'[m - 1] = wire[m]
      BY <1>1, <1>2, <3>1
    <3> QED BY <2>1, <3>1, <3>2 DEF Announced
  <2> QED BY <2>2, <2>3
<1>5. ASSUME NEW i \in Ids, Announced(i, Len(wire))
      PROVE  i \in ToSet(view') \/ Announced(i, Len(wire))'
  <2>1. PICK n \in 0..(Len(wire) - 1) : n = Len(wire) - 1 /\ n + 1 = Len(wire)
    <3>1. Len(wire) - 1 \in 0..(Len(wire) - 1) /\ (Len(wire) - 1) + 1 = Len(wire)
      BY <1>2
    <3> QED BY <3>1
  <2>2. Len(wire') = n
    BY <1>1, <1>2, <2>1
  <2>3. Announced(i, n)' => Announced(i, Len(wire))'
    BY <2>2 DEF Announced
  <2> QED BY <1>4, <1>5, <2>1, <2>3
<1>6. ASSUME NEW n \in DOMAIN wire', NEW i \in Ids, wire'[n].kind = "ack", wire'[n].id = i,
             i > unheard
      PROVE  Accounted(i, n)'
  <2>1. n \in 1..(Len(wire) - 1) /\ wire'[n] = wire[n + 1] /\ n + 1 \in DOMAIN wire
    BY <1>1, <1>2, <1>6
  <2>2. n \in 0..(Len(wire) - 1) /\ n \in Nat /\ n + 1 \in Nat
    BY <1>2, <2>1
  <2>3. Accounted(i, n + 1)
    BY <1>6, <2>1, <2>2 DEF NewOnes
  <2>4. Announced(i, n + 1) => i \in ToSet(view') \/ Announced(i, n)'
    BY <1>4, <2>2
  <2> QED BY <2>2, <2>3, <2>4, StillAccounted
<1>7. \A i \in Ids : row[i] = "none" => row'[i] = "none" \/ Announced(i, Len(wire))'
  BY <1>1
<1> QED BY <1>5, <1>6, <1>7, NewOnesStay

\* The socket that stayed: it is connected once the channel has been joined.
Joined == (conn /\ channel = "in") \/ unheard = MaxMessages

LEMMA SocketStays ==
  ASSUME TypeOK, NewOnesCome, [Next]_vars, live'
  PROVE  live /\ listening /\ Joined /\ listening' /\ Joined' /\ NewOnes
<1> DEFINE Goal == live /\ listening' /\ Joined'
<1> USE DEF Joined
<1>1. ASSUME UNCHANGED socket PROVE Goal
  BY <1>1 DEF socket, link, NewOnesCome
<1>2. ASSUME UNCHANGED link PROVE Goal
  BY <1>2 DEF link, NewOnesCome
<1>3. ASSUME Environment
      PROVE  Goal
  <2>1. CASE Drop
    BY <2>1 DEF Drop
  <2>2. CASE Reconnect
    BY <2>2 DEF Reconnect, NewOnesCome
  <2>3. CASE JoinChannel
    BY <2>3 DEF JoinChannel, NewOnesCome
  <2>4. CASE RefuseJoin
    BY <2>4 DEF RefuseJoin, NewOnesCome
  <2> QED BY <1>2, <1>3, <2>1, <2>2, <2>3, <2>4 DEF Environment, Post, Withdraw, ServeLate
<1>4. ASSUME NEW q \in Requests, Serve(q) PROVE Goal
  BY <1>1, <1>2, <1>4 DEF Serve, ServeLatest, ServeOlder, ServeUpload, ServeEdit, ServeDelete,
                          ServeSend, RefuseSend, Fail
<1>5. ASSUME NEW q \in Requests, User(q) PROVE Goal
  <2>1. CASE SubmitText(q)
    BY <2>1 DEF SubmitText, NewOnesCome
  <2> QED BY <1>1, <1>5, <2>1 DEF User, LoadOlder, SubmitEdit, SubmitFile, SubmitDelete
<1>6. ASSUME NEW q \in Requests, Answer(q) PROVE Goal
  BY <1>1, <1>2, <1>6 DEF Answer, ShowLatest, LatestFailed, ShowOlder, OlderFailed, EditSaved,
                          EditFailed, Uploaded, Deleted, GiveUp
<1>7. ASSUME Type \/ CancelEdit \/ Reply \/ AttachFile \/ Deliver \/ \E i \in Ids : StartEdit(i)
      PROVE  Goal
  BY <1>1, <1>2, <1>7 DEF Type, CancelEdit, Reply, AttachFile, Deliver, StartEdit
<1>8. ASSUME UNCHANGED vars
      PROVE  Goal
  BY <1>1, <1>8 DEF vars
<1>9. Goal
  BY <1>3, <1>4, <1>5, <1>6, <1>7, <1>8 DEF Next
<1> QED BY <1>9 DEF NewOnesCome, NewOnes

\* When the channel is joined, there is no newer message yet.
LEMMA NoneNewer ==
  ASSUME TypeOK, TypeOK', AnswersTrue, NewOnesCome, live, JoinChannel
  PROVE  NewOnes'
<1>1. PICK n \in 0..MaxMessages : Now(n) /\ unheard' = Lower(unheard, n)
  BY DEF JoinChannel
<1>2. unheard = MaxMessages /\ UNCHANGED <<row, wire>>
  BY DEF JoinChannel, NewOnesCome, server
<1>3. unheard' = n
  BY <1>1, <1>2, HistoryAssumption DEF Lower
<1>4. \A i \in Ids : i > unheard' => row[i] = "none"
  BY <1>1, <1>3 DEF Now, Ids
<1>5. ASSUME NEW m \in DOMAIN wire, wire[m].kind = "ack" PROVE ~(wire[m].id > unheard')
  <2>1. wire[m].id \in 0..MaxMessages
    <3>1. wire[m] \in Packet
      <4>1. wire \in Seq(Packet)
        BY DEF TypeOK
      <4> QED BY <4>1
    <3> QED BY <3>1 DEF Packet
  <2>2. CASE wire[m].id = 0
    BY <1>3, <2>2
  <2>3. CASE wire[m].id # 0
    <3>1. wire[m].id \in Ids /\ row[wire[m].id] # "none"
      BY <1>5, <2>1, <2>3, HistoryAssumption DEF AnswersTrue, Ids
    <3> QED BY <1>4, <3>1
  <2> QED BY <2>2, <2>3
<1> QED BY <1>2, <1>4, <1>5 DEF NewOnes, Present

LEMMA NewOnesComeStep ==
  ASSUME TypeOK, WellNamed, ShownOnce, AnswersTrue, PagesReach, NewOnesCome, [Next]_vars
  PROVE  NewOnesCome'
<1>a. ASSUME channel' = "in", NEW i \in Ids, i <= unheard' PROVE row'[i] # "none"
  <2>1. CASE JoinChannel
    <3>1. PICK n \in 0..MaxMessages : Now(n) /\ unheard' = Lower(unheard, n) /\ row' = row
      BY <2>1 DEF JoinChannel, server
    <3>2. unheard' <= n /\ unheard' \in Nat /\ i \in Nat
      BY <3>1, LowerIs DEF TypeOK, Ids
    <3>3. i <= n
      BY <1>a, <3>2
    <3> QED BY <3>1, <3>3 DEF Now
  <2>2. CASE channel = "in" /\ unheard' = unheard
    BY <1>a, <2>2, RowStep DEF RowMoves, NewOnesCome
  <2> QED BY <1>a, <2>1, <2>2, HistoriesStep
<1> SUFFICES ASSUME live' PROVE NewOnes'
  BY <1>a, SocketStays DEF NewOnesCome, NewOnes, Joined
<1>t. live /\ listening /\ NewOnes /\ Joined /\ TypeOK'
  BY SocketStays, TypeStep
<1>j. CASE JoinChannel
  BY <1>t, <1>j, NoneNewer
<1>u. CASE unheard' = MaxMessages
  <2>1. \A i \in Ids : ~(i > unheard')
    BY <1>u, HistoryAssumption DEF Ids
  <2>2. ASSUME NEW n \in DOMAIN wire' PROVE ~(wire'[n].id > unheard')
    <3>1. wire'[n] \in Packet
      <4>1. wire' \in Seq(Packet)
        BY <1>t DEF TypeOK
      <4> QED BY <4>1
    <3> QED BY <1>u, <3>1, HistoryAssumption DEF Packet
  <2> QED BY <2>1, <2>2 DEF NewOnes
<1> SUFFICES ASSUME unheard' = unheard, unheard # MaxMessages PROVE NewOnes'
  BY <1>j, <1>u, HistoriesStep
<1>1. live /\ conn /\ channel = "in" /\ listening /\ NewOnes /\ TypeOK'
  BY <1>t DEF Joined
<1>2. ASSUME wire' = wire, row' = row PROVE NewOnes'
  BY <1>1, <1>2, NothingAdded
\* Someone posts, or a message is deleted.
<1>3. ASSUME NEW i \in NextId, NEW r, Send(Told("message", i)), row' = [row EXCEPT ![i] = r]
      PROVE  NewOnes'
  <2>1. PICK p \in Packet : p = Event("message", i) /\ p.kind = "message"
    BY NextIdIs, EventIs
  <2>2. \A j \in Ids : row[j] = "none" => row'[j] = "none" \/ p = Event("message", j)
    BY <1>3, <2>1 DEF TypeOK
  <2>3. Send(<<p>>)
    BY <1>1, <1>3, <2>1, NextIdIs, SendsEvent
  <2> QED BY <1>1, <2>1, <2>2, <2>3, OneAdded
<1>4. ASSUME NEW i \in Ids, Send(Told("deleted", i)), row[i] # "none",
             row' = [row EXCEPT ![i] = "deleted"]
      PROVE  NewOnes'
  <2>1. PICK p \in Packet : p = Event("deleted", i) /\ p.kind = "deleted"
    BY EventIs
  <2>2. \A j \in Ids : row[j] = "none" => row'[j] = "none" \/ p = Event("message", j)
    BY <1>4 DEF TypeOK
  <2>3. Send(<<p>>)
    BY <1>1, <1>4, <2>1, SendsEvent
  <2> QED BY <1>1, <2>1, <2>2, <2>3, OneAdded
<1>5. CASE Environment
  <2>1. ASSUME NEW i \in Ids, Withdraw(i) PROVE NewOnes'
    BY <1>4, <2>1 DEF Withdraw, Present
  <2>2. CASE Post
    BY <1>3, <2>2 DEF Post
  <2>3. CASE ServeLate
    BY <1>3, <2>3 DEF ServeLate
  <2>4. CASE Drop
    BY <2>4 DEF Drop
  <2>5. CASE Reconnect \/ RefuseJoin
    BY <1>2, <2>5 DEF Reconnect, RefuseJoin, server
  <2> QED BY <1>j, <1>5, <2>1, <2>2, <2>3, <2>4, <2>5 DEF Environment
<1>6. ASSUME NEW q \in Requests, Serve(q) PROVE NewOnes'
  <2>1. CASE ServeUpload(q)
    BY <1>3, <2>1 DEF ServeUpload
  <2>2. CASE ServeDelete(q)
    <3>1. req[q].id \in Ids
      BY <2>2 DEF ServeDelete, At, WellNamed
    <3>2. PICK i \in Ids : i = req[q].id
      BY <3>1
    <3>3. CASE row[i] = "mine"
      <4>1. Send(Told("deleted", i)) /\ row' = [row EXCEPT ![i] = "deleted"]
        BY <2>2, <3>2, <3>3 DEF ServeDelete
      <4> QED BY <1>4, <3>3, <4>1
    <3>4. CASE row[i] # "mine"
      BY <1>2, <2>2, <3>2, <3>4 DEF ServeDelete
    <3> QED BY <3>3, <3>4
  <2>3. CASE ServeSend(q)
    BY <1>1, <2>3, SendAdded
  <2>4. CASE RefuseSend(q)
    <3>1. [kind |-> "ack", id |-> 0, to |-> q] \in Packet
      BY HistoryAssumption DEF Packet
    <3>2. PICK p \in Packet : p = [kind |-> "ack", id |-> 0, to |-> q]
      BY <3>1
    <3>3. p.id = 0 /\ Send(<<p>>) /\ row' = row
      BY <2>4, <3>2 DEF RefuseSend, server
    <3> QED BY <1>1, <3>3, OneAdded
  <2> QED BY <1>2, <1>6, <2>1, <2>2, <2>3, <2>4
          DEF Serve, ServeLatest, ServeOlder, ServeEdit, Fail, server, socket
<1>7. ASSUME NEW q \in Requests, User(q) PROVE NewOnes'
  BY <1>2, <1>7 DEF User, LoadOlder, SubmitEdit, SubmitFile, SubmitText, SubmitDelete,
                    server, socket
<1>8. ASSUME NEW q \in Requests, Answer(q) PROVE NewOnes'
  <2>1. CASE GiveUp(q)
    BY <1>1, <2>1, AckTaken
  <2> QED BY <1>2, <1>8, <2>1 DEF Answer, ShowLatest, LatestFailed, ShowOlder, OlderFailed,
                                  EditSaved, EditFailed, Uploaded, Deleted, server, socket
<1>9. CASE Deliver
  BY <1>1, <1>9, FirstTaken
<1>10. CASE Type \/ CancelEdit \/ Reply \/ AttachFile \/ \E i \in Ids : StartEdit(i)
  BY <1>2, <1>10 DEF Type, CancelEdit, Reply, AttachFile, StartEdit, server, socket
<1>11. CASE UNCHANGED vars
  BY <1>2, <1>11 DEF vars, server, socket
<1> QED BY <1>5, <1>6, <1>7, <1>8, <1>9, <1>10, <1>11 DEF Next

----------------------------------------------------------------------------
(* The theorems *)

LEMMA InitHolds ==
  ASSUME Init
  PROVE  TypeOK /\ ConversationInv
<1>1. /\ MaxMessages \in Nat /\ History \in Nat /\ History <= MaxMessages
      /\ 0 \in 0..MaxMessages /\ 0 \in 0..New /\ 0 \in 0..MaxFiles /\ 0 \in 0..1
  BY HistoryAssumption, BoundsAssumption DEF New
<1>2. PICK q \in Requests : req = [[p \in Requests |-> Idle] EXCEPT ![q] = Ask("latest", 0)]
  BY DEF Init
<1>3. Ask("latest", 0) \in Request /\ Ask("latest", 0).op = "latest"
      /\ Ask("latest", 0).stage = "asked"
  BY <1>1, Asked DEF Ops
<1>4. /\ req \in [Requests -> Request \union {Idle}]
      /\ req[q].op = "latest" /\ req[q].stage = "asked"
      /\ \A p \in Requests : p # q => req[p] = Idle
  BY <1>2, <1>3
<1>5. /\ wire = <<>> /\ view = <<>> /\ wire \in Seq(Packet) /\ view \in Seq(Ids)
      /\ DOMAIN wire = {} /\ DOMAIN view = {} /\ Len(wire) = 0 /\ ToSet(view) = {}
  BY DEF Init, ToSet
<1>6. /\ row \in [Ids -> {"none", "mine", "theirs", "deleted"}]
      /\ \A i \in Ids : row[i] = IF i <= History THEN "mine" ELSE "none"
  BY DEF Init
<1>7. {conn, live, listening, direct, hasMore, loadingOlder, uploading, editSaving, file} \subseteq BOOLEAN
  <2>1. /\ conn \in BOOLEAN /\ live \in BOOLEAN /\ listening \in BOOLEAN /\ direct \in BOOLEAN
        /\ hasMore \in BOOLEAN
        /\ loadingOlder \in BOOLEAN /\ uploading \in BOOLEAN /\ editSaving \in BOOLEAN
        /\ file \in BOOLEAN
    BY DEF Init
  <2> QED BY <2>1
<1>8. TypeOK
  BY <1>1, <1>4, <1>5, <1>6, <1>7 DEF Init, TypeOK, Empty
<1>9. WellNamed /\ DraftsKept /\ AnswersTrue /\ ShownOnce /\ EditsKeepToTheirMessage
  BY <1>4, <1>5 DEF Init, WellNamed, DraftsKept, AnswersTrue, ShownOnce,
                    EditsKeepToTheirMessage, At, Idle
<1>10. UploadsCounted /\ UploadedOnce
  BY <1>4 DEF Init, UploadsCounted, UploadedOnce, At, Idle
<1>11. NewOnesCome
  <2>1. \A i \in Ids : (i > History => row[i] = "none") /\ ~(i > MaxMessages)
    BY <1>1, <1>6 DEF Ids
  <2>2. live /\ listening
    BY DEF Init
  <2>3. CASE channel = "asked" /\ unheard = MaxMessages
    BY <1>5, <2>1, <2>2, <2>3 DEF NewOnesCome
  <2>4. CASE channel = "in" /\ unheard = History /\ conn
    BY <1>5, <1>6, <2>1, <2>2, <2>4 DEF NewOnesCome, Present
  <2> QED BY <2>3, <2>4 DEF Init
<1>12. PagesReach
  BY <1>4, <1>5, <1>6 DEF Init, PagesReach, UpTo, At, Idle
<1> QED BY <1>8, <1>9, <1>10, <1>11, <1>12 DEF ConversationInv

LEMMA StepHolds ==
  ASSUME TypeOK, ConversationInv, [Next]_vars
  PROVE  (TypeOK /\ ConversationInv)'
<1> USE DEF ConversationInv
<1>1. TypeOK' /\ ShownOnce'
  BY TypeStep
<1>2. WellNamed'
  BY WellNamedStep
<1>3. DraftsKept' /\ EditsKeepToTheirMessage'
  BY DraftsKeptStep, EditsStep
<1>4. UploadsCounted' /\ UploadedOnce'
  BY UploadsCountedStep
<1>5. AnswersTrue'
  BY AnswersTrueStep
<1>6. NewOnesCome'
  BY NewOnesComeStep
<1>7. PagesReach'
  BY PagesReachStep
<1> QED BY <1>1, <1>2, <1>3, <1>4, <1>5, <1>6, <1>7

\* The invariant of the proofs: the shape of the state, and all that ConversationInv says of
\* ActiveRoomChat.tsx, MessageComposer.tsx and chatMessages.ts together.
THEOREM InvHolds == Spec => [](TypeOK /\ ConversationInv)
<1>1. Init => TypeOK /\ ConversationInv
  BY InitHolds
<1>2. TypeOK /\ ConversationInv /\ [Next]_vars => (TypeOK /\ ConversationInv)'
  BY StepHolds
<1> QED BY <1>1, <1>2, PTL DEF Spec

\* The list, the composer and the requests have their types.
THEOREM TypeCorrect == Spec => []TypeOK
BY InvHolds, PTL

\* mergeLatestPageWithExisting, mergeOlderMessages and appendIncomingMessage never show a
\* message twice, however pages and events overlap.
THEOREM ListsRepeatNothing == Spec => []ShownOnce
<1>1. ConversationInv => ShownOnce
  BY DEF ConversationInv
<1> QED BY <1>1, InvHolds, PTL

\* MessageComposer.tsx stores an attached file at most once.
THEOREM FilesGoOnce == Spec => []UploadedOnce
<1>1. ConversationInv => UploadedOnce
  BY DEF ConversationInv
<1> QED BY <1>1, InvHolds, PTL

\* saveEditedMessage saves for a message only what was typed as an edit of it.
THEOREM EditsStayApart == Spec => []EditsKeepToTheirMessage
<1>1. ConversationInv => EditsKeepToTheirMessage
  BY DEF ConversationInv
<1> QED BY <1>1, InvHolds, PTL

\* When nothing is on its way, the list has no gap in what pages and events bring, in whatever
\* order they came: the messages there were when the first page was read, and those since the
\* channel was joined; and when the last page said that there are no more, it has all of them.
THEOREM HistoryIsReachable == Spec => []HistoryReachable
<1>1. ASSUME TypeOK, ConversationInv PROVE HistoryReachable
  <2> SUFFICES ASSUME AtRest
               PROVE  \A i \in Reached :
                        /\ (\E m \in ToSet(view) : m <= i) => i \in ToSet(view)
                        /\ ~hasMore => i \in ToSet(view)
    BY DEF HistoryReachable
  <2> TAKE i \in Reached
  <2>1. i \in Ids /\ Present(i) /\ i \in Nat /\ unheard \in Nat /\ i \in PresentIds
    BY <1>1 DEF Reached, PresentIds, Ids, TypeOK
  <2>2. CASE i > unheard
    <3>1. Accounted(i, Len(wire)) /\ Len(wire) = 0
      BY <1>1, <2>1, <2>2 DEF AtRest, ConversationInv, NewOnesCome
    <3> QED BY <2>1, <3>1 DEF Accounted, Announced, Present
  <2>3. CASE ~(i > unheard)
    <3>1. i \in Old
      BY <2>1, <2>3 DEF Old, Reached
    <3>2. UpTo(ToSet(view)) /\ (~hasMore => Old \subseteq ToSet(view))
      BY <1>1 DEF AtRest, ConversationInv, PagesReach
    <3> QED BY <3>1, <3>2 DEF UpTo
  <2> QED BY <2>1, <2>2, <2>3
<1> QED BY <1>1, InvHolds, PTL

\* sendMessage adds nothing to the list: what emitWithAck's acknowledgement names has come
\* before it, unless it was stored before the channel was joined.
THEOREM AcknowledgedIsShown == Spec => AckedIsShown
<1> DEFINE Step == \A q \in Requests :
              wire # <<>> /\ live /\ Deliver /\ Head(wire).to = q /\ Head(wire).id # 0
                => \/ Head(wire).id \in ToSet(view') \/ row[Head(wire).id] = "deleted"
                   \/ Head(wire).id <= unheard
<1>1. ASSUME TypeOK, ConversationInv PROVE Step
  <2> SUFFICES ASSUME NEW q \in Requests, wire # <<>>, live, Deliver, Head(wire).to = q,
                      Head(wire).id # 0, ~(Head(wire).id <= unheard)
               PROVE  Head(wire).id \in ToSet(view') \/ row[Head(wire).id] = "deleted"
    OBVIOUS
  <2>1. wire \in Seq(Packet) /\ Head(wire) = wire[1] /\ 1 \in DOMAIN wire
    BY <1>1 DEF TypeOK
  <2>2. wire[1].kind = "ack"
    BY <1>1, <2>1, SlotsAssumption DEF ConversationInv, WellNamed
  <2>3. Accounted(wire[1].id, 1)
    <3>1. wire[1].id > unheard
      <4>1. wire[1].id \in Nat /\ unheard \in Nat
        <5>1. wire[1] \in Packet
          BY <2>1
        <5>2. unheard \in Nat
          BY <1>1 DEF TypeOK
        <5> QED BY <5>1, <5>2 DEF Packet
      <4> QED BY <2>1, <4>1
    <3> QED BY <1>1, <2>1, <2>2, <3>1 DEF ConversationInv, NewOnesCome
  <2>4. ~Announced(wire[1].id, 1)
    <3>1. \A m \in 1..1 : m = 1
      OBVIOUS
    <3> QED BY <2>2, <3>1 DEF Announced
  <2>5. view' = view
    BY <2>1, <2>2 DEF Deliver
  <2> QED BY <2>1, <2>3, <2>4, <2>5 DEF Accounted
<1>2. TypeOK /\ ConversationInv => [Step]_vars
  BY <1>1
<1> HIDE DEF Step
<1>3. Spec => [][Step]_vars
  BY <1>2, InvHolds, PTL
<1> QED BY <1>3 DEF Step, AckedIsShown

=============================================================================
