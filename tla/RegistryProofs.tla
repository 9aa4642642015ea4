--------------------------- MODULE RegistryProofs ---------------------------
(***************************************************************************)
(* Lemmas the other modules' proofs share: a first element, and what a     *)
(* step of a table with stamps does to its order of use (UseOrders).       *)
(***************************************************************************)
EXTENDS UseOrders, Integers, Sequences, SequencesExt, FiniteSetTheorems, SequenceTheorems,
        WellFoundedInduction, TLAPS

(* A set of slots that is not empty has a first.                           *)
LEMMA Least ==
  ASSUME NEW n \in Nat, NEW S \in SUBSET (1..n), S # {}
  PROVE  \E i \in S : \A j \in S : i <= j
<1> DEFINE Below(i) == {j \in 1..n : j < i}
           T == {Below(i) : i \in S}
<1>1. IsFiniteSet(1..n)
  BY FS_Interval
<1>2. IsWellFoundedOn(StrictSubsetOrdering(1..n), FiniteSubsetsOf(1..n))
  BY FS_StrictSubsetOrderingWellFounded
<1>a. \A i \in S : Below(i) \in SUBSET (1..n)
  OBVIOUS
<1> HIDE DEF Below
<1>b. \A x \in T : x \in SUBSET (1..n)
  BY <1>a
<1>3. T \subseteq FiniteSubsetsOf(1..n) /\ T # {}
  <2>1. FiniteSubsetsOf(1..n) = SUBSET (1..n)
    BY <1>1, FS_FiniteSubsetsOfFinite
  <2>2. T # {}
    OBVIOUS
  <2> HIDE DEF T
  <2> QED BY <1>b, <2>1, <2>2
<1> HIDE DEF T
<1>4. PICK x \in T : \A y \in T : ~ (<<y, x>> \in StrictSubsetOrdering(1..n))
  BY <1>2, <1>3, WFMin
<1> USE DEF T
<1>5. PICK i \in S : x = Below(i)
  BY <1>4
<1>6. ASSUME NEW j \in S, Below(j) \subseteq Below(i) PROVE Below(j) = Below(i)
  <2>1. Below(j) \in T /\ ~ (<<Below(j), x>> \in StrictSubsetOrdering(1..n))
    BY <1>4
  <2>2. <<Below(j), Below(i)>> \in (SUBSET (1..n)) \X (SUBSET (1..n))
    BY <1>a
  <2> HIDE DEF T
  <2> QED BY <1>5, <1>6, <2>1, <2>2 DEF StrictSubsetOrdering
<1> HIDE DEF T
<1> USE DEF Below
<1>7. ASSUME NEW j \in S, j < i PROVE FALSE
  <2>1. j \in Below(i) /\ j \notin Below(j)
    BY <1>7
  <2>2. Below(j) \subseteq Below(i)
    BY <1>7
  <2> QED BY <1>6, <2>1, <2>2
<1> QED BY <1>7

-----------------------------------------------------------------------------
(* The used slots of a table, each with a stamp of its own.                *)
Stamped(used, stamp) ==
  /\ IsFiniteSet(used)
  /\ \A e \in used : stamp[e] \in Nat
  /\ \A d, e \in used : stamp[d] = stamp[e] => d = e

UpToStamp(used, stamp, e) == {d \in used : stamp[d] <= stamp[e]}
Rank(used, stamp, e) == Cardinality(UpToStamp(used, stamp, e))

LEMMA RankGrows ==
  ASSUME NEW used, NEW stamp, Stamped(used, stamp), NEW d \in used, NEW e \in used, stamp[d] < stamp[e]
  PROVE  Rank(used, stamp, d) < Rank(used, stamp, e)
<1> DEFINE D == UpToStamp(used, stamp, d)
           E == UpToStamp(used, stamp, e)
<1>1. stamp[d] \in Nat /\ stamp[e] \in Nat /\ \A x \in used : stamp[x] \in Nat
  BY DEF Stamped
<1>2. e \in E /\ e \notin D
  BY <1>1 DEF UpToStamp
<1>3. D \subseteq E /\ E \subseteq used
  BY <1>1 DEF UpToStamp
<1>4. IsFiniteSet(E)
  BY <1>3, FS_Subset DEF Stamped
<1> HIDE DEF D, E
<1>5. Cardinality(D) <= Cardinality(E) /\ Cardinality(D) # Cardinality(E) /\ IsFiniteSet(D)
  BY <1>2, <1>3, <1>4, FS_Subset
<1>6. Cardinality(D) \in Nat /\ Cardinality(E) \in Nat
  BY <1>4, <1>5, FS_CardinalityType
<1>7. Cardinality(D) < Cardinality(E)
  BY <1>5, <1>6
<1> QED BY <1>7 DEF Rank, D, E

LEMMA RankIsPlace ==
  ASSUME NEW used, NEW stamp, Stamped(used, stamp), NEW e \in used
  PROVE  Rank(used, stamp, e) \in 1..Cardinality(used)
<1> DEFINE E == UpToStamp(used, stamp, e)
<1>1. e \in E /\ E \subseteq used
  BY DEF UpToStamp, Stamped
<1>2. IsFiniteSet(E) /\ IsFiniteSet(used)
  BY <1>1, FS_Subset DEF Stamped
<1> HIDE DEF E
<1>3. Cardinality(E) <= Cardinality(used) /\ Cardinality(E) \in Nat /\ Cardinality(used) \in Nat
  BY <1>1, <1>2, FS_Subset, FS_CardinalityType
<1>4. Cardinality(E) # 0
  BY <1>1, <1>2, FS_EmptySet
<1>5. Cardinality(E) \in 1..Cardinality(used)
  BY <1>3, <1>4
<1> QED BY <1>5 DEF Rank, E

LEMMA RankTells ==
  ASSUME NEW used, NEW stamp, Stamped(used, stamp), NEW d \in used, NEW e \in used
  PROVE  /\ Rank(used, stamp, d) = Rank(used, stamp, e) => d = e
         /\ Rank(used, stamp, d) < Rank(used, stamp, e) => stamp[d] < stamp[e]
<1>1. stamp[d] \in Nat /\ stamp[e] \in Nat /\ (stamp[d] = stamp[e] => d = e)
  BY DEF Stamped
<1>2. Rank(used, stamp, d) \in Int /\ Rank(used, stamp, e) \in Int
  BY RankIsPlace
<1>3. stamp[d] < stamp[e] => Rank(used, stamp, d) < Rank(used, stamp, e)
  BY RankGrows
<1>4. stamp[e] < stamp[d] => Rank(used, stamp, e) < Rank(used, stamp, d)
  BY RankGrows
<1> QED BY <1>1, <1>2, <1>3, <1>4

(* There is a way to list the slots by their stamps.                       *)
LEMMA ListExists ==
  ASSUME NEW used, NEW stamp, Stamped(used, stamp)
  PROVE  \E f \in [1..Cardinality(used) -> used] : Lists(f, used, stamp)
<1> DEFINE c == Cardinality(used)
           r == [e \in used |-> Rank(used, stamp, e)]
<1>1. c \in Nat /\ IsFiniteSet(1..c) /\ Cardinality(1..c) = c
  <2>1. c \in Nat
    BY FS_CardinalityType DEF Stamped
  <2> HIDE DEF c
  <2>2. Cardinality(1..c) = c
    <3>1. Cardinality(1..c) = IF 1 > c THEN 0 ELSE c - 1 + 1
      BY <2>1, FS_Interval
    <3> QED BY <2>1, <3>1
  <2> QED BY <2>1, <2>2, FS_Interval
<1>2. r \in [used -> 1..c]
  BY RankIsPlace
<1>3. \A d, e \in used : r[d] = r[e] => d = e
  BY RankTells
<1>4. r \in Injection(used, 1..c)
  BY <1>2, <1>3 DEF Injection, IsInjective
<1>5. r \in Surjection(used, 1..c)
  BY <1>1, <1>4, FS_Injection
<1>6. \A n \in 1..c : \E e \in used : r[e] = n
  BY <1>5 DEF Surjection
<1> DEFINE f == [n \in 1..c |-> CHOOSE e \in used : r[e] = n]
<1>7. \A n \in 1..c : f[n] \in used /\ r[f[n]] = n
  BY <1>6
<1>8. ASSUME NEW m \in 1..c, NEW n \in 1..c, m < n PROVE stamp[f[m]] < stamp[f[n]]
  <2>1. f[m] \in used /\ f[n] \in used /\ Rank(used, stamp, f[m]) = m /\ Rank(used, stamp, f[n]) = n
    BY <1>7
  <2> QED BY <1>8, <2>1, RankTells
<1>9. f \in [1..c -> used]
  BY <1>7
<1>10. Lists(f, used, stamp)
  BY <1>8, <1>9 DEF Lists
<1> QED BY <1>9, <1>10

(* A list has every slot, once.                                            *)
LEMMA ListIsWhole ==
  ASSUME NEW used, NEW stamp, Stamped(used, stamp), NEW f, Lists(f, used, stamp)
  PROVE  /\ Cardinality(used) \in Nat
         /\ \A n \in 1..Cardinality(used) : f[n] \in used
         /\ \A m, n \in 1..Cardinality(used) : f[m] = f[n] => m = n
         /\ \A e \in used : \E n \in 1..Cardinality(used) : f[n] = e
         /\ \A m, n \in 1..Cardinality(used) : stamp[f[m]] <= stamp[f[n]] => m <= n
<1> DEFINE c == Cardinality(used)
<1>1. c \in Nat /\ IsFiniteSet(1..c)
  BY FS_CardinalityType, FS_Interval DEF Stamped
<1>2. /\ f \in [1..c -> used] /\ \A n \in 1..c : f[n] \in used /\ stamp[f[n]] \in Nat
      /\ \A m, n \in 1..c : m < n => stamp[f[m]] < stamp[f[n]]
  BY DEF Lists, Stamped
<1>3. Cardinality(1..c) = c
  <2> HIDE DEF c
  <2>1. Cardinality(1..c) = IF 1 > c THEN 0 ELSE c - 1 + 1
    BY <1>1, FS_Interval
  <2> QED BY <1>1, <2>1
<1>4. IsFiniteSet(used) /\ Cardinality(used) = c
  BY DEF Stamped
<1> HIDE DEF c
<1>5. \A m, n \in 1..c : stamp[f[m]] <= stamp[f[n]] => m <= n
  BY <1>1, <1>2
<1>6. \A m, n \in 1..c : f[m] = f[n] => m = n
  BY <1>1, <1>2
<1>7. f \in Injection(1..c, used)
  BY <1>2, <1>6 DEF Injection, IsInjective
<1>8. f \in Surjection(1..c, used)
  BY <1>3, <1>4, <1>7, FS_Injection
<1>9. \A e \in used : \E n \in 1..c : f[n] = e
  BY <1>8 DEF Surjection
<1> QED BY <1>1, <1>2, <1>5, <1>6, <1>9 DEF c

(* In a list the n-th slot is the one with n slots up to its stamp.        *)
LEMMA PlaceIsRank ==
  ASSUME NEW used, NEW stamp, Stamped(used, stamp), NEW f, Lists(f, used, stamp),
         NEW n \in 1..Cardinality(used)
  PROVE  Rank(used, stamp, f[n]) = n
<1> DEFINE c == Cardinality(used)
           S == UpToStamp(used, stamp, f[n])
           g == [m \in 1..n |-> f[m]]
<1>1. /\ c \in Nat /\ \A m \in 1..c : f[m] \in used
      /\ \A m, k \in 1..c : f[m] = f[k] => m = k
      /\ \A e \in used : \E m \in 1..c : f[m] = e
      /\ \A m, k \in 1..c : stamp[f[m]] <= stamp[f[k]] => m <= k
  BY ListIsWhole
<1>2. \A m \in 1..c : m < n => stamp[f[m]] < stamp[f[n]]
  BY DEF Lists
<1>3. n \in 1..c /\ n \in Nat /\ 1..n \subseteq 1..c
  BY <1>1
<1>4. \A e \in used : stamp[e] \in Nat
  BY DEF Stamped
<1> HIDE DEF c
<1>5. \A m \in 1..n : stamp[f[m]] <= stamp[f[n]]
  BY <1>1, <1>2, <1>3, <1>4
<1>6. \A m \in 1..n : f[m] \in S
  BY <1>1, <1>3, <1>5 DEF UpToStamp
<1>7. \A e \in S : \E m \in 1..n : f[m] = e
  <2> SUFFICES ASSUME NEW e \in S PROVE \E m \in 1..n : f[m] = e
    OBVIOUS
  <2>1. e \in used /\ stamp[e] <= stamp[f[n]]
    BY DEF UpToStamp
  <2>2. PICK m \in 1..c : f[m] = e
    BY <1>1, <2>1
  <2>3. m <= n
    BY <1>1, <1>3, <2>1, <2>2
  <2> QED BY <2>2, <2>3
<1> HIDE DEF S
<1>8. g \in [1..n -> S] /\ \A m, k \in 1..n : g[m] = g[k] => m = k
  BY <1>1, <1>3, <1>6
<1>9. g \in Bijection(1..n, S)
  <2>1. g \in Injection(1..n, S)
    BY <1>8 DEF Injection, IsInjective
  <2>2. g \in Surjection(1..n, S)
    BY <1>7, <1>8 DEF Surjection
  <2> QED BY <2>1, <2>2 DEF Bijection
<1>10. Cardinality(S) = n
  BY <1>3, <1>9, FS_CountingElements DEF ExistsBijection
<1> QED BY <1>10 DEF S, Rank

(* There is one list only, and ByUse is it.                                *)
LEMMA ListIsByUse ==
  ASSUME NEW used, NEW stamp, Stamped(used, stamp), NEW f, Lists(f, used, stamp)
  PROVE  ByUse(used, stamp) = f
<1> DEFINE c == Cardinality(used)
           g == ByUse(used, stamp)
<1>1. Lists(g, used, stamp)
  <2>1. \E h \in [1..c -> used] : Lists(h, used, stamp)
    BY DEF Lists
  <2> QED BY <2>1 DEF ByUse
<1>2. f \in [1..c -> used] /\ g \in [1..c -> used]
  BY <1>1 DEF Lists
<1> HIDE DEF g
<1>3. ASSUME NEW n \in 1..c PROVE g[n] = f[n]
  <2>1. Rank(used, stamp, g[n]) = n /\ Rank(used, stamp, f[n]) = n
    BY <1>1, PlaceIsRank
  <2>2. g[n] \in used /\ f[n] \in used
    BY <1>2
  <2> QED BY <2>1, <2>2, RankTells
<1>4. f = [n \in 1..c |-> f[n]] /\ g = [n \in 1..c |-> g[n]]
  BY <1>2
<1>5. g = f
  BY <1>3, <1>4
<1> QED BY <1>5 DEF g

LEMMA ByUseLists ==
  ASSUME NEW used, NEW stamp, Stamped(used, stamp)
  PROVE  Lists(ByUse(used, stamp), used, stamp)
BY ListExists, ListIsByUse

LEMMA OrderIs ==
  ASSUME NEW used, NEW stamp, NEW key, Stamped(used, stamp), NEW f, Lists(f, used, stamp)
  PROVE  OrderOfUse(used, stamp, key) = [n \in 1..Cardinality(used) |-> key[f[n]]]
BY ListIsByUse DEF OrderOfUse

-----------------------------------------------------------------------------
(* Sequences as functions.                                                 *)
LEMMA FunctionIsSeq ==
  ASSUME NEW K, NEW c \in Nat, NEW g \in [1..c -> K]
  PROVE  g \in Seq(K) /\ Len(g) = c /\ DOMAIN g = 1..c
<1>1. g \in Seq(K)
  BY SeqDef
<1> QED BY <1>1, LenProperties

LEMMA Removed ==
  ASSUME NEW K, NEW s \in Seq(K), NEW r \in 1..Len(s)
  PROVE  RemoveAt(s, r) = [n \in 1..(Len(s) - 1) |-> IF n < r THEN s[n] ELSE s[n + 1]]
<1> DEFINE c == Len(s)
           before == SubSeq(s, 1, r - 1)
           after == SubSeq(s, r + 1, c)
<1>1. c \in Nat /\ r \in Nat /\ r >= 1 /\ r <= c /\ \A n \in 1..c : s[n] \in K
  BY LenProperties, ElementOfSeq
<1> HIDE DEF c
<1>2. /\ before \in Seq(K) /\ Len(before) = r - 1
      /\ \A n \in 1..(r - 1) : before[n] = s[n]
  <2>1. \A n \in 1..(r - 1) : s[n] \in K
    BY <1>1
  <2>2. /\ before \in Seq(K)
        /\ Len(before) = IF 1 <= r - 1 THEN r - 1 - 1 + 1 ELSE 0
        /\ \A n \in 1..(r - 1 - 1 + 1) : before[n] = s[1 + n - 1]
    BY <1>1, <2>1, SubSeqProperties
  <2>3. \A n \in 1..(r - 1) : n \in 1..(r - 1 - 1 + 1) /\ 1 + n - 1 = n
    BY <1>1
  <2>4. Len(before) = r - 1
    BY <1>1, <2>2
  <2> QED BY <2>2, <2>3, <2>4
<1>3. /\ after \in Seq(K) /\ Len(after) = c - r
      /\ \A n \in 1..(c - r) : after[n] = s[r + n]
  <2>1. \A n \in (r + 1)..c : s[n] \in K
    BY <1>1
  <2>2. /\ after \in Seq(K)
        /\ Len(after) = IF r + 1 <= c THEN c - (r + 1) + 1 ELSE 0
        /\ \A n \in 1..(c - (r + 1) + 1) : after[n] = s[(r + 1) + n - 1]
    BY <1>1, <2>1, SubSeqProperties
  <2>3. \A n \in 1..(c - r) : n \in 1..(c - (r + 1) + 1) /\ (r + 1) + n - 1 = r + n
    BY <1>1
  <2>4. Len(after) = c - r
    BY <1>1, <2>2
  <2> QED BY <2>2, <2>3, <2>4
<1> HIDE DEF before, after
<1>4. /\ before \o after \in Seq(K) /\ Len(before \o after) = c - 1
      /\ \A n \in 1..(c - 1) : (before \o after)[n] = IF n <= r - 1 THEN before[n] ELSE after[n - (r - 1)]
  <2>1. /\ before \o after \in Seq(K) /\ Len(before \o after) = Len(before) + Len(after)
        /\ \A n \in 1 .. Len(before) + Len(after) :
             (before \o after)[n] = IF n <= Len(before) THEN before[n] ELSE after[n - Len(before)]
    BY <1>2, <1>3, ConcatProperties
  <2>2. Len(before) = r - 1 /\ Len(before) + Len(after) = c - 1
    BY <1>1, <1>2, <1>3
  <2> QED BY <2>1, <2>2
<1>5. ASSUME NEW n \in 1..(c - 1)
      PROVE  (before \o after)[n] = IF n < r THEN s[n] ELSE s[n + 1]
  <2>1. CASE n < r
    <3>1. n <= r - 1 /\ n \in 1..(r - 1)
      BY <1>1, <2>1
    <3> QED BY <1>2, <1>4, <2>1, <3>1
  <2>2. CASE ~(n < r)
    <3>1. ~(n <= r - 1) /\ n - (r - 1) \in 1..(c - r) /\ r + (n - (r - 1)) = n + 1
      BY <1>1, <2>2
    <3> QED BY <1>3, <1>4, <2>2, <3>1
  <2> QED BY <2>1, <2>2
<1>6. DOMAIN (before \o after) = 1..(c - 1)
  BY <1>4, LenProperties
<1>7. before \o after = [n \in 1..(c - 1) |-> (before \o after)[n]]
  BY <1>4, <1>6, LenProperties
<1>8. before \o after = [n \in 1..(c - 1) |-> IF n < r THEN s[n] ELSE s[n + 1]]
  BY <1>5, <1>7
<1> QED BY <1>8 DEF RemoveAt, before, after, c

LEMMA Appended ==
  ASSUME NEW K, NEW c \in Nat, NEW g \in [1..c -> K], NEW k \in K
  PROVE  Append(g, k) = [n \in 1..(c + 1) |-> IF n <= c THEN g[n] ELSE k]
<1>1. g \in Seq(K) /\ Len(g) = c
  BY FunctionIsSeq
<1>2. /\ Append(g, k) \in Seq(K) /\ Len(Append(g, k)) = c + 1
      /\ \A n \in 1..c : Append(g, k)[n] = g[n]
      /\ Append(g, k)[c + 1] = k
  BY <1>1, AppendProperties
<1>3. Append(g, k) = [n \in 1..(c + 1) |-> Append(g, k)[n]]
  BY <1>2, LenProperties
<1>4. \A n \in 1..(c + 1) : Append(g, k)[n] = IF n <= c THEN g[n] ELSE k
  BY <1>2
<1> QED BY <1>3, <1>4

(* Without its first element a sequence is its tail.                       *)
LEMMA FirstRemoved ==
  ASSUME NEW K, NEW s \in Seq(K), s # <<>>
  PROVE  RemoveAt(s, 1) = Tail(s)
<1>1. Len(s) \in Nat /\ Len(s) # 0
  BY LenProperties, EmptySeq
<1>2. /\ Tail(s) \in Seq(K) /\ Len(Tail(s)) = Len(s) - 1
      /\ \A n \in 1 .. Len(s) - 1 : Tail(s)[n] = s[n + 1]
  BY HeadTailProperties
<1>3. Tail(s) = [n \in 1..(Len(s) - 1) |-> Tail(s)[n]]
  BY <1>2, LenProperties
<1>4. 1 \in 1..Len(s)
  BY <1>1
<1>5. RemoveAt(s, 1) = [n \in 1..(Len(s) - 1) |-> IF n < 1 THEN s[n] ELSE s[n + 1]]
  BY <1>4, Removed
<1>6. \A n \in 1..(Len(s) - 1) : Tail(s)[n] = IF n < 1 THEN s[n] ELSE s[n + 1]
  BY <1>1, <1>2
<1> QED BY <1>3, <1>5, <1>6

-----------------------------------------------------------------------------
(* What a step does to the order.  A table in which every used slot has a  *)
(* stamp and a key of its own:                                             *)
Table(used, stamp, key, K) ==
  /\ Stamped(used, stamp)
  /\ \A e \in used : key[e] \in K
  /\ \A d, e \in used : key[d] = key[e] => d = e

PlaceIn(o, k) == CHOOSE n \in DOMAIN o : o[n] = k

LEMMA OrderFacts ==
  ASSUME NEW used, NEW stamp, NEW key, NEW K, Table(used, stamp, key, K)
  PROVE  LET o == OrderOfUse(used, stamp, key)
             c == Cardinality(used)
         IN  /\ c \in Nat /\ o \in [1..c -> K] /\ o \in Seq(K) /\ Len(o) = c /\ DOMAIN o = 1..c
             /\ ToSet(o) = {key[e] : e \in used}
<1> DEFINE c == Cardinality(used)
           o == OrderOfUse(used, stamp, key)
<1>1. PICK f : Lists(f, used, stamp)
  BY ListExists DEF Table
<1>2. /\ c \in Nat /\ \A n \in 1..c : f[n] \in used
      /\ \A e \in used : \E n \in 1..c : f[n] = e
  BY <1>1, ListIsWhole DEF Table
<1>3. o = [n \in 1..c |-> key[f[n]]]
  BY <1>1, OrderIs DEF Table
<1>4. o \in [1..c -> K]
  BY <1>2, <1>3 DEF Table
<1> HIDE DEF c, o
<1>5. o \in Seq(K) /\ Len(o) = c /\ DOMAIN o = 1..c
  BY <1>2, <1>4, FunctionIsSeq
<1>6. ToSet(o) = {key[e] : e \in used}
  <2>1. ToSet(o) = {o[n] : n \in 1..c}
    BY <1>5 DEF ToSet
  <2>2. \A n \in 1..c : o[n] = key[f[n]]
    BY <1>3
  <2> QED BY <1>2, <2>1, <2>2
<1> QED BY <1>2, <1>4, <1>5, <1>6 DEF c, o

(* The place of a slot's key in the order is the slot's in the list.       *)
LEMMA PlaceOf ==
  ASSUME NEW used, NEW stamp, NEW key, NEW K, Table(used, stamp, key, K),
         NEW f, Lists(f, used, stamp), NEW x \in used
  PROVE  LET r == PlaceIn(OrderOfUse(used, stamp, key), key[x])
         IN  r \in 1..Cardinality(used) /\ f[r] = x
<1> DEFINE c == Cardinality(used)
           o == OrderOfUse(used, stamp, key)
           r == PlaceIn(o, key[x])
<1>1. /\ c \in Nat /\ \A n \in 1..c : f[n] \in used
      /\ \A e \in used : \E n \in 1..c : f[n] = e
  BY ListIsWhole DEF Table
<1>2. o = [n \in 1..c |-> key[f[n]]]
  BY OrderIs DEF Table
<1>3. \E n \in DOMAIN o : o[n] = key[x]
  BY <1>1, <1>2
<1>4. r \in DOMAIN o /\ o[r] = key[x]
  BY <1>3 DEF PlaceIn
<1>5. r \in 1..c /\ key[f[r]] = key[x]
  BY <1>2, <1>4
<1>6. f[r] = x
  BY <1>1, <1>5 DEF Table
<1> QED BY <1>5, <1>6

(* Slots that are not in use may change as they like.                      *)
LEMMA OrderKept ==
  ASSUME NEW used, NEW stamp, NEW key, NEW K, Table(used, stamp, key, K), NEW stamp2, NEW key2,
         \A e \in used : stamp2[e] = stamp[e] /\ key2[e] = key[e]
  PROVE  OrderOfUse(used, stamp2, key2) = OrderOfUse(used, stamp, key)
<1> DEFINE c == Cardinality(used)
<1>1. PICK f : Lists(f, used, stamp)
  BY ListExists DEF Table
<1>2. \A n \in 1..c : f[n] \in used
  BY <1>1 DEF Lists
<1>3. Lists(f, used, stamp2)
  BY <1>1, <1>2 DEF Lists
<1>4. Stamped(used, stamp2)
  BY DEF Table, Stamped
<1>5. /\ OrderOfUse(used, stamp, key) = [n \in 1..c |-> key[f[n]]]
      /\ OrderOfUse(used, stamp2, key2) = [n \in 1..c |-> key2[f[n]]]
  BY <1>1, <1>3, <1>4, OrderIs DEF Table
<1> QED BY <1>2, <1>5

(* A slot stamped anew is the latest.                                      *)
Latest(x, used, stamp, stamp2) ==
  /\ stamp2[x] \in Nat
  /\ \A e \in used \ {x} : stamp2[e] = stamp[e] /\ stamp[e] < stamp2[x]

Refills(x, used, stamp, key, K, stamp2, key2) ==
  /\ Table(used, stamp, key, K)
  /\ x \in used /\ Latest(x, used, stamp, stamp2)
  /\ key2[x] \in K /\ \A e \in used \ {x} : key2[e] = key[e]

LEMMA OrderRefilled ==
  ASSUME NEW used, NEW stamp, NEW key, NEW K, NEW stamp2, NEW key2, NEW x,
         Refills(x, used, stamp, key, K, stamp2, key2)
  PROVE  LET o == OrderOfUse(used, stamp, key)
         IN  OrderOfUse(used, stamp2, key2) = Append(RemoveAt(o, PlaceIn(o, key[x])), key2[x])
<1> USE DEF Refills
<1> DEFINE c == Cardinality(used)
           o == OrderOfUse(used, stamp, key)
           r == PlaceIn(o, key[x])
<1>1. PICK f : Lists(f, used, stamp)
  BY ListExists DEF Table
<1>2. /\ c \in Nat /\ \A n \in 1..c : f[n] \in used
      /\ \A m, n \in 1..c : f[m] = f[n] => m = n
  BY <1>1, ListIsWhole DEF Table
<1>2a. \A m, n \in 1..c : m < n => stamp[f[m]] < stamp[f[n]]
  BY <1>1 DEF Lists
<1>3. r \in 1..c /\ f[r] = x
  BY <1>1, PlaceOf
<1>4. o = [n \in 1..c |-> key[f[n]]]
  BY <1>1, OrderIs DEF Table
<1>5. o \in Seq(K) /\ Len(o) = c /\ o \in [1..c -> K]
  BY OrderFacts
<1> DEFINE g == [n \in 1..c |-> IF n = c THEN x ELSE IF n < r THEN f[n] ELSE f[n + 1]]
<1> HIDE DEF o, r
<1>6. Stamped(used, stamp2)
  <2>1. \A e \in used : stamp[e] \in Nat
    BY DEF Table, Stamped
  <2>2. \A e \in used : stamp2[e] \in Nat
    BY <2>1 DEF Latest
  <2>3. \A e \in used \ {x} : stamp2[e] # stamp2[x]
    BY <2>1 DEF Latest
  <2>4. \A d, e \in used : stamp2[d] = stamp2[e] => d = e
    BY <2>3 DEF Table, Stamped, Latest
  <2> QED BY <2>2, <2>4 DEF Table, Stamped
<1>7. Lists(g, used, stamp2)
  <2> HIDE DEF c
  <2>1. \A n \in 1..c : n # c => /\ (n < r => f[n] \in used \ {x})
                                 /\ (~(n < r) => n + 1 \in 1..c /\ f[n + 1] \in used \ {x})
    BY <1>2, <1>3
  <2>2. g \in [1..c -> used]
    BY <2>1
  <2>3. ASSUME NEW m \in 1..c, NEW n \in 1..c, m < n PROVE stamp2[g[m]] < stamp2[g[n]]
    <3>1. m # c
      BY <1>2, <2>3
    <3>2. g[m] \in used \ {x}
      BY <2>1, <3>1
    <3>3. CASE n = c
      BY <3>2, <3>3 DEF Latest
    <3>4. CASE n # c
      <4>1. g[n] \in used \ {x}
        BY <2>1, <3>4
      <4>2. g[m] = f[IF m < r THEN m ELSE m + 1] /\ g[n] = f[IF n < r THEN n ELSE n + 1]
        BY <3>1, <3>4
      <4>3. (IF m < r THEN m ELSE m + 1) < (IF n < r THEN n ELSE n + 1)
        BY <1>2, <1>3, <2>3
      <4>4. (IF m < r THEN m ELSE m + 1) \in 1..c /\ (IF n < r THEN n ELSE n + 1) \in 1..c
        BY <1>2, <1>3, <3>1, <3>4
      <4> HIDE DEF g
      <4>5. stamp[g[m]] < stamp[g[n]]
        BY <1>2a, <4>2, <4>3, <4>4
      <4> QED BY <3>2, <4>1, <4>5 DEF Latest
    <3> QED BY <3>3, <3>4
  <2> QED BY <2>2, <2>3 DEF Lists, c
<1>8. OrderOfUse(used, stamp2, key2) = [n \in 1..c |-> key2[g[n]]]
  <2> HIDE DEF g
  <2> QED BY <1>6, <1>7, OrderIs
<1>9. RemoveAt(o, r) = [n \in 1..(c - 1) |-> IF n < r THEN o[n] ELSE o[n + 1]]
  BY <1>3, <1>5, Removed
<1> HIDE DEF c
<1>10. c - 1 \in Nat /\ RemoveAt(o, r) \in [1..(c - 1) -> K]
  <2>1. \A n \in 1..(c - 1) : o[n] \in K /\ o[n + 1] \in K
    BY <1>2, <1>5
  <2> QED BY <1>2, <1>3, <1>9, <2>1
<1>11. Append(RemoveAt(o, r), key2[x])
         = [n \in 1..(c - 1 + 1) |-> IF n <= c - 1 THEN RemoveAt(o, r)[n] ELSE key2[x]]
  BY <1>10, Appended
<1>12. 1..(c - 1 + 1) = 1..c
  BY <1>2
<1>13. ASSUME NEW n \in 1..c
       PROVE  key2[g[n]] = IF n <= c - 1 THEN RemoveAt(o, r)[n] ELSE key2[x]
  <2>1. CASE n = c
    BY <1>2, <2>1
  <2>2. CASE n # c
    <3>1. n <= c - 1 /\ n \in 1..(c - 1) /\ n + 1 \in 1..c
      BY <1>2, <2>2
    <3>2. CASE n < r
      <4>1. g[n] = f[n] /\ f[n] \in used \ {x}
        BY <1>2, <1>3, <2>2, <3>2
      <4>2. RemoveAt(o, r)[n] = key[f[n]]
        BY <1>4, <1>9, <3>1, <3>2
      <4> QED BY <3>1, <4>1, <4>2
    <3>3. CASE ~(n < r)
      <4>1. g[n] = f[n + 1] /\ f[n + 1] \in used \ {x}
        BY <1>2, <1>3, <2>2, <3>1, <3>3
      <4>2. RemoveAt(o, r)[n] = key[f[n + 1]]
        BY <1>4, <1>9, <3>1, <3>3
      <4> QED BY <3>1, <4>1, <4>2
    <3> QED BY <3>2, <3>3
  <2> QED BY <2>1, <2>2
<1> HIDE DEF g
<1>14. OrderOfUse(used, stamp2, key2) = Append(RemoveAt(o, r), key2[x])
  BY <1>8, <1>11, <1>12, <1>13
<1> QED BY <1>14 DEF o, r

LEMMA OldestExists ==
  ASSUME NEW used, NEW stamp, Stamped(used, stamp), used # {}
  PROVE  \E x \in used : \A e \in used : stamp[x] <= stamp[e]
<1> DEFINE c == Cardinality(used)
<1>1. PICK f : Lists(f, used, stamp)
  BY ListExists
<1>2. /\ c \in Nat /\ \A n \in 1..c : f[n] \in used
      /\ \A e \in used : \E n \in 1..c : f[n] = e
  BY <1>1, ListIsWhole
<1>3. \A m, n \in 1..c : m < n => stamp[f[m]] < stamp[f[n]]
  BY <1>1 DEF Lists
<1>4. \A e \in used : stamp[e] \in Nat
  BY DEF Stamped
<1> HIDE DEF c
<1>5. 1 \in 1..c
  <2>1. \E n \in 1..c : TRUE
    BY <1>2
  <2> QED BY <1>2, <2>1
<1>6. \A n \in 1..c : stamp[f[1]] <= stamp[f[n]]
  BY <1>2, <1>3, <1>4, <1>5
<1> QED BY <1>2, <1>5, <1>6

(* The slot with the least stamp is the first.                             *)
LEMMA OldestIsFirst ==
  ASSUME NEW used, NEW stamp, NEW key, NEW K, Table(used, stamp, key, K),
         NEW x \in used, \A e \in used : stamp[x] <= stamp[e]
  PROVE  LET o == OrderOfUse(used, stamp, key)
         IN  RemoveAt(o, PlaceIn(o, key[x])) = Tail(o)
<1> DEFINE c == Cardinality(used)
           o == OrderOfUse(used, stamp, key)
           r == PlaceIn(o, key[x])
<1>1. PICK f : Lists(f, used, stamp)
  BY ListExists DEF Table
<1>2. /\ c \in Nat /\ \A n \in 1..c : f[n] \in used
      /\ \A m, n \in 1..c : stamp[f[m]] <= stamp[f[n]] => m <= n
  BY <1>1, ListIsWhole DEF Table
<1>3. r \in 1..c /\ f[r] = x
  BY <1>1, PlaceOf
<1>4. o \in Seq(K) /\ Len(o) = c
  BY OrderFacts
<1> HIDE DEF c, o, r
<1>5. 1 \in 1..c /\ stamp[f[r]] <= stamp[f[1]]
  BY <1>2, <1>3
<1>6. r <= 1
  BY <1>2, <1>3, <1>5
<1>7. r = 1
  BY <1>2, <1>3, <1>6
<1>8. o # <<>>
  BY <1>4, <1>5, EmptySeq
<1>9. RemoveAt(o, r) = Tail(o)
  BY <1>4, <1>7, <1>8, FirstRemoved
<1> QED BY <1>9 DEF o, r

Grows(x, used, stamp, key, K, stamp2, key2) ==
  /\ Table(used, stamp, key, K)
  /\ x \notin used /\ Latest(x, used, stamp, stamp2)
  /\ key2[x] \in K /\ \A e \in used : key2[e] = key[e]

LEMMA OrderGrown ==
  ASSUME NEW used, NEW stamp, NEW key, NEW K, NEW stamp2, NEW key2, NEW x,
         Grows(x, used, stamp, key, K, stamp2, key2)
  PROVE  OrderOfUse(used \cup {x}, stamp2, key2) = Append(OrderOfUse(used, stamp, key), key2[x])
<1> USE DEF Grows
<1> DEFINE c == Cardinality(used)
           o == OrderOfUse(used, stamp, key)
           g == [n \in 1..(c + 1) |-> IF n <= c THEN ByUse(used, stamp)[n] ELSE x]
           f == ByUse(used, stamp)
<1>1. Lists(f, used, stamp)
  BY ByUseLists DEF Table
<1>2. c \in Nat /\ \A n \in 1..c : f[n] \in used
  BY <1>1, ListIsWhole DEF Table
<1>3. \A m, n \in 1..c : m < n => stamp[f[m]] < stamp[f[n]]
  BY <1>1 DEF Lists
<1>4. o \in [1..c -> K] /\ o = [n \in 1..c |-> key[f[n]]]
  <2>1. o \in [1..c -> K]
    BY OrderFacts
  <2> QED BY <2>1 DEF OrderOfUse
<1>5. Cardinality(used \cup {x}) = c + 1
  BY FS_AddElement DEF Table, Stamped
<1> HIDE DEF o, f
<1>6. Stamped(used \cup {x}, stamp2)
  <2>1. \A e \in used : stamp[e] \in Nat
    BY DEF Table, Stamped
  <2>2. IsFiniteSet(used \cup {x})
    BY FS_AddElement DEF Table, Stamped
  <2>3. \A e \in used : stamp2[e] = stamp[e] /\ stamp[e] < stamp2[x]
    BY DEF Latest
  <2>4. \A e \in used \cup {x} : stamp2[e] \in Nat
    BY <2>1, <2>3 DEF Latest
  <2>5. \A e \in used : stamp2[e] # stamp2[x]
    BY <2>1, <2>3, <2>4
  <2>6. \A d, e \in used \cup {x} : stamp2[d] = stamp2[e] => d = e
    BY <2>3, <2>5 DEF Table, Stamped
  <2> QED BY <2>2, <2>4, <2>6 DEF Stamped
<1>7. Lists(g, used \cup {x}, stamp2)
  <2> HIDE DEF c
  <2>1. g \in [1..(c + 1) -> used \cup {x}]
    BY <1>2 DEF f
  <2>2. ASSUME NEW m \in 1..(c + 1), NEW n \in 1..(c + 1), m < n PROVE stamp2[g[m]] < stamp2[g[n]]
    <3>1. m \in 1..c /\ m <= c
      BY <1>2, <2>2
    <3>2. g[m] = f[m] /\ f[m] \in used
      BY <1>2, <3>1 DEF f
    <3>3. CASE n <= c
      <4>1. n \in 1..c /\ g[n] = f[n] /\ f[n] \in used
        BY <1>2, <3>3 DEF f
      <4> HIDE DEF g
      <4>2. stamp[f[m]] < stamp[f[n]]
        BY <1>3, <2>2, <3>1, <4>1
      <4> QED BY <3>2, <4>1, <4>2 DEF Latest
    <3>4. CASE ~(n <= c)
      <4>1. g[n] = x
        BY <3>4
      <4> HIDE DEF g
      <4>2. f[m] \in used \ {x}
        BY <3>2
      <4> QED BY <3>2, <4>1, <4>2 DEF Latest
    <3> QED BY <3>3, <3>4
  <2> QED BY <1>5, <2>1, <2>2 DEF Lists
<1>8. OrderOfUse(used \cup {x}, stamp2, key2) = [n \in 1..(c + 1) |-> key2[g[n]]]
  <2> HIDE DEF g, c
  <2>1. OrderOfUse(used \cup {x}, stamp2, key2) = [n \in 1..Cardinality(used \cup {x}) |-> key2[g[n]]]
    <3>1. PICK all : all = used \cup {x}
      OBVIOUS
    <3>2. Stamped(all, stamp2) /\ Lists(g, all, stamp2)
      BY <1>6, <1>7, <3>1
    <3>3. OrderOfUse(all, stamp2, key2) = [n \in 1..Cardinality(all) |-> key2[g[n]]]
      BY <3>2, OrderIs
    <3> QED BY <3>1, <3>3
  <2> QED BY <1>5, <2>1
<1> HIDE DEF c
<1>9. Append(o, key2[x]) = [n \in 1..(c + 1) |-> IF n <= c THEN o[n] ELSE key2[x]]
  BY <1>2, <1>4, Appended
<1>10. ASSUME NEW n \in 1..(c + 1) PROVE key2[g[n]] = IF n <= c THEN o[n] ELSE key2[x]
  <2>1. CASE n <= c
    <3>1. n \in 1..c /\ g[n] = f[n] /\ f[n] \in used
      BY <1>2, <2>1 DEF f
    <3> QED BY <1>4, <2>1, <3>1
  <2>2. CASE ~(n <= c)
    BY <2>2
  <2> QED BY <2>1, <2>2
<1> HIDE DEF g
<1>11. OrderOfUse(used \cup {x}, stamp2, key2) = Append(o, key2[x])
  BY <1>8, <1>9, <1>10
<1> QED BY <1>11 DEF o

LEMMA OrderShrunk ==
  ASSUME NEW used, NEW stamp, NEW key, NEW K, Table(used, stamp, key, K), NEW stamp2, NEW key2,
         NEW x \in used, \A e \in used \ {x} : stamp2[e] = stamp[e] /\ key2[e] = key[e]
  PROVE  LET o == OrderOfUse(used, stamp, key)
         IN  OrderOfUse(used \ {x}, stamp2, key2) = RemoveAt(o, PlaceIn(o, key[x]))
<1> DEFINE c == Cardinality(used)
           o == OrderOfUse(used, stamp, key)
           r == PlaceIn(o, key[x])
<1>1. PICK f : Lists(f, used, stamp)
  BY ListExists DEF Table
<1>2. /\ c \in Nat /\ \A n \in 1..c : f[n] \in used
      /\ \A m, n \in 1..c : f[m] = f[n] => m = n
  BY <1>1, ListIsWhole DEF Table
<1>3. \A m, n \in 1..c : m < n => stamp[f[m]] < stamp[f[n]]
  BY <1>1 DEF Lists
<1>4. r \in 1..c /\ f[r] = x
  BY <1>1, PlaceOf
<1>5. o = [n \in 1..c |-> key[f[n]]]
  BY <1>1, OrderIs DEF Table
<1>6. o \in Seq(K) /\ Len(o) = c
  BY OrderFacts
<1>7. Cardinality(used \ {x}) = c - 1
  BY FS_RemoveElement DEF Table, Stamped
<1>8. Stamped(used \ {x}, stamp2)
  <2>1. IsFiniteSet(used \ {x})
    BY FS_RemoveElement DEF Table, Stamped
  <2> QED BY <2>1 DEF Table, Stamped
<1> DEFINE g == [n \in 1..(c - 1) |-> IF n < r THEN f[n] ELSE f[n + 1]]
<1> HIDE DEF o, r, c
<1>9. \A n \in 1..(c - 1) : n \in 1..c /\ n + 1 \in 1..c
  BY <1>2
<1>10. \A n \in 1..(c - 1) : g[n] \in used \ {x}
  BY <1>2, <1>4, <1>9
<1>11. Lists(g, used \ {x}, stamp2)
  <2>1. g \in [1..(c - 1) -> used \ {x}]
    BY <1>10
  <2>2. ASSUME NEW m \in 1..(c - 1), NEW n \in 1..(c - 1), m < n PROVE stamp2[g[m]] < stamp2[g[n]]
    <3>1. g[m] = f[IF m < r THEN m ELSE m + 1] /\ g[n] = f[IF n < r THEN n ELSE n + 1]
      OBVIOUS
    <3>2. (IF m < r THEN m ELSE m + 1) < (IF n < r THEN n ELSE n + 1)
      BY <1>2, <1>4, <2>2
    <3>3. (IF m < r THEN m ELSE m + 1) \in 1..c /\ (IF n < r THEN n ELSE n + 1) \in 1..c
      BY <1>9
    <3>4. g[m] \in used \ {x} /\ g[n] \in used \ {x}
      BY <1>10
    <3> HIDE DEF g
    <3>5. stamp[g[m]] < stamp[g[n]]
      BY <1>3, <3>1, <3>2, <3>3
    <3> QED BY <3>4, <3>5
  <2> QED BY <1>7, <2>1, <2>2 DEF Lists
<1>12. OrderOfUse(used \ {x}, stamp2, key2) = [n \in 1..(c - 1) |-> key2[g[n]]]
  <2> HIDE DEF g
  <2>1. OrderOfUse(used \ {x}, stamp2, key2) = [n \in 1..Cardinality(used \ {x}) |-> key2[g[n]]]
    <3>1. PICK all : all = used \ {x}
      OBVIOUS
    <3>2. Stamped(all, stamp2) /\ Lists(g, all, stamp2)
      BY <1>8, <1>11, <3>1
    <3>3. OrderOfUse(all, stamp2, key2) = [n \in 1..Cardinality(all) |-> key2[g[n]]]
      BY <3>2, OrderIs
    <3> QED BY <3>1, <3>3
  <2> QED BY <1>7, <2>1
<1>13. RemoveAt(o, r) = [n \in 1..(c - 1) |-> IF n < r THEN o[n] ELSE o[n + 1]]
  BY <1>4, <1>6, Removed
<1>14. ASSUME NEW n \in 1..(c - 1) PROVE key2[g[n]] = IF n < r THEN o[n] ELSE o[n + 1]
  <2>1. g[n] \in used \ {x} /\ key2[g[n]] = key[g[n]]
    BY <1>10
  <2> QED BY <1>5, <1>9, <2>1
<1> HIDE DEF g
<1>15. OrderOfUse(used \ {x}, stamp2, key2) = RemoveAt(o, r)
  BY <1>12, <1>13, <1>14
<1> QED BY <1>15 DEF o, r

-----------------------------------------------------------------------------
(* A table whose clock stamps what is used.  Recorded: entry x is stamped  *)
(* with the next tick and is of key k from now on.                         *)
Clocked(used, stamp, key, K, clock) ==
  /\ Table(used, stamp, key, K)
  /\ clock \in Nat /\ \A e \in used : stamp[e] <= clock

Recorded(x, k, used, stamp, key, K, clock, stamp2, key2) ==
  /\ Clocked(used, stamp, key, K, clock)
  /\ k \in K /\ \A e \in used \ {x} : key[e] # k
  /\ stamp2[x] = clock + 1 /\ key2[x] = k
  /\ \A e \in used \ {x} : stamp2[e] = stamp[e] /\ key2[e] = key[e]

LEMMA RecordedClocked ==
  ASSUME NEW x, NEW k, NEW used, NEW stamp, NEW key, NEW K, NEW clock, NEW stamp2, NEW key2,
         Recorded(x, k, used, stamp, key, K, clock, stamp2, key2)
  PROVE  /\ Clocked(used \cup {x}, stamp2, key2, K, clock + 1)
         /\ Latest(x, used, stamp, stamp2)
<1>1. /\ clock \in Nat /\ IsFiniteSet(used) /\ k \in K
      /\ \A e \in used : stamp[e] \in Nat /\ stamp[e] <= clock /\ key[e] \in K
      /\ \A d, e \in used : stamp[d] = stamp[e] \/ key[d] = key[e] => d = e
  BY DEF Recorded, Clocked, Table, Stamped
<1>2. /\ stamp2[x] = clock + 1 /\ key2[x] = k
      /\ \A e \in used \ {x} : stamp2[e] = stamp[e] /\ key2[e] = key[e] /\ key[e] # k
  BY DEF Recorded
<1>3. clock + 1 \in Nat /\ \A e \in used : stamp[e] < clock + 1 /\ stamp[e] # clock + 1
  BY <1>1
<1>4. Latest(x, used, stamp, stamp2)
  BY <1>2, <1>3 DEF Latest
<1>5. IsFiniteSet(used \cup {x})
  BY <1>1, FS_AddElement
<1>6. \A e \in used \cup {x} : stamp2[e] \in Nat /\ stamp2[e] <= clock + 1 /\ key2[e] \in K
  <2> SUFFICES ASSUME NEW e \in used \cup {x}
               PROVE  stamp2[e] \in Nat /\ stamp2[e] <= clock + 1 /\ key2[e] \in K
    OBVIOUS
  <2>1. CASE e = x
    BY <1>1, <1>2, <1>3, <2>1
  <2>2. CASE e # x
    BY <1>1, <1>2, <1>3, <2>2
  <2> QED BY <2>1, <2>2
<1>7. ASSUME NEW d \in used \cup {x}, NEW e \in used \cup {x}, stamp2[d] = stamp2[e] \/ key2[d] = key2[e]
      PROVE  d = e
  <2>1. CASE d = x \/ e = x
    BY <1>2, <1>3, <1>7, <2>1
  <2>2. CASE d # x /\ e # x
    BY <1>1, <1>2, <1>7, <2>2
  <2> QED BY <2>1, <2>2
<1> QED BY <1>3, <1>4, <1>5, <1>6, <1>7 DEF Clocked, Table, Stamped

(* An entry in use is filled anew, an unused one is added.                 *)
LEMMA RecordedUsed ==
  ASSUME NEW x, NEW k, NEW used, NEW stamp, NEW key, NEW K, NEW clock, NEW stamp2, NEW key2,
         Recorded(x, k, used, stamp, key, K, clock, stamp2, key2)
  PROVE  /\ key2[x] = k
         /\ x \in used => Refills(x, used, stamp, key, K, stamp2, key2)
         /\ x \notin used => Grows(x, used, stamp, key, K, stamp2, key2)
<1>1. Latest(x, used, stamp, stamp2)
  BY RecordedClocked
<1> QED BY <1>1 DEF Recorded, Clocked, Refills, Grows

(* An entry that goes leaves the others in their order.                    *)
Drops(x, used, stamp, key, K, clock, stamp2, key2) ==
  /\ Clocked(used, stamp, key, K, clock) /\ x \in used
  /\ \A e \in used \ {x} : stamp2[e] = stamp[e] /\ key2[e] = key[e]

LEMMA DroppedOrder ==
  ASSUME NEW x, NEW used, NEW stamp, NEW key, NEW K, NEW clock, NEW stamp2, NEW key2,
         Drops(x, used, stamp, key, K, clock, stamp2, key2)
  PROVE  /\ Clocked(used \ {x}, stamp2, key2, K, clock)
         /\ OrderOfUse(used \ {x}, stamp2, key2)
              = RemoveAt(OrderOfUse(used, stamp, key), PlaceIn(OrderOfUse(used, stamp, key), key[x]))
<1> USE DEF Drops
<1>1. Clocked(used \ {x}, stamp2, key2, K, clock)
  <2>1. IsFiniteSet(used \ {x})
    BY FS_RemoveElement DEF Clocked, Table, Stamped
  <2> QED BY <2>1 DEF Clocked, Table, Stamped
<1>2. Table(used, stamp, key, K)
  BY DEF Clocked
<1> QED BY <1>1, <1>2, OrderShrunk
=============================================================================
