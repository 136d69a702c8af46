---------------------------- MODULE CacheProofs ----------------------------
(***************************************************************************)
(* Proofs about the two layers that answer a request from another one's    *)
(* call: ResponseCache and, at the end, Singleflight.                      *)
(*                                                                         *)
(* ResponseCache, on every runtime: types, QueueInv, HitsMatch and         *)
(* LiveEntriesKept.  Singleflight, on every runtime: types, RoundInv and   *)
(* with it OneLeader and ClosedOnlyByDrop; where polls are not            *)
(* interrupted: the refinement of SharedCall.                              *)
(***************************************************************************)
EXTENDS ResponseCache, Singleflight,
        FiniteSetTheorems, SequenceTheorems, WellFoundedInduction, TLAPS

USE HashOfAssumption, MaxEntriesAssumption

-----------------------------------------------------------------------------
(* Induction on a set of numbers, which needs no operator as a parameter.  *)
LEMMA AllNumbers ==
  ASSUME NEW T \in SUBSET Nat, 0 \in T, \A n \in T : n + 1 \in T
  PROVE  T = Nat
<1> SUFFICES ASSUME Nat \ T # {} PROVE FALSE
  OBVIOUS
<1>1. IsWellFoundedOn(OpToRel(<, Nat), Nat)
  BY NatLessThanWellFounded
<1>2. PICK n \in Nat \ T : \A m \in Nat \ T : ~(<<m, n>> \in OpToRel(<, Nat))
  BY <1>1, WFMin
<1>3. \A m \in Nat \ T : ~(m < n)
  BY <1>2 DEF OpToRel
<1>4. n # 0 /\ n - 1 \in Nat
  OBVIOUS
<1>5. n - 1 \in T
  BY <1>3, <1>4
<1> QED BY <1>5

(* A set of positions can be put in ascending order. *)
LEMMA AscendingExists ==
  ASSUME NEW n \in Nat, NEW S \in SUBSET (1..n)
  PROVE  \E f \in [1..Cardinality(S) -> S] :
           \A i, j \in 1..Cardinality(S) : i < j => f[i] < f[j]
<1> DEFINE Ordered(X) == \E f \in [1..Cardinality(X) -> X] :
                           \A i, j \in 1..Cardinality(X) : i < j => f[i] < f[j]
           T == {m \in Nat : \A X \in SUBSET (1..m) : Ordered(X)}
<1>1. 0 \in T
  <2> SUFFICES ASSUME NEW X \in SUBSET (1..0) PROVE Ordered(X)
    OBVIOUS
  <2>1. X = {} /\ Cardinality(X) = 0
    <3>1. X = {}
      OBVIOUS
    <3> QED BY <3>1, FS_EmptySet
  <2>2. [i \in {} |-> i] \in [1..0 -> X]
    BY <2>1
  <2> QED BY <2>1, <2>2
<1>2. ASSUME NEW m \in T PROVE m + 1 \in T
  <2> SUFFICES ASSUME NEW X \in SUBSET (1..m + 1) PROVE Ordered(X)
    OBVIOUS
  <2>1. CASE m + 1 \notin X
    <3>1. X \in SUBSET (1..m)
      BY <2>1
    <3> QED BY <3>1, <1>2
  <2>2. CASE m + 1 \in X
    <3> DEFINE Y == X \ {m + 1}
               c == Cardinality(Y)
    <3>1. Y \in SUBSET (1..m)
      OBVIOUS
    <3>2. IsFiniteSet(X) /\ IsFiniteSet(Y) /\ c \in Nat /\ Cardinality(X) = c + 1
      <4>1. IsFiniteSet(1..m + 1)
        BY FS_Interval
      <4>2. IsFiniteSet(X)
        BY <4>1, FS_Subset
      <4>3. IsFiniteSet(Y) /\ Cardinality(Y) = Cardinality(X) - 1
        BY <4>2, <2>2, FS_RemoveElement
      <4> QED BY <4>2, <4>3, FS_CardinalityType
    <3>3. PICK f \in [1..c -> Y] : \A i, j \in 1..c : i < j => f[i] < f[j]
      BY <3>1, <1>2
    <3> HIDE DEF c
    <3> DEFINE g == [i \in 1..c + 1 |-> IF i = c + 1 THEN m + 1 ELSE f[i]]
    <3>4. g \in [1..c + 1 -> X]
      BY <3>2, <2>2
    <3>5. ASSUME NEW i \in 1..c + 1, NEW j \in 1..c + 1, i < j PROVE g[i] < g[j]
      <4>1. i \in 1..c
        BY <3>2, <3>5
      <4>2. g[i] = f[i] /\ f[i] \in 1..m
        <5>1. i # c + 1
          BY <3>2, <4>1
        <5> QED BY <3>1, <4>1, <5>1
      <4>3. CASE j = c + 1
        BY <4>2, <4>3
      <4>4. CASE j # c + 1
        <5>1. j \in 1..c /\ g[j] = f[j]
          BY <3>2, <4>4
        <5> QED BY <3>3, <3>5, <4>1, <4>2, <5>1
      <4> QED BY <4>3, <4>4
    <3> QED BY <3>2, <3>4, <3>5
  <2> QED BY <2>1, <2>2
<1>3. T = Nat
  <2> HIDE DEF T
  <2>1. T \in SUBSET Nat
    BY DEF T
  <2> QED BY <1>1, <1>2, <2>1, AllNumbers
<1> QED BY <1>3

LEMMA AscendingProperties ==
  ASSUME NEW n \in Nat, NEW S \in SUBSET (1..n)
  PROVE  /\ IsFiniteSet(S) /\ Cardinality(S) \in 0..n
         /\ Cardinality(S) = n => S = 1..n
         /\ Ascending(S) \in [1..Cardinality(S) -> S]
         /\ \A i, j \in 1..Cardinality(S) : i < j => Ascending(S)[i] < Ascending(S)[j]
         /\ \A x \in S : \E i \in 1..Cardinality(S) : Ascending(S)[i] = x
<1> DEFINE c == Cardinality(S)
           f == Ascending(S)
<1>1. IsFiniteSet(S) /\ c \in Nat /\ c <= n /\ (c = n => S = 1..n)
  <2>1. IsFiniteSet(1..n) /\ Cardinality(1..n) = n
    BY FS_Interval
  <2> QED BY <2>1, FS_Subset, FS_CardinalityType
<1>2. f \in [1..c -> S] /\ \A i, j \in 1..c : i < j => f[i] < f[j]
  BY AscendingExists DEF Ascending
<1> HIDE DEF c, f
<1>3. ASSUME NEW i \in 1..c, NEW j \in 1..c, f[i] = f[j] PROVE i = j
  <2>1. f[i] \in 1..n /\ f[j] \in 1..n
    BY <1>2
  <2>2. i \in Int /\ j \in Int
    BY <1>1
  <2> QED BY <1>2, <1>3, <2>1, <2>2
<1>4. f \in Injection(1..c, S)
  BY <1>2, <1>3 DEF Injection, IsInjective
<1>5. f \in Surjection(1..c, S)
  <2>1. IsFiniteSet(1..c) /\ Cardinality(1..c) = c
    BY <1>1, FS_Interval
  <2> QED BY <1>1, <1>4, <2>1, FS_Injection DEF c
<1>6. \A x \in S : \E i \in 1..c : f[i] = x
  BY <1>5 DEF Surjection
<1> QED BY <1>1, <1>2, <1>6 DEF c, f

(* f says where in q the members of u come from, all that are not k. *)
Keeps(f, u, q, k) ==
  /\ f \in [1..Len(u) -> 1..Len(q)]
  /\ \A i, j \in 1..Len(u) : i < j => f[i] < f[j]
  /\ \A i \in 1..Len(u) : u[i] = q[f[i]] /\ u[i] # k
  /\ \A x \in 1..Len(q) : q[x] # k => \E i \in 1..Len(u) : f[i] = x

(* Unqueued keeps the order of what it keeps, which is all but k. *)
LEMMA UnqueuedProperties ==
  ASSUME NEW T, NEW q \in Seq(T), NEW k
  PROVE  /\ Unqueued(q, k) \in Seq(T)
         /\ Len(Unqueued(q, k)) <= Len(q)
         /\ (\E i \in 1..Len(q) : q[i] = k) => Len(Unqueued(q, k)) < Len(q)
         /\ \E f : Keeps(f, Unqueued(q, k), q, k)
<1> DEFINE left == {i \in 1..Len(q) : q[i] # k}
<1>1. Len(q) \in Nat /\ left \in SUBSET (1..Len(q))
  OBVIOUS
<1>2. \A i : i \in left <=> i \in 1..Len(q) /\ q[i] # k
  OBVIOUS
<1>3. Unqueued(q, k) = [i \in 1..Cardinality(left) |-> q[Ascending(left)[i]]]
  BY DEF Unqueued
<1> HIDE DEF left
<1> DEFINE c == Cardinality(left)
           f == Ascending(left)
           u == [i \in 1..c |-> q[f[i]]]
<1>4. /\ c \in 0..Len(q)
      /\ c = Len(q) => left = 1..Len(q)
      /\ f \in [1..c -> left]
      /\ \A i, j \in 1..c : i < j => f[i] < f[j]
      /\ \A x \in left : \E i \in 1..c : f[i] = x
  BY <1>1, AscendingProperties
<1> HIDE DEF c, f
<1>5. \A i \in 1..c : f[i] \in 1..Len(q) /\ q[f[i]] # k /\ q[f[i]] \in T
  BY <1>2, <1>4
<1>6. u \in Seq(T) /\ Len(u) = c
  <2>1. c \in Nat /\ u \in [1..c -> T]
    BY <1>4, <1>5
  <2> QED BY <2>1, IsASeq
<1>7. ASSUME NEW i \in 1..Len(q), q[i] = k PROVE c < Len(q)
  <2>1. left # 1..Len(q)
    BY <1>2, <1>7
  <2> QED BY <1>1, <1>4, <2>1
<1>8. Keeps(f, u, q, k)
  <2>1. f \in [1..Len(u) -> 1..Len(q)]
    BY <1>4, <1>5, <1>6
  <2>2. \A i \in 1..Len(u) : u[i] = q[f[i]] /\ u[i] # k
    BY <1>5, <1>6
  <2>3. \A x \in 1..Len(q) : q[x] # k => \E i \in 1..Len(u) : f[i] = x
    BY <1>2, <1>4, <1>6
  <2> HIDE DEF u
  <2> QED BY <1>4, <1>6, <2>1, <2>2, <2>3 DEF Keeps
<1>9. Unqueued(q, k) = u
  BY <1>3 DEF c, f
<1> HIDE DEF u
<1> QED BY <1>1, <1>4, <1>6, <1>7, <1>8, <1>9

-----------------------------------------------------------------------------
(* A queue and the keys of a map.                                          *)

(* The queue holds the members of D, each once. *)
Matches(q, D) ==
  /\ \A i, j \in 1..Len(q) : q[i] = q[j] => i = j
  /\ \A i \in 1..Len(q) : q[i] \in D
  /\ \A k \in D : \E i \in 1..Len(q) : q[i] = k

(* No entry of c is queued behind a younger one. *)
AgesFall(q, c) == \A i, j \in 1..Len(q) : i < j => c[q[i]].age >= c[q[j]].age

LEMMA MatchesCount ==
  ASSUME NEW T, NEW q \in Seq(T), NEW D, Matches(q, D)
  PROVE  IsFiniteSet(D) /\ Cardinality(D) = Len(q)
<1>1. Len(q) \in Nat /\ IsFiniteSet(1..Len(q)) /\ Cardinality(1..Len(q)) = Len(q)
  BY FS_Interval
<1> DEFINE f == [i \in 1..Len(q) |-> q[i]]
<1>2. f \in Bijection(1..Len(q), D)
  <2>1. f \in [1..Len(q) -> D]
    BY DEF Matches
  <2>2. IsInjective(f)
    BY DEF Matches, IsInjective
  <2>3. \A k \in D : \E i \in 1..Len(q) : f[i] = k
    BY DEF Matches
  <2> QED BY <2>1, <2>2, <2>3 DEF Bijection, Injection, Surjection
<1>3. ExistsBijection(1..Len(q), D)
  BY <1>2 DEF ExistsBijection
<1> QED BY <1>1, <1>3, FS_Bijection

LEMMA MatchesUnqueued ==
  ASSUME NEW T, NEW q \in Seq(T), NEW k, NEW D, Matches(q, D)
  PROVE  Matches(Unqueued(q, k), D \ {k})
<1> DEFINE u == Unqueued(q, k)
<1>1. u \in Seq(T) /\ Len(u) \in Nat /\ Len(q) \in Nat
  BY UnqueuedProperties
<1>2. PICK f : Keeps(f, u, q, k)
  BY UnqueuedProperties
<1> HIDE DEF u
<1>3. ASSUME NEW i \in 1..Len(u), NEW j \in 1..Len(u), u[i] = u[j] PROVE i = j
  <2>1. f[i] \in 1..Len(q) /\ f[j] \in 1..Len(q) /\ q[f[i]] = q[f[j]]
    BY <1>2, <1>3 DEF Keeps
  <2>2. f[i] = f[j]
    BY <2>1 DEF Matches
  <2>3. ~(i < j) /\ ~(j < i)
    BY <1>2, <2>1, <2>2 DEF Keeps
  <2> QED BY <1>1, <2>3
<1>4. ASSUME NEW i \in 1..Len(u) PROVE u[i] \in D \ {k}
  BY <1>2 DEF Keeps, Matches
<1>5. ASSUME NEW x \in D \ {k} PROVE \E i \in 1..Len(u) : u[i] = x
  <2>1. PICK j \in 1..Len(q) : q[j] = x
    BY DEF Matches
  <2>2. PICK i \in 1..Len(u) : f[i] = j
    BY <1>2, <2>1 DEF Keeps
  <2> QED BY <1>2, <2>1, <2>2 DEF Keeps
<1> QED BY <1>3, <1>4, <1>5 DEF Matches, u

LEMMA RestOfSeq ==
  ASSUME NEW T, NEW q \in Seq(T), Len(q) > 0
  PROVE  LET s == SubSeq(q, 2, Len(q))
         IN  /\ s \in Seq(T) /\ Len(q) \in Nat
             /\ Len(s) = Len(q) - 1
             /\ \A i \in 1..Len(q) - 1 : s[i] = q[i + 1]
<1> DEFINE s == SubSeq(q, 2, Len(q))
<1>1. PICK n \in Nat : n = Len(q) /\ n > 0
  OBVIOUS
<1>2. \A i \in 2..n : q[i] \in T
  BY <1>1
<1>3. /\ s \in Seq(T)
      /\ Len(s) = IF 2 <= n THEN n - 2 + 1 ELSE 0
      /\ \A i \in 1..n - 2 + 1 : s[i] = q[2 + i - 1]
  BY <1>1, <1>2, SubSeqProperties
<1> HIDE DEF s
<1>4. Len(s) = n - 1
  <2>1. n = 1 \/ 2 <= n
    BY <1>1
  <2>2. CASE n = 1
    BY <1>3, <2>2
  <2>3. CASE 2 <= n
    BY <1>3, <2>3
  <2> QED BY <2>1, <2>2, <2>3
<1>5. ASSUME NEW i \in 1..n - 1 PROVE s[i] = q[i + 1]
  <2>1. i \in 1..n - 2 + 1 /\ 2 + i - 1 = i + 1
    BY <1>1
  <2>2. s[i] = q[2 + i - 1]
    BY <1>3, <2>1
  <2> QED BY <2>1, <2>2
<1> QED BY <1>1, <1>3, <1>4, <1>5 DEF s

LEMMA MatchesRest ==
  ASSUME NEW T, NEW q \in Seq(T), NEW D, Matches(q, D), Len(q) > 0
  PROVE  Matches(SubSeq(q, 2, Len(q)), D \ {q[1]})
<1> DEFINE s == SubSeq(q, 2, Len(q))
<1>1. Len(q) \in Nat /\ Len(s) = Len(q) - 1 /\ \A i \in 1..Len(q) - 1 : s[i] = q[i + 1]
  BY RestOfSeq
<1> HIDE DEF s
<1>2. ASSUME NEW i \in 1..Len(s)
      PROVE  i \in Int /\ i + 1 \in 1..Len(q) /\ i + 1 # 1 /\ s[i] = q[i + 1]
  BY <1>1
<1>3. ASSUME NEW i \in 1..Len(s), NEW j \in 1..Len(s), s[i] = s[j] PROVE i = j
  <2>1. i + 1 = j + 1
    BY <1>2, <1>3 DEF Matches
  <2> QED BY <1>2, <2>1
<1>4. ASSUME NEW i \in 1..Len(s) PROVE s[i] \in D \ {q[1]}
  <2>1. 1 \in 1..Len(q)
    BY <1>1
  <2> QED BY <1>2, <2>1 DEF Matches
<1>5. ASSUME NEW x \in D \ {q[1]} PROVE \E i \in 1..Len(s) : s[i] = x
  <2>1. PICK j \in 1..Len(q) : q[j] = x
    BY DEF Matches
  <2>2. j # 1 /\ j - 1 \in 1..Len(s) /\ s[j - 1] = x
    BY <1>1, <2>1
  <2> QED BY <2>2
<1> QED BY <1>3, <1>4, <1>5 DEF Matches, s

LEMMA MatchesAppend ==
  ASSUME NEW T, NEW q \in Seq(T), NEW k \in T, NEW D, Matches(q, D), k \notin D
  PROVE  Matches(Append(q, k), D \cup {k})
<1> DEFINE a == Append(q, k)
<1>1. /\ Len(q) \in Nat /\ Len(a) = Len(q) + 1
      /\ \A i \in 1..Len(q) : a[i] = q[i]
      /\ a[Len(q) + 1] = k
  BY AppendProperties
<1> HIDE DEF a
<1>2. ASSUME NEW i \in 1..Len(a), NEW j \in 1..Len(a), a[i] = a[j] PROVE i = j
  BY <1>1, <1>2 DEF Matches
<1>3. ASSUME NEW i \in 1..Len(a) PROVE a[i] \in D \cup {k}
  BY <1>1 DEF Matches
<1>4. ASSUME NEW x \in D \cup {k} PROVE \E i \in 1..Len(a) : a[i] = x
  BY <1>1 DEF Matches
<1> QED BY <1>2, <1>3, <1>4 DEF Matches, a

LEMMA AgesUnqueued ==
  ASSUME NEW T, NEW q \in Seq(T), NEW k, NEW c, AgesFall(q, c)
  PROVE  AgesFall(Unqueued(q, k), c)
<1> DEFINE u == Unqueued(q, k)
<1>1. PICK f : Keeps(f, u, q, k)
  BY UnqueuedProperties
<1> HIDE DEF u
<1>2. ASSUME NEW i \in 1..Len(u), NEW j \in 1..Len(u), i < j
      PROVE  c[u[i]].age >= c[u[j]].age
  <2>1. f[i] \in 1..Len(q) /\ f[j] \in 1..Len(q) /\ f[i] < f[j]
    BY <1>1, <1>2 DEF Keeps
  <2>2. u[i] = q[f[i]] /\ u[j] = q[f[j]]
    BY <1>1 DEF Keeps
  <2> QED BY <2>1, <2>2 DEF AgesFall
<1> QED BY <1>2 DEF AgesFall, u

LEMMA AgesRest ==
  ASSUME NEW T, NEW q \in Seq(T), NEW c, AgesFall(q, c), Len(q) > 0
  PROVE  AgesFall(SubSeq(q, 2, Len(q)), c)
<1> DEFINE s == SubSeq(q, 2, Len(q))
<1>1. Len(q) \in Nat /\ Len(s) = Len(q) - 1 /\ \A i \in 1..Len(q) - 1 : s[i] = q[i + 1]
  BY RestOfSeq
<1> HIDE DEF s
<1>2. ASSUME NEW i \in 1..Len(s), NEW j \in 1..Len(s), i < j
      PROVE  c[s[i]].age >= c[s[j]].age
  <2>1. i + 1 \in 1..Len(q) /\ j + 1 \in 1..Len(q) /\ i + 1 < j + 1
    BY <1>1, <1>2
  <2>2. s[i] = q[i + 1] /\ s[j] = q[j + 1]
    BY <1>1
  <2> QED BY <2>1, <2>2 DEF AgesFall
<1> QED BY <1>2 DEF AgesFall, s

(* What is put at the back is as young as can be. *)
LEMMA AgesAppend ==
  ASSUME NEW T, NEW q \in Seq(T), NEW k \in T, NEW c, AgesFall(q, c),
         NEW d, d[k].age = 0,
         \A i \in 1..Len(q) : d[q[i]].age = c[q[i]].age /\ c[q[i]].age \in Nat
  PROVE  AgesFall(Append(q, k), d)
<1> DEFINE a == Append(q, k)
<1>1. /\ Len(q) \in Nat /\ Len(a) = Len(q) + 1
      /\ \A i \in 1..Len(q) : a[i] = q[i]
      /\ a[Len(q) + 1] = k
  BY AppendProperties
<1> HIDE DEF a
<1>2. ASSUME NEW i \in 1..Len(a), NEW j \in 1..Len(a), i < j
      PROVE  d[a[i]].age >= d[a[j]].age
  <2>1. i \in 1..Len(q) /\ a[i] = q[i]
    BY <1>1, <1>2
  <2>2. CASE j \in 1..Len(q)
    <3>1. a[j] = q[j]
      BY <1>1, <2>2
    <3> QED BY <1>2, <2>1, <2>2, <3>1 DEF AgesFall
  <2>3. CASE j = Len(q) + 1
    <3>1. d[a[j]].age = 0 /\ d[a[i]].age \in Nat
      BY <1>1, <2>1, <2>3
    <3> QED BY <3>1
  <2> QED BY <1>1, <2>2, <2>3
<1> QED BY <1>2 DEF AgesFall, a

-----------------------------------------------------------------------------
(* The store.                                                              *)

LEMMA LongestIsLongest ==
  Longest \in Nat /\ \A t \in {Ttl, Override, Window} : t <= Longest
<1>1. \E t \in {Ttl, Override, Window} : \A u \in {Ttl, Override, Window} : u <= t
  <2>1. CASE Ttl >= Override /\ Ttl >= Window
    BY <2>1, TtlAssumption
  <2>2. CASE Override >= Ttl /\ Override >= Window
    BY <2>2, TtlAssumption
  <2>3. CASE Window >= Ttl /\ Window >= Override
    BY <2>3, TtlAssumption
  <2> QED BY <2>1, <2>2, <2>3, TtlAssumption
<1> QED BY <1>1, TtlAssumption DEF Longest

(* The inductive invariant of the store alone. *)
StoreInv ==
  /\ DOMAIN cache \subseteq Hashes
  /\ \A k \in DOMAIN cache : cache[k] \in Entries /\ HashOf[cache[k].body] = k
  /\ order \in Seq(Hashes)
  /\ Matches(order, DOMAIN cache)
  /\ Len(order) <= MaxEntries
  /\ AgesFall(order, cache)

LEMMA StoreIsCounted ==
  ASSUME StoreInv
  PROVE  /\ Len(order) \in Nat /\ IsFiniteSet(DOMAIN cache)
         /\ Cardinality(DOMAIN cache) = Len(order)
BY MatchesCount DEF StoreInv

(* The operations change no entry but what they take out or put in. *)
LEMMA RemoveEntryKeeps ==
  ASSUME StoreInv, NEW k, RemoveEntry(k)
  PROVE  StoreInv' /\ DOMAIN cache' = DOMAIN cache \ {k}
<1> USE DEF StoreInv
<1>1. DOMAIN cache' = DOMAIN cache \ {k} /\ \A x \in DOMAIN cache' : cache'[x] = cache[x]
  BY DEF RemoveEntry, Without
<1>2. order' = Unqueued(order, k)
  BY DEF RemoveEntry
<1>3. order' \in Seq(Hashes) /\ Len(order') <= Len(order) /\ Len(order') \in Nat
  BY <1>2, UnqueuedProperties
<1>4. Matches(order', DOMAIN cache')
  BY <1>1, <1>2, MatchesUnqueued
<1>5. AgesFall(order', cache)
  BY <1>2, AgesUnqueued
<1>6. AgesFall(order', cache')
  BY <1>1, <1>4, <1>5 DEF AgesFall, Matches
<1>7. Len(order') <= MaxEntries
  <2>1. Len(order) \in Nat
    OBVIOUS
  <2> QED BY <1>3, <2>1
<1> QED BY <1>1, <1>3, <1>4, <1>6, <1>7

LEMMA OldestOfNone == Oldest(0) = {} /\ Oldest(1) = {order[1]}
<1>1. 1..0 = {} /\ 1..1 = {1}
  OBVIOUS
<1> QED BY <1>1 DEF Oldest

LEMMA OneLess ==
  ASSUME NEW S, IsFiniteSet(S), NEW x \in S
  PROVE  Cardinality(S \ {x}) = Cardinality(S) - 1
BY FS_RemoveElement

(* A new key takes the place of one other at the most, and only of a full  *)
(* cache's.                                                                *)
LEMMA EvictedIsOne ==
  ASSUME StoreInv, NEW k
  PROVE  \/ Evicted(k) = 0 /\ (k \in DOMAIN cache \/ Len(order) < MaxEntries)
         \/ Evicted(k) = 1 /\ k \notin DOMAIN cache /\ Len(order) = MaxEntries
<1>1. CASE k \in DOMAIN cache
  BY <1>1 DEF Evicted
<1>2. CASE k \notin DOMAIN cache
  <2> DEFINE D == DOMAIN cache
             Enough(n) == Cardinality(D \ Oldest(n)) < MaxEntries \/ n = Len(order)
             First(n) == Enough(n) /\ \A m \in 0..n - 1 : ~Enough(m)
  <2>1. Evicted(k) = CHOOSE n \in 0..Len(order) : First(n)
    BY <1>2 DEF Evicted
  <2>2. /\ Len(order) \in Nat /\ IsFiniteSet(D) /\ Cardinality(D) = Len(order)
        /\ Len(order) <= MaxEntries
    BY StoreIsCounted DEF StoreInv
  <2>3. Enough(0) <=> Len(order) < MaxEntries
    <3>1. D \ Oldest(0) = D
      BY OldestOfNone
    <3> QED BY <2>2, <3>1
  <2>4. CASE Len(order) < MaxEntries
    <3>1. First(0)
      BY <2>3, <2>4
    <3>2. ASSUME NEW n \in 0..Len(order), First(n) PROVE n = 0
      <4> SUFFICES ASSUME n # 0 PROVE FALSE
        OBVIOUS
      <4>1. 0 \in 0..n - 1
        BY <2>2
      <4> HIDE DEF Enough
      <4> QED BY <2>3, <2>4, <3>2, <4>1
    <3> HIDE DEF First
    <3>3. Evicted(k) = 0
      BY <2>1, <2>2, <3>1, <3>2
    <3> QED BY <2>4, <3>3
  <2>5. CASE ~(Len(order) < MaxEntries)
    <3>1. Len(order) = MaxEntries /\ 1 \in 0..Len(order)
      BY <2>2, <2>5
    <3>2. Enough(1)
      <4>1. order[1] \in D
        BY <3>1 DEF StoreInv, Matches
      <4>2. Cardinality(D \ Oldest(1)) = Cardinality(D \ {order[1]})
        BY OldestOfNone
      <4> HIDE DEF D
      <4>3. Cardinality(D \ {order[1]}) = Len(order) - 1
        BY <2>2, <4>1, OneLess
      <4>4. Len(order) - 1 < MaxEntries
        BY <2>2, <3>1
      <4> QED BY <4>2, <4>3, <4>4
    <3>3. ~Enough(0)
      BY <2>3, <2>5
    <3> HIDE DEF Enough
    <3>4. First(1)
      <4>1. \A m \in 0..1 - 1 : m = 0
        OBVIOUS
      <4> QED BY <3>2, <3>3, <4>1
    <3>5. ASSUME NEW n \in 0..Len(order), First(n) PROVE n = 1
      <4>1. n # 0
        BY <3>3, <3>5
      <4> SUFFICES ASSUME n # 1 PROVE FALSE
        OBVIOUS
      <4>2. 1 \in 0..n - 1
        BY <2>2, <4>1
      <4> QED BY <3>2, <3>5, <4>2
    <3> HIDE DEF First
    <3>6. Evicted(k) = 1
      BY <2>1, <3>1, <3>4, <3>5
    <3> QED BY <1>2, <3>1, <3>6
  <2> QED BY <2>4, <2>5
<1> QED BY <1>1, <1>2

(* What an insertion does to the store.                                    *)
LEMMA InsertKeeps ==
  ASSUME StoreInv, NEW b \in Bodies, NEW kind \in Kinds, NEW ttl \in Lifetimes(kind),
         Insert(b, kind, ttl)
  PROVE  /\ StoreInv'
         /\ \A k \in DOMAIN cache \ DOMAIN cache' :
              /\ Len(order) = MaxEntries
              /\ k = order[1]
              /\ HashOf[b] \notin DOMAIN cache /\ HashOf[b] \in DOMAIN cache'
<1> DEFINE k == HashOf[b]
           n == Evicted(k)
           rest == SubSeq(order, n + 1, Len(order))
           kept == DOMAIN cache \ Oldest(n)
           entry == [body |-> b, kind |-> kind, age |-> 0, ttl |-> ttl]
<1>1. /\ cache' = [q \in kept \cup {k} |-> IF q = k THEN entry ELSE cache[q]]
      /\ order' = Append(Unqueued(rest, k), k)
  BY DEF Insert
<1>2. /\ Len(order) \in Nat /\ order \in Seq(Hashes) /\ Len(order) <= MaxEntries
      /\ Matches(order, DOMAIN cache) /\ AgesFall(order, cache)
  BY StoreIsCounted DEF StoreInv
<1>3. k \in Hashes
  OBVIOUS
<1>4. entry \in Entries
  <2>1. entry.age \in 0..Longest + 1
    BY LongestIsLongest
  <2> QED BY <2>1 DEF Entries
<1> HIDE DEF k, entry
<1>5. /\ rest \in Seq(Hashes) /\ Matches(rest, kept) /\ AgesFall(rest, cache)
      /\ Len(rest) = Len(order) - n
  <2>1. CASE n = 0
    <3>1. rest = order
      BY <1>2, <2>1
    <3>2. kept = DOMAIN cache
      BY <2>1, OldestOfNone
    <3> HIDE DEF rest, kept
    <3>3. Len(rest) = Len(order) - n
      BY <1>2, <2>1, <3>1
    <3> QED BY <1>2, <3>1, <3>2, <3>3
  <2>2. CASE n = 1
    <3>1. Len(order) > 0
      BY <2>2, EvictedIsOne
    <3>2. rest = SubSeq(order, 2, Len(order)) /\ kept = DOMAIN cache \ {order[1]}
      BY <2>2, OldestOfNone
    <3> HIDE DEF rest, kept
    <3>3. rest \in Seq(Hashes) /\ Len(rest) = Len(order) - 1
      BY <1>2, <3>1, <3>2, RestOfSeq
    <3>4. Matches(rest, kept)
      BY <1>2, <3>1, <3>2, MatchesRest
    <3>5. AgesFall(rest, cache)
      BY <1>2, <3>1, <3>2, AgesRest
    <3>6. Len(rest) = Len(order) - n
      BY <2>2, <3>3
    <3> QED BY <3>3, <3>4, <3>5, <3>6
  <2> QED BY <2>1, <2>2, EvictedIsOne
<1> DEFINE u == Unqueued(rest, k)
<1> HIDE DEF rest
<1>6. /\ u \in Seq(Hashes) /\ Matches(u, kept \ {k}) /\ AgesFall(u, cache)
      /\ Len(u) \in Nat /\ Len(u) <= Len(rest)
      /\ (\E i \in 1..Len(rest) : rest[i] = k) => Len(u) < Len(rest)
  BY <1>5, UnqueuedProperties, MatchesUnqueued, AgesUnqueued
<1>7. order' = Append(u, k)
  BY <1>1
<1> HIDE DEF u
<1>8. DOMAIN cache' = kept \cup {k} /\ (kept \ {k}) \cup {k} = kept \cup {k}
  BY <1>1
<1>9. order' \in Seq(Hashes) /\ Len(order') = Len(u) + 1
  BY <1>3, <1>6, <1>7, AppendProperties
<1>10. Matches(order', DOMAIN cache')
  <2>1. Matches(Append(u, k), (kept \ {k}) \cup {k})
    BY <1>3, <1>6, MatchesAppend
  <2> QED BY <1>7, <1>8, <2>1
<1>11. Len(order') <= MaxEntries
  <2>1. CASE k \in DOMAIN cache
    <3>1. n = 0 /\ k \in kept
      <4>1. n = 0
        BY <2>1, EvictedIsOne
      <4> QED BY <2>1, <4>1, OldestOfNone
    <3>2. \E i \in 1..Len(rest) : rest[i] = k
      BY <1>5, <3>1 DEF Matches
    <3> QED BY <1>2, <1>5, <1>6, <1>9, <3>1, <3>2
  <2>2. CASE k \notin DOMAIN cache
    <3>1. Len(order) - n < MaxEntries
      BY <1>2, <2>2, EvictedIsOne
    <3> QED BY <1>2, <1>5, <1>6, <1>9, <3>1
  <2> QED BY <2>1, <2>2
<1>12. \A q \in DOMAIN cache' : cache'[q] = IF q = k THEN entry ELSE cache[q]
  BY <1>1
<1>13. AgesFall(order', cache')
  <2>1. cache'[k].age = 0
    BY <1>8, <1>12 DEF entry
  <2>2. ASSUME NEW i \in 1..Len(u)
        PROVE  cache'[u[i]].age = cache[u[i]].age /\ cache[u[i]].age \in Nat
    <3>1. u[i] \in kept \ {k}
      BY <1>6 DEF Matches
    <3>2. cache'[u[i]] = cache[u[i]] /\ cache[u[i]] \in Entries
      BY <1>8, <1>12, <3>1 DEF StoreInv
    <3>3. \A e \in Entries : e.age \in Nat
      BY LongestIsLongest DEF Entries
    <3> QED BY <3>2, <3>3
  <2> QED BY <1>3, <1>6, <1>7, <2>1, <2>2, AgesAppend
<1>14. \A q \in DOMAIN cache' : cache'[q] \in Entries /\ HashOf[cache'[q].body] = q
  BY <1>4, <1>8, <1>12 DEF StoreInv, entry, k
<1>15. DOMAIN cache' \subseteq Hashes
  BY <1>3, <1>8 DEF StoreInv
<1>16. StoreInv'
  BY <1>9, <1>10, <1>11, <1>13, <1>14, <1>15 DEF StoreInv
<1>17. ASSUME NEW x \in DOMAIN cache \ DOMAIN cache'
       PROVE  /\ Len(order) = MaxEntries /\ x = order[1]
              /\ k \notin DOMAIN cache /\ k \in DOMAIN cache'
  <2>1. x \in Oldest(n)
    BY <1>8
  <2>2. n # 0
    BY <2>1, OldestOfNone
  <2>3. n = 1 /\ k \notin DOMAIN cache /\ Len(order) = MaxEntries
    BY <2>2, EvictedIsOne
  <2>4. x = order[1]
    BY <2>1, <2>3, OldestOfNone
  <2> QED BY <1>8, <2>3, <2>4
<1> QED BY <1>16, <1>17 DEF k

(* Entries change in ways that keep their kind, key and age. *)
LEMMA SameAges ==
  ASSUME StoreInv, order' = order, DOMAIN cache' = DOMAIN cache,
         \A k \in DOMAIN cache : cache'[k] \in Entries /\ cache'[k].body = cache[k].body,
         \A i, k \in DOMAIN cache :
           cache[i].age >= cache[k].age => cache'[i].age >= cache'[k].age
  PROVE  StoreInv'
<1>1. AgesFall(order', cache')
  BY DEF AgesFall, StoreInv, Matches
<1> QED BY <1>1 DEF StoreInv

-----------------------------------------------------------------------------
(* The requests.                                                           *)

RequestsInv ==
  /\ at \in [Callers -> Places]
  /\ body \in [Callers -> Bodies \cup {NoBody}]
  /\ wanted \in [Callers -> Bodies \cup {NoBody}]
  /\ \A r \in Callers : at[r] # "idle" => body[r] \in Bodies

(* The steps by what they do to the store. *)
Reads(r) ==
  \/ \E b \in Bodies : Begin(r, b)
  \/ Hit(r) \/ Similar(r) \/ NoneSimilar(r)
  \/ Responds(r) \/ Fails(r) \/ Ends(r) \/ Kept(r)

Looks(r) == (\E b \in Bodies : WarmMissing(r, b)) \/ Miss(r) \/ NotKept(r)

Writes(r) == Put(r) \/ PutError(r) \/ WarmPut(r)

LEMMA FourKinds ==
  ASSUME NEW r, Call(r)
  PROVE  Reads(r) \/ Looks(r) \/ Writes(r) \/ SetTtl(r)
BY DEF Call, Reads, Looks, Writes

LEMMA RequestsStep ==
  ASSUME RequestsInv, NEW r \in Callers, Call(r)
  PROVE  RequestsInv'
<1> USE DEF RequestsInv, Places, Done, GoOn
<1>1. CASE Reads(r)
  <2>1. ASSUME NEW b \in Bodies, Begin(r, b) PROVE RequestsInv'
    BY <2>1 DEF Begin
  <2>2. CASE Hit(r)
    BY <2>2 DEF Hit
  <2>3. CASE Similar(r)
    BY <2>3 DEF Similar
  <2>4. CASE NoneSimilar(r) \/ Responds(r) \/ Fails(r)
    BY <2>4 DEF NoneSimilar, Responds, Fails
  <2>5. CASE Ends(r) \/ Kept(r)
    BY <2>5 DEF Ends, Kept
  <2> QED BY <1>1, <2>1, <2>2, <2>3, <2>4, <2>5 DEF Reads
<1>2. CASE Looks(r)
  BY <1>2 DEF Looks, WarmMissing, Miss, NotKept
<1>3. CASE Writes(r)
  BY <1>3 DEF Writes, Put, PutError, WarmPut
<1>4. CASE SetTtl(r)
  BY <1>4 DEF SetTtl
<1> QED BY <1>1, <1>2, <1>3, <1>4, FourKinds

LEMMA MovesOne ==
  ASSUME RequestsInv, NEW r \in Callers, Call(r)
  PROVE  \A q \in Callers \ {r} : at'[q] = at[q]
BY DEF Call, Begin, WarmMissing, WarmPut, Hit, Miss, Similar, NoneSimilar, Responds, Fails,
       Ends, Put, SetTtl, Kept, NotKept, PutError, GoOn, Done, RequestsInv

LEMMA ReadsLeaveStore ==
  ASSUME NEW r \in Callers, Reads(r)
  PROVE  cache' = cache /\ order' = order
BY DEF Reads, Begin, Hit, Similar, NoneSimilar, Responds, Fails, Ends, Kept, store

(* A lookup takes out an expired entry at the most. *)
LEMMA LooksKeep ==
  ASSUME StoreInv, NEW r \in Callers, Looks(r)
  PROVE  StoreInv' /\ \A k \in DOMAIN cache \ DOMAIN cache' : Expired(cache[k])
<1>1. PICK b : Looked(b)
  BY DEF Looks, WarmMissing, Miss, NotKept
<1>2. CASE cache' = cache /\ order' = order
  BY <1>2 DEF StoreInv
<1>3. CASE RemoveEntry(HashOf[b]) /\ Expired(cache[HashOf[b]])
  BY <1>3, RemoveEntryKeeps
<1> QED BY <1>1, <1>2, <1>3 DEF Looked, store

LEMMA WritesInsert ==
  ASSUME RequestsInv, NEW r \in Callers, Writes(r)
  PROVE  \E b \in Bodies, kind \in Kinds : \E ttl \in Lifetimes(kind) : Insert(b, kind, ttl)
<1>1. body[r] \in Bodies
  BY DEF Writes, Put, PutError, WarmPut, RequestsInv
<1>2. CASE Put(r)
  <2>1. "response" \in Kinds /\ Ttl \in Lifetimes("response")
    BY DEF Kinds, Lifetimes
  <2> QED BY <1>1, <1>2, <2>1 DEF Put
<1>3. CASE PutError(r)
  <2>1. "error" \in Kinds /\ Window \in Lifetimes("error")
    BY DEF Kinds, Lifetimes
  <2> QED BY <1>1, <1>3, <2>1 DEF PutError
<1>4. CASE WarmPut(r)
  <2>1. "placeholder" \in Kinds /\ 0 \in Lifetimes("placeholder")
    BY DEF Kinds, Lifetimes
  <2> QED BY <1>1, <1>4, <2>1 DEF WarmPut
<1> QED BY <1>2, <1>3, <1>4 DEF Writes

LEMMA SetTtlKeeps ==
  ASSUME StoreInv, NEW r \in Callers, SetTtl(r)
  PROVE  StoreInv' /\ DOMAIN cache' = DOMAIN cache
<1>1. order' = order /\ DOMAIN cache' = DOMAIN cache
  BY DEF SetTtl
<1>2. ASSUME NEW k \in DOMAIN cache
      PROVE  /\ cache'[k] \in Entries
             /\ cache'[k].body = cache[k].body /\ cache'[k].age = cache[k].age
  <2>1. cache[k] \in Entries
    BY DEF StoreInv
  <2>2. CASE cache[k].kind = "response" /\ k = HashOf[body[r]]
    <3>1. cache'[k] = [cache[k] EXCEPT !.ttl = Override]
      BY <2>2 DEF SetTtl
    <3>2. Override \in Lifetimes("response")
      BY DEF Lifetimes
    <3> QED BY <2>1, <2>2, <3>1, <3>2 DEF Entries
  <2>3. CASE ~(cache[k].kind = "response" /\ k = HashOf[body[r]])
    BY <2>1, <2>3 DEF SetTtl
  <2> QED BY <2>2, <2>3
<1> QED BY <1>1, <1>2, SameAges

LEMMA TickKeeps ==
  ASSUME StoreInv, Tick
  PROVE  StoreInv' /\ DOMAIN cache' = DOMAIN cache
<1>1. order' = order /\ DOMAIN cache' = DOMAIN cache
  BY DEF Tick
<1>2. ASSUME NEW k \in DOMAIN cache
      PROVE  /\ cache'[k] \in Entries /\ cache'[k].body = cache[k].body
             /\ cache[k].age \in 0..Longest + 1
             /\ cache'[k].age = IF cache[k].age <= Longest THEN cache[k].age + 1
                                                           ELSE cache[k].age
  <2>1. PICK kind \in Kinds :
          cache[k] \in [body : Bodies, kind : {kind}, age : 0..Longest + 1,
                        ttl : Lifetimes(kind)]
    BY DEF StoreInv, Entries
  <2>2. CASE cache[k].age <= Longest
    <3>1. cache'[k] = [cache[k] EXCEPT !.age = @ + 1]
      BY <2>2 DEF Tick
    <3>2. cache[k].age + 1 \in 0..Longest + 1
      BY <2>1, <2>2, LongestIsLongest
    <3> QED BY <2>1, <2>2, <3>1, <3>2 DEF Entries
  <2>3. CASE ~(cache[k].age <= Longest)
    <3>1. cache'[k] = cache[k]
      BY <2>3 DEF Tick
    <3> QED BY <2>1, <2>3, <3>1 DEF Entries
  <2> QED BY <2>2, <2>3
<1>3. ASSUME NEW i \in DOMAIN cache, NEW k \in DOMAIN cache, cache[i].age >= cache[k].age
      PROVE  cache'[i].age >= cache'[k].age
  BY <1>2, <1>3, LongestIsLongest
<1> QED BY <1>1, <1>2, <1>3, SameAges

(* What a request's step does to the store. *)
LEMMA CallKeeps ==
  ASSUME StoreInv, RequestsInv, NEW r \in Callers, Call(r)
  PROVE  /\ StoreInv'
         /\ \A k \in DOMAIN cache \ DOMAIN cache' :
              \/ Expired(cache[k])
              \/ /\ Cardinality(DOMAIN cache) = MaxEntries
                 /\ k = Head(order)
                 /\ DOMAIN cache' \ DOMAIN cache # {}
<1>1. CASE Reads(r)
  <2>1. cache' = cache /\ order' = order
    BY <1>1, ReadsLeaveStore
  <2> QED BY <2>1 DEF StoreInv
<1>2. CASE Looks(r)
  BY <1>2, LooksKeep
<1>3. CASE Writes(r)
  <2>1. PICK b \in Bodies, kind \in Kinds :
          \E ttl \in Lifetimes(kind) : Insert(b, kind, ttl)
    BY <1>3, WritesInsert
  <2>2. PICK ttl \in Lifetimes(kind) : Insert(b, kind, ttl)
    BY <2>1
  <2>3. /\ StoreInv'
        /\ \A k \in DOMAIN cache \ DOMAIN cache' :
             /\ Len(order) = MaxEntries
             /\ k = order[1]
             /\ HashOf[b] \notin DOMAIN cache /\ HashOf[b] \in DOMAIN cache'
    BY <2>2, InsertKeeps
  <2>4. Cardinality(DOMAIN cache) = Len(order) /\ Head(order) = order[1]
    BY StoreIsCounted DEF StoreInv
  <2> QED BY <2>3, <2>4
<1>4. CASE SetTtl(r)
  BY <1>4, SetTtlKeeps
<1> QED BY <1>1, <1>2, <1>3, <1>4, FourKinds

(* The store's invariant and the types of the requests, together. *)
LEMMA StoreInvariance == CacheSpec => [](StoreInv /\ RequestsInv)
<1>1. CacheInit => StoreInv /\ RequestsInv
  <2> SUFFICES ASSUME CacheInit PROVE StoreInv /\ RequestsInv
    OBVIOUS
  <2>1. DOMAIN cache = {} /\ order = << >> /\ Len(order) = 0
    BY DEF CacheInit
  <2>2. StoreInv
    BY <2>1 DEF StoreInv, Matches, AgesFall
  <2>3. RequestsInv
    BY DEF CacheInit, RequestsInv, Places
  <2> QED BY <2>2, <2>3
<1>2. ASSUME StoreInv, RequestsInv, [CacheNext]_cacheVars
      PROVE  (StoreInv /\ RequestsInv)'
  <2>1. CASE UNCHANGED cacheVars
    BY <1>2, <2>1 DEF cacheVars, store, requests, StoreInv, RequestsInv
  <2>2. ASSUME NEW r \in Callers, Call(r) PROVE (StoreInv /\ RequestsInv)'
    BY <1>2, <2>2, CallKeeps, RequestsStep
  <2>3. ASSUME NEW k \in Hashes, RemoveKey(k) PROVE (StoreInv /\ RequestsInv)'
    <3>1. StoreInv'
      BY <1>2, <2>3, RemoveEntryKeeps DEF RemoveKey
    <3>2. RequestsInv'
      BY <1>2, <2>3 DEF RemoveKey, requests, RequestsInv
    <3> QED BY <3>1, <3>2
  <2>4. CASE Tick
    <3>1. RequestsInv'
      BY <1>2, <2>4 DEF Tick, requests, RequestsInv
    <3> QED BY <1>2, <2>4, <3>1, TickKeeps
  <2> QED BY <1>2, <2>1, <2>2, <2>3, <2>4 DEF CacheNext
<1> QED BY <1>1, <1>2, PTL DEF CacheSpec

(* For any cap, lifetimes, keys and requests, queue and map stay the same  *)
(* set and the front of the queue is the oldest entry.                     *)
(* (InnerCache::insert, remove_expired, InMemoryStore::remove)             *)
THEOREM QueueMatchesMap == CacheSpec => []QueueInv
<1>1. StoreInv /\ RequestsInv => QueueInv
  <2> SUFFICES ASSUME StoreInv, RequestsInv PROVE QueueInv
    OBVIOUS
  <2>1. CacheTypeOK
    BY DEF CacheTypeOK, StoreInv, RequestsInv
  <2>2. OrderMatchesMap
    <3>1. {order[i] : i \in 1..Len(order)} = DOMAIN cache
      <4>1. \A i \in 1..Len(order) : order[i] \in DOMAIN cache
        BY DEF StoreInv, Matches
      <4>2. \A k \in DOMAIN cache : \E i \in 1..Len(order) : order[i] = k
        BY DEF StoreInv, Matches
      <4> QED BY <4>1, <4>2
    <3> QED BY <3>1, StoreIsCounted DEF OrderMatchesMap, StoreInv
  <2>3. OldestFirst
    BY DEF OldestFirst, AgesFall, StoreInv
  <2> QED BY <2>1, <2>2, <2>3 DEF QueueInv
<1> QED BY <1>1, StoreInvariance, PTL

(* Nobody is answered with an entry stored for another body, nor with the  *)
(* placeholder of a warmed slot.  (get_if_valid, CacheService::call, warm) *)
THEOREM HitsAreOwn == CacheSpec => HitsMatch
<1>1. ASSUME StoreInv, RequestsInv, [CacheNext]_cacheVars, NEW r \in Callers, Answered(r)
      PROVE  /\ cache[HashOf[wanted[r]]].body = wanted[r]
             /\ cache[HashOf[wanted[r]]].kind # "placeholder"
  <2>1. at'[r] # at[r]
    BY <1>1 DEF Answered
  <2>2. Call(r)
    <3>1. ~UNCHANGED at
      BY <2>1
    <3>2. PICK q \in Callers : Call(q)
      BY <1>1, <3>1 DEF CacheNext, RemoveKey, Tick, requests, cacheVars
    <3>3. \A p \in Callers \ {q} : at'[p] = at[p]
      BY <1>1, <3>2, MovesOne
    <3> QED BY <2>1, <3>2, <3>3
  <2>3. Hit(r)
    BY <1>1, <2>2 DEF Answered, Call, Begin, WarmMissing, WarmPut, Miss, Similar, NoneSimilar,
       Responds, Fails, Ends, Put, SetTtl, Kept, NotKept, PutError, GoOn, RequestsInv
  <2> DEFINE e == cache[HashOf[wanted[r]]]
  <2>4. HashOf[wanted[r]] \in DOMAIN cache /\ e.body = wanted[r] /\ ~Expired(e)
    BY <2>3 DEF Hit, Valid
  <2>5. e \in Entries
    BY <1>1, <2>4 DEF StoreInv
  <2>6. e.kind # "placeholder"
    <3> HIDE DEF e
    <3> SUFFICES ASSUME e.kind = "placeholder" PROVE FALSE
      OBVIOUS
    <3>1. e.ttl \in {0} /\ e.age \in 0..Longest + 1
      BY <2>5 DEF Entries, Lifetimes, Kinds
    <3> QED BY <2>4, <3>1, LongestIsLongest DEF Expired
  <2> QED BY <2>4, <2>6
<1>2. StoreInv /\ RequestsInv /\ [CacheNext]_cacheVars =>
        [\A r \in Callers : Answered(r) =>
           /\ cache[HashOf[wanted[r]]].body = wanted[r]
           /\ cache[HashOf[wanted[r]]].kind # "placeholder"]_cacheVars
  BY <1>1
<1> QED BY <1>2, StoreInvariance, PTL DEF CacheSpec, HitsMatch

(* A live entry gives way only to a new key in a full cache, as its oldest *)
(* entry, or is removed by its key.  (InnerCache::insert)                  *)
THEOREM LiveEntriesStay == CacheSpec => LiveEntriesKept
<1>1. ASSUME StoreInv, RequestsInv, [CacheNext]_cacheVars,
             NEW k \in DOMAIN cache \ DOMAIN cache'
      PROVE  \/ Expired(cache[k])
             \/ UNCHANGED requests
             \/ /\ Cardinality(DOMAIN cache) = MaxEntries
                /\ k = Head(order)
                /\ DOMAIN cache' \ DOMAIN cache # {}
  <2>1. CASE \E r \in Callers : Call(r)
    BY <1>1, <2>1, CallKeeps
  <2>2. CASE ~\E r \in Callers : Call(r)
    BY <1>1, <2>2 DEF CacheNext, RemoveKey, Tick, cacheVars
  <2> QED BY <2>1, <2>2
<1>2. StoreInv /\ RequestsInv /\ [CacheNext]_cacheVars =>
        [\A k \in DOMAIN cache \ DOMAIN cache' :
           \/ Expired(cache[k])
           \/ UNCHANGED requests
           \/ /\ Cardinality(DOMAIN cache) = MaxEntries
              /\ k = Head(order)
              /\ DOMAIN cache' \ DOMAIN cache # {}]_cacheVars
  BY <1>1
<1> QED BY <1>2, StoreInvariance, PTL DEF CacheSpec, LiveEntriesKept

-----------------------------------------------------------------------------
(* The singleflight layer. *)
USE DEF Labels, Resting, Leading, At, Goto
USE NoneAssumption, AnswerAssumption

(* The values the layer's state ranges over. *)
LEMMA Typing == Spec => []TypeOK
<1>1. Init => TypeOK
  BY DEF Init, TypeOK
<1>2. ASSUME TypeOK, [Next]_vars PROVE TypeOK'
  <2> USE <1>2 DEF TypeOK
  <2>1. CASE UNCHANGED vars
    BY <2>1 DEF vars
  <2>2. ASSUME NEW r \in Requests, Join(r) PROVE TypeOK'
    BY <2>2 DEF Join, Lead, Follow
  <2>3. ASSUME NEW r \in Requests, Complete(r) PROVE TypeOK'
    BY <2>3 DEF Complete, Send, Remove, DropLeader, CloseChannel
  <2>4. ASSUME NEW r \in Requests, Receive(r) \/ DropFollower(r) PROVE TypeOK'
    BY <2>4 DEF Receive, DropFollower, Leave
  <2> QED BY <2>1, <2>2, <2>3, <2>4 DEF Next
<1> QED BY <1>1, <1>2, PTL DEF Spec

(* Entries and channels belong to running leaders.                         *)
(* (join, complete, LeaderDropGuard)                                       *)
LEMMA RoundInvariance == Spec => []RoundInv
<1>1. Init => RoundInv
  BY DEF Init, RoundInv, EntryHasLeader, FollowerHasLeader, SentToAll
<1>2. ASSUME TypeOK, RoundInv, [Next]_vars PROVE RoundInv'
  <2> USE <1>2 DEF TypeOK, RoundInv, EntryHasLeader, FollowerHasLeader, SentToAll
  <2>1. CASE UNCHANGED vars
    BY <2>1 DEF vars
  <2>2. ASSUME NEW r \in Requests, NEW k \in Keys, Lead(r, k) PROVE RoundInv'
    BY <2>2 DEF Lead
  <2>3. ASSUME NEW r \in Requests, NEW k \in Keys, Follow(r, k) PROVE RoundInv'
    BY <2>3 DEF Follow
  <2>4. ASSUME NEW r \in Requests, NEW v \in Outcomes, Send(r, v) PROVE RoundInv'
    BY <2>4 DEF Send
  <2>5. ASSUME NEW r \in Requests, Remove(r) \/ DropLeader(r) PROVE RoundInv'
    <3>1. in_flight' = [in_flight EXCEPT ![key[r]] = None] /\ CloseChannel(r)
          /\ pc' = [pc EXCEPT ![r] = "idle"] /\ key' = key /\ pc[r] \in Leading
      BY <2>5 DEF Remove, DropLeader
    <3>2. EntryHasLeader'
      BY <3>1
    <3>3. FollowerHasLeader'
      BY <3>1 DEF CloseChannel
    <3>4. SentToAll'
      <4>1. past' = past
        BY <2>5 DEF Remove, DropLeader
      <4>2. \A f \in Requests : chan'[f] # None => chan'[f] = chan[f] /\ chan[f] # r
        BY <3>1 DEF CloseChannel
      <4>3. \A f \in Requests : chan'[f] # None => recv'[f] = recv[f]
        BY <3>1 DEF CloseChannel
      <4> QED BY <3>1, <4>1, <4>2, <4>3
    <3> QED BY <3>2, <3>3, <3>4
  <2>6. ASSUME NEW r \in Requests, Receive(r) \/ DropFollower(r) PROVE RoundInv'
    BY <2>6 DEF Receive, DropFollower, Leave
  <2> QED BY <2>1, <2>2, <2>3, <2>4, <2>5, <2>6 DEF Next, Join, Complete
<1> QED BY <1>1, <1>2, Typing, PTL DEF Spec

(* One upstream call per key at a time, on every runtime.                  *)
(* (InMemorySingleflight::join)                                            *)
THEOREM OneLeaderPerKey == Spec => []OneLeader
<1>1. RoundInv => OneLeader
  BY DEF RoundInv, EntryHasLeader, OneLeader
<1> QED BY <1>1, RoundInvariance, PTL

(* A result reaches every follower that had subscribed when it was sent, on *)
(* every runtime.  (complete, LeaderDropGuard)                              *)
THEOREM NoSpuriousClose == Spec => ClosedOnlyByDrop
<1>1. ASSUME TypeOK, RoundInv, Next, NEW f \in Requests,
             recv[f] = Empty, recv'[f] = Closed
      PROVE  pc[chan[f]] = "upstream" \/ f \in past
  <2> USE <1>1 DEF TypeOK
  <2>1. ASSUME NEW r \in Requests, Join(r) PROVE FALSE
    BY <2>1 DEF Join, Lead, Follow
  <2>2. ASSUME NEW r \in Requests, NEW v \in Outcomes, Send(r, v) PROVE FALSE
    BY <2>2 DEF Send
  <2>3. ASSUME NEW r \in Requests, Remove(r) PROVE f \in past
    BY <2>3 DEF Remove, CloseChannel, RoundInv, SentToAll
  <2>4. ASSUME NEW r \in Requests, DropLeader(r) PROVE pc[chan[f]] = "upstream"
    BY <2>4 DEF DropLeader, CloseChannel
  <2>5. ASSUME NEW r \in Requests, Receive(r) \/ DropFollower(r) PROVE FALSE
    BY <2>5 DEF Receive, DropFollower, Leave
  <2> QED BY <2>1, <2>2, <2>3, <2>4, <2>5 DEF Next, Complete
<1>2. TypeOK /\ RoundInv /\ [Next]_vars =>
        [\A f \in Requests :
           recv[f] = Empty /\ recv'[f] = Closed =>
             pc[chan[f]] = "upstream" \/ f \in past]_vars
  BY <1>1
<1> QED BY <1>2, Typing, RoundInvariance, PTL DEF Spec, ClosedOnlyByDrop

-----------------------------------------------------------------------------

(* The section between send and remove is not entered by anybody else. *)
LEMMA SentInvariance ==
  ASSUME Preempt = {}
  PROVE  Spec => []SentInv
<1>1. Init => SentInv
  BY DEF Init, SentInv
<1>2. ASSUME TypeOK, RoundInv, SentInv, [Next]_vars PROVE SentInv'
  <2> USE <1>2, Preempt = {} DEF TypeOK, SentInv, Turn
  <2>1. CASE UNCHANGED vars
    BY <2>1 DEF vars
  <2>2. ASSUME NEW r \in Requests, Join(r) PROVE SentInv'
    <3>1. pc'[r] # "sent" /\ \A q \in Requests \ {r} : pc'[q] \in Resting
      BY <2>2 DEF Join, Lead, Follow
    <3> QED BY <3>1
  <2>3. ASSUME NEW r \in Requests, NEW v \in Outcomes, Send(r, v) PROVE SentInv'
    BY <2>3 DEF Send
  <2>4. ASSUME NEW r \in Requests, Remove(r) \/ DropLeader(r) PROVE SentInv'
    BY <2>4 DEF Remove, DropLeader, CloseChannel
  <2>5. ASSUME NEW r \in Requests, Receive(r) \/ DropFollower(r) PROVE SentInv'
    BY <2>5 DEF Receive, DropFollower, Leave
  <2> QED BY <2>1, <2>2, <2>3, <2>4, <2>5 DEF Next, Complete
<1> QED BY <1>1, <1>2, Typing, RoundInvariance, PTL DEF Spec

-----------------------------------------------------------------------------

(* What the refinement shows of a leader's channel: its subscribers that   *)
(* have received nothing are the waiters of its key.                       *)
LEMMA WaitersSubscribed ==
  ASSUME TypeOK, RoundInv, SentInv, NEW r \in Requests, pc[r] = "upstream",
         NEW f \in Requests
  PROVE chan[f] = r <=> StageOf(f) = "waiting" /\ KeyOf(f) = key[r]
BY DEF TypeOK, RoundInv, EntryHasLeader, FollowerHasLeader, SentInv, StageOf, KeyOf

(* The layer implements SharedCall: callers of a key share one call, which *)
(* ends for all of them at once.  (SingleflightService::call)              *)
THEOREM SharesCalls ==
  ASSUME Preempt = {}
  PROVE  Spec => ImplementsSharedCall
<1>1. Init => Shared!Init
  BY DEF Init, Shared!Init, StageOf, KeyOf, AnswerTo
<1>2. ASSUME TypeOK, RoundInv, SentInv, [Next]_vars
      PROVE [Shared!Next]_(Shared!vars)
  <2> USE <1>2, Preempt = {}
  <2> USE DEF TypeOK
  <2>1. CASE UNCHANGED vars
    BY <2>1 DEF vars, Shared!vars, StageOf, KeyOf, AnswerTo
  <2>2. ASSUME NEW r \in Requests, NEW k \in Keys, Lead(r, k)
        PROVE Shared!Start(r, k)
    <3>1. ~Shared!Running(k)
      BY <2>2 DEF Lead, Shared!Running, StageOf, KeyOf, RoundInv, EntryHasLeader
    <3>2. /\ StageOf(r) = "idle" /\ StageOf(r)' = "running" /\ KeyOf(r)' = k
          /\ \A q \in Requests \ {r} : StageOf(q)' = StageOf(q) /\ KeyOf(q)' = KeyOf(q)
          /\ \A q \in Requests : AnswerTo(q)' = AnswerTo(q)
      BY <2>2 DEF Lead, StageOf, KeyOf, AnswerTo
    <3> QED BY <3>1, <3>2 DEF Shared!Start
  <2>3. ASSUME NEW r \in Requests, NEW k \in Keys, Follow(r, k)
        PROVE Shared!Await(r, k)
    <3>1. Shared!Running(k)
      <4> DEFINE l == in_flight[k]
      <4>1. l \in Requests /\ pc[l] = "upstream" /\ key[l] = k
        BY <2>3 DEF Follow, Turn, RoundInv, EntryHasLeader
      <4>2. StageOf(l) = "running" /\ KeyOf(l) = k
        BY <4>1 DEF StageOf, KeyOf
      <4> QED BY <4>1, <4>2 DEF Shared!Running
    <3>2. /\ StageOf(r) = "idle" /\ StageOf(r)' = "waiting" /\ KeyOf(r)' = k
          /\ \A q \in Requests \ {r} : StageOf(q)' = StageOf(q) /\ KeyOf(q)' = KeyOf(q)
          /\ \A q \in Requests : AnswerTo(q)' = AnswerTo(q)
      BY <2>3 DEF Follow, StageOf, KeyOf, AnswerTo, RoundInv, FollowerHasLeader
    <3> QED BY <3>1, <3>2 DEF Shared!Await
  <2>4. ASSUME NEW r \in Requests, NEW v \in Outcomes \cup {Closed}, pc[r] = "upstream",
               \A q \in Requests :
                 /\ pc'[q] \in Labels /\ key'[q] = key[q]
                 /\ q # r => pc'[q] = pc[q]
                 /\ recv'[q] = IF chan[q] = r THEN v ELSE recv[q],
               pc'[r] \in {"sent", "idle"}
        PROVE Shared!End(r, v)
    <3>0. KeyOf(r) = key[r]
      BY <2>4 DEF KeyOf
    <3>1. \A f \in Requests : f \in Shared!Waiters(KeyOf(r)) <=> chan[f] = r
      BY <2>4, <3>0, WaitersSubscribed DEF Shared!Waiters
    <3>2. \A f \in Requests : chan[f] = r => f # r /\ pc[f] = "follow"
      BY <2>4 DEF RoundInv, FollowerHasLeader
    <3>3. /\ StageOf(r) = "running" /\ StageOf(r)' = "idle" /\ KeyOf(r)' = None
          /\ \A q \in Requests \ {r} : KeyOf(q)' = KeyOf(q)
      BY <2>4 DEF StageOf, KeyOf
    <3>4. ASSUME NEW q \in Requests, chan[q] = r
          PROVE  StageOf(q)' = "answered" /\ AnswerTo(q)' = v
      <4>1. pc'[q] = "follow" /\ recv'[q] = v /\ v # Empty
        BY <2>4, <3>2, <3>4
      <4> QED BY <4>1 DEF StageOf, AnswerTo
    <3>5. ASSUME NEW q \in Requests \ {r}, chan[q] # r
          PROVE  StageOf(q)' = StageOf(q) /\ AnswerTo(q)' = AnswerTo(q)
      <4>1. pc'[q] = pc[q] /\ recv'[q] = recv[q]
        BY <2>4, <3>5
      <4> QED BY <4>1 DEF StageOf, AnswerTo
    <3>6. AnswerTo(r)' = AnswerTo(r)
      BY <2>4 DEF AnswerTo
    <3>7. ASSUME NEW q \in Requests
          PROVE  StageOf(q)' = IF q = r THEN "idle"
                               ELSE IF q \in Shared!Waiters(KeyOf(r)) THEN "answered"
                               ELSE StageOf(q)
      BY <3>1, <3>2, <3>3, <3>4, <3>5
    <3>8. ASSUME NEW q \in Requests
          PROVE  AnswerTo(q)' = IF q \in Shared!Waiters(KeyOf(r)) THEN v ELSE AnswerTo(q)
      BY <3>1, <3>2, <3>4, <3>5, <3>6
    <3> QED BY <3>3, <3>7, <3>8 DEF Shared!End
  <2>5. ASSUME NEW r \in Requests, NEW v \in Outcomes, Send(r, v)
        PROVE Shared!End(r, v)
    BY <2>4, <2>5 DEF Send
  <2>6. ASSUME NEW r \in Requests, DropLeader(r) PROVE Shared!End(r, Closed)
    <3>1. \A q \in Requests : chan[q] = r => recv[q] = Empty
      BY <2>6 DEF DropLeader, RoundInv, FollowerHasLeader
    <3> QED BY <2>4, <2>6, <3>1 DEF DropLeader, CloseChannel
  <2>7. ASSUME NEW r \in Requests, Remove(r) PROVE UNCHANGED Shared!vars
    <3>1. \A f \in Requests : recv'[f] = recv[f]
      BY <2>7 DEF Remove, CloseChannel, SentInv
    <3>2. \A q \in Requests : pc'[q] = pc[q] \/ (pc[q] = "sent" /\ pc'[q] = "idle")
      BY <2>7 DEF Remove
    <3>3. key' = key
      BY <2>7 DEF Remove
    <3>4. \A q \in Requests :
            StageOf(q)' = StageOf(q) /\ KeyOf(q)' = KeyOf(q) /\ AnswerTo(q)' = AnswerTo(q)
      BY <3>1, <3>2, <3>3 DEF StageOf, KeyOf, AnswerTo
    <3> QED BY <3>4 DEF Shared!vars
  <2>8. ASSUME NEW r \in Requests, Receive(r) \/ DropFollower(r)
        PROVE Shared!Leave(r)
    <3>1. pc[r] = "follow" /\ pc' = [pc EXCEPT ![r] = "idle"] /\ key' = key
          /\ recv' = [recv EXCEPT ![r] = Empty]
      BY <2>8 DEF Receive, DropFollower, Leave
    <3>2. StageOf(r) \in {"waiting", "answered"}
      BY <3>1 DEF StageOf
    <3>3. StageOf(r)' = "idle" /\ KeyOf(r)' = None /\ AnswerTo(r)' = None
      BY <3>1 DEF StageOf, KeyOf, AnswerTo
    <3>4. \A q \in Requests \ {r} :
            StageOf(q)' = StageOf(q) /\ KeyOf(q)' = KeyOf(q) /\ AnswerTo(q)' = AnswerTo(q)
      BY <3>1 DEF StageOf, KeyOf, AnswerTo
    <3> QED BY <3>2, <3>3, <3>4 DEF Shared!Leave
  <2> QED
    BY <2>1, <2>2, <2>3, <2>5, <2>6, <2>7, <2>8
       DEF Next, Join, Complete, Shared!Next
<1> QED BY <1>1, <1>2, Typing, RoundInvariance, SentInvariance, Preempt = {}, PTL
        DEF Spec, ImplementsSharedCall, Shared!Spec
=============================================================================
