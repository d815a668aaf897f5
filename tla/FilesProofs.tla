----------------------------- MODULE FilesProofs -----------------------------
(***************************************************************************)
(* RecordFiles for records with any fields, any number of them and every   *)
(* choice of settings; then DurableFile for every number of saves and      *)
(* faults.                                                                 *)
(***************************************************************************)
EXTENDS RecordFiles, DurableFile, FiniteSetTheorems, SequenceTheorems, TLAPS

-----------------------------------------------------------------------------
(* A finite set of numbers in ascending order.                             *)

Numbers(S) == S \subseteq Nat /\ IsFiniteSet(S)

Below(S, x) == {g \in S : g < x}

USE DEF Numbers

LEMMA RankBounds ==
    ASSUME NEW S, Numbers(S), NEW x \in S
    PROVE  Cardinality(Below(S, x)) \in 0 .. Cardinality(S) - 1
<1>1. Below(S, x) \in SUBSET S /\ x \notin Below(S, x)
  BY DEF Below
<1>2. Below(S, x) # S
  BY <1>1
<1>3. /\ IsFiniteSet(Below(S, x)) /\ Cardinality(Below(S, x)) <= Cardinality(S)
      /\ Cardinality(S) # Cardinality(Below(S, x))
  BY <1>1, <1>2, FS_Subset
<1>4. Cardinality(S) \in Nat /\ Cardinality(Below(S, x)) \in Nat
  BY <1>3, FS_CardinalityType
<1> QED BY <1>3, <1>4

LEMMA RankGrows ==
    ASSUME NEW S, Numbers(S), NEW x \in S, NEW y \in S, x < y
    PROVE  Cardinality(Below(S, x)) < Cardinality(Below(S, y))
<1>1. Below(S, y) \subseteq Nat /\ IsFiniteSet(Below(S, y)) /\ x \in Below(S, y)
  <2>1. Below(S, y) \in SUBSET S
    BY DEF Below
  <2>2. IsFiniteSet(Below(S, y))
    BY <2>1, FS_Subset
  <2>3. x \in Below(S, y)
    BY DEF Below
  <2> QED BY <2>1, <2>2, <2>3
<1>2. Below(Below(S, y), x) = Below(S, x)
  <2>1. \A g \in S : g < x => g < y
    <3> SUFFICES ASSUME NEW g \in S, g < x PROVE g < y
      OBVIOUS
    <3>1. g \in Nat /\ x \in Nat /\ y \in Nat
      OBVIOUS
    <3> QED BY <3>1
  <2> QED BY <2>1 DEF Below
<1>3. Cardinality(Below(S, x)) \in 0 .. Cardinality(Below(S, y)) - 1
  BY <1>1, <1>2, RankBounds
<1>4. Cardinality(Below(S, y)) \in Nat
  BY <1>1, FS_CardinalityType
<1> QED BY <1>3, <1>4

LEMMA RankTells ==
    ASSUME NEW S, Numbers(S), NEW x \in S, NEW y \in S,
           Cardinality(Below(S, x)) = Cardinality(Below(S, y))
    PROVE  x = y
<1>1. Cardinality(Below(S, x)) \in Nat /\ Cardinality(Below(S, y)) \in Nat
  <2>1. Cardinality(S) \in Nat
    BY FS_CardinalityType
  <2>2. /\ Cardinality(Below(S, x)) \in 0 .. Cardinality(S) - 1
        /\ Cardinality(Below(S, y)) \in 0 .. Cardinality(S) - 1
    BY RankBounds
  <2> QED BY <2>1, <2>2
<1>2. ~ (x < y) /\ ~ (y < x)
  <2>1. x < y => Cardinality(Below(S, x)) < Cardinality(Below(S, y))
    BY RankGrows
  <2>2. y < x => Cardinality(Below(S, y)) < Cardinality(Below(S, x))
    BY RankGrows
  <2> QED BY <1>1, <2>1, <2>2
<1> QED BY <1>2

LEMMA RankTaken ==
    ASSUME NEW S, Numbers(S), NEW i \in 1 .. Cardinality(S)
    PROVE  \E x \in S : Cardinality(Below(S, x)) = i - 1
<1> DEFINE n == Cardinality(S)
           ranks == 0 .. n - 1
           rank == [x \in S |-> Cardinality(Below(S, x))]
<1>1. n \in Nat
  BY FS_CardinalityType
<1>2. IsFiniteSet(ranks) /\ Cardinality(ranks) = n
  <2>1. IsFiniteSet(0 .. n - 1)
        /\ Cardinality(0 .. n - 1) = IF 0 > n - 1 THEN 0 ELSE (n - 1) - 0 + 1
    <3>1. 0 \in Int /\ n - 1 \in Int
      BY <1>1
    <3> HIDE DEF n
    <3> QED BY <3>1, FS_Interval
  <2> QED BY <1>1, <2>1
<1>3. rank \in [S -> ranks]
  BY RankBounds
<1>4. \A x, y \in S : rank[x] = rank[y] => x = y
  <2> SUFFICES ASSUME NEW x \in S, NEW y \in S, rank[x] = rank[y] PROVE x = y
    OBVIOUS
  <2>1. Cardinality(Below(S, x)) = Cardinality(Below(S, y))
    OBVIOUS
  <2> QED BY <2>1, RankTells
<1>5. rank \in Injection(S, ranks)
  BY <1>3, <1>4 DEF Injection, IsInjective
<1>6. rank \in Surjection(S, ranks)
  BY <1>2, <1>5, FS_Injection
<1>7. i - 1 \in ranks
  BY <1>1
<1>8. \E x \in S : rank[x] = i - 1
  BY <1>6, <1>7 DEF Surjection
<1> QED BY <1>8

(* Sorted lists each member once, in ascending order: position i has the   *)
(* member that i - 1 others are below.                                     *)
LEMMA SortedAt ==
    ASSUME NEW S, Numbers(S)
    PROVE  /\ Cardinality(S) \in Nat /\ DOMAIN Sorted(S) = 1 .. Cardinality(S)
           /\ Sorted(S) \in [1 .. Cardinality(S) -> S]
           /\ \A i \in 1 .. Cardinality(S) : Cardinality(Below(S, Sorted(S)[i])) = i - 1
<1>1. Cardinality(S) \in Nat
  BY FS_CardinalityType
<1>2. Sorted(S) = [i \in 1 .. Cardinality(S) |->
                      CHOOSE f \in S : Cardinality(Below(S, f)) = i - 1]
  BY DEF Sorted, Below
<1>3. ASSUME NEW i \in 1 .. Cardinality(S)
      PROVE  Sorted(S)[i] \in S /\ Cardinality(Below(S, Sorted(S)[i])) = i - 1
  <2>1. \E x \in S : Cardinality(Below(S, x)) = i - 1
    BY RankTaken
  <2> DEFINE c == CHOOSE f \in S : Cardinality(Below(S, f)) = i - 1
  <2>2. c \in S /\ Cardinality(Below(S, c)) = i - 1
    BY <2>1
  <2>3. Sorted(S)[i] = c
    BY <1>2
  <2> QED BY <2>2, <2>3
<1> QED BY <1>1, <1>2, <1>3

LEMMA SortedIs ==
    ASSUME NEW S, Numbers(S), NEW x \in S, NEW i \in Int,
           Cardinality(Below(S, x)) = i - 1
    PROVE  i \in 1 .. Cardinality(S) /\ Sorted(S)[i] = x
<1>1. Cardinality(S) \in Nat /\ Cardinality(Below(S, x)) \in 0 .. Cardinality(S) - 1
  BY RankBounds, FS_CardinalityType
<1>2. i \in 1 .. Cardinality(S)
  BY <1>1
<1>3. Sorted(S)[i] \in S /\ Cardinality(Below(S, Sorted(S)[i])) = i - 1
  BY <1>2, SortedAt
<1>4. Sorted(S)[i] = x
  BY <1>3, RankTells
<1> QED BY <1>2, <1>4

LEMMA SortedProperties ==
    ASSUME NEW S, Numbers(S)
    PROVE  /\ Cardinality(S) \in Nat /\ DOMAIN Sorted(S) = 1 .. Cardinality(S)
           /\ Sorted(S) \in [1 .. Cardinality(S) -> S]
           /\ \A i, j \in 1 .. Cardinality(S) : i < j => Sorted(S)[i] < Sorted(S)[j]
           /\ \A x \in S : \E i \in 1 .. Cardinality(S) : Sorted(S)[i] = x
<1>1. ASSUME NEW i \in 1 .. Cardinality(S), NEW j \in 1 .. Cardinality(S), i < j
      PROVE  Sorted(S)[i] < Sorted(S)[j]
  <2> DEFINE x == Sorted(S)[i]
             y == Sorted(S)[j]
  <2>1. /\ x \in S /\ y \in S
        /\ Cardinality(Below(S, x)) = i - 1 /\ Cardinality(Below(S, y)) = j - 1
    BY SortedAt
  <2>2. x \in Nat /\ y \in Nat
    BY <2>1
  <2> HIDE DEF x, y
  <2>3. ~ (y < x)
    <3>1. y < x => Cardinality(Below(S, y)) < Cardinality(Below(S, x))
      BY <2>1, RankGrows
    <3> QED BY <1>1, <2>1, <3>1
  <2>4. x # y
    BY <1>1, <2>1
  <2>5. x < y
    BY <2>2, <2>3, <2>4
  <2> QED BY <2>5 DEF x, y
<1>2. ASSUME NEW x \in S PROVE \E i \in 1 .. Cardinality(S) : Sorted(S)[i] = x
  <2> DEFINE i == Cardinality(Below(S, x)) + 1
  <2>1. Cardinality(Below(S, x)) \in Int
    <3>1. Cardinality(S) \in Nat
      BY FS_CardinalityType
    <3>2. Cardinality(Below(S, x)) \in 0 .. Cardinality(S) - 1
      BY RankBounds
    <3> QED BY <3>1, <3>2
  <2>2. i \in Int /\ Cardinality(Below(S, x)) = i - 1
    BY <2>1
  <2> HIDE DEF i
  <2> QED BY <2>2, SortedIs
<1> QED BY <1>1, <1>2, SortedAt

(* There is no other such list.                                            *)
LEMMA SortedUnique ==
    ASSUME NEW S, Numbers(S),
           NEW n \in Nat, NEW e \in [1 .. n -> S],
           \A i, j \in 1 .. n : i < j => e[i] < e[j],
           \A x \in S : \E i \in 1 .. n : e[i] = x
    PROVE  n = Cardinality(S) /\ Sorted(S) = e
<1>1. \A i, j \in 1 .. n : e[i] = e[j] => i = j
  <2> SUFFICES ASSUME NEW i \in 1 .. n, NEW j \in 1 .. n, i # j PROVE e[i] # e[j]
    OBVIOUS
  <2>1. e[i] \in Nat /\ e[j] \in Nat
    OBVIOUS
  <2>2. i < j \/ j < i
    OBVIOUS
  <2> QED BY <2>1, <2>2
<1>2. n = Cardinality(S)
  <2>1. e \in Bijection(1 .. n, S)
    BY <1>1 DEF Bijection, Injection, Surjection, IsInjective
  <2>2. IsFiniteSet(1 .. n) /\ Cardinality(1 .. n) = n
    <3>1. IsFiniteSet(1 .. n) /\ Cardinality(1 .. n) = IF 1 > n THEN 0 ELSE n - 1 + 1
      BY FS_Interval
    <3> QED BY <3>1
  <2>3. ExistsBijection(1 .. n, S)
    BY <2>1 DEF ExistsBijection
  <2> QED BY <2>2, <2>3, FS_Bijection
<1>3. ASSUME NEW i \in 1 .. n PROVE Sorted(S)[i] = e[i]
  <2> DEFINE f == [j \in 1 .. i - 1 |-> e[j]]
  <2>1. \A j \in 1 .. i - 1 : j \in 1 .. n /\ e[j] \in Below(S, e[i])
    BY DEF Below
  <2>2. \A x \in Below(S, e[i]) : \E j \in 1 .. i - 1 : e[j] = x
    <3> SUFFICES ASSUME NEW x \in Below(S, e[i]) PROVE \E j \in 1 .. i - 1 : e[j] = x
      OBVIOUS
    <3>1. x \in S /\ x < e[i]
      BY DEF Below
    <3>2. PICK j \in 1 .. n : e[j] = x
      BY <3>1
    <3>3. e[i] \in Nat /\ e[j] \in Nat
      OBVIOUS
    <3>4. ~ (i < j) /\ i # j
      BY <3>1, <3>2, <3>3
    <3>5. j \in 1 .. i - 1
      BY <3>4
    <3> QED BY <3>2, <3>5
  <2>3. f \in Bijection(1 .. i - 1, Below(S, e[i]))
    <3>1. f \in [1 .. i - 1 -> Below(S, e[i])]
      BY <2>1
    <3>2. \A j, k \in 1 .. i - 1 : f[j] = f[k] => j = k
      BY <1>1, <2>1
    <3>3. \A x \in Below(S, e[i]) : \E j \in 1 .. i - 1 : f[j] = x
      BY <2>2
    <3> QED BY <3>1, <3>2, <3>3 DEF Bijection, Injection, Surjection, IsInjective
  <2>4. ExistsBijection(1 .. i - 1, Below(S, e[i]))
    BY <2>3 DEF ExistsBijection
  <2>5. IsFiniteSet(1 .. i - 1) /\ Cardinality(1 .. i - 1) = i - 1
    <3>1. IsFiniteSet(1 .. i - 1)
          /\ Cardinality(1 .. i - 1) = IF 1 > i - 1 THEN 0 ELSE (i - 1) - 1 + 1
      BY FS_Interval
    <3> QED BY <3>1
  <2>6. Cardinality(Below(S, e[i])) = i - 1
    BY <2>4, <2>5, FS_Bijection
  <2>7. i \in Int /\ e[i] \in S
    OBVIOUS
  <2> QED BY <2>6, <2>7, SortedIs
<1>4. Sorted(S) \in [1 .. n -> S]
  BY <1>2, SortedAt
<1>5. Sorted(S) = e
  BY <1>3, <1>4
<1> QED BY <1>2, <1>5

HIDE DEF Numbers

-----------------------------------------------------------------------------
(* The entries of a sequence at some positions.                            *)

LEMMA EntriesProperties ==
    ASSUME NEW s, NEW P, Numbers(P)
    PROVE  /\ EntriesAt(s, P) = [i \in 1 .. Cardinality(P) |-> s[Sorted(P)[i]]]
           /\ DOMAIN EntriesAt(s, P) = 1 .. Cardinality(P)
           /\ Len(EntriesAt(s, P)) = Cardinality(P) /\ Cardinality(P) \in Nat
<1>1. Cardinality(P) \in Nat /\ DOMAIN Sorted(P) = 1 .. Cardinality(P)
  BY SortedAt
<1>2. EntriesAt(s, P) = [i \in 1 .. Cardinality(P) |-> s[Sorted(P)[i]]]
  BY <1>1 DEF EntriesAt
<1> QED BY <1>1, <1>2

LEMMA EntryAt ==
    ASSUME NEW s, NEW P, Numbers(P), NEW i \in 1 .. Cardinality(P)
    PROVE  EntriesAt(s, P)[i] = s[Sorted(P)[i]]
<1>1. DOMAIN Sorted(P) = 1 .. Cardinality(P)
  BY SortedAt
<1> QED BY <1>1 DEF EntriesAt

(* Two sequences that agree on the first of the positions yield the same   *)
(* entries there.                                                          *)
FirstOf(P, Q) == P \subseteq Q /\ \A x \in P, y \in Q : y < x => y \in P

Agree(a, b, P) == \A x \in P : a[x] = b[x]

LEMMA EntriesAgree ==
    ASSUME NEW a, NEW b, NEW P, Numbers(P), NEW Q, Numbers(Q),
           FirstOf(P, Q), Agree(a, b, P)
    PROVE  /\ Cardinality(P) <= Cardinality(Q)
           /\ \A i \in 1 .. Cardinality(P) : EntriesAt(a, P)[i] = EntriesAt(b, Q)[i]
<1>1. Cardinality(P) \in Nat /\ Cardinality(Q) \in Nat /\ Cardinality(P) <= Cardinality(Q)
  <2>1. P \in SUBSET Q
    BY DEF FirstOf
  <2> QED BY <2>1, FS_Subset, FS_CardinalityType DEF Numbers
<1>2. ASSUME NEW i \in 1 .. Cardinality(P) PROVE EntriesAt(a, P)[i] = EntriesAt(b, Q)[i]
  <2> DEFINE x == Sorted(P)[i]
  <2>1. x \in P /\ Cardinality(Below(P, x)) = i - 1
    BY SortedAt
  <2> HIDE DEF x
  <2>2. x \in Nat /\ x \in Q
    BY <2>1 DEF Numbers, FirstOf
  <2>3. Below(P, x) = Below(Q, x)
    <3>1. ASSUME NEW y \in Nat, y < x PROVE y \in P <=> y \in Q
      BY <2>1, <2>2, <3>1 DEF FirstOf
    <3> QED BY <3>1 DEF Below, Numbers
  <2>4. Sorted(Q)[i] = x
    <3>1. i \in Int /\ Cardinality(Below(Q, x)) = i - 1
      BY <2>1, <2>3
    <3> QED BY <2>2, <3>1, SortedIs
  <2>5. EntriesAt(a, P)[i] = a[x] /\ EntriesAt(b, Q)[i] = b[x]
    <3>1. i \in 1 .. Cardinality(Q)
      BY <1>1
    <3>2. EntriesAt(a, P)[i] = a[Sorted(P)[i]]
      BY EntryAt
    <3>3. EntriesAt(b, Q)[i] = b[Sorted(Q)[i]]
      BY <3>1, EntryAt
    <3> QED BY <2>4, <3>2, <3>3 DEF x
  <2> QED BY <2>1, <2>5 DEF Agree
<1> QED BY <1>1, <1>2

(* Entries of entries.                                                     *)
Picked(s, P) == {s[i] : i \in P}

LEMMA EntriesTwice ==
    ASSUME NEW a, NEW P, Numbers(P),
           NEW Q \in SUBSET (1 .. Cardinality(P))
    PROVE  EntriesAt(EntriesAt(a, P), Q) = EntriesAt(a, Picked(Sorted(P), Q))
<1> DEFINE p == Sorted(P)
           R == Picked(p, Q)
           n == Cardinality(Q)
           e == [i \in 1 .. n |-> p[Sorted(Q)[i]]]
<1>1. /\ Cardinality(P) \in Nat /\ p \in [1 .. Cardinality(P) -> P]
      /\ \A i, j \in 1 .. Cardinality(P) : i < j => p[i] < p[j]
  BY SortedProperties
<1>2. Numbers(Q)
  <2>1. IsFiniteSet(1 .. Cardinality(P))
    BY <1>1, FS_Interval
  <2>2. IsFiniteSet(Q)
    BY <2>1, FS_Subset
  <2> QED BY <2>2 DEF Numbers
<1>3. /\ n \in Nat /\ Sorted(Q) \in [1 .. n -> Q]
      /\ \A i, j \in 1 .. n : i < j => Sorted(Q)[i] < Sorted(Q)[j]
      /\ \A x \in Q : \E i \in 1 .. n : Sorted(Q)[i] = x
  BY <1>2, SortedProperties
<1>4. R \subseteq P /\ Numbers(R)
  <2>1. R \subseteq P
    BY <1>1 DEF Picked
  <2>2. IsFiniteSet(R)
    BY <2>1, FS_Subset DEF Numbers
  <2> QED BY <2>1, <2>2 DEF Numbers
<1> HIDE DEF p
<1>5. e \in [1 .. n -> R]
  BY <1>3 DEF Picked
<1>6. \A i, j \in 1 .. n : i < j => e[i] < e[j]
  <2> SUFFICES ASSUME NEW i \in 1 .. n, NEW j \in 1 .. n, i < j PROVE e[i] < e[j]
    OBVIOUS
  <2>1. Sorted(Q)[i] \in 1 .. Cardinality(P) /\ Sorted(Q)[j] \in 1 .. Cardinality(P)
        /\ Sorted(Q)[i] < Sorted(Q)[j]
    BY <1>3
  <2>2. p[Sorted(Q)[i]] < p[Sorted(Q)[j]]
    BY <1>1, <2>1
  <2> QED BY <2>2
<1>7. \A x \in R : \E i \in 1 .. n : e[i] = x
  <2> SUFFICES ASSUME NEW j \in Q PROVE \E i \in 1 .. n : e[i] = p[j]
    BY DEF Picked
  <2>1. PICK i \in 1 .. n : Sorted(Q)[i] = j
    BY <1>3
  <2> QED BY <2>1
<1> HIDE DEF R, e
<1>8. n = Cardinality(R) /\ Sorted(R) = e
  BY <1>3, <1>4, <1>5, <1>6, <1>7, SortedUnique
<1>9. EntriesAt(a, R) = [i \in 1 .. n |-> a[e[i]]]
  <2>1. EntriesAt(a, R) = [i \in 1 .. Cardinality(R) |-> a[Sorted(R)[i]]]
    BY <1>4, EntriesProperties
  <2> QED BY <1>8, <2>1
<1>10. EntriesAt(EntriesAt(a, P), Q) = [i \in 1 .. n |-> EntriesAt(a, P)[Sorted(Q)[i]]]
  BY <1>2, EntriesProperties
<1>11. \A i \in 1 .. n : EntriesAt(a, P)[Sorted(Q)[i]] = a[e[i]]
  <2> SUFFICES ASSUME NEW i \in 1 .. n
               PROVE  EntriesAt(a, P)[Sorted(Q)[i]] = a[e[i]]
    OBVIOUS
  <2>1. Sorted(Q)[i] \in 1 .. Cardinality(P)
    BY <1>3
  <2>2. EntriesAt(a, P)[Sorted(Q)[i]] = a[Sorted(P)[Sorted(Q)[i]]]
    BY <2>1, EntryAt
  <2> QED BY <2>2 DEF e, p
<1>12. EntriesAt(EntriesAt(a, P), Q) = EntriesAt(a, R)
  BY <1>9, <1>10, <1>11
<1> QED BY <1>12 DEF R, p

-----------------------------------------------------------------------------
(* What a sequence of sets of values tells: those that are not empty.      *)

Told(said) == EntriesAt(said, {i \in DOMAIN said : said[i] # {}})

LEMMA SaidIsTold ==
    ASSUME NEW rs
    PROVE  Said(rs) = Told([i \in DOMAIN rs |-> Values(rs[i])])
BY DEF Said, Told

LEMMA Positions ==
    ASSUME NEW n \in Nat, NEW P, P \subseteq 1 .. n
    PROVE  Numbers(P)
<1>1. IsFiniteSet(1 .. n) /\ P \in SUBSET (1 .. n)
  BY FS_Interval
<1>2. IsFiniteSet(P)
  BY <1>1, FS_Subset
<1> QED BY <1>2 DEF Numbers

LEMMA ToldPrefix ==
    ASSUME NEW k \in Nat, NEW n \in Nat, k <= n,
           NEW u, NEW v, DOMAIN u = 1 .. k, DOMAIN v = 1 .. n, \A i \in 1 .. k : u[i] = v[i]
    PROVE  IsPrefix(Told(u), Told(v))
<1> DEFINE P == {i \in 1 .. k : u[i] # {}}
           Q == {i \in 1 .. n : v[i] # {}}
<1>1. Numbers(P) /\ Numbers(Q)
  BY Positions
<1>2. FirstOf(P, Q)
  BY DEF FirstOf
<1>3. Agree(u, v, P)
  BY DEF Agree
<1>4. Told(u) = EntriesAt(u, P) /\ Told(v) = EntriesAt(v, Q)
  BY DEF Told
<1> HIDE DEF P, Q
<1>5. /\ Cardinality(P) <= Cardinality(Q)
      /\ \A i \in 1 .. Cardinality(P) : EntriesAt(u, P)[i] = EntriesAt(v, Q)[i]
  BY <1>1, <1>2, <1>3, EntriesAgree
<1>6. /\ Len(EntriesAt(u, P)) = Cardinality(P) /\ Cardinality(P) \in Nat
      /\ Len(EntriesAt(v, Q)) = Cardinality(Q) /\ Cardinality(Q) \in Nat
  BY <1>1, EntriesProperties
<1> DEFINE a == EntriesAt(u, P)
           b == EntriesAt(v, Q)
<1>7. IsPrefix(a, b)
  <2>1. Len(a) <= Len(b) /\ Len(a) \in Nat /\ \A i \in 1 .. Len(a) : a[i] = b[i]
    BY <1>5, <1>6
  <2> HIDE DEF a, b
  <2> QED BY <2>1 DEF IsPrefix
<1> QED BY <1>4, <1>7

LEMMA ToldSame ==
    ASSUME NEW n \in Nat, NEW u, NEW v, DOMAIN u = 1 .. n, DOMAIN v = 1 .. n,
           \A i \in 1 .. n : u[i] = v[i]
    PROVE  Told(u) = Told(v)
<1> DEFINE P == {i \in 1 .. n : u[i] # {}}
<1>1. Numbers(P)
  BY Positions
<1>2. Told(u) = EntriesAt(u, P) /\ Told(v) = EntriesAt(v, P)
  BY DEF Told
<1>3. \A i \in 1 .. Cardinality(P) : u[Sorted(P)[i]] = v[Sorted(P)[i]]
  <2> SUFFICES ASSUME NEW i \in 1 .. Cardinality(P)
               PROVE  u[Sorted(P)[i]] = v[Sorted(P)[i]]
    OBVIOUS
  <2>1. Sorted(P)[i] \in P
    BY <1>1, SortedAt
  <2> QED BY <2>1
<1> HIDE DEF P
<1>4. /\ EntriesAt(u, P) = [i \in 1 .. Cardinality(P) |-> u[Sorted(P)[i]]]
      /\ EntriesAt(v, P) = [i \in 1 .. Cardinality(P) |-> v[Sorted(P)[i]]]
  BY <1>1, EntriesProperties
<1> QED BY <1>2, <1>3, <1>4

(* Leaving out what is empty anyway makes no difference.                   *)
LEMMA ToldDropped ==
    ASSUME NEW n \in Nat, NEW v, DOMAIN v = 1 .. n, NEW P, P \subseteq 1 .. n,
           \A i \in 1 .. n : i \notin P => v[i] = {}
    PROVE  Told(EntriesAt(v, P)) = Told(v)
<1> DEFINE c == Cardinality(P)
           Q == {j \in 1 .. c : v[Sorted(P)[j]] # {}}
           R == {i \in 1 .. n : v[i] # {}}
<1>1. Numbers(P)
  BY Positions
<1>2. /\ c \in Nat /\ Sorted(P) \in [1 .. c -> P]
      /\ \A x \in P : \E i \in 1 .. c : Sorted(P)[i] = x
  BY <1>1, SortedProperties
<1>3. /\ DOMAIN EntriesAt(v, P) = 1 .. c
      /\ \A j \in 1 .. c : EntriesAt(v, P)[j] = v[Sorted(P)[j]]
  <2>1. DOMAIN EntriesAt(v, P) = 1 .. Cardinality(P)
    BY <1>1, EntriesProperties
  <2>2. \A j \in 1 .. Cardinality(P) : EntriesAt(v, P)[j] = v[Sorted(P)[j]]
    BY <1>1, EntryAt
  <2> QED BY <2>1, <2>2
<1>4. Told(EntriesAt(v, P)) = EntriesAt(EntriesAt(v, P), Q)
  <2>1. {j \in DOMAIN EntriesAt(v, P) : EntriesAt(v, P)[j] # {}} = Q
    BY <1>3
  <2> QED BY <2>1 DEF Told
<1>5. Told(v) = EntriesAt(v, R)
  BY DEF Told
<1>6. Picked(Sorted(P), Q) = R
  BY <1>2 DEF Picked
<1>7. Q \in SUBSET (1 .. Cardinality(P))
  OBVIOUS
<1> HIDE DEF Q, R, c
<1>8. EntriesAt(EntriesAt(v, P), Q) = EntriesAt(v, R)
  BY <1>1, <1>6, <1>7, EntriesTwice
<1> QED BY <1>4, <1>5, <1>8

-----------------------------------------------------------------------------
(* Records, units, and what a whole file looks like.                       *)

AllFormats == {"csv", "jsonl", "json", "xml", "xlsx", "sqlite"}

FieldValues == {Empty} \cup (Nat \X Nat \X {"short", "long", "huge", "cut"})

FieldSets == {d \in SUBSET Nat : IsFiniteSet(d)}

Record == UNION {[d -> FieldValues] : d \in FieldSets}

End == Unit("end", <<>>)

Book(columns, rs) ==
    Unit("book", [head |-> columns, rows |-> [i \in DOMAIN rs |-> Cells(columns, Fitting(rs[i]))]])

Sheet == [head : Seq(Nat), rows : Seq(Seq(FieldValues))]

Data == Seq(Nat) \cup Seq(FieldValues) \cup Record \cup Sheet
        \cup {Elements(c, r) : c \in Seq(Nat), r \in Record}

WholeUnits == [kind : {"head", "row", "end", "book"}, data : Data, whole : {TRUE}]

Units == [kind : {"head", "row", "end", "book"}, data : Data, whole : BOOLEAN]

RowsOf(fmt, columns, rs) == [i \in DOMAIN rs |-> RowUnit(fmt, columns, rs[i])]

Layout(fmt, columns, rs) ==
    CASE fmt = "csv"  -> CSVFile(columns, rs)
      [] fmt = "xlsx" -> XLSXFile(columns, rs)
      [] fmt = "json" -> JSONFile(rs)
      [] fmt = "xml"  -> XMLFile(columns, rs)
      [] OTHER        -> Opening(fmt, columns) \o RowsOf(fmt, columns, rs)

Before(fmt, columns) == Len(Opening(fmt, columns))      \* units before the rows

Behind(fmt) == IF fmt \in {"json", "xml"} THEN 1 ELSE 0

WholeLen(f) == IF EndsTorn(f) THEN Len(f) - 1 ELSE Len(f)

(* But for a torn unit at its end, f is the beginning of g.                *)
Fits(f, g) ==
    /\ f \in Seq(Units) /\ \A i \in 1 .. Len(f) - 1 : f[i].whole
    /\ WholeLen(f) <= Len(g) /\ \A i \in 1 .. WholeLen(f) : f[i] = g[i]

LEMMA UnitWhole ==
    ASSUME NEW u \in WholeUnits
    PROVE  u.whole = TRUE /\ Torn(u).whole = FALSE /\ Torn(u) \in Units /\ u \in Units
BY DEF WholeUnits, Units, Torn

LEMMA RecordIs ==
    ASSUME NEW r
    PROVE  r \in Record <=> /\ DOMAIN r \subseteq Nat /\ IsFiniteSet(DOMAIN r)
                            /\ r \in [DOMAIN r -> FieldValues]
<1>1. ASSUME r \in Record
      PROVE  /\ DOMAIN r \subseteq Nat /\ IsFiniteSet(DOMAIN r)
             /\ r \in [DOMAIN r -> FieldValues]
  <2>1. PICK d \in FieldSets : r \in [d -> FieldValues]
    BY <1>1 DEF Record
  <2> QED BY <2>1 DEF FieldSets
<1>2. ASSUME DOMAIN r \subseteq Nat, IsFiniteSet(DOMAIN r), r \in [DOMAIN r -> FieldValues]
      PROVE  r \in Record
  <2>1. DOMAIN r \in FieldSets
    BY <1>2 DEF FieldSets
  <2> QED BY <1>2, <2>1 DEF Record
<1> QED BY <1>1, <1>2

LEMMA ValueIs ==
    ASSUME NEW r \in Record, NEW f
    PROVE  ValueOf(r, f) \in FieldValues
<1>1. r \in [DOMAIN r -> FieldValues]
  BY RecordIs
<1> QED BY <1>1 DEF ValueOf, FieldValues

LEMMA CellsAre ==
    ASSUME NEW c \in Seq(Nat), NEW r \in Record
    PROVE  /\ Cells(c, r) \in Seq(FieldValues) /\ Len(Cells(c, r)) = Len(c)
           /\ DOMAIN Cells(c, r) = 1 .. Len(c)
           /\ \A i \in 1 .. Len(c) : Cells(c, r)[i] = ValueOf(r, c[i])
<1>1. DOMAIN c = 1 .. Len(c) /\ Len(c) \in Nat
  OBVIOUS
<1>2. \A i \in 1 .. Len(c) : ValueOf(r, c[i]) \in FieldValues
  BY ValueIs
<1> QED BY <1>1, <1>2 DEF Cells

LEMMA ToSetFinite ==
    ASSUME NEW c \in Seq(Nat)
    PROVE  ToSet(c) \subseteq Nat /\ IsFiniteSet(ToSet(c))
<1> DEFINE n == Len(c)
<1>1. n \in Nat /\ IsFiniteSet(1 .. n) /\ DOMAIN c = 1 .. n
  BY FS_Interval
<1>2. c \in Surjection(1 .. n, ToSet(c))
  <2>1. c \in [1 .. n -> ToSet(c)]
    BY <1>1 DEF ToSet
  <2>2. \A x \in ToSet(c) : \E i \in 1 .. n : c[i] = x
    BY <1>1 DEF ToSet
  <2> QED BY <2>1, <2>2 DEF Surjection
<1>3. IsFiniteSet(ToSet(c))
  BY <1>1, <1>2, FS_Surjection
<1> QED BY <1>3 DEF ToSet

LEMMA PartIsRecord ==
    ASSUME NEW r \in Record, NEW d, d \subseteq DOMAIN r
    PROVE  Restrict(r, d) \in Record
<1>1. DOMAIN r \subseteq Nat /\ IsFiniteSet(DOMAIN r) /\ r \in [DOMAIN r -> FieldValues]
  BY RecordIs
<1>2. IsFiniteSet(d)
  <2>1. d \in SUBSET (DOMAIN r)
    OBVIOUS
  <2> QED BY <1>1, <2>1, FS_Subset
<1>3. DOMAIN Restrict(r, d) = d /\ Restrict(r, d) \in [d -> FieldValues]
  BY <1>1 DEF Restrict
<1>4. d \subseteq Nat
  BY <1>1
<1> QED BY <1>2, <1>3, <1>4, RecordIs

LEMMA FittingIs ==
    ASSUME NEW r \in Record
    PROVE  /\ Fitting(r) \in Record /\ DOMAIN Fitting(r) = DOMAIN r
<1>1. DOMAIN r \subseteq Nat /\ IsFiniteSet(DOMAIN r) /\ r \in [DOMAIN r -> FieldValues]
  BY RecordIs
<1>2. DOMAIN Fitting(r) = DOMAIN r
  BY DEF Fitting
<1>3. ASSUME NEW f \in DOMAIN r PROVE Fitting(r)[f] \in FieldValues
  <2>1. r[f] \in FieldValues
    BY <1>1
  <2>2. CASE r[f] # Empty /\ r[f][3] \in {"long", "huge"}
    <3>1. r[f] \in Nat \X Nat \X {"short", "long", "huge", "cut"}
      BY <2>1, <2>2 DEF FieldValues
    <3>2. Fitting(r)[f] = <<r[f][1], r[f][2], "cut">>
      BY <2>2 DEF Fitting
    <3>3. <<r[f][1], r[f][2], "cut">> \in Nat \X Nat \X {"short", "long", "huge", "cut"}
      BY <3>1
    <3> QED BY <3>2, <3>3 DEF FieldValues
  <2>3. CASE ~ (r[f] # Empty /\ r[f][3] \in {"long", "huge"})
    BY <2>1, <2>3 DEF Fitting
  <2> QED BY <2>2, <2>3
<1>4. Fitting(r) \in [DOMAIN r -> FieldValues]
  <2>1. Fitting(r) = [f \in DOMAIN r |-> Fitting(r)[f]]
    BY DEF Fitting
  <2> QED BY <1>3, <2>1
<1> QED BY <1>1, <1>2, <1>4, RecordIs

LEMMA RowIsUnit ==
    ASSUME NEW fmt \in AllFormats, NEW c \in Seq(Nat), NEW r \in Record
    PROVE  /\ RowUnit(fmt, c, r) \in WholeUnits
           /\ RowUnit(fmt, c, r).kind = "row" /\ RowUnit(fmt, c, r).whole = TRUE
<1> DEFINE data == RowUnit(fmt, c, r).data
<1>1. CASE fmt = "csv"
  <2>1. data = Cells(c, r)
    BY <1>1 DEF RowUnit, Unit
  <2>2. data \in Data
    BY <2>1, CellsAre DEF Data
  <2> QED BY <2>2 DEF RowUnit, Unit, WholeUnits
<1>2. CASE fmt = "xml"
  <2>1. data = Elements(c, r)
    BY <1>2 DEF RowUnit, Unit
  <2>2. data \in Data
    BY <2>1 DEF Data
  <2> QED BY <2>2 DEF RowUnit, Unit, WholeUnits
<1>3. CASE fmt = "sqlite"
  <2>1. data = [f \in ToSet(c) |-> ValueOf(r, f)]
    BY <1>3 DEF RowUnit, Unit
  <2>2. data \in [ToSet(c) -> FieldValues] /\ DOMAIN data = ToSet(c)
    BY <2>1, ValueIs
  <2>3. data \in Data
    BY <2>2, ToSetFinite, RecordIs DEF Data
  <2> QED BY <2>3 DEF RowUnit, Unit, WholeUnits
<1>4. CASE fmt \in {"jsonl", "json", "xlsx"}
  <2>1. data = r
    BY <1>4 DEF RowUnit, Unit
  <2>2. data \in Data
    BY <2>1 DEF Data
  <2> QED BY <2>2 DEF RowUnit, Unit, WholeUnits
<1> QED BY <1>1, <1>2, <1>3, <1>4 DEF AllFormats

LEMMA OpeningIs ==
    ASSUME NEW fmt \in AllFormats, NEW c \in Seq(Nat)
    PROVE  /\ Opening(fmt, c) \in Seq(WholeUnits) /\ Before(fmt, c) \in {0, 1}
           /\ Before(fmt, c) = Len(Opening(fmt, c))
           /\ Before(fmt, c) = 1 => Opening(fmt, c) = <<Unit("head", c)>>
           /\ Before(fmt, c) = 0 => Opening(fmt, c) = <<>>
           /\ fmt \in {"xml", "sqlite"} \/ (fmt = "csv" /\ c # <<>>) <=> Before(fmt, c) = 1
<1>1. Unit("head", c) \in WholeUnits
  BY DEF WholeUnits, Data, Unit
<1>2. CASE fmt \in {"xml", "sqlite"} \/ (fmt = "csv" /\ c # <<>>)
  <2>1. Opening(fmt, c) = <<Unit("head", c)>>
    BY <1>2 DEF Opening
  <2> QED BY <1>1, <1>2, <2>1 DEF Before
<1>3. CASE ~ (fmt \in {"xml", "sqlite"} \/ (fmt = "csv" /\ c # <<>>))
  <2>1. Opening(fmt, c) = <<>>
    BY <1>3 DEF Opening
  <2> QED BY <1>3, <2>1 DEF Before
<1> QED BY <1>2, <1>3

LEMMA RowsAre ==
    ASSUME NEW fmt \in AllFormats, NEW c \in Seq(Nat), NEW rs \in Seq(Record)
    PROVE  /\ RowsOf(fmt, c, rs) \in Seq(WholeUnits) /\ Len(RowsOf(fmt, c, rs)) = Len(rs)
           /\ \A i \in 1 .. Len(rs) : RowsOf(fmt, c, rs)[i] = RowUnit(fmt, c, rs[i])
<1>1. \A i \in 1 .. Len(rs) : RowUnit(fmt, c, rs[i]) \in WholeUnits
  <2> SUFFICES ASSUME NEW i \in 1 .. Len(rs) PROVE RowUnit(fmt, c, rs[i]) \in WholeUnits
    OBVIOUS
  <2>1. rs[i] \in Record
    OBVIOUS
  <2> QED BY <2>1, RowIsUnit
<1>2. DOMAIN rs = 1 .. Len(rs) /\ Len(rs) \in Nat
  OBVIOUS
<1> QED BY <1>1, <1>2 DEF RowsOf

LEMMA BookIs ==
    ASSUME NEW c \in Seq(Nat), NEW rs \in Seq(Record)
    PROVE  /\ Layout("xlsx", c, rs) = <<Book(c, rs)>> /\ Book(c, rs) \in WholeUnits
           /\ Layout("xlsx", c, rs) \in Seq(WholeUnits) /\ Len(Layout("xlsx", c, rs)) = 1
<1>1. DOMAIN rs = 1 .. Len(rs) /\ Len(rs) \in Nat
  OBVIOUS
<1>2. \A i \in 1 .. Len(rs) : Cells(c, Fitting(rs[i])) \in Seq(FieldValues)
  <2> SUFFICES ASSUME NEW i \in 1 .. Len(rs)
               PROVE  Cells(c, Fitting(rs[i])) \in Seq(FieldValues)
    OBVIOUS
  <2>1. Fitting(rs[i]) \in Record
    BY FittingIs
  <2> QED BY <2>1, CellsAre
<1>3. [i \in DOMAIN rs |-> Cells(c, Fitting(rs[i]))] \in Seq(Seq(FieldValues))
  BY <1>1, <1>2
<1>4. [head |-> c, rows |-> [i \in DOMAIN rs |-> Cells(c, Fitting(rs[i]))]] \in Data
  BY <1>3 DEF Data, Sheet
<1>5. Book(c, rs) \in WholeUnits
  BY <1>4 DEF Book, Unit, WholeUnits
<1>6. Layout("xlsx", c, rs) = <<Book(c, rs)>>
  BY DEF Layout, XLSXFile, Book
<1>7. <<Book(c, rs)>> \in Seq(WholeUnits) /\ Len(<<Book(c, rs)>>) = 1
  BY <1>5
<1> QED BY <1>5, <1>6, <1>7

LEMMA LayoutParts ==
    ASSUME NEW fmt \in AllFormats \ {"xlsx"}, NEW c \in Seq(Nat), NEW rs \in Seq(Record)
    PROVE  Layout(fmt, c, rs) = IF Behind(fmt) = 1
                                THEN Opening(fmt, c) \o RowsOf(fmt, c, rs) \o <<End>>
                                ELSE Opening(fmt, c) \o RowsOf(fmt, c, rs)
<1>1. CASE fmt = "json"
  <2>1. \A i \in DOMAIN rs : RowUnit("json", <<>>, rs[i]) = RowUnit("json", c, rs[i])
    BY DEF RowUnit
  <2>2. JSONFile(rs) = RowsOf("json", c, rs) \o <<End>>
    BY <2>1 DEF JSONFile, RowsOf, End
  <2>3. Opening("json", c) = <<>>
    BY DEF Opening
  <2>4. RowsOf("json", c, rs) \in Seq(WholeUnits)
    BY RowsAre DEF AllFormats
  <2>5. <<>> \o RowsOf("json", c, rs) = RowsOf("json", c, rs)
    BY <2>4
  <2> QED BY <1>1, <2>2, <2>3, <2>5 DEF Layout, Behind
<1>2. CASE fmt = "xml"
  BY <1>2 DEF Layout, XMLFile, RowsOf, End, Behind
<1>3. CASE fmt = "csv"
  BY <1>3 DEF Layout, CSVFile, RowsOf, Behind
<1>4. CASE fmt \in {"jsonl", "sqlite"}
  BY <1>4 DEF Layout, Behind
<1> QED BY <1>1, <1>2, <1>3, <1>4 DEF AllFormats

LEMMA ConcatParts ==
    ASSUME NEW S, NEW s \in Seq(S), NEW t \in Seq(S)
    PROVE  /\ s \o t \in Seq(S) /\ Len(s \o t) = Len(s) + Len(t)
           /\ \A j \in 1 .. Len(s) : (s \o t)[j] = s[j]
           /\ \A j \in 1 .. Len(t) : (s \o t)[Len(s) + j] = t[j]
<1>1. Len(s) \in Nat /\ Len(t) \in Nat
  OBVIOUS
<1>2. ASSUME NEW j \in 1 .. Len(t) PROVE (s \o t)[Len(s) + j] = t[j]
  <2>1. Len(s) + j \in 1 .. Len(s) + Len(t) /\ ~ (Len(s) + j <= Len(s))
        /\ Len(s) + j - Len(s) = j
    BY <1>1
  <2> QED BY <2>1, ConcatProperties
<1> QED BY <1>2, ConcatProperties

(* A file position by position: the header, the rows, the closing.         *)
LEMMA LayoutAt ==
    ASSUME NEW fmt \in AllFormats \ {"xlsx"}, NEW c \in Seq(Nat), NEW rs \in Seq(Record)
    PROVE  /\ Layout(fmt, c, rs) \in Seq(WholeUnits)
           /\ Len(Layout(fmt, c, rs)) = Before(fmt, c) + Len(rs) + Behind(fmt)
           /\ \A i \in 1 .. Before(fmt, c) : Layout(fmt, c, rs)[i] = Unit("head", c)
           /\ \A i \in 1 .. Len(rs) :
                  Layout(fmt, c, rs)[Before(fmt, c) + i] = RowUnit(fmt, c, rs[i])
           /\ Behind(fmt) = 1 => Layout(fmt, c, rs)[Before(fmt, c) + Len(rs) + 1] = End
<1> DEFINE o == Opening(fmt, c)
           r == RowsOf(fmt, c, rs)
           h == Before(fmt, c)
           n == Len(rs)
<1>1. /\ o \in Seq(WholeUnits) /\ h \in {0, 1} /\ Len(o) = h
      /\ h = 1 => o = <<Unit("head", c)>>
  BY OpeningIs
<1>2. /\ r \in Seq(WholeUnits) /\ Len(r) = n
      /\ \A i \in 1 .. n : r[i] = RowUnit(fmt, c, rs[i])
  BY RowsAre
<1>3. End \in WholeUnits
  BY DEF End, Unit, WholeUnits, Data
<1>4. n \in Nat /\ Behind(fmt) \in {0, 1}
  BY DEF Behind
<1>5. Layout(fmt, c, rs) = IF Behind(fmt) = 1 THEN o \o r \o <<End>> ELSE o \o r
  BY LayoutParts
<1> HIDE DEF o, r, h, n
<1> DEFINE b == o \o r
<1>6. /\ b \in Seq(WholeUnits) /\ Len(b) = h + n
      /\ \A i \in 1 .. h : b[i] = Unit("head", c)
      /\ \A i \in 1 .. n : b[h + i] = RowUnit(fmt, c, rs[i])
  <2>1. b \in Seq(WholeUnits) /\ Len(b) = h + n
    BY <1>1, <1>2
  <2>2. \A i \in 1 .. h : b[i] = Unit("head", c)
    BY <1>1, <1>2
  <2>3. \A i \in 1 .. n : b[h + i] = r[i]
    <3>1. o \in Seq(WholeUnits) /\ r \in Seq(WholeUnits)
      BY <1>1, <1>2
    <3>2. \A j \in 1 .. Len(r) : (o \o r)[Len(o) + j] = r[j]
      BY <3>1, ConcatParts
    <3> QED BY <1>1, <1>2, <3>2
  <2> QED BY <1>2, <2>1, <2>2, <2>3
<1> HIDE DEF b
<1> DEFINE e == b \o <<End>>
<1>7. /\ e \in Seq(WholeUnits) /\ Len(e) = h + n + 1 /\ e[h + n + 1] = End
      /\ \A i \in 1 .. h + n : e[i] = b[i]
  BY <1>1, <1>3, <1>4, <1>6
<1> HIDE DEF e
<1>8. CASE Behind(fmt) = 1
  <2>1. Layout(fmt, c, rs) = e
    BY <1>5, <1>8 DEF e, b
  <2>2. \A i \in 1 .. h : e[i] = Unit("head", c)
    BY <1>1, <1>4, <1>6, <1>7
  <2>3. \A i \in 1 .. n : e[h + i] = RowUnit(fmt, c, rs[i])
    BY <1>1, <1>4, <1>6, <1>7
  <2> QED BY <1>7, <1>8, <2>1, <2>2, <2>3 DEF h, n
<1>9. CASE Behind(fmt) = 0
  <2>1. Layout(fmt, c, rs) = b
    BY <1>5, <1>9 DEF b
  <2>2. h + n + 0 = h + n
    BY <1>1, <1>4
  <2> QED BY <1>6, <1>9, <2>1, <2>2 DEF h, n
<1> QED BY <1>4, <1>8, <1>9

LEMMA WholeLenIs ==
    ASSUME NEW f \in Seq(Units)
    PROVE  /\ WholeLen(f) \in Nat /\ WholeLen(f) <= Len(f) /\ Len(f) \in Nat
           /\ f = <<>> => WholeLen(f) = 0 /\ ~EndsTorn(f)
           /\ EndsTorn(f) => WholeLen(f) = Len(f) - 1 /\ f[Len(f)].whole = FALSE
           /\ ~EndsTorn(f) => WholeLen(f) = Len(f)
           /\ ~EndsTorn(f) /\ f # <<>> => f[Len(f)].whole = TRUE
<1>1. Len(f) \in Nat /\ (f # <<>> => Len(f) >= 1) /\ (f = <<>> => Len(f) = 0)
  OBVIOUS
<1>2. f # <<>> => Last(f) = f[Len(f)] /\ f[Len(f)].whole \in BOOLEAN
  <2> SUFFICES ASSUME f # <<>> PROVE Last(f) = f[Len(f)] /\ f[Len(f)].whole \in BOOLEAN
    OBVIOUS
  <2>1. f[Len(f)] \in Units
    BY <1>1
  <2> QED BY <2>1 DEF Last, Units
<1> QED BY <1>1, <1>2 DEF WholeLen, EndsTorn

(* The whole units of a file that fits a layout are the layout's first     *)
(* ones, and only they are whole.                                          *)
LEMMA FitsAt ==
    ASSUME NEW f, NEW g, Fits(f, g)
    PROVE  /\ WholeLen(f) <= Len(g) /\ \A i \in 1 .. WholeLen(f) : f[i] = g[i]
           /\ \A i \in DOMAIN f : f[i].whole => i \in 1 .. WholeLen(f)
           /\ WholeLen(f) \in Nat /\ f \in Seq(Units) /\ 1 .. WholeLen(f) \subseteq DOMAIN f
<1>1. f \in Seq(Units)
  BY DEF Fits
<1>2. /\ WholeLen(f) \in Nat /\ WholeLen(f) <= Len(f) /\ Len(f) \in Nat
      /\ EndsTorn(f) => WholeLen(f) = Len(f) - 1 /\ f[Len(f)].whole = FALSE
      /\ ~EndsTorn(f) => WholeLen(f) = Len(f)
  BY <1>1, WholeLenIs
<1>3. DOMAIN f = 1 .. Len(f)
  BY <1>1
<1>4. \A i \in DOMAIN f : f[i].whole => i \in 1 .. WholeLen(f)
  BY <1>2, <1>3
<1>5. 1 .. WholeLen(f) \subseteq DOMAIN f
  BY <1>2, <1>3
<1> QED BY <1>1, <1>2, <1>4, <1>5 DEF Fits

(* How many rows of rs are whole in f.                                     *)
RowCount(fmt, columns, f, rs) ==
    IF WholeLen(f) <= Before(fmt, columns) THEN 0
    ELSE IF WholeLen(f) - Before(fmt, columns) <= Len(rs) THEN WholeLen(f) - Before(fmt, columns)
    ELSE Len(rs)

LEMMA RowPositions ==
    ASSUME NEW fmt \in AllFormats \ {"xlsx"}, NEW c \in Seq(Nat), NEW rs \in Seq(Record),
           NEW f, Fits(f, Layout(fmt, c, rs))
    PROVE  /\ RowCount(fmt, c, f, rs) \in 0 .. Len(rs) /\ Before(fmt, c) \in {0, 1}
           /\ {i \in DOMAIN f : f[i].kind = "row" /\ f[i].whole}
                 = Before(fmt, c) + 1 .. Before(fmt, c) + RowCount(fmt, c, f, rs)
           /\ \A i \in 1 .. RowCount(fmt, c, f, rs) :
                 f[Before(fmt, c) + i] = RowUnit(fmt, c, rs[i])
<1> DEFINE L == Layout(fmt, c, rs)
           h == Before(fmt, c)
           n == Len(rs)
           k == RowCount(fmt, c, f, rs)
           w == WholeLen(f)
<1>1. /\ Len(L) = h + n + Behind(fmt)
      /\ \A i \in 1 .. h : L[i] = Unit("head", c)
      /\ \A i \in 1 .. n : L[h + i] = RowUnit(fmt, c, rs[i])
      /\ Behind(fmt) = 1 => L[h + n + 1] = End
  BY LayoutAt
<1>2. /\ w <= Len(L) /\ \A i \in 1 .. w : f[i] = L[i]
      /\ \A i \in DOMAIN f : f[i].whole => i \in 1 .. w
      /\ w \in Nat /\ 1 .. w \subseteq DOMAIN f
  BY FitsAt
<1>3. h \in {0, 1} /\ n \in Nat /\ Behind(fmt) \in {0, 1}
  BY OpeningIs DEF Behind
<1>4. k \in 0 .. n /\ (w <= h => k = 0) /\ (w > h => h + k <= w)
      /\ \A i \in 1 .. n : h + i <= w => i <= k
  <2>1. k = IF w <= h THEN 0 ELSE IF w - h <= n THEN w - h ELSE n
    BY DEF RowCount
  <2> HIDE DEF k, w, h, n
  <2> QED BY <1>2, <1>3, <2>1
<1>5. \A i \in 1 .. n : /\ RowUnit(fmt, c, rs[i]).kind = "row"
                        /\ RowUnit(fmt, c, rs[i]).whole = TRUE
  <2> SUFFICES ASSUME NEW i \in 1 .. n
               PROVE  /\ RowUnit(fmt, c, rs[i]).kind = "row"
                      /\ RowUnit(fmt, c, rs[i]).whole = TRUE
    OBVIOUS
  <2>1. rs[i] \in Record
    OBVIOUS
  <2> QED BY <2>1, RowIsUnit
<1>6. Unit("head", c).kind = "head" /\ End.kind = "end"
  BY DEF Unit, End
<1> HIDE DEF L, h, n, k, w
<1>7. ASSUME NEW i \in 1 .. k
      PROVE  /\ f[h + i] = RowUnit(fmt, c, rs[i]) /\ h + i \in DOMAIN f
             /\ f[h + i].kind = "row" /\ f[h + i].whole
  <2>1. i \in 1 .. n /\ h + i \in 1 .. w
    BY <1>2, <1>3, <1>4
  <2>2. f[h + i] = RowUnit(fmt, c, rs[i])
    BY <1>1, <1>2, <2>1
  <2> QED BY <1>2, <1>5, <2>1, <2>2
<1>8. ASSUME NEW i \in DOMAIN f, f[i].kind = "row", f[i].whole
      PROVE  i \in h + 1 .. h + k
  <2>1. i \in 1 .. w /\ f[i] = L[i]
    BY <1>2, <1>8
  <2>2. ~ (i \in 1 .. h)
    BY <1>1, <1>6, <1>8, <2>1
  <2>3. ~ (Behind(fmt) = 1 /\ i = h + n + 1)
    BY <1>1, <1>6, <1>8, <2>1
  <2>4. i - h \in 1 .. n
    BY <1>1, <1>2, <1>3, <2>1, <2>2, <2>3
  <2>5. h + (i - h) <= w
    BY <1>2, <1>3, <2>1
  <2>6. i - h <= k
    BY <1>4, <2>4, <2>5
  <2>7. i \in Int /\ h \in Int /\ k \in Int
    BY <1>3, <1>4, <2>1
  <2> QED BY <2>4, <2>6, <2>7
<1>9. ASSUME NEW i \in h + 1 .. h + k
      PROVE  i \in DOMAIN f /\ f[i].kind = "row" /\ f[i].whole
  <2>1. i - h \in 1 .. k /\ h + (i - h) = i
    BY <1>3, <1>4
  <2> QED BY <1>7, <2>1
<1>10. {i \in DOMAIN f : f[i].kind = "row" /\ f[i].whole} = h + 1 .. h + k
  BY <1>8, <1>9
<1> QED BY <1>3, <1>4, <1>7, <1>10 DEF h, k, n

(* Positions that follow each other.                                       *)
LEMMA SortedInterval ==
    ASSUME NEW h \in Nat, NEW k \in Nat
    PROVE  /\ Numbers(h + 1 .. h + k) /\ Cardinality(h + 1 .. h + k) = k
           /\ Sorted(h + 1 .. h + k) = [i \in 1 .. k |-> h + i]
<1> DEFINE S == h + 1 .. h + k
           e == [i \in 1 .. k |-> h + i]
<1>1. Numbers(S)
  <2>1. IsFiniteSet(h + 1 .. h + k)
    BY FS_Interval
  <2> QED BY <2>1 DEF Numbers
<1>2. e \in [1 .. k -> S]
  OBVIOUS
<1>3. \A i, j \in 1 .. k : i < j => e[i] < e[j]
  OBVIOUS
<1>4. \A x \in S : \E i \in 1 .. k : e[i] = x
  <2> SUFFICES ASSUME NEW x \in S PROVE \E i \in 1 .. k : e[i] = x
    OBVIOUS
  <2>1. x - h \in 1 .. k /\ e[x - h] = x
    OBVIOUS
  <2> QED BY <2>1
<1> HIDE DEF S, e
<1>5. k = Cardinality(S) /\ Sorted(S) = e
  BY <1>1, <1>2, <1>3, <1>4, SortedUnique
<1> QED BY <1>1, <1>5 DEF S, e

(* What a reader finds: the whole rows, in order.                          *)
LEMMA RowsRead ==
    ASSUME NEW fmt \in AllFormats \ {"xlsx"}, NEW c \in Seq(Nat), NEW rs \in Seq(Record),
           NEW f, Fits(f, Layout(fmt, c, rs))
    PROVE  /\ RowCount(fmt, c, f, rs) \in 0 .. Len(rs)
           /\ DOMAIN RowsIn(f) = 1 .. RowCount(fmt, c, f, rs)
           /\ \A i \in 1 .. RowCount(fmt, c, f, rs) : RowsIn(f)[i] = RowUnit(fmt, c, rs[i]).data
<1> DEFINE h == Before(fmt, c)
           k == RowCount(fmt, c, f, rs)
           P == {i \in DOMAIN f : f[i].kind = "row" /\ f[i].whole}
           rows == EntriesAt(f, P)
<1>1. /\ k \in 0 .. Len(rs) /\ h \in {0, 1} /\ P = h + 1 .. h + k
      /\ \A i \in 1 .. k : f[h + i] = RowUnit(fmt, c, rs[i])
  BY RowPositions
<1>2. h \in Nat /\ k \in Nat
  BY <1>1
<1>3. RowsIn(f) = [i \in DOMAIN rows |-> rows[i].data]
  BY DEF RowsIn
<1> HIDE DEF h, k, P
<1>4. Numbers(P) /\ Cardinality(P) = k /\ Sorted(P) = [i \in 1 .. k |-> h + i]
  BY <1>1, <1>2, SortedInterval
<1>5. DOMAIN rows = 1 .. k
  BY <1>4, EntriesProperties
<1>6. \A i \in 1 .. k : rows[i] = f[h + i]
  <2> SUFFICES ASSUME NEW i \in 1 .. k PROVE rows[i] = f[h + i]
    OBVIOUS
  <2>1. i \in 1 .. Cardinality(P) /\ Numbers(P)
    BY <1>4
  <2>2. EntriesAt(f, P)[i] = f[Sorted(P)[i]]
    BY ONLY <2>1, EntryAt
  <2> QED BY <1>4, <2>2
<1> HIDE DEF rows
<1>7. \A i \in 1 .. k : RowsIn(f)[i] = RowUnit(fmt, c, rs[i]).data
  BY <1>1, <1>3, <1>5, <1>6
<1> QED BY <1>1, <1>3, <1>5, <1>7 DEF k

-----------------------------------------------------------------------------
(* What the records read say, next to the records written.                 *)

Covers(columns, rs) == \A i \in 1 .. Len(rs) : DOMAIN rs[i] \subseteq ToSet(columns)

Say(fmt, columns, rs, k, ex) ==
    [i \in 1 .. k |-> Values(FilterRecord(AsRead(fmt, columns, rs[i]), ex))]

SameValues(a, b) == \A g : ValueOf(a, g) = ValueOf(b, g)

LEMMA ValuesWithin ==
    ASSUME NEW a, NEW b, SameValues(a, b), NEW ex
    PROVE  Values(FilterRecord(a, ex)) \subseteq Values(FilterRecord(b, ex))
<1> SUFFICES ASSUME NEW p \in Values(FilterRecord(a, ex))
             PROVE  p \in Values(FilterRecord(b, ex))
  OBVIOUS
<1> DEFINE A == FilterRecord(a, ex)
           B == FilterRecord(b, ex)
<1>1. /\ DOMAIN A = DOMAIN a \ ex /\ \A g \in DOMAIN a \ ex : A[g] = a[g]
      /\ DOMAIN B = DOMAIN b \ ex /\ \A g \in DOMAIN b \ ex : B[g] = b[g]
  BY DEF FilterRecord, Restrict
<1> HIDE DEF A, B
<1>2. PICK g \in DOMAIN A : A[g] # Empty /\ p = <<g, A[g]>>
  BY DEF Values, A
<1>3. ValueOf(a, g) = A[g] /\ g \notin ex
  BY <1>1, <1>2 DEF ValueOf
<1>4. ValueOf(b, g) = A[g]
  BY <1>3 DEF SameValues
<1>5. g \in DOMAIN b /\ b[g] = A[g]
  BY <1>2, <1>4 DEF ValueOf
<1>6. g \in DOMAIN B /\ B[g] = A[g]
  BY <1>1, <1>3, <1>5
<1>7. p \in Values(B)
  BY <1>2, <1>6 DEF Values
<1> QED BY <1>7 DEF B

LEMMA ValuesSame ==
    ASSUME NEW a, NEW b, SameValues(a, b), NEW ex
    PROVE  Values(FilterRecord(a, ex)) = Values(FilterRecord(b, ex))
<1>1. SameValues(b, a)
  BY DEF SameValues
<1>2. Values(FilterRecord(a, ex)) \subseteq Values(FilterRecord(b, ex))
  BY ValuesWithin
<1>3. Values(FilterRecord(b, ex)) \subseteq Values(FilterRecord(a, ex))
  BY <1>1, ValuesWithin
<1> QED BY <1>2, <1>3

(* Excluding no column changes nothing.                                    *)
LEMMA FilterNothing ==
    ASSUME NEW r
    PROVE  Values(FilterRecord(r, {})) = Values(r)
<1>1. /\ DOMAIN FilterRecord(r, {}) = DOMAIN r
      /\ \A g \in DOMAIN r : FilterRecord(r, {})[g] = r[g]
  BY DEF FilterRecord, Restrict
<1> QED BY <1>1 DEF Values

(* A row under its header gives back the record.                           *)
LEMMA CellsSay ==
    ASSUME NEW c \in Seq(Nat), NEW r \in Record, DOMAIN r \subseteq ToSet(c)
    PROVE  SameValues(UnderHeader(c, Cells(c, r)), r)
<1> DEFINE U == UnderHeader(c, Cells(c, r))
<1>1. /\ DOMAIN Cells(c, r) = 1 .. Len(c)
      /\ \A i \in 1 .. Len(c) : Cells(c, r)[i] = ValueOf(r, c[i])
  BY CellsAre
<1>2. DOMAIN c = 1 .. Len(c) /\ ToSet(c) = {c[i] : i \in DOMAIN c}
  BY DEF ToSet
<1>3. DOMAIN U = ToSet(c)
  BY DEF UnderHeader
<1>4. ASSUME NEW g \in ToSet(c) PROVE U[g] = ValueOf(r, g)
  <2> DEFINE i == CHOOSE k \in DOMAIN c : c[k] = g
  <2>1. i \in DOMAIN c /\ c[i] = g
    BY <1>2
  <2>2. U[g] = IF i \in DOMAIN Cells(c, r) THEN Cells(c, r)[i] ELSE Empty
    BY DEF UnderHeader
  <2> HIDE DEF i
  <2> QED BY <1>1, <1>2, <2>1, <2>2
<1> HIDE DEF U
<1>5. ASSUME NEW g PROVE ValueOf(U, g) = ValueOf(r, g)
  <2>1. CASE g \in ToSet(c)
    BY <1>3, <1>4, <2>1 DEF ValueOf
  <2>2. CASE g \notin ToSet(c)
    BY <1>3, <2>2 DEF ValueOf
  <2> QED BY <2>1, <2>2
<1> QED BY <1>5 DEF SameValues, U

(* A row without any value is a record without any.                        *)
LEMMA BlankSays ==
    ASSUME NEW c \in Seq(Nat), NEW r \in Record, DOMAIN r \subseteq ToSet(c), NEW ex,
           \A i \in 1 .. Len(c) : Cells(c, r)[i] = Empty
    PROVE  Values(FilterRecord(r, ex)) = {}
<1>1. \A g \in DOMAIN r : r[g] = Empty
  <2> SUFFICES ASSUME NEW g \in DOMAIN r PROVE r[g] = Empty
    OBVIOUS
  <2>1. PICK i \in 1 .. Len(c) : c[i] = g
    BY DEF ToSet
  <2>2. Cells(c, r)[i] = ValueOf(r, g)
    BY <2>1, CellsAre
  <2> QED BY <2>2 DEF ValueOf
<1>2. /\ DOMAIN FilterRecord(r, ex) \subseteq DOMAIN r
      /\ \A g \in DOMAIN FilterRecord(r, ex) : FilterRecord(r, ex)[g] = r[g]
  BY DEF FilterRecord, Restrict
<1> QED BY <1>1, <1>2 DEF Values

LEMMA SaidOfRead ==
    ASSUME NEW n \in Nat, NEW recs, DOMAIN recs = 1 .. n, NEW ex
    PROVE  Said(Without(recs, ex)) = Told([i \in 1 .. n |-> Values(FilterRecord(recs[i], ex))])
<1>1. /\ DOMAIN Without(recs, ex) = 1 .. n
      /\ \A i \in 1 .. n : Without(recs, ex)[i] = FilterRecord(recs[i], ex)
  BY DEF Without
<1> DEFINE W == Without(recs, ex)
<1>2. [i \in DOMAIN W |-> Values(W[i])] = [i \in 1 .. n |-> Values(FilterRecord(recs[i], ex))]
  BY <1>1
<1>3. Said(W) = Told([i \in DOMAIN W |-> Values(W[i])])
  BY SaidIsTold
<1> QED BY <1>2, <1>3

(* Records that are the rows themselves.                                   *)
LEMMA DirectSays ==
    ASSUME NEW fmt, NEW c, NEW rs, NEW k \in Nat, NEW recs, DOMAIN recs = 1 .. k, NEW ex,
           \A i \in 1 .. k : SameValues(recs[i], AsRead(fmt, c, rs[i]))
    PROVE  Said(Without(recs, ex)) = Told(Say(fmt, c, rs, k, ex))
<1> DEFINE u == [i \in 1 .. k |-> Values(FilterRecord(recs[i], ex))]
           v == Say(fmt, c, rs, k, ex)
<1>1. Said(Without(recs, ex)) = Told(u)
  BY SaidOfRead
<1>2. DOMAIN u = 1 .. k /\ DOMAIN v = 1 .. k
  BY DEF Say
<1>3. \A i \in 1 .. k : u[i] = v[i]
  <2> SUFFICES ASSUME NEW i \in 1 .. k PROVE u[i] = v[i]
    OBVIOUS
  <2>1. SameValues(recs[i], AsRead(fmt, c, rs[i]))
    OBVIOUS
  <2>2. Values(FilterRecord(recs[i], ex)) = Values(FilterRecord(AsRead(fmt, c, rs[i]), ex))
    BY ONLY <2>1, ValuesSame
  <2> QED BY <2>2 DEF Say
<1> HIDE DEF u, v
<1>4. Told(u) = Told(v)
  BY ONLY <1>2, <1>3, k \in Nat, ToldSame
<1> QED BY <1>1, <1>4 DEF v

(* What csv and xlsx keep of a record has all its fields.                  *)
LEMMA LineIs ==
    ASSUME NEW fmt \in {"csv", "xlsx"}, NEW c, NEW r \in Record
    PROVE  /\ AsRead(fmt, c, r) \in Record /\ DOMAIN AsRead(fmt, c, r) = DOMAIN r
           /\ AsRead("csv", c, r) = r /\ AsRead("xlsx", c, r) = Fitting(r)
<1>1. AsRead("csv", c, r) = r /\ AsRead("xlsx", c, r) = Fitting(r)
  BY DEF AsRead
<1> QED BY <1>1, FittingIs

(* Records made of those rows of cells that have a value.                  *)
LinesRead(recs, rows, P, fmt, columns, rs, k) ==
    /\ fmt \in {"csv", "xlsx"} /\ columns \in Seq(Nat) /\ rs \in Seq(Record)
    /\ Covers(columns, rs) /\ k \in 0 .. Len(rs) /\ P \subseteq 1 .. k
    /\ DOMAIN rows = 1 .. k
    /\ \A i \in 1 .. k : rows[i] = Cells(columns, AsRead(fmt, columns, rs[i]))
    /\ \A i \in 1 .. k : i \notin P => \A j \in 1 .. Len(columns) : rows[i][j] = Empty
    /\ DOMAIN recs = DOMAIN EntriesAt(rows, P)
    /\ \A i \in DOMAIN recs : recs[i] = UnderHeader(columns, EntriesAt(rows, P)[i])

LEMMA LinesSay ==
    ASSUME NEW fmt, NEW c, NEW rs, NEW k, NEW rows, NEW P, NEW recs,
           LinesRead(recs, rows, P, fmt, c, rs, k), NEW ex
    PROVE  Said(Without(recs, ex)) = Told(Say(fmt, c, rs, k, ex))
<1> DEFINE v == Say(fmt, c, rs, k, ex)
           m == Cardinality(P)
           u == [i \in 1 .. m |-> Values(FilterRecord(recs[i], ex))]
           w == EntriesAt(v, P)
<1> USE DEF LinesRead
<1>1. k \in Nat /\ Len(rs) \in Nat
  OBVIOUS
<1>2. Numbers(P)
  BY ONLY <1>1, P \subseteq 1 .. k, Positions
<1>3. DOMAIN v = 1 .. k /\ \A i \in 1 .. k : v[i] = Values(FilterRecord(AsRead(fmt, c, rs[i]), ex))
  BY DEF Say
<1>4. m \in Nat /\ DOMAIN EntriesAt(rows, P) = 1 .. m /\ DOMAIN w = 1 .. m
  BY <1>2, EntriesProperties
<1>5. Said(Without(recs, ex)) = Told(u)
  BY <1>4, SaidOfRead
<1> HIDE DEF v, m
<1>6. ASSUME NEW i \in 1 .. m PROVE u[i] = w[i]
  <2> DEFINE x == Sorted(P)[i]
  <2>1. x \in P
    BY <1>2, SortedAt DEF m
  <2>2. EntriesAt(rows, P)[i] = rows[x] /\ EntriesAt(v, P)[i] = v[x]
    <3>1. i \in 1 .. Cardinality(P)
      BY DEF m
    <3> QED BY ONLY <1>2, <3>1, EntryAt
  <2> HIDE DEF x
  <2>3. x \in 1 .. k /\ x \in 1 .. Len(rs)
    BY <1>1, <2>1
  <2> DEFINE r == AsRead(fmt, c, rs[x])
  <2>4. r \in Record /\ DOMAIN r \subseteq ToSet(c)
    <3>1. rs[x] \in Record /\ DOMAIN rs[x] \subseteq ToSet(c)
      BY <2>3 DEF Covers
    <3> QED BY <3>1, LineIs
  <2>6. recs[i] = UnderHeader(c, Cells(c, r))
    BY <1>4, <2>2, <2>3
  <2> HIDE DEF r
  <2>5. SameValues(UnderHeader(c, Cells(c, r)), r)
    BY <2>4, CellsSay
  <2>7. Values(FilterRecord(recs[i], ex)) = Values(FilterRecord(r, ex))
    BY <2>5, <2>6, ValuesSame
  <2> QED BY <1>3, <2>2, <2>3, <2>7 DEF r
<1>7. \A i \in 1 .. k : i \notin P => v[i] = {}
  <2> SUFFICES ASSUME NEW i \in 1 .. k, i \notin P PROVE v[i] = {}
    OBVIOUS
  <2>1. i \in 1 .. Len(rs)
    BY <1>1
  <2> DEFINE r == AsRead(fmt, c, rs[i])
  <2>2. r \in Record /\ DOMAIN r \subseteq ToSet(c)
    <3>1. rs[i] \in Record /\ DOMAIN rs[i] \subseteq ToSet(c)
      BY <2>1 DEF Covers
    <3> QED BY <3>1, LineIs
  <2>3. \A j \in 1 .. Len(c) : Cells(c, r)[j] = Empty
    OBVIOUS
  <2> HIDE DEF r
  <2>4. Values(FilterRecord(r, ex)) = {}
    BY ONLY c \in Seq(Nat), <2>2, <2>3, BlankSays
  <2> QED BY <1>3, <2>4 DEF r
<1>8. DOMAIN u = 1 .. m
  OBVIOUS
<1> HIDE DEF u, w
<1>9. Told(u) = Told(w)
  BY ONLY <1>4, <1>6, <1>8, ToldSame
<1>10. Told(w) = Told(v)
  <2>1. Told(EntriesAt(v, P)) = Told(v)
    BY ONLY <1>1, <1>3, P \subseteq 1 .. k, <1>7, ToldDropped
  <2> QED BY <2>1 DEF w
<1> QED BY <1>5, <1>9, <1>10 DEF v

(* A complete file ends whole, and all its rows count.                     *)
LEMMA CompleteFile ==
    ASSUME NEW g \in Seq(WholeUnits)
    PROVE  ~EndsTorn(g) /\ WholeLen(g) = Len(g) /\ Fits(g, g) /\ g \in Seq(Units)
<1>1. \A i \in 1 .. Len(g) : g[i] \in Units /\ g[i].whole = TRUE
  <2> SUFFICES ASSUME NEW i \in 1 .. Len(g) PROVE g[i] \in Units /\ g[i].whole = TRUE
    OBVIOUS
  <2>1. g[i] \in WholeUnits
    OBVIOUS
  <2> QED BY <2>1, UnitWhole
<1>2. Len(g) \in Nat /\ (g # <<>> => Len(g) >= 1) /\ g \in Seq(Units)
  BY <1>1
<1>3. ~EndsTorn(g)
  <2> SUFFICES ASSUME g # <<>> PROVE Last(g).whole
    BY DEF EndsTorn
  <2>1. Len(g) \in 1 .. Len(g)
    BY <1>2
  <2> QED BY <1>1, <2>1 DEF Last
<1>4. WholeLen(g) = Len(g)
  BY <1>3 DEF WholeLen
<1> QED BY <1>1, <1>2, <1>3, <1>4 DEF Fits

LEMMA CompleteCount ==
    ASSUME NEW fmt \in AllFormats \ {"xlsx"}, NEW c \in Seq(Nat), NEW rs \in Seq(Record)
    PROVE  /\ RowCount(fmt, c, Layout(fmt, c, rs), rs) = Len(rs) /\ ~EndsTorn(Layout(fmt, c, rs))
           /\ Behind(fmt) = 1 => /\ Last(Layout(fmt, c, rs)).kind = "end"
                                 /\ Last(Layout(fmt, c, rs)).whole
                                 /\ Layout(fmt, c, rs) # <<>>
           /\ fmt = "sqlite" => Layout(fmt, c, rs) # <<>>
<1> DEFINE L == Layout(fmt, c, rs)
           h == Before(fmt, c)
           n == Len(rs)
<1>1. /\ L \in Seq(WholeUnits) /\ Len(L) = h + n + Behind(fmt)
      /\ Behind(fmt) = 1 => L[h + n + 1] = End
  BY LayoutAt
<1>2. h \in {0, 1} /\ n \in Nat /\ Behind(fmt) \in {0, 1} /\ (fmt = "sqlite" => h = 1)
  BY OpeningIs DEF Behind
<1>3. ~EndsTorn(L) /\ WholeLen(L) = Len(L)
  BY <1>1, CompleteFile
<1>4. End.kind = "end" /\ End.whole
  BY DEF End, Unit
<1> HIDE DEF L
<1>5. RowCount(fmt, c, L, rs) = n
  <2>1. RowCount(fmt, c, L, rs) = IF WholeLen(L) <= h THEN 0
                                  ELSE IF WholeLen(L) - h <= n THEN WholeLen(L) - h ELSE n
    BY DEF RowCount
  <2> HIDE DEF h, n
  <2> QED BY <1>1, <1>2, <1>3, <2>1
<1> HIDE DEF h, n
<1>6. Behind(fmt) = 1 => Last(L).kind = "end" /\ Last(L).whole /\ L # <<>>
  <2> SUFFICES ASSUME Behind(fmt) = 1 PROVE Last(L) = End /\ L # <<>>
    BY <1>4
  <2>1. Len(L) = h + n + 1 /\ L[h + n + 1] = End
    BY <1>1, <1>2
  <2> QED BY <1>1, <1>2, <2>1 DEF Last
<1>7. fmt = "sqlite" => L # <<>>
  BY <1>1, <1>2
<1> QED BY <1>3, <1>5, <1>6, <1>7 DEF L, n

(* That a reader returned recs: the first k of rs, as its format keeps     *)
(* them.                                                                   *)
Tells(recs, fmt, columns, rs, k, ex) ==
    /\ Said(Without(recs, ex)) = Told(Say(fmt, columns, rs, k, ex))
    /\ \E m \in Nat : DOMAIN recs = 1 .. m

(* The rows of a csv are under its header.                                 *)
LEMMA CSVRows ==
    ASSUME NEW c \in Seq(Nat), NEW rs \in Seq(Record),
           NEW f, Fits(f, Layout("csv", c, rs))
    PROVE  /\ RowCount("csv", c, f, rs) \in 0 .. Len(rs)
           /\ DOMAIN RowsIn(f) = 1 .. RowCount("csv", c, f, rs)
           /\ \A i \in 1 .. RowCount("csv", c, f, rs) : RowsIn(f)[i] = Cells(c, rs[i])
           /\ RowCount("csv", c, f, rs) >= 1 => HeaderOf(f) = c
<1> DEFINE k == RowCount("csv", c, f, rs)
           h == Before("csv", c)
           rows == RowsIn(f)
<1>2. "csv" \in AllFormats \ {"xlsx"}
  BY DEF AllFormats
<1>3. /\ k \in 0 .. Len(rs) /\ DOMAIN rows = 1 .. k
      /\ \A i \in 1 .. k : rows[i] = RowUnit("csv", c, rs[i]).data
  BY <1>2, RowsRead
<1>4. \A i \in 1 .. k : rows[i] = Cells(c, rs[i])
  BY <1>3 DEF RowUnit, Unit
<1>5. Len(rs) \in Nat /\ k \in Nat
  BY <1>3
<1>6. ASSUME k >= 1 PROVE HeaderOf(f) = c
  <2>1. /\ h \in {0, 1}
        /\ \A i \in 1 .. k : f[h + i] = RowUnit("csv", c, rs[i])
        /\ {i \in DOMAIN f : f[i].kind = "row" /\ f[i].whole} = h + 1 .. h + k
    BY <1>2, RowPositions
  <2>2. /\ 1 \in 1 .. k /\ h + 1 \in DOMAIN f /\ f[h + 1].whole /\ f[h + 1].kind = "row"
    <3>1. 1 \in 1 .. k /\ h + 1 \in h + 1 .. h + k
      BY <1>5, <1>6, <2>1
    <3> QED BY <2>1, <3>1
  <2>3. f # <<>>
    BY <2>2
  <2>4. CASE h = 0
    <3>1. c = <<>>
      BY <1>2, <2>4, OpeningIs
    <3>2. f[1].kind = "row"
      BY <2>2, <2>4
    <3> QED BY <3>1, <3>2 DEF HeaderOf
  <2>5. CASE h = 1
    <3>1. \A i \in 1 .. h : Layout("csv", c, rs)[i] = Unit("head", c)
      BY <1>2, LayoutAt
    <3>2. /\ \A i \in 1 .. WholeLen(f) : f[i] = Layout("csv", c, rs)[i]
          /\ \A i \in DOMAIN f : f[i].whole => i \in 1 .. WholeLen(f)
          /\ WholeLen(f) \in Nat
      BY FitsAt
    <3> HIDE DEF h
    <3>3. 2 \in 1 .. WholeLen(f)
      BY <2>2, <2>5, <3>2
    <3>4. f[1] = Unit("head", c)
      BY <2>5, <3>1, <3>2, <3>3
    <3> QED BY <2>3, <3>4 DEF HeaderOf, Unit
  <2> QED BY <2>1, <2>4, <2>5
<1> QED BY <1>3, <1>4, <1>6

LEMMA CSVSays ==
    ASSUME NEW c \in Seq(Nat), NEW rs \in Seq(Record), Covers(c, rs),
           NEW f, Fits(f, Layout("csv", c, rs)), NEW ex
    PROVE  Tells(ReadCSV(f).recs, "csv", c, rs, RowCount("csv", c, f, rs), ex)
<1> DEFINE k == RowCount("csv", c, f, rs)
           header == HeaderOf(f)
           rows == RowsIn(f)
           P == {i \in DOMAIN rows : rows[i] \notin {<<>>, <<Empty>>}}
           lines == EntriesAt(rows, P)
           recs == ReadCSV(f).recs
<1>1. recs = [i \in DOMAIN lines |-> UnderHeader(header, lines[i])]
  BY DEF ReadCSV
<1>3. /\ k \in 0 .. Len(rs) /\ DOMAIN rows = 1 .. k
      /\ \A i \in 1 .. k : rows[i] = Cells(c, rs[i])
      /\ k >= 1 => header = c
  BY CSVRows
<1>5. Len(rs) \in Nat /\ k \in Nat
  BY <1>3
<1>7. \A i \in 1 .. k : i \notin P => \A j \in 1 .. Len(c) : rows[i][j] = Empty
  <2> SUFFICES ASSUME NEW i \in 1 .. k, i \notin P, NEW j \in 1 .. Len(c)
               PROVE  rows[i][j] = Empty
    OBVIOUS
  <2>1. rows[i] = <<>> \/ rows[i] = <<Empty>>
    BY <1>3
  <2>2. i \in 1 .. Len(rs)
    BY <1>3, <1>5
  <2>3. rs[i] \in Record
    BY <2>2
  <2>4. DOMAIN rows[i] = 1 .. Len(c)
    BY <1>3, <2>3, CellsAre
  <2>5. CASE rows[i] = <<>>
    BY <2>4, <2>5
  <2>6. CASE rows[i] = <<Empty>>
    <3>1. j \in DOMAIN <<Empty>>
      BY <2>4, <2>6
    <3>2. j = 1
      BY <3>1
    <3> QED BY <2>6, <3>2
  <2> QED BY <2>1, <2>5, <2>6
<1>8. P \subseteq 1 .. k
  BY <1>3
<1> HIDE DEF P, rows, header
<1>9. Numbers(P)
  BY ONLY <1>5, <1>8, Positions
<1>10. DOMAIN lines = 1 .. Cardinality(P) /\ Cardinality(P) \in Nat
  BY ONLY <1>9, EntriesProperties
<1>11. DOMAIN recs = DOMAIN lines
  BY <1>1
<1>12. \A i \in DOMAIN recs : recs[i] = UnderHeader(c, lines[i])
  <2> SUFFICES ASSUME NEW i \in DOMAIN lines PROVE recs[i] = UnderHeader(c, lines[i])
    BY <1>11
  <2>1. PICK x \in P : TRUE
    BY <1>9, <1>10, SortedAt
  <2>2. x \in 1 .. k
    BY <1>8
  <2>3. k >= 1
    BY <1>5, <2>2
  <2> QED BY <1>1, <1>3, <2>3
<1> HIDE DEF recs, k
<1>13. Said(Without(recs, ex)) = Told(Say("csv", c, rs, k, ex))
  <2>1. "csv" \in {"csv", "xlsx"}
    OBVIOUS
  <2>2. k \in 0 .. Len(rs)
    BY <1>3
  <2>3. \A i \in 1 .. k : rows[i] = Cells(c, AsRead("csv", c, rs[i]))
    <3> SUFFICES ASSUME NEW i \in 1 .. k PROVE rows[i] = Cells(c, AsRead("csv", c, rs[i]))
      OBVIOUS
    <3>1. rs[i] \in Record
      BY <1>5, <2>2
    <3> QED BY <1>3, <2>1, <3>1, LineIs
  <2>4. LinesRead(recs, rows, P, "csv", c, rs, k)
    BY <1>3, <1>7, <1>8, <1>11, <1>12, <2>1, <2>2, <2>3 DEF LinesRead
  <2> QED BY <2>4, LinesSay
<1> QED BY <1>10, <1>11, <1>13 DEF Tells, recs, k

LEMMA NothingTold ==
    ASSUME NEW fmt, NEW c, NEW rs, NEW ex
    PROVE  Tells(<<>>, fmt, c, rs, 0, ex)
<1>1. DOMAIN <<>> = 1 .. 0 /\ 0 \in Nat
  OBVIOUS
<1>2. \A i \in 1 .. 0 : SameValues(<<>>[i], AsRead(fmt, c, rs[i]))
  OBVIOUS
<1>3. Said(Without(<<>>, ex)) = Told(Say(fmt, c, rs, 0, ex))
  BY <1>1, <1>2, DirectSays
<1> QED BY <1>1, <1>3 DEF Tells

(* All rows of a workbook or none.                                         *)
LEMMA XLSXSays ==
    ASSUME NEW c \in Seq(Nat), NEW rs \in Seq(Record), Covers(c, rs),
           NEW f, Fits(f, Layout("xlsx", c, rs)), NEW ex
    PROVE  \E k \in {0, Len(rs)} :
               /\ Tells(ReadXLSX(f).recs, "xlsx", c, rs, k, ex)
               /\ f = Layout("xlsx", c, rs) => k = Len(rs) /\ ReadXLSX(f).end = "eof"
               /\ ReadXLSX(f).end # "cut"
<1>1. /\ Layout("xlsx", c, rs) = <<Book(c, rs)>> /\ Len(Layout("xlsx", c, rs)) = 1
      /\ Layout("xlsx", c, rs) \in Seq(WholeUnits)
  BY BookIs
<1>2. CASE f = <<>> \/ EndsTorn(f)
  <2>1. ReadXLSX(f) = [recs |-> <<>>, end |-> "error"]
    BY <1>2 DEF ReadXLSX
  <2>2. f # Layout("xlsx", c, rs)
    <3>1. ~EndsTorn(Layout("xlsx", c, rs))
      BY <1>1, CompleteFile
    <3> SUFFICES ASSUME f = Layout("xlsx", c, rs) PROVE FALSE
      OBVIOUS
    <3>2. f \in Seq(WholeUnits) /\ Len(f) = 1
      BY <1>1
    <3>3. f # <<>>
      <4>1. f \in Seq(Units)
        BY DEF Fits
      <4>2. f = <<>> => WholeLen(f) = 0 /\ ~EndsTorn(f)
        BY <4>1, WholeLenIs
      <4>3. WholeLen(f) = 1
        BY <3>1, <3>2 DEF WholeLen
      <4> QED BY <4>2, <4>3
    <3>4. ~EndsTorn(f)
      BY <3>1
    <3> QED BY <1>2, <3>3, <3>4
  <2>3. Tells(ReadXLSX(f).recs, "xlsx", c, rs, 0, ex)
    BY <2>1, NothingTold
  <2> QED BY <2>1, <2>2, <2>3
<1>3. CASE ~ (f = <<>> \/ EndsTorn(f))
  <2> DEFINE k == Len(rs)
             book == f[1].data
             rows == book.rows
             P == {i \in DOMAIN rows : \E j \in DOMAIN rows[i] : rows[i][j] # Empty}
             lines == EntriesAt(rows, P)
             recs == ReadXLSX(f).recs
  <2>1. f[1] = Book(c, rs)
    <3>1. f \in Seq(Units) /\ WholeLen(f) = Len(f) /\ \A i \in 1 .. WholeLen(f) :
                                                         f[i] = Layout("xlsx", c, rs)[i]
      BY <1>3, FitsAt DEF WholeLen
    <3>2. 1 \in 1 .. Len(f)
      BY <1>3, <3>1
    <3> QED BY <1>1, <3>1, <3>2
  <2>2. book.head = c /\ rows = [i \in DOMAIN rs |-> Cells(c, Fitting(rs[i]))]
    BY <2>1 DEF Book, Unit
  <2>3. /\ ReadXLSX(f).end = "eof"
        /\ recs = [i \in DOMAIN lines |-> UnderHeader(book.head, lines[i])]
    BY <1>3 DEF ReadXLSX
  <2>4. k \in Nat /\ DOMAIN rows = 1 .. k
        /\ \A i \in 1 .. k : rows[i] = Cells(c, Fitting(rs[i]))
    BY <2>2
  <2>5. P \subseteq 1 .. k
    BY <2>4
  <2>6. \A i \in 1 .. k : i \notin P => \A j \in 1 .. Len(c) : rows[i][j] = Empty
    <3> SUFFICES ASSUME NEW i \in 1 .. k, i \notin P, NEW j \in 1 .. Len(c)
                 PROVE  rows[i][j] = Empty
      OBVIOUS
    <3>1. Fitting(rs[i]) \in Record
      BY <2>4, FittingIs
    <3>2. DOMAIN rows[i] = 1 .. Len(c)
      BY <2>4, <3>1, CellsAre
    <3> QED BY <2>4, <3>2
  <2> HIDE DEF P, rows, book
  <2>7. Numbers(P)
    BY ONLY <2>4, <2>5, Positions
  <2>8. DOMAIN lines = 1 .. Cardinality(P) /\ Cardinality(P) \in Nat
    BY ONLY <2>7, EntriesProperties
  <2>9. DOMAIN recs = DOMAIN lines /\ \A i \in DOMAIN recs : recs[i] = UnderHeader(c, lines[i])
    BY <2>2, <2>3
  <2> HIDE DEF recs
  <2>10. LinesRead(recs, rows, P, "xlsx", c, rs, k)
    <3>1. k \in 0 .. Len(rs)
      BY <2>4
    <3>2. \A i \in 1 .. k : rows[i] = Cells(c, AsRead("xlsx", c, rs[i]))
      <4> SUFFICES ASSUME NEW i \in 1 .. k PROVE rows[i] = Cells(c, AsRead("xlsx", c, rs[i]))
        OBVIOUS
      <4>1. rs[i] \in Record
        BY <2>4
      <4>2. AsRead("xlsx", c, rs[i]) = Fitting(rs[i])
        BY <4>1, LineIs
      <4> QED BY <2>4, <4>2
    <3> QED BY <2>4, <2>5, <2>6, <2>9, <3>1, <3>2 DEF LinesRead
  <2>11. Said(Without(recs, ex)) = Told(Say("xlsx", c, rs, k, ex))
    BY <2>10, LinesSay
  <2>12. Tells(recs, "xlsx", c, rs, k, ex)
    BY <2>8, <2>9, <2>11 DEF Tells
  <2> QED BY <2>3, <2>12 DEF recs
<1> QED BY <1>2, <1>3

-----------------------------------------------------------------------------
(* What a scanner gets: the lines before the first that is too long.       *)

LEMMA Greatest ==
    ASSUME NEW n \in Nat, NEW S, S \subseteq 1 .. n, S # {}
    PROVE  \E x \in S : \A y \in S : y <= x
<1> DEFINE m == Cardinality(S)
<1>1. Numbers(S)
  BY Positions
<1>2. /\ m \in Nat /\ Sorted(S) \in [1 .. m -> S]
      /\ \A i, j \in 1 .. m : i < j => Sorted(S)[i] < Sorted(S)[j]
      /\ \A x \in S : \E i \in 1 .. m : Sorted(S)[i] = x
  BY <1>1, SortedProperties
<1> HIDE DEF m
<1>3. m \in 1 .. m
  <2>1. PICK x \in S : TRUE
    OBVIOUS
  <2>2. PICK i \in 1 .. m : Sorted(S)[i] = x
    BY <1>2
  <2> QED BY <1>2, <2>2
<1>4. ASSUME NEW y \in S PROVE y <= Sorted(S)[m]
  <2>1. PICK i \in 1 .. m : Sorted(S)[i] = y
    BY <1>2
  <2>2. Sorted(S)[m] \in Nat /\ y \in Nat
    <3>1. Sorted(S)[m] \in S
      BY <1>2, <1>3
    <3>2. \A z \in S : z \in Nat
      OBVIOUS
    <3> QED BY <3>1, <3>2
  <2>3. i = m \/ i < m
    BY <1>2
  <2>4. i < m => y < Sorted(S)[m]
    BY <1>2, <1>3, <2>1
  <2> QED BY <2>1, <2>2, <2>3, <2>4
<1> QED BY <1>2, <1>3, <1>4

Until(lines, n, sizes, k) ==
    /\ k \in 0 .. n /\ \A i \in 1 .. k : ~TooLong(lines[i], sizes)
    /\ k < n => TooLong(lines[k + 1], sizes)

(* How many of the first n lines there are before a long one.              *)
Reach(lines, n, sizes) == CHOOSE k \in 0 .. n : Until(lines, n, sizes, k)

LEMMA UntilSame ==
    ASSUME NEW n \in Nat, NEW a, NEW b, NEW sizes,
           \A i \in 1 .. n : TooLong(a[i], sizes) <=> TooLong(b[i], sizes),
           NEW k, Until(a, n, sizes, k), NEW l, Until(b, n, sizes, l)
    PROVE  k = l
<1>1. k \in 0 .. n /\ l \in 0 .. n /\ k \in Int /\ l \in Int
  BY DEF Until
<1>2. ASSUME k < l PROVE FALSE
  <2>1. k + 1 \in 1 .. l /\ k + 1 \in 1 .. n
    BY <1>1, <1>2
  <2> QED BY <1>1, <1>2, <2>1 DEF Until
<1>3. ASSUME l < k PROVE FALSE
  <2>1. l + 1 \in 1 .. k /\ l + 1 \in 1 .. n
    BY <1>1, <1>3
  <2> QED BY <1>1, <1>3, <2>1 DEF Until
<1> QED BY <1>1, <1>2, <1>3

LEMMA ScanStops ==
    ASSUME NEW n \in Nat, NEW lines, NEW sizes
    PROVE  /\ Until(lines, n, sizes, Reach(lines, n, sizes))
           /\ {i \in 1 .. n : \A j \in 1 .. i : ~TooLong(lines[j], sizes)}
                 = 1 .. Reach(lines, n, sizes)
<1> DEFINE P == {i \in 1 .. n : \A j \in 1 .. i : ~TooLong(lines[j], sizes)}
<1>1. \E k \in 0 .. n : Until(lines, n, sizes, k) /\ P = 1 .. k
  <2>1. CASE P = {}
    <3>1. 0 \in 0 .. n /\ 1 .. 0 = {} /\ \A i \in 1 .. 0 : ~TooLong(lines[i], sizes)
      OBVIOUS
    <3>2. ASSUME 0 < n PROVE TooLong(lines[1], sizes)
      <4>1. 1 \in 1 .. n /\ 1 \notin P
        BY <2>1, <3>2
      <4>2. \A j \in 1 .. 1 : j = 1
        OBVIOUS
      <4> QED BY <4>1, <4>2
    <3>3. Until(lines, n, sizes, 0)
      BY <3>1, <3>2 DEF Until
    <3> QED BY <2>1, <3>1, <3>3
  <2>2. CASE P # {}
    <3>1. P \subseteq 1 .. n
      OBVIOUS
    <3> HIDE DEF P
    <3>2. PICK k \in P : \A y \in P : y <= k
      BY <2>2, <3>1, Greatest
    <3>3. k \in 1 .. n /\ k \in 0 .. n /\ \A j \in 1 .. k : ~TooLong(lines[j], sizes)
      BY <3>2 DEF P
    <3>4. ASSUME k < n PROVE TooLong(lines[k + 1], sizes)
      <4>1. k + 1 \in 1 .. n /\ k + 1 \notin P
        BY <3>2, <3>3, <3>4
      <4>2. PICK j \in 1 .. k + 1 : TooLong(lines[j], sizes)
        BY <4>1 DEF P
      <4>3. j \in 1 .. k \/ j = k + 1
        BY <3>3
      <4> QED BY <3>3, <4>2, <4>3
    <3>5. P = 1 .. k
      <4>1. ASSUME NEW i \in P PROVE i \in 1 .. k
        <5>1. i \in 1 .. n /\ i <= k
          BY <3>1, <3>2
        <5> QED BY <3>3, <5>1
      <4>2. ASSUME NEW i \in 1 .. k PROVE i \in P
        <5>1. i \in 1 .. n /\ \A j \in 1 .. i : j \in 1 .. k
          BY <3>3
        <5> QED BY <3>3, <5>1 DEF P
      <4> QED BY <4>1, <4>2
    <3>6. Until(lines, n, sizes, k)
      BY <3>3, <3>4 DEF Until
    <3> QED BY <3>3, <3>5, <3>6
  <2> QED BY <2>1, <2>2
<1> HIDE DEF P
<1>2. PICK k \in 0 .. n : Until(lines, n, sizes, k) /\ P = 1 .. k
  BY <1>1
<1>3. Until(lines, n, sizes, Reach(lines, n, sizes))
  BY <1>2 DEF Reach
<1>4. k = Reach(lines, n, sizes)
  BY <1>2, <1>3, UntilSame
<1> QED BY <1>2, <1>3, <1>4 DEF P

LEMMA ReachIs ==
    ASSUME NEW n \in Nat, NEW lines, NEW sizes
    PROVE  Reach(lines, n, sizes) \in 0 .. n
BY ScanStops DEF Until

LEMMA ReachSame ==
    ASSUME NEW n \in Nat, NEW a, NEW b, NEW sizes,
           \A i \in 1 .. n : TooLong(a[i], sizes) <=> TooLong(b[i], sizes)
    PROVE  Reach(a, n, sizes) = Reach(b, n, sizes)
<1>1. Until(a, n, sizes, Reach(a, n, sizes)) /\ Until(b, n, sizes, Reach(b, n, sizes))
  BY ScanStops
<1> QED BY <1>1, UntilSame

(* More lines, no fewer before a long one.                                 *)
LEMMA ReachGrows ==
    ASSUME NEW m \in Nat, NEW n \in Nat, m <= n, NEW a, NEW b, NEW sizes,
           \A i \in 1 .. m : a[i] = b[i]
    PROVE  Reach(a, m, sizes) <= Reach(b, n, sizes)
<1> DEFINE k == Reach(a, m, sizes)
           l == Reach(b, n, sizes)
<1>1. Until(a, m, sizes, k) /\ Until(b, n, sizes, l) /\ k \in 0 .. m /\ l \in 0 .. n
  BY ScanStops, ReachIs
<1> HIDE DEF k, l
<1>2. ASSUME l < k PROVE FALSE
  <2>1. l + 1 \in 1 .. k /\ l + 1 \in 1 .. m /\ l < n
    BY <1>1, <1>2
  <2>2. ~TooLong(a[l + 1], sizes) /\ TooLong(b[l + 1], sizes)
    BY <1>1, <2>1 DEF Until
  <2> QED BY <2>1, <2>2
<1> QED BY <1>1, <1>2 DEF k, l

LEMMA ScannedIs ==
    ASSUME NEW n \in Nat, NEW lines, DOMAIN lines = 1 .. n, NEW sizes
    PROVE  Scanned(lines, sizes) = [i \in 1 .. Reach(lines, n, sizes) |-> lines[i]]
<1> DEFINE k == Reach(lines, n, sizes)
           P == {i \in 1 .. n : \A j \in 1 .. i : ~TooLong(lines[j], sizes)}
<1>1. P = 1 .. k /\ k \in 0 .. n
  BY ScanStops, ReachIs
<1>2. Scanned(lines, sizes) = EntriesAt(lines, P)
  BY DEF Scanned
<1> HIDE DEF k, P
<1>3. /\ Numbers(0 + 1 .. 0 + k) /\ Cardinality(0 + 1 .. 0 + k) = k
      /\ Sorted(0 + 1 .. 0 + k) = [i \in 1 .. k |-> 0 + i]
  <2>1. 0 \in Nat /\ k \in Nat
    BY <1>1
  <2> QED BY <2>1, SortedInterval
<1>4. 0 + 1 .. 0 + k = P
  BY <1>1
<1>5. EntriesAt(lines, P) = [i \in 1 .. k |-> lines[Sorted(P)[i]]]
  BY <1>3, <1>4, EntriesProperties
<1>6. \A i \in 1 .. k : Sorted(P)[i] = i
  BY <1>1, <1>3, <1>4
<1>7. EntriesAt(lines, P) = [i \in 1 .. k |-> lines[i]]
  BY <1>5, <1>6
<1> QED BY <1>2, <1>7 DEF k

Least(m, n) == IF m < n THEN m ELSE n

LEMMA FirstFewIs ==
    ASSUME NEW k \in Nat, NEW s, s = [i \in 1 .. k |-> s[i]], NEW m \in Nat
    PROVE  /\ DOMAIN FirstFew(s, m) = 1 .. Least(m, k) /\ Least(m, k) \in 0 .. k
           /\ \A i \in 1 .. Least(m, k) : FirstFew(s, m)[i] = s[i]
<1> DEFINE S == {s[i] : i \in 1 .. k}
           n == Least(m, k)
<1>1. s \in Seq(S) /\ Len(s) = k
  OBVIOUS
<1>2. FirstFew(s, m) = SubSeq(s, 1, n) /\ n \in 0 .. k /\ n \in Int
  BY <1>1 DEF FirstFew, Least
<1> HIDE DEF S, n
<1>3. \A i \in 1 .. n : s[i] \in S
  BY <1>1, <1>2
<1>4. /\ SubSeq(s, 1, n) \in Seq(S)
      /\ Len(SubSeq(s, 1, n)) = IF 1 <= n THEN n - 1 + 1 ELSE 0
      /\ \A i \in 1 .. n - 1 + 1 : SubSeq(s, 1, n)[i] = s[1 + i - 1]
  BY ONLY <1>2, <1>3, 1 \in Int, SubSeqProperties
<1>5. Len(SubSeq(s, 1, n)) = n /\ DOMAIN SubSeq(s, 1, n) = 1 .. n
  BY <1>2, <1>4
<1>6. ASSUME NEW i \in 1 .. n PROVE SubSeq(s, 1, n)[i] = s[i]
  <2>1. i \in 1 .. n - 1 + 1 /\ 1 + i - 1 = i
    BY <1>2
  <2> QED BY <1>4, <2>1
<1> QED BY <1>2, <1>5, <1>6 DEF n

-----------------------------------------------------------------------------
(* The elements of a record give back what XMLRecord says.                 *)

LEMMA ElementsRead ==
    ASSUME NEW c \in Seq(Nat), NEW r
    PROVE  FromElements(Elements(c, r)) = XMLRecord(c, r)
<1> DEFINE T == {i \in DOMAIN c : c[i] \in DOMAIN r}
           m == Cardinality(T)
           o == Sorted(T)
           E == Elements(c, r)
           l1(e) == CHOOSE i \in DOMAIN E : /\ E[i][1] = e
                                            /\ \A j \in DOMAIN E : E[j][1] = e => j <= i
           l2(e) == CHOOSE i \in T : /\ XMLName(c[i]) = e
                                     /\ \A j \in T : XMLName(c[j]) = e => j <= i
           N1 == {E[i][1] : i \in DOMAIN E}
           N2 == {XMLName(c[i]) : i \in T}
<1>1. T \subseteq 1 .. Len(c) /\ Len(c) \in Nat
  OBVIOUS
<1> HIDE DEF T
<1>2. Numbers(T)
  BY <1>1, Positions
<1>3. /\ m \in Nat /\ DOMAIN o = 1 .. m /\ o \in [1 .. m -> T]
      /\ \A i, j \in 1 .. m : i < j => o[i] < o[j]
      /\ \A x \in T : \E i \in 1 .. m : o[i] = x
  BY <1>2, SortedProperties
<1>4. DOMAIN E = 1 .. m /\ \A i \in 1 .. m : E[i] = <<XMLName(c[o[i]]), r[c[o[i]]]>>
  <2> DEFINE there == EntriesAt(c, T)
  <2>1. DOMAIN there = 1 .. m
    BY <1>2, EntriesProperties
  <2>2. \A i \in 1 .. m : there[i] = c[o[i]]
    BY <1>2, EntryAt
  <2>3. E = [i \in DOMAIN there |-> <<XMLName(there[i]), r[there[i]]>>]
    BY DEF Elements, T
  <2> HIDE DEF there, E, m, o
  <2> QED BY <2>1, <2>2, <2>3
<1> HIDE DEF m, o, E
<1>5. N1 = N2
  <2>1. \A i \in 1 .. m : E[i][1] = XMLName(c[o[i]]) /\ o[i] \in T
    BY <1>3, <1>4
  <2>2. \A x \in T : \E i \in 1 .. m : XMLName(c[x]) = XMLName(c[o[i]])
    BY <1>3
  <2> QED BY <1>4, <2>1, <2>2
<1>6. ASSUME NEW e \in N2 PROVE E[l1(e)][2] = r[c[l2(e)]]
  <2> DEFINE S == {i \in 1 .. m : E[i][1] = e}
  <2>1. S # {} /\ S \subseteq 1 .. m
    BY <1>4, <1>5
  <2>2. \E i \in S : \A j \in S : j <= i
    BY <1>3, <2>1, Greatest
  <2>3. /\ l1(e) \in 1 .. m /\ E[l1(e)][1] = e
        /\ \A j \in 1 .. m : E[j][1] = e => j <= l1(e)
    <3>1. \E i \in DOMAIN E : E[i][1] = e /\ \A j \in DOMAIN E : E[j][1] = e => j <= i
      BY <1>4, <2>2
    <3> QED BY <1>4, <3>1
  <2> DEFINE i == l1(e)
             x == o[i]
  <2>4. i \in 1 .. m /\ E[i][1] = e /\ \A j \in 1 .. m : E[j][1] = e => j <= i
    BY <2>3
  <2> HIDE DEF i
  <2>5. x \in T /\ XMLName(c[x]) = e /\ x \in Nat
    BY <1>1, <1>3, <1>4, <2>4
  <2>6. ASSUME NEW y \in T, XMLName(c[y]) = e PROVE y <= x
    <3>1. PICK j \in 1 .. m : o[j] = y
      BY <1>3
    <3>2. E[j][1] = e
      BY <1>4, <2>6, <3>1
    <3>3. j <= i /\ (j = i \/ j < i)
      BY <1>3, <2>4, <3>2
    <3>4. j < i => y < x
      BY <1>3, <2>4, <3>1
    <3>5. y \in Nat
      BY <1>1
    <3> QED BY <2>5, <3>1, <3>3, <3>4, <3>5
  <2>7. l2(e) = x
    <3>1. \E k \in T : XMLName(c[k]) = e /\ \A j \in T : XMLName(c[j]) = e => j <= k
      BY <2>5, <2>6
    <3>2. l2(e) \in T /\ XMLName(c[l2(e)]) = e /\ \A j \in T : XMLName(c[j]) = e => j <= l2(e)
      BY <3>1
    <3> DEFINE z == l2(e)
    <3>3. z \in T /\ XMLName(c[z]) = e /\ \A j \in T : XMLName(c[j]) = e => j <= z
      BY <3>2
    <3> HIDE DEF z
    <3>4. z <= x
      BY <2>6, <3>3
    <3>5. x <= z
      BY <2>5, <3>3
    <3>6. z \in Nat
      BY <1>1, <3>3
    <3>7. z = x
      BY <2>5, <3>4, <3>5, <3>6
    <3> QED BY <3>7 DEF z
  <2>8. E[i][2] = r[c[x]]
    BY <1>4, <2>4
  <2> QED BY <2>7, <2>8 DEF i
<1>7. FromElements(E) = Node(N1, LAMBDA e : E[l1(e)][2])
  BY DEF FromElements
<1>8. XMLRecord(c, r) = Node(N2, LAMBDA e : r[c[l2(e)]])
  BY DEF XMLRecord, T
<1> HIDE DEF l1, l2, N1, N2
<1>9. ASSUME NEW e \in N2 PROVE ToMap(e, E[l1(e)][2]) = ToMap(e, r[c[l2(e)]])
  BY <1>6
<1>10. Node(N2, LAMBDA e : E[l1(e)][2]) = Node(N2, LAMBDA e : r[c[l2(e)]])
  BY <1>9 DEF Node
<1> QED BY <1>5, <1>7, <1>8, <1>10 DEF E

-----------------------------------------------------------------------------
(* The rows of the other formats are records, all or some fields of them.  *)
LEMMA RowsSay ==
    ASSUME NEW fmt \in {"jsonl", "json", "sqlite"},
           NEW c \in Seq(Nat), NEW rs \in Seq(Record),
           NEW f, Fits(f, Layout(fmt, c, rs)), NEW ex
    PROVE  Tells(RowsIn(f), fmt, c, rs, RowCount(fmt, c, f, rs), ex)
<1> DEFINE k == RowCount(fmt, c, f, rs)
<1>1. fmt \in AllFormats \ {"xlsx"}
  BY DEF AllFormats
<1>2. /\ k \in 0 .. Len(rs) /\ DOMAIN RowsIn(f) = 1 .. k
      /\ \A i \in 1 .. k : RowsIn(f)[i] = RowUnit(fmt, c, rs[i]).data
  BY <1>1, RowsRead
<1>3. k \in Nat
  BY <1>2
<1> HIDE DEF k
<1>4. ASSUME NEW r PROVE SameValues(RowUnit(fmt, c, r).data, AsRead(fmt, c, r))
  <2>1. CASE fmt \in {"jsonl", "json"}
    BY <2>1 DEF RowUnit, Unit, AsRead, SameValues
  <2>2. CASE fmt = "sqlite"
    <3> DEFINE a == [g \in ToSet(c) |-> ValueOf(r, g)]
               b == Restrict(r, DOMAIN r \cap ToSet(c))
    <3>1. RowUnit(fmt, c, r).data = a /\ AsRead(fmt, c, r) = b
      BY <2>2 DEF RowUnit, Unit, AsRead
    <3>2. ASSUME NEW g PROVE ValueOf(a, g) = ValueOf(b, g)
      BY DEF ValueOf, Restrict
    <3> QED BY <3>1, <3>2 DEF SameValues
  <2> QED BY <2>1, <2>2
<1>5. \A i \in 1 .. k : SameValues(RowsIn(f)[i], AsRead(fmt, c, rs[i]))
  BY <1>2, <1>4
<1>6. Said(Without(RowsIn(f), ex)) = Told(Say(fmt, c, rs, k, ex))
  BY <1>2, <1>3, <1>5, DirectSays
<1> QED BY <1>2, <1>3, <1>6 DEF Tells, k

(* xml nests the values, and so says its record.                           *)
LEMMA XMLSays ==
    ASSUME NEW c \in Seq(Nat), NEW rs \in Seq(Record),
           NEW f, Fits(f, Layout("xml", c, rs)), NEW ex
    PROVE  Tells(ReadXML(f).recs, "xml", c, rs, RowCount("xml", c, f, rs), ex)
<1> DEFINE k == RowCount("xml", c, f, rs)
           recs == ReadXML(f).recs
<1>1. "xml" \in AllFormats \ {"xlsx"}
  BY DEF AllFormats
<1>2. /\ k \in 0 .. Len(rs) /\ DOMAIN RowsIn(f) = 1 .. k
      /\ \A i \in 1 .. k : RowsIn(f)[i] = RowUnit("xml", c, rs[i]).data
  BY <1>1, RowsRead
<1>3. DOMAIN recs = 1 .. k /\ \A i \in 1 .. k : recs[i] = FromElements(RowsIn(f)[i])
  BY <1>2 DEF ReadXML
<1>4. k \in Nat
  BY <1>2
<1> HIDE DEF k, recs
<1>5. ASSUME NEW i \in 1 .. k PROVE recs[i] = AsRead("xml", c, rs[i])
  <2>1. RowsIn(f)[i] = Elements(c, rs[i])
    BY <1>2 DEF RowUnit, Unit
  <2>2. FromElements(Elements(c, rs[i])) = XMLRecord(c, rs[i])
    BY ElementsRead
  <2>3. AsRead("xml", c, rs[i]) = XMLRecord(c, rs[i])
    BY DEF AsRead
  <2> QED BY <1>3, <2>1, <2>2, <2>3
<1>6. \A i \in 1 .. k : SameValues(recs[i], AsRead("xml", c, rs[i]))
  BY <1>5 DEF SameValues
<1>7. Said(Without(recs, ex)) = Told(Say("xml", c, rs, k, ex))
  BY <1>3, <1>4, <1>6, DirectSays
<1> QED BY <1>3, <1>4, <1>7 DEF Tells, k, recs

(* A scanner gets the rows before the first that is too long.              *)
LEMMA LinesSaid ==
    ASSUME NEW c \in Seq(Nat), NEW rs \in Seq(Record), NEW sizes,
           NEW f, Fits(f, Layout("jsonl", c, rs))
    PROVE  LET k == RowCount("jsonl", c, f, rs)
               n == Reach(rs, k, sizes)
           IN  /\ n \in 0 .. k /\ k \in 0 .. Len(rs) /\ Len(RowsIn(f)) = k
               /\ Scanned(RowsIn(f), sizes) = [i \in 1 .. n |-> rs[i]]
<1> DEFINE k == RowCount("jsonl", c, f, rs)
           rows == RowsIn(f)
<1>1. "jsonl" \in AllFormats \ {"xlsx"}
  BY DEF AllFormats
<1>2. /\ k \in 0 .. Len(rs) /\ DOMAIN rows = 1 .. k
      /\ \A i \in 1 .. k : rows[i] = RowUnit("jsonl", c, rs[i]).data
  BY <1>1, RowsRead
<1>3. k \in Nat /\ \A i \in 1 .. k : rows[i] = rs[i]
  BY <1>2 DEF RowUnit, Unit
<1>4. Len(rows) = k
  BY <1>2, <1>3 DEF RowsIn
<1> HIDE DEF k, rows
<1>5. Reach(rows, k, sizes) = Reach(rs, k, sizes)
  BY <1>3, ReachSame
<1>6. Reach(rs, k, sizes) \in 0 .. k
  BY <1>3, ReachIs
<1>7. Scanned(rows, sizes) = [i \in 1 .. Reach(rs, k, sizes) |-> rows[i]]
  BY <1>2, <1>3, <1>5, ScannedIs
<1>8. \A i \in 1 .. Reach(rs, k, sizes) : rows[i] = rs[i]
  BY <1>3, <1>6
<1>9. Scanned(rows, sizes) = [i \in 1 .. Reach(rs, k, sizes) |-> rs[i]]
  BY <1>7, <1>8
<1> QED BY <1>2, <1>4, <1>6, <1>9 DEF k, rows

LEMMA JSONLSays ==
    ASSUME NEW c \in Seq(Nat), NEW rs \in Seq(Record),
           NEW f, Fits(f, Layout("jsonl", c, rs)), NEW ex
    PROVE  LET n == Reach(rs, RowCount("jsonl", c, f, rs), OverMiB)
           IN  /\ Tells(ReadJSONL(f).recs, "jsonl", c, rs, n, ex)
               /\ ReadJSONL(f).end = IF EndsTorn(f) \/ n < RowCount("jsonl", c, f, rs)
                                      THEN "error" ELSE "eof"
<1> DEFINE k == RowCount("jsonl", c, f, rs)
           n == Reach(rs, k, OverMiB)
           recs == ReadJSONL(f).recs
<1>1. /\ n \in 0 .. k /\ k \in 0 .. Len(rs) /\ Len(RowsIn(f)) = k
      /\ Scanned(RowsIn(f), OverMiB) = [i \in 1 .. n |-> rs[i]]
  BY LinesSaid
<1>2. n \in Nat /\ k \in Nat
  BY <1>1
<1>3. /\ recs = [i \in 1 .. n |-> rs[i]]
      /\ ReadJSONL(f).end = IF EndsTorn(f) \/ Len(recs) < k THEN "error" ELSE "eof"
  BY <1>1 DEF ReadJSONL, ReadLines
<1> HIDE DEF k, n, recs
<1>4. DOMAIN recs = 1 .. n /\ Len(recs) = n /\ \A i \in 1 .. n : recs[i] = rs[i]
  BY <1>2, <1>3
<1>5. \A i \in 1 .. n : SameValues(recs[i], AsRead("jsonl", c, rs[i]))
  BY <1>4 DEF SameValues, AsRead
<1>6. Said(Without(recs, ex)) = Told(Say("jsonl", c, rs, n, ex))
  BY <1>2, <1>4, <1>5, DirectSays
<1> QED BY <1>2, <1>3, <1>4, <1>6 DEF Tells, k, n, recs

(* How many of n records can be reached.                                   *)
Within(fmt, rs, n) == IF fmt = "jsonl" THEN Reach(rs, n, OverMiB) ELSE n

(* Any reader that takes the format: it returns the records of the rows    *)
(* that are whole, or none of them before the end has come.                *)
Reads(way, fmt, c, rs, f, ex) ==
    \E k \in 0 .. Len(rs) :
        /\ Tells(way.recs, fmt, c, rs, k, ex)
        /\ fmt \notin {"json", "xlsx"} => k = Within(fmt, rs, RowCount(fmt, c, f, rs))
        /\ f = Layout(fmt, c, rs) =>
              /\ k = Within(fmt, rs, Len(rs))
              /\ way.end = IF k < Len(rs) THEN "error" ELSE "eof"
        /\ way.end = "cut" => fmt = "csv"

LEMMA ReadSays ==
    ASSUME NEW fmt \in AllFormats, NEW c \in Seq(Nat), NEW rs \in Seq(Record),
           fmt \in {"csv", "xlsx"} => Covers(c, rs),
           NEW f, Fits(f, Layout(fmt, c, rs)), NEW way \in ReadWays(fmt, f), NEW ex
    PROVE  Reads(way, fmt, c, rs, f, ex)
<1> SUFFICES \E k \in 0 .. Len(rs) :
                 /\ Tells(way.recs, fmt, c, rs, k, ex)
                 /\ fmt \notin {"json", "xlsx"} => k = Within(fmt, rs, RowCount(fmt, c, f, rs))
                 /\ f = Layout(fmt, c, rs) =>
                       /\ k = Within(fmt, rs, Len(rs))
                       /\ way.end = IF k < Len(rs) THEN "error" ELSE "eof"
                 /\ way.end = "cut" => fmt = "csv"
  BY DEF Reads
<1>1. /\ Len(rs) \in Nat /\ 0 \in 0 .. Len(rs) /\ Len(rs) \in 0 .. Len(rs)
      /\ ~ (Len(rs) < Len(rs))
      /\ fmt # "jsonl" => \A n : Within(fmt, rs, n) = n
  BY DEF Within
<1>2. CASE fmt = "xlsx"
  <2>1. way = ReadXLSX(f)
    BY <1>2 DEF ReadWays
  <2>2. PICK k \in {0, Len(rs)} :
               /\ Tells(ReadXLSX(f).recs, "xlsx", c, rs, k, ex)
               /\ f = Layout("xlsx", c, rs) => k = Len(rs) /\ ReadXLSX(f).end = "eof"
               /\ ReadXLSX(f).end # "cut"
    BY <1>2, XLSXSays
  <2> QED BY <1>1, <1>2, <2>1, <2>2
<1>3. ASSUME fmt # "xlsx"
      PROVE  /\ RowCount(fmt, c, f, rs) \in 0 .. Len(rs)
             /\ f = Layout(fmt, c, rs) => /\ RowCount(fmt, c, f, rs) = Len(rs) /\ ~EndsTorn(f)
                                          /\ Behind(fmt) = 1 => /\ Last(f).kind = "end"
                                                                /\ Last(f).whole /\ f # <<>>
                                          /\ fmt = "sqlite" => f # <<>>
  <2>1. fmt \in AllFormats \ {"xlsx"}
    BY <1>3
  <2> QED BY <2>1, RowsRead, CompleteCount
<1>4. CASE fmt = "csv"
  <2>1. way = ReadCSV(f)
    BY <1>4 DEF ReadWays
  <2>2. Tells(ReadCSV(f).recs, fmt, c, rs, RowCount(fmt, c, f, rs), ex)
    BY <1>4, CSVSays
  <2>3. ~EndsTorn(f) => ReadCSV(f).end = "eof"
    BY DEF ReadCSV
  <2> QED BY <1>1, <1>3, <1>4, <2>1, <2>2, <2>3
<1>5. ASSUME fmt \in {"jsonl", "json", "sqlite"}
      PROVE  Tells(RowsIn(f), fmt, c, rs, RowCount(fmt, c, f, rs), ex)
  BY <1>5, RowsSay
<1>6. CASE fmt = "jsonl"
  <2> DEFINE k == RowCount("jsonl", c, f, rs)
             n == Reach(rs, k, OverMiB)
  <2>1. way = ReadJSONL(f)
    BY <1>6 DEF ReadWays
  <2>2. /\ Tells(way.recs, "jsonl", c, rs, n, ex)
        /\ way.end = IF EndsTorn(f) \/ n < k THEN "error" ELSE "eof"
    BY <1>6, <2>1, JSONLSays
  <2>3. k \in 0 .. Len(rs) /\ (f = Layout(fmt, c, rs) => k = Len(rs) /\ ~EndsTorn(f))
    BY <1>3, <1>6
  <2>4. n \in 0 .. k
    BY <2>3, ReachIs
  <2>5. n = Within(fmt, rs, k) /\ way.end # "cut"
    BY <1>6, <2>2 DEF Within
  <2> HIDE DEF k, n
  <2>6. n \in 0 .. Len(rs)
    BY <1>1, <2>3, <2>4
  <2> QED BY <1>6, <2>2, <2>3, <2>5, <2>6 DEF k
<1>7. CASE fmt = "xml"
  <2>1. way = ReadXML(f)
    BY <1>7 DEF ReadWays
  <2>2. Tells(way.recs, fmt, c, rs, RowCount(fmt, c, f, rs), ex)
    BY <1>7, <2>1, XMLSays
  <2>3. /\ way.end # "cut"
        /\ Last(f).kind = "end" /\ Last(f).whole => way.end = "eof"
    BY <2>1 DEF ReadXML
  <2> QED BY <1>1, <1>3, <1>7, <2>2, <2>3 DEF Behind
<1>8. CASE fmt = "sqlite"
  <2>1. way = ReadSQL(f)
    BY <1>8 DEF ReadWays
  <2>2. way.recs = RowsIn(f) /\ way.end # "cut" /\ (f # <<>> => way.end = "eof")
    BY <2>1 DEF ReadSQL
  <2> QED BY <1>1, <1>3, <1>5, <1>8, <2>2
<1>9. CASE fmt = "json"
  <2>1. way = ReadArray(f) \/ way = ReadRootPath(f)
    BY <1>9 DEF ReadWays
  <2>2. CASE way = ReadArray(f)
    <3>1. way.recs = RowsIn(f) /\ way.end # "cut" /\ (~EndsTorn(f) => way.end = "eof")
      BY <2>2 DEF ReadArray
    <3> QED BY <1>1, <1>3, <1>5, <1>9, <3>1
  <2>3. CASE way = ReadRootPath(f)
    <3>1. /\ way.recs = RowsIn(f) \/ (way.recs = <<>> /\ (f = <<>> \/ ~ (Last(f).kind = "end" /\ Last(f).whole)))
          /\ way.end # "cut"
          /\ f # <<>> /\ Last(f).kind = "end" /\ Last(f).whole => way.end = "eof"
      BY <2>3 DEF ReadRootPath
    <3>2. CASE way.recs = RowsIn(f)
      BY <1>1, <1>3, <1>5, <1>9, <3>1, <3>2 DEF Behind
    <3>3. CASE way.recs = <<>> /\ (f = <<>> \/ ~ (Last(f).kind = "end" /\ Last(f).whole))
      <4>1. f # Layout(fmt, c, rs)
        BY <1>3, <1>9, <3>3 DEF Behind
      <4>2. Tells(way.recs, fmt, c, rs, 0, ex)
        BY <3>3, NothingTold
      <4> QED BY <1>1, <1>9, <3>1, <4>1, <4>2
    <3> QED BY <3>1, <3>2, <3>3
  <2> QED BY <2>1, <2>2, <2>3
<1> QED BY <1>2, <1>4, <1>6, <1>7, <1>8, <1>9 DEF AllFormats

(* Nothing excluded.                                                       *)
LEMMA PlainSaid ==
    ASSUME NEW recs, NEW n \in Nat, DOMAIN recs = 1 .. n
    PROVE  Said(recs) = Said(Without(recs, {}))
<1> DEFINE u == [i \in 1 .. n |-> Values(recs[i])]
           v == [i \in 1 .. n |-> Values(FilterRecord(recs[i], {}))]
<1>1. u = v
  BY FilterNothing
<1>2. Said(recs) = Told(u)
  BY SaidIsTold
<1>3. Said(Without(recs, {})) = Told(v)
  BY SaidOfRead
<1> QED BY <1>1, <1>2, <1>3

-----------------------------------------------------------------------------
(* A file on its way to a layout: what is whole in it and what is left to  *)
(* write make up the layout.                                               *)

Goes(f, left, g) ==
    /\ Fits(f, g) /\ left \in Seq(WholeUnits)
    /\ WholeLen(f) + Len(left) = Len(g)
    /\ \A j \in 1 .. Len(left) : left[j] = g[WholeLen(f) + j]
    /\ EndsTorn(f) => left # <<>>

Continues(longer, g) ==
    Len(g) <= Len(longer) /\ \A i \in 1 .. Len(g) : longer[i] = g[i]

LEMMA FitsBuilt ==
    ASSUME NEW f \in Seq(Units), NEW g \in Seq(WholeUnits), NEW w \in Nat, w <= Len(g),
           \A i \in 1 .. w : f[i] = g[i],
           Len(f) = w \/ (Len(f) = w + 1 /\ f[w + 1].whole = FALSE)
    PROVE  Fits(f, g) /\ WholeLen(f) = w /\ (EndsTorn(f) <=> Len(f) = w + 1)
<1>1. Len(f) \in Nat /\ Len(g) \in Nat
  OBVIOUS
<1>2. \A i \in 1 .. w : f[i].whole = TRUE
  <2> SUFFICES ASSUME NEW i \in 1 .. w PROVE f[i].whole = TRUE
    OBVIOUS
  <2>1. i \in 1 .. Len(g)
    BY <1>1
  <2>2. g[i] \in WholeUnits
    BY <2>1
  <2> QED BY <2>2, UnitWhole
<1>3. /\ f = <<>> => WholeLen(f) = 0 /\ ~EndsTorn(f)
      /\ EndsTorn(f) => WholeLen(f) = Len(f) - 1 /\ f[Len(f)].whole = FALSE
      /\ ~EndsTorn(f) => WholeLen(f) = Len(f)
      /\ ~EndsTorn(f) /\ f # <<>> => f[Len(f)].whole = TRUE
  BY WholeLenIs
<1>4. CASE Len(f) = w
  <2>1. ~EndsTorn(f)
    <3> SUFFICES ASSUME EndsTorn(f) PROVE FALSE
      OBVIOUS
    <3>1. f # <<>> /\ f[Len(f)].whole = FALSE
      BY <1>3
    <3>2. Len(f) \in 1 .. w
      BY <1>1, <1>4, <3>1
    <3> QED BY <1>2, <3>1, <3>2
  <2> QED BY <1>1, <1>2, <1>3, <1>4, <2>1 DEF Fits
<1>5. CASE Len(f) = w + 1 /\ f[w + 1].whole = FALSE
  <2>1. f # <<>>
    BY <1>1, <1>5
  <2>2. EndsTorn(f)
    BY <1>3, <1>5, <2>1
  <2>3. WholeLen(f) = w
    BY <1>1, <1>3, <1>5, <2>2
  <2> QED BY <1>1, <1>2, <1>5, <2>2, <2>3 DEF Fits
<1> QED BY <1>4, <1>5

LEMMA GoesStart ==
    ASSUME NEW g \in Seq(WholeUnits)
    PROVE  Goes(<<>>, g, g)
<1>1. <<>> \in Seq(Units) /\ Len(<<>>) = 0 /\ 0 \in Nat /\ 0 <= Len(g)
      /\ \A i \in 1 .. 0 : <<>>[i] = g[i]
  OBVIOUS
<1>2. Fits(<<>>, g) /\ WholeLen(<<>>) = 0 /\ (EndsTorn(<<>>) <=> Len(<<>>) = 0 + 1)
  BY <1>1, FitsBuilt
<1>3. 0 + Len(g) = Len(g) /\ \A j \in 1 .. Len(g) : g[j] = g[0 + j]
  OBVIOUS
<1>4. ~EndsTorn(<<>>)
  BY DEF EndsTorn
<1> QED BY <1>2, <1>3, <1>4 DEF Goes

(* Nothing left: the file is the layout.                                   *)
LEMMA GoesDone ==
    ASSUME NEW f, NEW g \in Seq(WholeUnits), Goes(f, <<>>, g)
    PROVE  f = g /\ ~EndsTorn(f) /\ WholeLen(f) = Len(g) /\ Len(f) = Len(g)
<1>1. /\ f \in Seq(Units) /\ WholeLen(f) \in Nat /\ ~EndsTorn(f)
      /\ \A i \in 1 .. WholeLen(f) : f[i] = g[i]
      /\ WholeLen(f) + 0 = Len(g)
  BY FitsAt DEF Goes
<1>2. WholeLen(f) = Len(f) /\ WholeLen(f) = Len(g) /\ Len(g) \in Nat
  <2>1. WholeLen(f) = Len(f)
    BY <1>1 DEF WholeLen
  <2> QED BY <1>1, <2>1
<1>3. f = g
  <2>1. f = [i \in 1 .. Len(f) |-> f[i]] /\ g = [i \in 1 .. Len(g) |-> g[i]]
    BY <1>1
  <2>2. Len(f) = Len(g) /\ \A i \in 1 .. Len(g) : f[i] = g[i]
    BY <1>1, <1>2
  <2> QED BY ONLY <2>1, <2>2
<1> QED BY <1>1, <1>2, <1>3

LEMMA GoesFits ==
    ASSUME NEW f, NEW left, NEW g \in Seq(WholeUnits), Goes(f, left, g)
    PROVE  /\ Fits(f, g) /\ f \in Seq(Units) /\ WholeLen(f) \in Nat /\ Len(left) \in Nat
           /\ WholeLen(f) + Len(left) = Len(g) /\ left \in Seq(WholeUnits)
BY FitsAt DEF Goes

LEMMA FitsMore ==
    ASSUME NEW f, NEW g \in Seq(WholeUnits), NEW more \in Seq(WholeUnits),
           Fits(f, g), Continues(more, g)
    PROVE  Fits(f, more)
<1>1. WholeLen(f) \in Nat /\ WholeLen(f) <= Len(g) /\ Len(g) \in Nat /\ Len(more) \in Nat
  BY FitsAt
<1>2. WholeLen(f) <= Len(more)
  BY <1>1 DEF Continues
<1>3. \A i \in 1 .. WholeLen(f) : f[i] = more[i]
  BY <1>1 DEF Fits, Continues
<1> QED BY <1>2, <1>3 DEF Fits

(* One unit more to write behind a complete file.                          *)
LEMMA GoesMore ==
    ASSUME NEW f, NEW g \in Seq(WholeUnits), NEW more \in Seq(WholeUnits),
           Goes(f, <<>>, g), Continues(more, g), Len(more) = Len(g) + 1
    PROVE  Goes(f, <<more[Len(g) + 1]>>, more)
<1>1. Fits(f, more)
  BY FitsMore DEF Goes
<1>2. ~EndsTorn(f) /\ WholeLen(f) = Len(g) /\ Len(g) \in Nat
  BY GoesDone
<1> DEFINE left == <<more[Len(g) + 1]>>
<1>3. left \in Seq(WholeUnits) /\ Len(left) = 1 /\ left[1] = more[Len(g) + 1]
  <2>1. more[Len(g) + 1] \in WholeUnits
    BY <1>2
  <2> QED BY <2>1
<1> HIDE DEF left
<1>4. \A j \in 1 .. Len(left) : left[j] = more[WholeLen(f) + j]
  BY <1>2, <1>3
<1>5. WholeLen(f) + Len(left) = Len(more)
  BY <1>2, <1>3
<1>6. Goes(f, left, more)
  BY <1>1, <1>2, <1>3, <1>4, <1>5 DEF Goes
<1> QED BY <1>6 DEF left

(* Down to the last unit of the longer layout, the shorter one is there.   *)
LEMMA GoesLess ==
    ASSUME NEW f, NEW left, NEW g \in Seq(WholeUnits), NEW more \in Seq(WholeUnits),
           Goes(f, left, more), Continues(more, g), Len(more) = Len(g) + 1,
           Len(left) = 1, ~EndsTorn(f)
    PROVE  Goes(f, <<>>, g)
<1>1. /\ WholeLen(f) \in Nat /\ WholeLen(f) = Len(g) /\ Len(g) \in Nat /\ f \in Seq(Units)
  <2>1. /\ Fits(f, more) /\ f \in Seq(Units) /\ WholeLen(f) \in Nat
        /\ WholeLen(f) + Len(left) = Len(more)
    BY GoesFits
  <2>2. Len(g) \in Nat
    OBVIOUS
  <2> QED BY <2>1, <2>2
<1>2. WholeLen(f) = Len(f)
  BY DEF WholeLen
<1>3. \A i \in 1 .. Len(g) : f[i] = g[i]
  BY <1>1 DEF Goes, Fits, Continues
<1>4. Fits(f, g)
  <2>1. Len(f) = Len(g) /\ Len(g) <= Len(g)
    BY <1>1, <1>2
  <2> QED BY <1>1, <1>3, <2>1, FitsBuilt
<1>5. <<>> \in Seq(WholeUnits) /\ WholeLen(f) + Len(<<>>) = Len(g)
      /\ \A j \in 1 .. Len(<<>>) : <<>>[j] = g[WholeLen(f) + j]
  BY <1>1
<1> QED BY <1>4, <1>5 DEF Goes

LEMMA FirstPart ==
    ASSUME NEW f \in Seq(Units), NEW n \in 0 .. Len(f)
    PROVE  /\ SubSeq(f, 1, n) \in Seq(Units) /\ Len(SubSeq(f, 1, n)) = n
           /\ \A i \in 1 .. n : SubSeq(f, 1, n)[i] = f[i]
<1>1. Len(f) \in Nat /\ n \in Nat /\ \A i \in 1 .. n : f[i] \in Units
  OBVIOUS
<1>2. 1 \in Int /\ n \in Int
  BY <1>1
<1>3. /\ SubSeq(f, 1, n) \in Seq(Units)
      /\ Len(SubSeq(f, 1, n)) = IF 1 <= n THEN n - 1 + 1 ELSE 0
      /\ \A i \in 1 .. n - 1 + 1 : SubSeq(f, 1, n)[i] = f[1 + i - 1]
  BY ONLY <1>1, <1>2, SubSeqProperties
<1>4. Len(SubSeq(f, 1, n)) = n
  BY <1>1, <1>3
<1>5. ASSUME NEW i \in 1 .. n PROVE SubSeq(f, 1, n)[i] = f[i]
  <2>1. i \in 1 .. n - 1 + 1 /\ 1 + i - 1 = i
    BY <1>1
  <2> QED BY <1>3, <2>1
<1> QED BY <1>3, <1>4, <1>5

LEMMA OneMore ==
    ASSUME NEW f \in Seq(Units), NEW u \in Units
    PROVE  /\ Append(f, u) \in Seq(Units) /\ Len(Append(f, u)) = Len(f) + 1
           /\ Append(f, u)[Len(f) + 1] = u
           /\ \A i \in 1 .. Len(f) : Append(f, u)[i] = f[i]
OBVIOUS

(* What PutUnit does to the file and to what is left.                      *)
PutOne(f, left, f1, left1) ==
    \/ EndsTorn(f) /\ f1 = Append(Front(f), Head(left)) /\ left1 = Tail(left)
    \/ ~EndsTorn(f) /\ f1 = Append(f, Head(left)) /\ left1 = Tail(left)
    \/ ~EndsTorn(f) /\ f1 = Append(f, Torn(Head(left))) /\ left1 = left

LEMMA GoesPut ==
    ASSUME NEW f, NEW left, NEW g \in Seq(WholeUnits), Goes(f, left, g), left # <<>>,
           NEW f1, NEW left1, PutOne(f, left, f1, left1)
    PROVE  /\ Goes(f1, left1, g) /\ WholeLen(f) <= WholeLen(f1) /\ Len(left1) <= Len(left)
           /\ f1 \in Seq(Units) /\ left1 \in Seq(WholeUnits)
<1> DEFINE w == WholeLen(f)
<1>1. /\ f \in Seq(Units) /\ w \in Nat /\ left \in Seq(WholeUnits)
      /\ w <= Len(g) /\ \A i \in 1 .. w : f[i] = g[i]
      /\ w + Len(left) = Len(g) /\ \A j \in 1 .. Len(left) : left[j] = g[w + j]
  BY FitsAt DEF Goes
<1>2. /\ Len(f) \in Nat
      /\ EndsTorn(f) => w = Len(f) - 1 /\ f[Len(f)].whole = FALSE
      /\ ~EndsTorn(f) => w = Len(f)
  BY <1>1, WholeLenIs
<1>3. /\ Head(left) = left[1] /\ Head(left) \in WholeUnits /\ Tail(left) \in Seq(WholeUnits)
      /\ Len(Tail(left)) = Len(left) - 1 /\ Len(left) \in Nat /\ Len(left) >= 1
      /\ \A i \in 1 .. Len(left) - 1 : Tail(left)[i] = left[i + 1]
  <2>1. left \in Seq(WholeUnits) /\ left # <<>>
    BY <1>1
  <2>2. Len(left) \in Nat /\ Len(left) >= 1 /\ Head(left) = left[1]
    BY ONLY <2>1
  <2>3. /\ Head(left) \in WholeUnits /\ Tail(left) \in Seq(WholeUnits)
        /\ Len(Tail(left)) = Len(left) - 1
        /\ \A i \in 1 .. Len(Tail(left)) : Tail(left)[i] = left[i + 1]
    BY ONLY <2>1, HeadTailProperties
  <2> QED BY <2>2, <2>3
<1>4. Head(left) \in Units /\ Torn(Head(left)) \in Units /\ Torn(Head(left)).whole = FALSE
  BY <1>3, UnitWhole
<1>5. Head(left) = g[w + 1] /\ Len(g) \in Nat
  BY <1>1, <1>3
<1> HIDE DEF w
(* A whole unit behind the w ones that are there.                          *)
<1>6. ASSUME NEW b \in Seq(Units), Len(b) = w, \A i \in 1 .. w : b[i] = f[i],
             f1 = Append(b, Head(left)), left1 = Tail(left)
      PROVE  /\ Goes(f1, left1, g) /\ w <= WholeLen(f1) /\ Len(left1) <= Len(left)
             /\ f1 \in Seq(Units) /\ left1 \in Seq(WholeUnits)
  <2>1. /\ f1 \in Seq(Units) /\ Len(f1) = w + 1 /\ f1[w + 1] = Head(left)
        /\ \A i \in 1 .. w : f1[i] = b[i]
    BY <1>4, <1>6, OneMore
  <2>2. w + 1 \in Nat /\ w + 1 <= Len(g)
    BY <1>1, <1>3, <1>5
  <2>3. \A i \in 1 .. w + 1 : f1[i] = g[i]
    <3> SUFFICES ASSUME NEW i \in 1 .. w + 1 PROVE f1[i] = g[i]
      OBVIOUS
    <3>1. CASE i = w + 1
      BY <1>5, <2>1, <3>1
    <3>2. CASE i # w + 1
      <4>1. i \in 1 .. w
        BY <1>1, <3>2
      <4> QED BY <1>1, <1>6, <2>1, <4>1
    <3> QED BY <3>1, <3>2
  <2>4. Fits(f1, g) /\ WholeLen(f1) = w + 1 /\ ~EndsTorn(f1)
    <3>1. Fits(f1, g) /\ WholeLen(f1) = w + 1 /\ (EndsTorn(f1) <=> Len(f1) = w + 1 + 1)
      BY <2>1, <2>2, <2>3, FitsBuilt
    <3>2. Len(f1) # w + 1 + 1
      BY <1>1, <2>1
    <3> QED BY <3>1, <3>2
  <2>5. WholeLen(f1) + Len(left1) = Len(g)
    BY <1>1, <1>3, <1>5, <1>6, <2>4
  <2>6. ASSUME NEW j \in 1 .. Len(left1) PROVE left1[j] = g[WholeLen(f1) + j]
    <3>1. j \in 1 .. Len(left) - 1 /\ j + 1 \in 1 .. Len(left)
      BY <1>3, <1>6
    <3>2. left1[j] = left[j + 1] /\ left[j + 1] = g[w + (j + 1)]
      BY <1>1, <1>3, <1>6, <3>1
    <3>3. WholeLen(f1) + j = w + (j + 1)
      BY <1>1, <1>3, <2>4, <3>1
    <3> QED BY <3>2, <3>3
  <2>7. left1 \in Seq(WholeUnits) /\ Len(left1) <= Len(left) /\ w <= w + 1
    BY <1>1, <1>3, <1>6
  <2> QED BY <2>1, <2>4, <2>5, <2>6, <2>7 DEF Goes
<1>7. CASE EndsTorn(f) /\ f1 = Append(Front(f), Head(left)) /\ left1 = Tail(left)
  <2>1. w \in 0 .. Len(f) /\ Front(f) = SubSeq(f, 1, w)
    BY <1>1, <1>2, <1>7 DEF Front
  <2>2. Front(f) \in Seq(Units) /\ Len(Front(f)) = w /\ \A i \in 1 .. w : Front(f)[i] = f[i]
    BY <1>1, <2>1, FirstPart
  <2> QED BY <1>6, <1>7, <2>2 DEF w
<1>8. CASE ~EndsTorn(f) /\ f1 = Append(f, Head(left)) /\ left1 = Tail(left)
  <2>1. Len(f) = w /\ \A i \in 1 .. w : f[i] = f[i]
    BY <1>2, <1>8
  <2> QED BY <1>1, <1>6, <1>8, <2>1 DEF w
<1>9. CASE ~EndsTorn(f) /\ f1 = Append(f, Torn(Head(left))) /\ left1 = left
  <2>1. Len(f) = w
    BY <1>2, <1>9
  <2>2. /\ f1 \in Seq(Units) /\ Len(f1) = w + 1 /\ f1[w + 1].whole = FALSE
        /\ \A i \in 1 .. w : f1[i] = f[i]
    BY <1>1, <1>4, <1>9, <2>1, OneMore
  <2>3. \A i \in 1 .. w : f1[i] = g[i]
    BY <1>1, <2>2
  <2>4. Fits(f1, g) /\ WholeLen(f1) = w
    BY <1>1, <2>2, <2>3, FitsBuilt
  <2> QED BY <1>1, <1>3, <1>9, <2>2, <2>4 DEF Goes, w
<1> QED BY <1>7, <1>8, <1>9 DEF PutOne

(* What a crash leaves of a file of which s units are synced.              *)
Cut(f, s, f1) ==
    \E n \in s .. Len(f) : \/ f1 = SubSeq(f, 1, n)
                           \/ n > s /\ f1 = Append(SubSeq(f, 1, n - 1), Torn(f[n]))

LEMMA FitsCut ==
    ASSUME NEW f, NEW g \in Seq(WholeUnits), Fits(f, g), NEW s \in Nat, s <= WholeLen(f),
           NEW f1, Cut(f, s, f1)
    PROVE  Fits(f1, g) /\ s <= WholeLen(f1) /\ f1 \in Seq(Units)
<1> DEFINE w == WholeLen(f)
<1>1. /\ f \in Seq(Units) /\ w \in Nat /\ w <= Len(g) /\ \A i \in 1 .. w : f[i] = g[i]
  BY FitsAt
<1>2. /\ Len(f) \in Nat
      /\ EndsTorn(f) => w = Len(f) - 1 /\ f[Len(f)].whole = FALSE
      /\ ~EndsTorn(f) => w = Len(f)
  BY <1>1, WholeLenIs
<1>3. PICK n \in s .. Len(f) : \/ f1 = SubSeq(f, 1, n)
                               \/ n > s /\ f1 = Append(SubSeq(f, 1, n - 1), Torn(f[n]))
  BY DEF Cut
<1>4. n \in 0 .. Len(f) /\ n \in Nat /\ Len(g) \in Nat
  BY <1>2
<1> HIDE DEF w
<1>5. CASE f1 = SubSeq(f, 1, n)
  <2>1. f1 \in Seq(Units) /\ Len(f1) = n /\ \A i \in 1 .. n : f1[i] = f[i]
    BY <1>1, <1>4, <1>5, FirstPart
  <2>2. CASE n <= w
    <3>1. n <= Len(g) /\ \A i \in 1 .. n : f1[i] = g[i]
      BY <1>1, <1>4, <2>1, <2>2
    <3>2. Fits(f1, g) /\ WholeLen(f1) = n
      BY <1>4, <2>1, <3>1, FitsBuilt
    <3> QED BY <1>3, <2>1, <3>2
  <2>3. CASE n > w
    <3>1. n = w + 1 /\ n = Len(f) /\ f[n].whole = FALSE
      BY <1>1, <1>2, <1>4, <2>3
    <3>2. n \in 1 .. n
      BY <1>1, <3>1
    <3>3. f1[w + 1].whole = FALSE /\ \A i \in 1 .. w : f1[i] = g[i]
      BY <1>1, <2>1, <3>1, <3>2
    <3>4. Fits(f1, g) /\ WholeLen(f1) = w
      BY <1>1, <2>1, <3>1, <3>3, FitsBuilt
    <3> QED BY <2>1, <3>4 DEF w
  <2> QED BY <1>1, <1>4, <2>2, <2>3
<1>6. CASE n > s /\ f1 = Append(SubSeq(f, 1, n - 1), Torn(f[n]))
  <2> DEFINE b == SubSeq(f, 1, n - 1)
  <2>1. n - 1 \in 0 .. Len(f) /\ n \in 1 .. Len(f) /\ n - 1 \in Nat /\ s <= n - 1 /\ n - 1 <= w
    BY <1>1, <1>2, <1>4, <1>6
  <2>2. b \in Seq(Units) /\ Len(b) = n - 1 /\ \A i \in 1 .. n - 1 : b[i] = f[i]
    BY <1>1, <2>1, FirstPart
  <2>3. Torn(f[n]) \in Units /\ Torn(f[n]).whole = FALSE
    <3>1. f[n] \in Units
      BY <1>1, <2>1
    <3> QED BY <3>1 DEF Torn, Units
  <2> HIDE DEF b
  <2>4. /\ f1 \in Seq(Units) /\ Len(f1) = (n - 1) + 1 /\ f1[(n - 1) + 1].whole = FALSE
        /\ \A i \in 1 .. n - 1 : f1[i] = b[i]
    BY <1>6, <2>2, <2>3, OneMore DEF b
  <2>5. n - 1 <= Len(g) /\ \A i \in 1 .. n - 1 : f1[i] = g[i]
    BY <1>1, <1>4, <2>1, <2>2, <2>4
  <2>6. Fits(f1, g) /\ WholeLen(f1) = n - 1
    BY <2>1, <2>4, <2>5, FitsBuilt
  <2> QED BY <2>1, <2>4, <2>6
<1> QED BY <1>3, <1>5, <1>6

-----------------------------------------------------------------------------
(* The file of a run that is not over: the opening and the rows.           *)

Body(fmt, columns, rs) ==
    IF fmt \in {"json", "xlsx"} THEN <<>> ELSE Opening(fmt, columns) \o RowsOf(fmt, columns, rs)

LEMMA RecordsMore ==
    ASSUME NEW rs \in Seq(Record), NEW r \in Record
    PROVE  /\ Append(rs, r) \in Seq(Record) /\ Len(Append(rs, r)) = Len(rs) + 1
           /\ Append(rs, r)[Len(rs) + 1] = r /\ Len(rs) \in Nat
           /\ \A i \in 1 .. Len(rs) : Append(rs, r)[i] = rs[i]
OBVIOUS

LEMMA LayoutTyped ==
    ASSUME NEW fmt \in AllFormats, NEW c \in Seq(Nat), NEW rs \in Seq(Record)
    PROVE  Layout(fmt, c, rs) \in Seq(WholeUnits)
<1>1. CASE fmt = "xlsx"
  BY <1>1, BookIs
<1>2. CASE fmt # "xlsx"
  <2>1. fmt \in AllFormats \ {"xlsx"}
    BY <1>2
  <2> QED BY <2>1, LayoutAt
<1> QED BY <1>1, <1>2

LEMMA BodyAt ==
    ASSUME NEW fmt \in AllFormats \ {"json", "xlsx"}, NEW c \in Seq(Nat), NEW rs \in Seq(Record)
    PROVE  /\ Body(fmt, c, rs) \in Seq(WholeUnits) /\ Len(Body(fmt, c, rs)) = Before(fmt, c) + Len(rs)
           /\ \A i \in 1 .. Before(fmt, c) : Body(fmt, c, rs)[i] = Unit("head", c)
           /\ \A i \in 1 .. Len(rs) : Body(fmt, c, rs)[Before(fmt, c) + i] = RowUnit(fmt, c, rs[i])
           /\ Before(fmt, c) \in {0, 1} /\ Len(rs) \in Nat
<1> DEFINE o == Opening(fmt, c)
           r == RowsOf(fmt, c, rs)
           h == Before(fmt, c)
           n == Len(rs)
<1>1. /\ o \in Seq(WholeUnits) /\ h \in {0, 1} /\ Len(o) = h
      /\ h = 1 => o = <<Unit("head", c)>>
  BY OpeningIs
<1>2. /\ r \in Seq(WholeUnits) /\ Len(r) = n /\ n \in Nat
      /\ \A i \in 1 .. n : r[i] = RowUnit(fmt, c, rs[i])
  BY RowsAre
<1>3. Body(fmt, c, rs) = o \o r
  BY DEF Body
<1> HIDE DEF o, r, h, n
<1>4. o \in Seq(WholeUnits) /\ r \in Seq(WholeUnits)
  BY <1>1, <1>2
<1>5. /\ o \o r \in Seq(WholeUnits) /\ Len(o \o r) = Len(o) + Len(r)
      /\ \A j \in 1 .. Len(o) : (o \o r)[j] = o[j]
      /\ \A j \in 1 .. Len(r) : (o \o r)[Len(o) + j] = r[j]
  BY ONLY <1>4, ConcatParts
<1>6. \A i \in 1 .. h : (o \o r)[i] = Unit("head", c)
  BY <1>1, <1>5
<1>7. \A i \in 1 .. n : (o \o r)[h + i] = RowUnit(fmt, c, rs[i])
  BY <1>1, <1>2, <1>5
<1> QED BY <1>1, <1>2, <1>3, <1>5, <1>6, <1>7 DEF h, n

LEMMA BodyOf ==
    ASSUME NEW fmt \in AllFormats, NEW c \in Seq(Nat), NEW rs \in Seq(Record)
    PROVE  /\ Body(fmt, c, rs) \in Seq(WholeUnits) /\ Len(Body(fmt, c, rs)) \in Nat
           /\ Continues(Layout(fmt, c, rs), Body(fmt, c, rs))
           /\ fmt \in {"json", "xlsx"} => Body(fmt, c, rs) = <<>>
           /\ fmt \in {"csv", "jsonl", "sqlite"} => Layout(fmt, c, rs) = Body(fmt, c, rs)
           /\ fmt = "xml" => /\ Len(Layout(fmt, c, rs)) = Len(Body(fmt, c, rs)) + 1
                             /\ Layout(fmt, c, rs)[Len(Body(fmt, c, rs)) + 1] = End
<1> DEFINE B == Body(fmt, c, rs)
           L == Layout(fmt, c, rs)
<1>1. L \in Seq(WholeUnits)
  BY LayoutTyped
<1>2. CASE fmt \in {"json", "xlsx"}
  <2>1. B = <<>>
    BY <1>2 DEF Body
  <2>2. Continues(L, <<>>)
    <3>1. Len(L) \in Nat /\ Len(<<>>) = 0 /\ \A i \in 1 .. 0 : L[i] = <<>>[i]
      BY <1>1
    <3> QED BY <3>1 DEF Continues
  <2> QED BY <1>2, <2>1, <2>2
<1>3. CASE fmt \in {"csv", "jsonl", "sqlite", "xml"}
  <2>1. fmt \in AllFormats \ {"json", "xlsx"} /\ fmt \in AllFormats \ {"xlsx"}
    BY <1>3
  <2>2. B \in Seq(WholeUnits)
    BY <2>1, BodyAt
  <2>3. CASE fmt = "xml"
    <3>1. L = B \o <<End>>
      BY <2>1, <2>3, LayoutParts DEF Body, Behind
    <3>2. End \in WholeUnits
      BY DEF End, Unit, WholeUnits, Data
    <3>3. <<End>> \in Seq(WholeUnits) /\ Len(<<End>>) = 1 /\ <<End>>[1] = End
      BY <3>2
    <3> DEFINE e == <<End>>
    <3> HIDE DEF B, L, e
    <3>4. e \in Seq(WholeUnits) /\ Len(e) = 1 /\ e[1] = End /\ L = B \o e
      BY <3>1, <3>3 DEF e
    <3>5. /\ Len(B \o e) = Len(B) + Len(e)
          /\ \A j \in 1 .. Len(B) : (B \o e)[j] = B[j]
          /\ \A j \in 1 .. Len(e) : (B \o e)[Len(B) + j] = e[j]
      <4>1. B \in Seq(WholeUnits) /\ e \in Seq(WholeUnits)
        BY <2>2, <3>4
      <4> QED BY ONLY <4>1, ConcatParts
    <3>6. Len(B) \in Nat
      BY <2>2
    <3>7. Len(L) = Len(B) + 1 /\ L[Len(B) + 1] = End /\ \A j \in 1 .. Len(B) : L[j] = B[j]
      BY <3>4, <3>5
    <3>8. Continues(L, B)
      BY <3>6, <3>7 DEF Continues
    <3> QED BY <2>2, <2>3, <3>6, <3>7, <3>8 DEF B, L
  <2>4. CASE fmt \in {"csv", "jsonl", "sqlite"}
    <3>1. L = B
      BY <2>1, <2>4, LayoutParts DEF Body, Behind
    <3>2. Len(B) \in Nat
      BY <2>2
    <3> HIDE DEF L, B
    <3>3. Continues(L, B)
      BY <3>1, <3>2 DEF Continues
    <3> QED BY <2>2, <2>4, <3>1, <3>2, <3>3 DEF L, B
  <2> QED BY <1>3, <2>3, <2>4
<1> QED BY <1>2, <1>3 DEF AllFormats

LEMMA BodyMore ==
    ASSUME NEW fmt \in AllFormats \ {"json", "xlsx"}, NEW c \in Seq(Nat),
           NEW rs \in Seq(Record), NEW r \in Record
    PROVE  /\ Len(Body(fmt, c, Append(rs, r))) = Len(Body(fmt, c, rs)) + 1
           /\ Continues(Body(fmt, c, Append(rs, r)), Body(fmt, c, rs))
           /\ Body(fmt, c, Append(rs, r))[Len(Body(fmt, c, rs)) + 1] = RowUnit(fmt, c, r)
<1> DEFINE a == Append(rs, r)
           A == Body(fmt, c, a)
           B == Body(fmt, c, rs)
           h == Before(fmt, c)
           n == Len(rs)
<1>1. /\ a \in Seq(Record) /\ Len(a) = n + 1 /\ a[n + 1] = r
      /\ \A i \in 1 .. n : a[i] = rs[i]
  BY RecordsMore
<1> HIDE DEF a
<1>2. /\ Len(B) = h + n /\ \A i \in 1 .. h : B[i] = Unit("head", c)
      /\ \A i \in 1 .. n : B[h + i] = RowUnit(fmt, c, rs[i])
      /\ h \in {0, 1} /\ n \in Nat
  BY BodyAt
<1>3. /\ Len(A) = h + Len(a) /\ \A i \in 1 .. h : A[i] = Unit("head", c)
      /\ \A i \in 1 .. Len(a) : A[h + i] = RowUnit(fmt, c, a[i])
  BY <1>1, BodyAt
<1> HIDE DEF A, B, h, n
<1>4. Len(A) = Len(B) + 1 /\ Len(B) \in Nat
  BY <1>1, <1>2, <1>3
<1>5. ASSUME NEW i \in 1 .. Len(B) PROVE A[i] = B[i]
  <2>1. CASE i <= h
    BY <1>2, <1>3, <2>1
  <2>2. CASE i > h
    <3>1. i - h \in 1 .. n /\ i - h \in 1 .. Len(a) /\ h + (i - h) = i
      BY <1>1, <1>2, <2>2
    <3>2. A[i] = RowUnit(fmt, c, a[i - h]) /\ B[i] = RowUnit(fmt, c, rs[i - h])
      BY <1>2, <1>3, <3>1
    <3> QED BY <1>1, <3>1, <3>2
  <2> QED BY <1>2, <2>1, <2>2
<1>6. A[Len(B) + 1] = RowUnit(fmt, c, r)
  <2>1. n + 1 \in 1 .. Len(a) /\ h + (n + 1) = Len(B) + 1
    BY <1>1, <1>2
  <2> QED BY <1>1, <1>3, <2>1
<1>7. Continues(A, B)
  BY <1>4, <1>5 DEF Continues
<1> QED BY <1>4, <1>6, <1>7 DEF A, B, a

LEMMA BodyOfNone ==
    ASSUME NEW fmt \in AllFormats, NEW c \in Seq(Nat)
    PROVE  Body(fmt, c, <<>>) = Opening(fmt, c) /\ Opening(fmt, c) \in Seq(WholeUnits)
<1>1. Opening(fmt, c) \in Seq(WholeUnits)
  BY OpeningIs
<1>2. CASE fmt \in {"json", "xlsx"}
  BY <1>1, <1>2 DEF Body, Opening
<1>3. CASE fmt \notin {"json", "xlsx"}
  <2>1. RowsOf(fmt, c, <<>>) = <<>>
    BY DEF RowsOf
  <2>2. Opening(fmt, c) \o <<>> = Opening(fmt, c)
    BY <1>1, ConcatEmptySeq
  <2> QED BY <1>1, <1>3, <2>1, <2>2 DEF Body
<1> QED BY <1>2, <1>3

-----------------------------------------------------------------------------
(* Headers.                                                                *)

LEMMA SortedFields ==
    ASSUME NEW d, Numbers(d)
    PROVE  Sorted(d) \in Seq(Nat) /\ ToSet(Sorted(d)) = d
<1> DEFINE n == Cardinality(d)
           s == Sorted(d)
<1>1. /\ n \in Nat /\ DOMAIN s = 1 .. n /\ s \in [1 .. n -> d]
      /\ \A x \in d : \E i \in 1 .. n : s[i] = x
  BY SortedProperties
<1> HIDE DEF n, s
<1>2. d \subseteq Nat
  BY DEF Numbers
<1>3. s \in Seq(Nat)
  <2>1. s \in [1 .. n -> Nat]
    BY <1>1, <1>2
  <2> QED BY <1>1, <2>1
<1>4. ToSet(s) = d
  BY <1>1 DEF ToSet
<1> QED BY <1>3, <1>4 DEF s

LEMMA FieldsOfRecord ==
    ASSUME NEW r \in Record, NEW d, d \subseteq DOMAIN r
    PROVE  Numbers(d)
<1>1. DOMAIN r \subseteq Nat /\ IsFiniteSet(DOMAIN r)
  BY RecordIs
<1>2. IsFiniteSet(d)
  <2>1. d \in SUBSET (DOMAIN r)
    OBVIOUS
  <2> QED BY <1>1, <2>1, FS_Subset
<1> QED BY <1>1, <1>2 DEF Numbers

(* mergeHeaders keeps the columns and has all the record's fields.         *)
LEMMA HeadersMerged ==
    ASSUME NEW c \in Seq(Nat), NEW r \in Record
    PROVE  /\ MergeHeaders(c, r) \in Seq(Nat) /\ ToSet(c) \subseteq ToSet(MergeHeaders(c, r))
           /\ DOMAIN r \subseteq ToSet(MergeHeaders(c, r))
<1> DEFINE d == DOMAIN r \ ToSet(c)
           s == Sorted(d)
<1>1. s \in Seq(Nat) /\ ToSet(s) = d
  <2>1. Numbers(d)
    BY FieldsOfRecord
  <2> QED BY <2>1, SortedFields
<1>2. MergeHeaders(c, r) = c \o s
  BY DEF MergeHeaders
<1>3. DOMAIN r \subseteq ToSet(c) \cup d
  OBVIOUS
<1> HIDE DEF d, s
<1>4. /\ c \o s \in Seq(Nat) /\ Len(c \o s) = Len(c) + Len(s)
      /\ \A j \in 1 .. Len(c) : (c \o s)[j] = c[j]
      /\ \A j \in 1 .. Len(s) : (c \o s)[Len(c) + j] = s[j]
  BY ONLY <1>1, c \in Seq(Nat), ConcatParts
<1>5. DOMAIN c = 1 .. Len(c) /\ DOMAIN s = 1 .. Len(s) /\ Len(c) \in Nat /\ Len(s) \in Nat
      /\ DOMAIN (c \o s) = 1 .. Len(c) + Len(s)
  BY <1>1, <1>4
<1>6. ASSUME NEW x \in ToSet(c) PROVE x \in ToSet(c \o s)
  <2>1. PICK i \in 1 .. Len(c) : c[i] = x
    BY <1>5 DEF ToSet
  <2>2. i \in DOMAIN (c \o s) /\ (c \o s)[i] = x
    BY <1>4, <1>5, <2>1
  <2> QED BY <2>2 DEF ToSet
<1>7. ASSUME NEW x \in ToSet(s) PROVE x \in ToSet(c \o s)
  <2>1. PICK i \in 1 .. Len(s) : s[i] = x
    BY <1>5 DEF ToSet
  <2>2. Len(c) + i \in DOMAIN (c \o s) /\ (c \o s)[Len(c) + i] = x
    BY <1>4, <1>5, <2>1
  <2> QED BY <2>2 DEF ToSet
<1> QED BY <1>1, <1>2, <1>3, <1>4, <1>6, <1>7

LEMMA CoversMore ==
    ASSUME NEW c, NEW c1, NEW rs \in Seq(Record), NEW r \in Record,
           Covers(c, rs), ToSet(c) \subseteq ToSet(c1), DOMAIN r \subseteq ToSet(c1)
    PROVE  Covers(c1, Append(rs, r)) /\ Covers(c1, rs)
<1>1. /\ Len(Append(rs, r)) = Len(rs) + 1 /\ Append(rs, r)[Len(rs) + 1] = r /\ Len(rs) \in Nat
      /\ \A i \in 1 .. Len(rs) : Append(rs, r)[i] = rs[i]
  BY RecordsMore
<1>2. ASSUME NEW i \in 1 .. Len(rs) PROVE DOMAIN rs[i] \subseteq ToSet(c1)
  <2>1. DOMAIN rs[i] \subseteq ToSet(c)
    BY DEF Covers
  <2> QED BY <2>1
<1> DEFINE a == Append(rs, r)
<1> HIDE DEF a
<1>3. ASSUME NEW i \in 1 .. Len(rs) + 1 PROVE DOMAIN a[i] \subseteq ToSet(c1)
  <2>1. CASE i = Len(rs) + 1
    BY <1>1, <2>1 DEF a
  <2>2. CASE i # Len(rs) + 1
    <3>1. i \in 1 .. Len(rs)
      BY <1>1, <2>2
    <3> QED BY <1>1, <1>2, <3>1 DEF a
  <2> QED BY <2>1, <2>2
<1> QED BY <1>1, <1>2, <1>3 DEF Covers, a

LEMMA CoversPart ==
    ASSUME NEW c, NEW rs \in Seq(Record), NEW r \in Record, Covers(c, Append(rs, r))
    PROVE  Covers(c, rs)
<1> DEFINE a == Append(rs, r)
<1>1. /\ Len(a) = Len(rs) + 1 /\ Len(rs) \in Nat /\ \A i \in 1 .. Len(rs) : a[i] = rs[i]
  BY RecordsMore
<1> HIDE DEF a
<1>2. ASSUME NEW i \in 1 .. Len(rs) PROVE DOMAIN rs[i] \subseteq ToSet(c)
  <2>1. i \in 1 .. Len(a) /\ a[i] = rs[i]
    BY <1>1
  <2>2. DOMAIN a[i] \subseteq ToSet(c)
    BY <2>1 DEF Covers, a
  <2> QED BY <2>1, <2>2
<1> QED BY <1>2 DEF Covers

LEMMA EmptyIsRecord == Empty \in Record
<1>1. /\ DOMAIN Empty = {} /\ Empty \in [{} -> FieldValues]
  BY DEF Empty
<1>2. IsFiniteSet({})
  BY FS_EmptySet
<1> QED BY <1>1, <1>2, RecordIs

LEMMA RecordOfIs ==
    ASSUME NEW n \in Nat, NEW shape \in Shapes
    PROVE  RecordOf(n, shape) \in Record
<1> DEFINE r == RecordOf(n, shape)
<1>1. DOMAIN shape \subseteq Nat /\ IsFiniteSet(DOMAIN shape)
  BY FilesAssumption
<1>2. DOMAIN r = DOMAIN shape
  BY DEF RecordOf
<1>3. ASSUME NEW f \in DOMAIN shape PROVE r[f] \in FieldValues
  <2>1. f \in Nat
    BY <1>1
  <2>2. shape[f] \in {"empty", "short", "long", "huge"}
    <3>1. Range(shape) \subseteq {"empty", "short", "long", "huge"}
      BY FilesAssumption
    <3>2. shape[f] \in Range(shape)
      BY DEF Range
    <3> QED BY <3>1, <3>2
  <2>3. r[f] = IF shape[f] = "empty" THEN Empty ELSE <<n, f, shape[f]>>
    BY DEF RecordOf
  <2>4. CASE shape[f] = "empty"
    BY <2>3, <2>4 DEF FieldValues
  <2>5. CASE shape[f] # "empty"
    <3>1. shape[f] \in {"short", "long", "huge", "cut"}
      BY <2>2, <2>5
    <3>2. <<n, f, shape[f]>> \in Nat \X Nat \X {"short", "long", "huge", "cut"}
      BY <2>1, <3>1
    <3> HIDE DEF r
    <3> QED BY <2>3, <2>5, <3>2 DEF FieldValues
  <2> QED BY <2>4, <2>5
<1>4. r \in [DOMAIN shape -> FieldValues]
  BY <1>3 DEF RecordOf
<1> QED BY <1>1, <1>2, <1>4, RecordIs

-----------------------------------------------------------------------------
(* The inductive invariant of the writer.                                  *)

All == Append(given, cur)

(* What a reader may have heard of.                                        *)
Heard == IF wpc = "idle" THEN given ELSE All

Final == wpc \in {"closing", "end", "closed", "crashed"}

Types ==
    /\ format \in Formats /\ outputFields \in OutputFields
    /\ prepared \in BOOLEAN /\ gone \in BOOLEAN /\ closeFailed \in BOOLEAN
    /\ wpc \in {"idle", "prepare", "open", "record", "row", "closing", "end", "closed", "crashed"}
    /\ verdict \in {"none", "ok", "error"}
    /\ given \in Seq(Record) /\ kept \in Seq(Record) /\ cur \in Record
    /\ cols \in Seq(Nat) /\ todo \in Seq(WholeUnits) /\ file \in Seq(Units)
    /\ synced \in Nat /\ synced <= WholeLen(file)

(* What the writer holds in memory, next to the records it has accepted.   *)
Memory ==
    /\ Len(given) <= NRec /\ Len(kept) <= NRec
    /\ wpc \in {"prepare", "open", "record", "row"} => Len(given) < NRec
    /\ ~prepared => given = <<>> /\ kept = <<>> /\ wpc \notin {"open", "record", "row"}
    /\ wpc = "prepare" => ~prepared
    /\ wpc = "open" => given = <<>>
    /\ Holds => kept = given /\ wpc # "row"
    /\ format = "csv" /\ ~Final => kept = (IF wpc = "row" THEN All ELSE given)
    /\ format \in {"csv", "xlsx"} => Covers(cols, kept)
    /\ ~Final => verdict = "none"

(* What the file has and what is left, before Close.                       *)
Writing ==
    /\ wpc \in {"idle", "prepare", "record", "closing", "closed", "crashed"} => todo = <<>>
    /\ ~prepared /\ wpc \in {"idle", "prepare", "closing"} => file = <<>>
    /\ prepared /\ wpc \in {"idle", "open", "record"} => Goes(file, todo, Body(format, cols, given))
    /\ wpc = "row" => /\ Goes(file, todo, Body(format, cols, All))
                      /\ format # "csv" => Len(todo) <= 1

(* The file is that of the records rs, as far as it goes; its root element *)
(* can be closed where it is not torn.                                     *)
Shows(fmt, columns, f, left, at, rs) ==
    /\ fmt \in {"csv", "xlsx"} => Covers(columns, rs)
    /\ Fits(f, Layout(fmt, columns, rs))
    /\ at = "end" => left = <<>> \/ Goes(f, left, Layout(fmt, columns, rs))
    /\ at = "closing" /\ fmt = "xml" /\ f # <<>> /\ ~EndsTorn(f) =>
           Goes(f, <<>>, Body(fmt, columns, rs))

(* A failed write leaves the file with or without the record it was about; *)
(* without a failure all records get there.                                *)
Ending ==
    /\ Final => \/ Shows(format, cols, file, todo, wpc, given)
                \/ Shows(format, cols, file, todo, wpc, All)
    /\ verdict = "ok" /\ given # <<>> =>
           /\ wpc = "closing" => Goes(file, <<>>, Body(format, cols, given))
           /\ wpc = "end" => Goes(file, todo, Layout(format, cols, given))
           /\ wpc = "closed" /\ ~closeFailed => Goes(file, <<>>, Layout(format, cols, given))

(* What was accepted is synced.                                            *)
AcceptedSynced ==
    ~Holds /\ ~Rewriting /\ given # <<>> => Before(format, cols) + Len(given) <= synced

FilesInv == Types /\ Memory /\ Writing /\ Ending /\ AcceptedSynced

LEMMA FormatIs ==
    ASSUME Types
    PROVE  format \in AllFormats /\ (Holds <=> format \in {"json", "xlsx"})
BY FilesAssumption DEF Types, AllFormats, Holds

LEMMA AllIs ==
    ASSUME Types
    PROVE  /\ All \in Seq(Record) /\ Len(All) = Len(given) + 1 /\ Len(given) \in Nat
           /\ \A i \in 1 .. Len(given) : All[i] = given[i]
BY RecordsMore DEF Types, All

LEMMA BodyFits ==
    ASSUME NEW fmt \in AllFormats, NEW c \in Seq(Nat), NEW rs \in Seq(Record),
           NEW f, NEW left, Goes(f, left, Body(fmt, c, rs))
    PROVE  Fits(f, Layout(fmt, c, rs))
<1>1. /\ Body(fmt, c, rs) \in Seq(WholeUnits) /\ Continues(Layout(fmt, c, rs), Body(fmt, c, rs))
      /\ Layout(fmt, c, rs) \in Seq(WholeUnits)
  BY BodyOf, LayoutTyped
<1>2. Fits(f, Body(fmt, c, rs))
  BY DEF Goes
<1> QED BY <1>1, <1>2, FitsMore

(* In every state the file is that of the records accepted, or of these    *)
(* and the one at hand.                                                    *)
LEMMA FileHeard ==
    ASSUME FilesInv
    PROVE  \E rs \in {given, Heard} :
               /\ format \in {"csv", "xlsx"} => Covers(cols, rs)
               /\ Fits(file, Layout(format, cols, rs))
<1>1. /\ format \in AllFormats /\ (Holds <=> format \in {"json", "xlsx"})
      /\ cols \in Seq(Nat) /\ given \in Seq(Record) /\ All \in Seq(Record)
  BY FormatIs, AllIs DEF FilesInv, Types
<1>2. ASSUME NEW rs \in {given, All}, NEW left, Goes(file, left, Body(format, cols, rs))
      PROVE  Fits(file, Layout(format, cols, rs))
  <2>1. rs \in Seq(Record)
    BY <1>1
  <2> QED BY <1>1, <1>2, <2>1, BodyFits
<1>3. CASE Final
  <2>1. Heard = All
    BY <1>3 DEF Heard, Final
  <2> QED BY <1>3, <2>1 DEF FilesInv, Ending, Shows
<1>4. CASE wpc \in {"idle", "prepare"} /\ ~prepared
  <2>1. file = <<>> /\ given = <<>> /\ kept = <<>>
    BY <1>4 DEF FilesInv, Memory, Writing
  <2>2. Fits(<<>>, Layout(format, cols, given))
    BY <1>1, LayoutTyped, GoesStart DEF Goes
  <2>3. format \in {"csv", "xlsx"} => Covers(cols, given)
    BY <2>1 DEF FilesInv, Memory
  <2> QED BY <2>1, <2>2, <2>3
<1>5. CASE wpc \in {"idle", "open", "record"} /\ prepared
  <2>1. Goes(file, todo, Body(format, cols, given))
    BY <1>5 DEF FilesInv, Writing
  <2>2. format \in {"csv", "xlsx"} => Covers(cols, given)
    BY <1>1, <1>5 DEF FilesInv, Memory, Final
  <2> QED BY <1>2, <2>1, <2>2
<1>6. CASE wpc = "row"
  <2>1. Goes(file, todo, Body(format, cols, All))
    BY <1>6 DEF FilesInv, Writing
  <2>2. format \in {"csv", "xlsx"} => Covers(cols, All)
    BY <1>1, <1>6 DEF FilesInv, Memory, Final
  <2>3. Heard = All
    BY <1>6 DEF Heard
  <2> QED BY <1>2, <2>1, <2>2, <2>3
<1>7. wpc = "prepare" => ~prepared
  BY DEF FilesInv, Memory
<1>8. prepared \in BOOLEAN /\ wpc \in {"idle", "prepare", "open", "record", "row",
                                       "closing", "end", "closed", "crashed"}
      /\ (~prepared => wpc \notin {"open", "record", "row"})
  BY DEF FilesInv, Types, Memory
<1> QED BY <1>3, <1>4, <1>5, <1>6, <1>7, <1>8 DEF Final

LEMMA FileShows ==
    ASSUME FilesInv
    PROVE  \E rs \in {given, All} :
               /\ format \in {"csv", "xlsx"} => Covers(cols, rs)
               /\ Fits(file, Layout(format, cols, rs))
BY FileHeard DEF Heard

-----------------------------------------------------------------------------
(* One lemma for each action.                                              *)

LEMMA NoFile == <<>> \in Seq(Units) /\ WholeLen(<<>>) = 0 /\ ~EndsTorn(<<>>)
BY DEF WholeLen, EndsTorn

LEMMA FilesInit ==
    ASSUME Init PROVE FilesInv
<1>1. Types
  <2>1. <<>> \in Seq(Record) /\ <<>> \in Seq(Nat) /\ <<>> \in Seq(WholeUnits)
    OBVIOUS
  <2>2. /\ file \in Seq(Units) /\ synced \in Nat /\ synced <= WholeLen(file)
    BY NoFile DEF Init
  <2>3. /\ given \in Seq(Record) /\ kept \in Seq(Record) /\ cur \in Record
        /\ cols \in Seq(Nat) /\ todo \in Seq(WholeUnits)
    BY <2>1, EmptyIsRecord DEF Init
  <2>4. gone \in BOOLEAN
    BY DEF Init
  <2>5. /\ format \in Formats /\ outputFields \in OutputFields /\ wpc = "idle"
        /\ prepared = FALSE /\ verdict = "none" /\ closeFailed = FALSE
    BY DEF Init
  <2> QED BY <2>2, <2>3, <2>4, <2>5 DEF Types
<1>2. Memory
  <2>1. Covers(<<>>, <<>>)
    BY DEF Covers
  <2>2. Len(<<>>) <= NRec
    BY FilesAssumption
  <2> QED BY <2>1, <2>2 DEF Init, Memory, Final
<1>3. Writing
  BY DEF Init, Writing
<1>4. Ending
  BY DEF Init, Ending, Final
<1>5. AcceptedSynced
  BY DEF Init, AcceptedSynced
<1> QED BY <1>1, <1>2, <1>3, <1>4, <1>5 DEF FilesInv

LEMMA EmitStep ==
    ASSUME FilesInv, NEW s \in Shapes, Emit(s) PROVE FilesInv'
<1> USE DEF FilesInv, settings, disk
<1>1. Types'
  <2>1. Len(given) + 1 \in Nat
    BY DEF Types
  <2>2. RecordOf(Len(given) + 1, s) \in Record
    BY <2>1, RecordOfIs
  <2> QED BY <2>2 DEF Types, Emit
<1>2. Memory'
  BY DEF Memory, Emit, Final, Holds, Types
<1>3. Writing'
  BY DEF Writing, Emit
<1>4. Ending'
  BY DEF Ending, Emit, Final, Memory
<1>5. AcceptedSynced'
  BY DEF AcceptedSynced, Emit, Holds, Rewriting
<1> QED BY <1>1, <1>2, <1>3, <1>4, <1>5

LEMMA PrepareStep ==
    ASSUME FilesInv, Prepare PROVE FilesInv'
<1> USE DEF FilesInv, settings, disk
<1>1. cols' \in Seq(Nat)
  <2>1. Sorted(DOMAIN cur) \in Seq(Nat)
    <3>1. Numbers(DOMAIN cur)
      BY FieldsOfRecord DEF Types
    <3> QED BY <3>1, SortedFields
  <2>2. outputFields \in Seq(Nat)
    BY FilesAssumption DEF Types
  <2> QED BY <2>1, <2>2 DEF Prepare
<1>2. /\ given = <<>> /\ kept = <<>> /\ file = <<>> /\ verdict = "none"
      /\ given' = <<>> /\ kept' = <<>> /\ file' = <<>> /\ verdict' = "none" /\ format' = format
  BY DEF Prepare, Memory, Writing, Final
<1>3. /\ todo' = Opening(format, cols') /\ todo' \in Seq(WholeUnits)
      /\ Goes(<<>>, todo', Body(format, cols', <<>>))
  <2>1. format \in AllFormats
    BY FormatIs
  <2>2. Body(format, cols', <<>>) = Opening(format, cols') /\ Opening(format, cols') \in Seq(WholeUnits)
    BY <1>1, <2>1, BodyOfNone
  <2>3. todo' = Opening(format, cols')
    BY DEF Prepare
  <2>4. Goes(<<>>, Opening(format, cols'), Opening(format, cols'))
    BY <2>2, GoesStart
  <2> QED BY <2>2, <2>3, <2>4
<1>4. Types'
  BY <1>1, <1>3 DEF Types, Prepare
<1>5. Memory'
  <2>1. Covers(cols', <<>>)
    BY DEF Covers
  <2> QED BY <1>2, <2>1 DEF Memory, Prepare, Final, Holds
<1>6. Writing'
  BY <1>2, <1>3 DEF Writing, Prepare
<1>7. Ending'
  BY <1>2 DEF Ending, Prepare, Final
<1>8. AcceptedSynced'
  BY <1>2 DEF AcceptedSynced
<1> QED BY <1>4, <1>5, <1>6, <1>7, <1>8

LEMMA PrepareReturnsStep ==
    ASSUME FilesInv, PrepareReturns PROVE FilesInv'
<1> USE DEF FilesInv, settings, memory
<1>1. prepared /\ given = <<>> /\ Goes(file, <<>>, Body(format, cols, given))
  BY DEF PrepareReturns, Memory, Writing, Types
<1>2. WholeLen(file) = Len(file) /\ Len(file) \in Nat
  <2>1. Body(format, cols, given) \in Seq(WholeUnits)
    BY FormatIs, BodyOf DEF Types
  <2> QED BY <1>1, <2>1, GoesDone DEF Types, WholeLen
<1>3. Types'
  BY <1>2 DEF Types, PrepareReturns
<1>4. Memory'
  BY <1>1 DEF Memory, PrepareReturns, Final, Holds
<1>5. Writing'
  BY <1>1 DEF Writing, PrepareReturns
<1>6. Ending'
  BY DEF Ending, PrepareReturns, Final, Memory
<1>7. AcceptedSynced'
  BY <1>1 DEF AcceptedSynced, PrepareReturns
<1> QED BY <1>3, <1>4, <1>5, <1>6, <1>7

(* The row of the record at hand, behind a complete file.                  *)
LEMMA RowGoes ==
    ASSUME Types, format \notin {"json", "xlsx"}, NEW c \in Seq(Nat),
           Goes(file, <<>>, Body(format, c, given))
    PROVE  /\ Goes(file, <<RowUnit(format, c, cur)>>, Body(format, c, All))
           /\ <<RowUnit(format, c, cur)>> \in Seq(WholeUnits)
           /\ Len(<<RowUnit(format, c, cur)>>) = 1
<1> DEFINE g == Body(format, c, given)
           more == Body(format, c, All)
<1>1. format \in AllFormats /\ format \in AllFormats \ {"json", "xlsx"} /\ given \in Seq(Record)
      /\ All \in Seq(Record) /\ cur \in Record
  BY FormatIs, AllIs DEF Types
<1>2. g \in Seq(WholeUnits) /\ more \in Seq(WholeUnits)
  BY <1>1, BodyOf
<1>3. /\ Len(more) = Len(g) + 1 /\ Continues(more, g)
      /\ more[Len(g) + 1] = RowUnit(format, c, cur)
  BY <1>1, BodyMore DEF All
<1>4. RowUnit(format, c, cur) \in WholeUnits
  BY <1>1, RowIsUnit
<1> HIDE DEF g, more
<1>5. Goes(file, <<more[Len(g) + 1]>>, more)
  BY <1>2, <1>3, GoesMore DEF g
<1> QED BY <1>3, <1>4, <1>5 DEF more

LEMMA WriteCSVStep ==
    ASSUME FilesInv, WriteCSV, UNCHANGED <<settings, prepared, verdict, closeFailed>>
    PROVE  FilesInv'
<1> USE DEF FilesInv, settings
<1>1. /\ format = "csv" /\ prepared /\ kept = given /\ Covers(cols, given) /\ verdict = "none"
      /\ format' = "csv" /\ given' = given /\ cur' = cur /\ Len(given) < NRec /\ todo = <<>>
      /\ Goes(file, <<>>, Body("csv", cols, given))
  BY DEF WriteCSV, Memory, Writing, Final, Types
<1>2. /\ cols' \in Seq(Nat) /\ ToSet(cols) \subseteq ToSet(cols') /\ DOMAIN cur \subseteq ToSet(cols')
  BY HeadersMerged DEF WriteCSV, Types
<1>3. /\ kept' = All /\ All' = All /\ All \in Seq(Record) /\ Len(All) = Len(given) + 1
      /\ Len(given) \in Nat
  BY <1>1, AllIs DEF WriteCSV, All
<1>4. Covers(cols', All)
  BY <1>1, <1>2, CoversMore DEF All, Types
<1>5. /\ Goes(file', todo', Body("csv", cols', All)) /\ todo' \in Seq(WholeUnits)
      /\ file' \in Seq(Units) /\ synced' \in Nat /\ synced' <= WholeLen(file')
      /\ (cols' = cols /\ synced' = synced) \/ synced' = 0
  <2>1. CASE cols' = cols
    <3>1. todo' = <<RowUnit("csv", cols, cur)>> /\ file' = file /\ synced' = synced
      BY <2>1 DEF WriteCSV
    <3>2. /\ Goes(file, <<RowUnit("csv", cols, cur)>>, Body("csv", cols, All))
          /\ <<RowUnit("csv", cols, cur)>> \in Seq(WholeUnits)
      BY <1>1, RowGoes DEF Types
    <3> QED BY <2>1, <3>1, <3>2 DEF Types
  <2>2. CASE cols' # cols
    <3>1. todo' = CSVFile(cols', kept') /\ file' = <<>> /\ synced' = 0
      BY <2>2 DEF WriteCSV
    <3>2. CSVFile(cols', All) = Body("csv", cols', All)
      BY DEF CSVFile, Body, RowsOf
    <3>3. Body("csv", cols', All) \in Seq(WholeUnits)
      BY <1>2, <1>3, BodyOf DEF AllFormats
    <3>4. Goes(<<>>, Body("csv", cols', All), Body("csv", cols', All))
      BY <3>3, GoesStart
    <3> QED BY <1>3, <3>1, <3>2, <3>3, <3>4, NoFile
  <2> QED BY <2>1, <2>2
<1>6. Types'
  BY <1>2, <1>3, <1>5 DEF Types, WriteCSV
<1>7. Memory'
  <2>1. wpc' = "row" /\ prepared' = prepared /\ verdict' = "none" /\ ~Holds'
    BY <1>1 DEF WriteCSV, Holds
  <2>2. Len(given') < NRec /\ Len(given') <= NRec /\ Len(kept') <= NRec
    BY <1>1, <1>3, FilesAssumption
  <2>3. kept' = All' /\ Covers(cols', kept')
    BY <1>3, <1>4
  <2> QED BY <1>1, <2>1, <2>2, <2>3 DEF Memory, Final
<1>8. Writing'
  BY <1>1, <1>3, <1>5 DEF Writing, WriteCSV
<1>9. Ending'
  BY <1>1 DEF Ending, WriteCSV, Final
<1>10. AcceptedSynced'
  BY <1>1, <1>5 DEF AcceptedSynced, Holds, Rewriting
<1> QED BY <1>6, <1>7, <1>8, <1>9, <1>10

LEMMA WriteRowStep ==
    ASSUME FilesInv, WriteRow, UNCHANGED <<settings, prepared, verdict, closeFailed>>
    PROVE  FilesInv'
<1> USE DEF FilesInv, settings, disk
<1>1. /\ format \in {"jsonl", "xml", "sqlite"} /\ prepared /\ verdict = "none"
      /\ given' = given /\ cur' = cur /\ Len(given) < NRec /\ todo = <<>> /\ All' = All
      /\ Goes(file, <<>>, Body(format, cols, given))
  BY DEF WriteRow, Memory, Writing, Final, Types, All
<1>2. /\ Goes(file, <<RowUnit(format, cols, cur)>>, Body(format, cols, All))
      /\ <<RowUnit(format, cols, cur)>> \in Seq(WholeUnits)
      /\ Len(<<RowUnit(format, cols, cur)>>) = 1
  BY <1>1, RowGoes DEF Types
<1>3. Types'
  BY <1>2 DEF Types, WriteRow
<1>4. Memory'
  BY <1>1 DEF Memory, WriteRow, Final, Holds
<1>5. Writing'
  BY <1>1, <1>2 DEF Writing, WriteRow
<1>6. Ending'
  BY <1>1 DEF Ending, WriteRow, Final
<1>7. AcceptedSynced'
  BY <1>1 DEF AcceptedSynced, WriteRow, Holds, Rewriting
<1> QED BY <1>3, <1>4, <1>5, <1>6, <1>7

LEMMA WriteHeldStep ==
    ASSUME FilesInv, WriteHeld, UNCHANGED <<settings, prepared, verdict, closeFailed>>
    PROVE  FilesInv'
<1> USE DEF FilesInv, settings, disk
<1>1. /\ format \in {"json", "xlsx"} /\ Holds /\ prepared /\ verdict = "none" /\ kept = given
      /\ Len(given) < NRec /\ todo = <<>> /\ kept' = All /\ given' = All /\ Holds'
      /\ Goes(file, <<>>, Body(format, cols, given))
  BY DEF WriteHeld, Memory, Writing, Final, Types, All, Holds
<1>2. All \in Seq(Record) /\ Len(All) = Len(given) + 1 /\ Len(given) \in Nat
  BY AllIs
<1>3. /\ cols' \in Seq(Nat) /\ (format = "xlsx" => Covers(cols', All))
  <2>1. CASE format = "xlsx"
    <3>1. cols' = MergeHeaders(cols, cur) /\ Covers(cols, given)
      BY <1>1, <2>1 DEF WriteHeld, Memory
    <3>2. /\ cols' \in Seq(Nat) /\ ToSet(cols) \subseteq ToSet(cols')
          /\ DOMAIN cur \subseteq ToSet(cols')
      BY <3>1, HeadersMerged DEF Types
    <3> QED BY <3>1, <3>2, CoversMore DEF All, Types
  <2>2. CASE format # "xlsx"
    BY <2>2 DEF WriteHeld, Types
  <2> QED BY <2>1, <2>2
<1>4. Goes(file', todo', Body(format', cols', given'))
  <2>1. Body(format, cols, given) = <<>> /\ Body(format, cols', given') = <<>>
    BY <1>1 DEF Body
  <2> QED BY <1>1, <2>1 DEF WriteHeld
<1>5. Types'
  BY <1>1, <1>2, <1>3, EmptyIsRecord DEF Types, WriteHeld
<1>6. Memory'
  BY <1>1, <1>2, <1>3, FilesAssumption DEF Memory, WriteHeld, Final, Types
<1>7. Writing'
  BY <1>1, <1>4 DEF Writing, WriteHeld
<1>8. Ending'
  BY <1>1 DEF Ending, WriteHeld, Final
<1>9. AcceptedSynced'
  BY <1>1 DEF AcceptedSynced
<1> QED BY <1>5, <1>6, <1>7, <1>8, <1>9

LEMMA PutUnitStep ==
    ASSUME FilesInv, PutUnit PROVE FilesInv'
<1> USE DEF FilesInv, settings, memory
<1>1. /\ wpc \in {"open", "row", "end"} /\ todo # <<>> /\ wpc' = wpc /\ All' = All
      /\ format' = format /\ cols' = cols /\ given' = given /\ cur' = cur /\ synced' = synced
      /\ prepared' = prepared /\ verdict' = verdict /\ kept' = kept
  BY DEF PutUnit, All
<1>2. PutOne(file, todo, file', todo')
  BY DEF PutUnit, PutOne
<1>3. ASSUME NEW g \in Seq(WholeUnits), Goes(file, todo, g)
      PROVE  /\ Goes(file', todo', g) /\ WholeLen(file) <= WholeLen(file')
             /\ Len(todo') <= Len(todo)
             /\ file' \in Seq(Units) /\ todo' \in Seq(WholeUnits)
  BY <1>1, <1>2, <1>3, GoesPut
<1>4. /\ format \in AllFormats /\ cols \in Seq(Nat) /\ given \in Seq(Record) /\ All \in Seq(Record)
  BY FormatIs, AllIs DEF Types
<1>5. ASSUME NEW rs \in Seq(Record)
      PROVE  /\ Body(format, cols, rs) \in Seq(WholeUnits)
             /\ Layout(format, cols, rs) \in Seq(WholeUnits)
  BY <1>4, BodyOf, LayoutTyped
<1>6. \E g \in Seq(WholeUnits) : Goes(file, todo, g)
  <2>1. CASE wpc = "open"
    BY <1>4, <1>5, <2>1 DEF Memory, Writing, Types
  <2>2. CASE wpc = "row"
    BY <1>4, <1>5, <2>2 DEF Writing
  <2>3. CASE wpc = "end"
    BY <1>1, <1>4, <1>5, <2>3 DEF Ending, Final, Shows
  <2> QED BY <1>1, <2>1, <2>2, <2>3
<1>7. /\ WholeLen(file) <= WholeLen(file') /\ Len(todo') <= Len(todo)
      /\ file' \in Seq(Units) /\ todo' \in Seq(WholeUnits)
  BY <1>3, <1>6
<1>8. Types'
  <2>1. WholeLen(file) \in Nat /\ WholeLen(file') \in Nat
    BY <1>7, WholeLenIs DEF Types
  <2>2. synced' \in Nat /\ synced' <= WholeLen(file')
    BY <1>1, <1>7, <2>1 DEF Types
  <2> QED BY <1>1, <1>7, <2>2 DEF Types, PutUnit
<1>9. Memory'
  BY <1>1 DEF Memory, Final, Holds
<1>10. Writing'
  <2>1. wpc = "open" => Goes(file', todo', Body(format, cols, given))
    BY <1>3, <1>4, <1>5 DEF Memory, Writing, Types
  <2>2. wpc = "row" => /\ Goes(file', todo', Body(format, cols, All))
                       /\ format # "csv" => Len(todo') <= 1
    <3>1. Len(todo) \in Nat /\ Len(todo') \in Nat
      BY <1>7 DEF Types
    <3> QED BY <1>3, <1>4, <1>5, <1>7, <3>1 DEF Writing
  <2> QED BY <1>1, <2>1, <2>2 DEF Writing
<1>11. Ending'
  <2>1. ASSUME NEW rs \in {given, All}, Shows(format, cols, file, todo, wpc, rs), wpc = "end"
        PROVE  Shows(format, cols, file', todo', wpc, rs)
    <3>1. Goes(file, todo, Layout(format, cols, rs))
      BY <1>1, <2>1 DEF Shows
    <3>2. Goes(file', todo', Layout(format, cols, rs))
      BY <1>3, <1>4, <1>5, <3>1
    <3> QED BY <2>1, <3>2 DEF Shows, Goes
  <2>2. Final' => \/ Shows(format, cols, file', todo', wpc, given)
                  \/ Shows(format, cols, file', todo', wpc, All)
    BY <1>1, <2>1 DEF Ending, Final
  <2>3. verdict = "ok" /\ given # <<>> /\ wpc = "end" => Goes(file', todo', Layout(format, cols, given))
    BY <1>3, <1>4, <1>5 DEF Ending
  <2> QED BY <1>1, <2>2, <2>3 DEF Ending
<1>12. AcceptedSynced'
  BY <1>1 DEF AcceptedSynced, Holds, Rewriting
<1> QED BY <1>8, <1>9, <1>10, <1>11, <1>12

LEMMA RecordReturnsStep ==
    ASSUME FilesInv, RecordReturns PROVE FilesInv'
<1> USE DEF FilesInv, settings
<1>1. /\ ~Holds /\ prepared /\ Goes(file, <<>>, Body(format, cols, All)) /\ verdict = "none"
      /\ given' = All /\ format' = format /\ cols' = cols /\ Len(given) < NRec /\ ~Holds'
      /\ format = "csv" => kept = All
  BY DEF RecordReturns, Memory, Writing, Types, All, Final, Holds
<1>2. /\ All \in Seq(Record) /\ Len(All) = Len(given) + 1 /\ Len(given) \in Nat
      /\ format \in AllFormats \ {"json", "xlsx"}
  BY <1>1, FormatIs, AllIs
<1>3. /\ WholeLen(file) = Len(file) /\ Len(file) = Before(format, cols) + Len(All)
      /\ Before(format, cols) \in Nat
  <2>1. /\ Body(format, cols, All) \in Seq(WholeUnits)
        /\ Len(Body(format, cols, All)) = Before(format, cols) + Len(All)
        /\ Before(format, cols) \in {0, 1}
    BY <1>2, BodyAt DEF Types
  <2>2. ~EndsTorn(file) /\ Len(file) = Len(Body(format, cols, All))
    BY <1>1, <2>1, GoesDone
  <2> QED BY <2>1, <2>2 DEF WholeLen
<1>4. Types'
  BY <1>1, <1>2, <1>3, EmptyIsRecord DEF Types, RecordReturns
<1>5. Memory'
  BY <1>1, <1>2, FilesAssumption DEF Memory, RecordReturns, Final
<1>6. Writing'
  BY <1>1 DEF Writing, RecordReturns
<1>7. Ending'
  BY <1>1 DEF Ending, RecordReturns, Final
<1>8. AcceptedSynced'
  <2>1. synced' = Before(format, cols) + Len(All)
    BY <1>3 DEF RecordReturns
  <2> QED BY <1>1, <1>2, <1>3, <2>1 DEF AcceptedSynced
<1> QED BY <1>4, <1>5, <1>6, <1>7, <1>8

LEMMA WriteFailsStep ==
    ASSUME FilesInv, WriteFails PROVE FilesInv'
<1> USE DEF FilesInv, settings, memory, disk
<1>1. /\ wpc \in {"open", "record", "row"} /\ prepared /\ wpc' = "closing" /\ verdict' = "error"
      /\ todo' = <<>> /\ All' = All /\ file' = file /\ format' = format /\ cols' = cols
      /\ given' = given
  BY DEF WriteFails, Memory, Types, All
<1>2. /\ format \in AllFormats /\ cols \in Seq(Nat) /\ given \in Seq(Record) /\ All \in Seq(Record)
      /\ cur \in Record /\ file \in Seq(Units)
  BY FormatIs, AllIs DEF Types
<1>3. \E rs \in {given, All} : Shows(format, cols, file, <<>>, "closing", rs)
  <2>1. CASE format # "xml"
    <3>1. PICK rs \in {given, All} : /\ format \in {"csv", "xlsx"} => Covers(cols, rs)
                                     /\ Fits(file, Layout(format, cols, rs))
      BY FileShows
    <3> QED BY <2>1, <3>1 DEF Shows
  <2>2. CASE format = "xml"
    <3>1. ASSUME NEW rs \in {given, All}, NEW left, Goes(file, left, Body(format, cols, rs)),
                 file # <<>> /\ ~EndsTorn(file) => Goes(file, <<>>, Body(format, cols, rs))
          PROVE  Shows(format, cols, file, <<>>, "closing", rs)
      <4>1. rs \in Seq(Record)
        BY <1>2
      <4>2. Fits(file, Layout(format, cols, rs))
        BY <1>2, <3>1, <4>1, BodyFits
      <4> QED BY <2>2, <3>1, <4>2 DEF Shows
    <3>2. CASE wpc = "record"
      <4>1. Goes(file, <<>>, Body(format, cols, given))
        BY <1>1, <3>2 DEF Writing
      <4> QED BY <3>1, <4>1
    <3>3. CASE wpc = "open"
      <4>1. Goes(file, todo, Body(format, cols, given)) /\ given = <<>>
        BY <1>1, <3>3 DEF Writing, Memory
      <4>2. ASSUME file # <<>>, ~EndsTorn(file) PROVE todo = <<>>
        <5>1. /\ Len(Body(format, cols, given)) = Before(format, cols) + Len(given)
              /\ Body(format, cols, given) \in Seq(WholeUnits) /\ Before(format, cols) \in {0, 1}
          <6>1. format \in AllFormats \ {"json", "xlsx"}
            BY <1>2, <2>2
          <6> QED BY <1>2, <6>1, BodyAt
        <5>2. Len(given) = 0
          BY <4>1
        <5>3. WholeLen(file) = Len(file) /\ Len(file) \in Nat /\ Len(file) # 0
          BY <1>2, <4>2 DEF WholeLen
        <5>4. /\ WholeLen(file) + Len(todo) = Len(Body(format, cols, given))
              /\ Len(todo) \in Nat /\ todo \in Seq(WholeUnits)
          BY <4>1, <5>1, GoesFits
        <5>5. Len(todo) = 0
          BY <5>1, <5>2, <5>3, <5>4
        <5> QED BY <5>4, <5>5
      <4> QED BY <3>1, <4>1, <4>2
    <3>4. CASE wpc = "row"
      <4>1. Goes(file, todo, Body(format, cols, All)) /\ Len(todo) <= 1 /\ Len(todo) \in Nat
            /\ todo \in Seq(WholeUnits)
        BY <2>2, <3>4 DEF Writing, Types
      <4>2. CASE Len(todo) = 0
        <5>1. todo = <<>>
          BY <4>1, <4>2
        <5> QED BY <3>1, <4>1, <5>1
      <4>3. CASE Len(todo) = 1 /\ ~EndsTorn(file)
        <5>1. format \in AllFormats \ {"json", "xlsx"}
          BY <1>2, <2>2
        <5>2. /\ Body(format, cols, given) \in Seq(WholeUnits)
              /\ Body(format, cols, All) \in Seq(WholeUnits)
          BY <1>2, BodyOf
        <5>3. /\ Len(Body(format, cols, All)) = Len(Body(format, cols, given)) + 1
              /\ Continues(Body(format, cols, All), Body(format, cols, given))
          BY <1>2, <5>1, BodyMore DEF All
        <5>4. Goes(file, <<>>, Body(format, cols, given))
          BY <4>1, <4>3, <5>2, <5>3, GoesLess
        <5> QED BY <3>1, <5>4
      <4>4. CASE EndsTorn(file)
        BY <3>1, <4>1, <4>4
      <4>5. Len(todo) = 0 \/ Len(todo) = 1
        <5>1. \A n \in Nat : n <= 1 => n = 0 \/ n = 1
          OBVIOUS
        <5> QED BY <4>1, <5>1
      <4> QED BY <4>2, <4>3, <4>4, <4>5
    <3> QED BY <1>1, <3>2, <3>3, <3>4
  <2> QED BY <2>1, <2>2
<1>4. Types'
  BY DEF Types, WriteFails
<1>5. Memory'
  BY <1>1 DEF Memory, WriteFails, Final, Holds
<1>6. Writing'
  BY <1>1 DEF Writing, WriteFails
<1>7. Ending'
  BY <1>1, <1>3 DEF Ending, Final
<1>8. AcceptedSynced'
  BY <1>1 DEF AcceptedSynced, WriteFails, Holds, Rewriting
<1> QED BY <1>4, <1>5, <1>6, <1>7, <1>8

LEMMA EndRunStep ==
    ASSUME FilesInv, EndRun PROVE FilesInv'
<1> USE DEF FilesInv, settings, memory, disk
<1>1. /\ wpc = "idle" /\ wpc' = "closing" /\ todo = <<>> /\ All' = All /\ UNCHANGED <<file, format, cols>>
      /\ given' = given /\ prepared' = prepared /\ kept' = kept /\ synced' = synced
      /\ prepared \in BOOLEAN
  BY DEF EndRun, Writing, Types, All
<1>2. /\ format \in AllFormats /\ cols \in Seq(Nat) /\ given \in Seq(Record) /\ file \in Seq(Units)
      /\ (Holds <=> format \in {"json", "xlsx"})
  BY FormatIs DEF Types
<1>3. format \in {"csv", "xlsx"} => Covers(cols, given)
  BY <1>1, <1>2 DEF Memory, Final
<1>4. prepared => Goes(file, <<>>, Body(format, cols, given))
  BY <1>1 DEF Writing
<1>5. ~prepared => file = <<>> /\ given = <<>>
  BY <1>1 DEF Writing, Memory
<1>6. Shows(format, cols, file, <<>>, "closing", given)
  <2>1. CASE prepared
    <3>1. Fits(file, Layout(format, cols, given))
      BY <1>2, <1>4, <2>1, BodyFits
    <3> QED BY <1>3, <1>4, <2>1, <3>1 DEF Shows
  <2>2. CASE ~prepared
    <3>1. Fits(<<>>, Layout(format, cols, given))
      BY <1>2, LayoutTyped, GoesStart DEF Goes
    <3> QED BY <1>3, <1>5, <2>2, <3>1 DEF Shows
  <2> QED BY <2>1, <2>2
<1>7. Types'
  BY <1>1 DEF Types, EndRun
<1>8. Memory'
  BY <1>1 DEF Memory, EndRun, Final, Holds
<1>9. Writing'
  BY <1>1, <1>5 DEF Writing, EndRun
<1>10. Ending'
  <2>1. todo' = <<>>
    BY <1>1 DEF EndRun
  <2> QED BY <1>1, <1>4, <1>5, <1>6, <2>1 DEF Ending
<1>11. AcceptedSynced'
  BY <1>1 DEF AcceptedSynced, Holds, Rewriting
<1> QED BY <1>7, <1>8, <1>9, <1>10, <1>11

LEMMA CloseStep ==
    ASSUME FilesInv, Close PROVE FilesInv'
<1> USE DEF FilesInv, settings, memory
<1>1. /\ wpc = "closing" /\ wpc' = "end" /\ todo = <<>> /\ All' = All /\ format' = format
      /\ cols' = cols /\ given' = given /\ prepared' = prepared /\ kept' = kept
      /\ cur' = cur /\ verdict' = verdict
  BY DEF Close, Writing, All
<1>2. /\ format \in AllFormats /\ cols \in Seq(Nat) /\ given \in Seq(Record) /\ All \in Seq(Record)
      /\ file \in Seq(Units) /\ (Holds <=> format \in {"json", "xlsx"})
  BY FormatIs, AllIs DEF Types
<1>3. ASSUME NEW rs \in {given, All}
      PROVE  /\ Body(format, cols, rs) \in Seq(WholeUnits)
             /\ Layout(format, cols, rs) \in Seq(WholeUnits)
             /\ Continues(Layout(format, cols, rs), Body(format, cols, rs))
  <2>1. rs \in Seq(Record)
    BY <1>2
  <2> QED BY <1>2, <2>1, BodyOf, LayoutTyped
<1>4. End \in WholeUnits /\ <<Unit("end", <<>>)>> = <<End>>
  BY DEF End, Unit, WholeUnits, Data
(* The end of an xml goes behind its records.                              *)
<1>5. ASSUME format = "xml", NEW rs \in {given, All}, Goes(file, <<>>, Body(format, cols, rs))
      PROVE  Goes(file, <<End>>, Layout(format, cols, rs))
  <2>1. rs \in Seq(Record)
    BY <1>2
  <2>2. /\ Len(Layout(format, cols, rs)) = Len(Body(format, cols, rs)) + 1
        /\ Layout(format, cols, rs)[Len(Body(format, cols, rs)) + 1] = End
    BY <1>2, <1>5, <2>1, BodyOf
  <2>3. Goes(file, <<Layout(format, cols, rs)[Len(Body(format, cols, rs)) + 1]>>,
             Layout(format, cols, rs))
    BY <1>3, <1>5, <2>2, GoesMore
  <2> QED BY <2>2, <2>3
<1>6. /\ todo' \in Seq(WholeUnits) /\ file' \in Seq(Units) /\ synced' \in Nat
      /\ synced' <= WholeLen(file') /\ gone' \in BOOLEAN
      /\ ~Holds => synced' = synced
      /\ \/ Shows(format, cols, file', todo', "end", given)
         \/ Shows(format, cols, file', todo', "end", All)
      /\ verdict = "ok" /\ given # <<>> => Goes(file', todo', Layout(format, cols, given))
  <2>1. CASE Holds
    <3>1. file' = <<>> /\ synced' = 0 /\ gone' = FALSE /\ kept = given
      BY <2>1 DEF Close, Memory
    <3>2. todo' = Layout(format, cols, given)
      BY <1>2, <2>1, <3>1 DEF Close, Layout
    <3>3. Goes(<<>>, Layout(format, cols, given), Layout(format, cols, given))
      BY <1>3, GoesStart
    <3>4. Shows(format, cols, file', todo', "end", given)
      BY <1>2, <2>1, <3>1, <3>2, <3>3 DEF Shows, Memory, Goes
    <3>5. todo' \in Seq(WholeUnits) /\ Goes(file', todo', Layout(format, cols, given))
      BY <1>3, <3>1, <3>2, <3>3
    <3>6. /\ file' \in Seq(Units) /\ synced' \in Nat /\ synced' <= WholeLen(file')
          /\ gone' \in BOOLEAN
      <4>1. file' \in Seq(Units) /\ WholeLen(file') = 0
        BY <3>1, NoFile
      <4>2. gone' \in BOOLEAN
        BY <3>1
      <4>3. synced' \in Nat /\ synced' <= WholeLen(file')
        BY <3>1, <4>1
      <4> QED BY <4>1, <4>2, <4>3
    <3> QED BY <2>1, <3>4, <3>5, <3>6
  <2>2. CASE ~Holds
    <3>1. /\ file' = file /\ synced' = synced /\ gone' = gone
          /\ todo' = IF format = "xml" /\ prepared /\ ~EndsTorn(file) /\ file # <<>>
                     THEN <<End>> ELSE <<>>
      BY <1>4, <2>2 DEF Close, disk
    <3>2. todo' \in Seq(WholeUnits)
      BY <1>4, <3>1
    <3>3. ASSUME NEW rs \in {given, All}, Shows(format, cols, file, todo, "closing", rs)
          PROVE  Shows(format, cols, file, todo', "end", rs)
      <4>1. CASE format = "xml" /\ prepared /\ ~EndsTorn(file) /\ file # <<>>
        <5>1. Goes(file, <<>>, Body(format, cols, rs))
          BY <3>3, <4>1 DEF Shows
        <5>2. Goes(file, <<End>>, Layout(format, cols, rs))
          BY <1>5, <4>1, <5>1
        <5> QED BY <3>1, <3>3, <4>1, <5>2 DEF Shows
      <4>2. CASE ~ (format = "xml" /\ prepared /\ ~EndsTorn(file) /\ file # <<>>)
        <5>1. todo' = <<>>
          BY <3>1, <4>2
        <5> QED BY <3>3, <5>1 DEF Shows
      <4> QED BY <4>1, <4>2
    <3>4. \/ Shows(format, cols, file, todo', "end", given)
          \/ Shows(format, cols, file, todo', "end", All)
      BY <1>1, <3>3 DEF Ending, Final
    <3>5. ASSUME verdict = "ok", given # <<>> PROVE Goes(file, todo', Layout(format, cols, given))
      <4>1. Goes(file, <<>>, Body(format, cols, given))
        BY <1>1, <3>5 DEF Ending
      <4>2. CASE format = "xml"
        <5>1. prepared
          BY <3>5 DEF Memory, Types
        <5>2. ~EndsTorn(file) /\ Len(file) = Len(Body(format, cols, given))
          BY <1>3, <4>1, GoesDone
        <5>3. Len(Body(format, cols, given)) >= 1
          <6>1. /\ Len(Body(format, cols, given)) = Before(format, cols) + Len(given)
                /\ Before(format, cols) \in {0, 1} /\ Len(given) \in Nat
            BY <1>2, <4>2, BodyAt
          <6>2. Before(format, cols) = 1
            BY <1>2, <4>2, OpeningIs
          <6> QED BY <6>1, <6>2
        <5>4. file # <<>>
          BY <5>2, <5>3
        <5>5. todo' = <<End>>
          BY <3>1, <4>2, <5>1, <5>2, <5>4
        <5> QED BY <1>5, <4>1, <4>2, <5>5
      <4>3. CASE format # "xml"
        <5>1. Layout(format, cols, given) = Body(format, cols, given)
          BY <1>2, <2>2, <4>3, BodyOf DEF AllFormats
        <5> QED BY <3>1, <4>1, <4>3, <5>1
      <4> QED BY <4>2, <4>3
    <3> QED BY <2>2, <3>1, <3>2, <3>4, <3>5 DEF Types
  <2> QED BY <2>1, <2>2
<1>7. Types'
  BY <1>6 DEF Types, Close
<1>8. Memory'
  BY <1>1 DEF Memory, Final, Holds
<1>9. Writing'
  BY <1>1 DEF Writing
<1>10. Ending'
  BY <1>1, <1>6 DEF Ending
<1>11. AcceptedSynced'
  BY <1>1, <1>6 DEF AcceptedSynced, Holds, Rewriting
<1> QED BY <1>7, <1>8, <1>9, <1>10, <1>11

LEMMA CloseReturnsStep ==
    ASSUME FilesInv, CloseReturns PROVE FilesInv'
<1> USE DEF FilesInv, settings, memory, disk
<1>1. /\ wpc = "end" /\ wpc' = "closed" /\ todo' = <<>> /\ All' = All
      /\ UNCHANGED <<file, format, cols, given, prepared, kept, cur, verdict, synced>>
      /\ closeFailed' = (todo # <<>>)
  BY DEF CloseReturns, All
<1>2. closeFailed' \in BOOLEAN
  BY DEF CloseReturns
<1>3. Types'
  BY <1>1, <1>2 DEF Types, CloseReturns
<1>4. Memory'
  BY <1>1 DEF Memory, Final, Holds
<1>5. Writing'
  BY <1>1 DEF Writing
<1>6. Ending'
  <2>1. \/ Shows(format, cols, file, <<>>, "closed", given)
        \/ Shows(format, cols, file, <<>>, "closed", All)
    BY <1>1 DEF Ending, Final, Shows
  <2>2. verdict = "ok" /\ given # <<>> /\ ~closeFailed' => Goes(file, <<>>, Layout(format, cols, given))
    BY <1>1 DEF Ending
  <2> QED BY <1>1, <2>1, <2>2 DEF Ending
<1>7. AcceptedSynced'
  BY <1>1 DEF AcceptedSynced, Holds, Rewriting
<1> QED BY <1>3, <1>4, <1>5, <1>6, <1>7

LEMMA CrashStep ==
    ASSUME FilesInv, Crash PROVE FilesInv'
<1> USE DEF FilesInv, settings, memory
<1>1. /\ wpc' = "crashed" /\ todo' = <<>> /\ All' = All /\ synced' = synced
      /\ UNCHANGED <<format, cols, given, prepared, kept, cur, verdict, closeFailed, outputFields, gone>>
  BY DEF Crash, All
<1>2. Cut(file, synced, file')
  BY DEF Crash, Cut
<1>3. /\ format \in AllFormats /\ cols \in Seq(Nat) /\ given \in Seq(Record) /\ All \in Seq(Record)
  BY FormatIs, AllIs DEF Types
<1>4. PICK rs \in {given, All} : /\ format \in {"csv", "xlsx"} => Covers(cols, rs)
                                 /\ Fits(file, Layout(format, cols, rs))
  BY FileShows
<1>5. Layout(format, cols, rs) \in Seq(WholeUnits)
  <2>1. rs \in Seq(Record)
    BY <1>3
  <2> QED BY <1>3, <2>1, LayoutTyped
<1>6. Fits(file', Layout(format, cols, rs)) /\ synced <= WholeLen(file') /\ file' \in Seq(Units)
  <2>1. synced \in Nat /\ synced <= WholeLen(file)
    BY DEF Types
  <2> QED BY <1>2, <1>4, <1>5, <2>1, FitsCut
<1>7. Types'
  <2>1. <<>> \in Seq(WholeUnits)
    OBVIOUS
  <2> QED BY <1>1, <1>6, <2>1 DEF Types
<1>8. Memory'
  BY <1>1 DEF Memory, Final, Holds
<1>9. Writing'
  BY <1>1 DEF Writing
<1>10. Ending'
  <2>1. Shows(format, cols, file', <<>>, "crashed", rs)
    BY <1>4, <1>6 DEF Shows
  <2> QED BY <1>1, <2>1 DEF Ending
<1>11. AcceptedSynced'
  BY <1>1 DEF AcceptedSynced, Holds, Rewriting
<1> QED BY <1>7, <1>8, <1>9, <1>10, <1>11

LEMMA DeleteFileStep ==
    ASSUME FilesInv, DeleteFile PROVE FilesInv'
<1> USE DEF FilesInv, settings, memory
<1>1. All' = All
  BY DEF DeleteFile, All
<1>2. Types'
  BY DEF Types, DeleteFile
<1>3. Memory'
  BY <1>1 DEF Memory, DeleteFile, Final, Holds
<1>4. Writing'
  BY <1>1 DEF Writing, DeleteFile
<1>5. Ending'
  BY <1>1 DEF Ending, DeleteFile, Final
<1>6. AcceptedSynced'
  BY DEF AcceptedSynced, DeleteFile, Holds, Rewriting
<1> QED BY <1>2, <1>3, <1>4, <1>5, <1>6

(* A step of the reader changes nothing of it.                             *)
LEMMA FilesStutter ==
    ASSUME FilesInv, WriterFrame PROVE FilesInv'
<1> USE DEF FilesInv, settings, memory, disk, WriterFrame
<1>1. All' = All
  BY DEF All
<1>2. Types'
  BY DEF Types
<1>3. Memory'
  BY <1>1 DEF Memory, Final, Holds
<1>4. Writing'
  BY <1>1 DEF Writing
<1>5. Ending'
  BY <1>1 DEF Ending, Final
<1>6. AcceptedSynced'
  BY DEF AcceptedSynced, Holds, Rewriting
<1> QED BY <1>2, <1>3, <1>4, <1>5, <1>6

LEMMA FilesStep ==
    ASSUME FilesInv, [Next]_vars PROVE FilesInv'
<1>1. CASE \E s \in Shapes : Emit(s)
  BY <1>1, EmitStep
<1>2. CASE Prepare
  BY <1>2, PrepareStep
<1>3. CASE PrepareReturns
  BY <1>3, PrepareReturnsStep
<1>4. CASE WriteRecord
  BY <1>4, WriteCSVStep, WriteRowStep, WriteHeldStep DEF WriteRecord
<1>5. CASE PutUnit
  BY <1>5, PutUnitStep
<1>6. CASE RecordReturns
  BY <1>6, RecordReturnsStep
<1>7. CASE WriteFails
  BY <1>7, WriteFailsStep
<1>8. CASE EndRun
  BY <1>8, EndRunStep
<1>9. CASE Close
  BY <1>9, CloseStep
<1>10. CASE CloseReturns
  BY <1>10, CloseReturnsStep
<1>11. CASE DeleteFile
  BY <1>11, DeleteFileStep
<1>12. CASE Crash
  BY <1>12, CrashStep
<1>13. CASE OpenReader \/ ReadLine \/ ReadEnd
  BY <1>13, FilesStutter DEF OpenReader, ReadLine, ReadEnd
<1>14. CASE Stopped \/ UNCHANGED vars
  BY <1>14, FilesStutter DEF Stopped, WriterFrame, vars
<1> QED BY <1>1, <1>2, <1>3, <1>4, <1>5, <1>6, <1>7, <1>8, <1>9, <1>10, <1>11, <1>12, <1>13, <1>14
        DEF Next

LEMMA FilesInvariant == Spec => []FilesInv
<1>1. Init => FilesInv
  BY FilesInit
<1>2. FilesInv /\ [Next]_vars => FilesInv'
  BY FilesStep
<1> QED BY <1>1, <1>2, PTL DEF Spec

-----------------------------------------------------------------------------
(* The reader of a csv: what it has taken are the first lines of the file  *)
(* it reads; when it has come to an end, they say what some of the records *)
(* said.                                                                   *)

Taken(seen, f) ==
    /\ Len(seen) <= WholeLen(f) /\ \A i \in 1 .. Len(seen) : seen[i] = f[i]

Heeds(seen, k) ==
    /\ k \in 0 .. Len(Heard)
    /\ \A ex : Tells(ReadCSV(seen).recs, "csv", <<>>, Heard, k, ex)

ReaderInv ==
    /\ reader \in [at : {"none", "reading", "done", "lost"}, seen : Seq(Units)]
    /\ reader.at # "none" => format = "csv"
    /\ reader.at = "none" => reader.seen = <<>>
    /\ reader.at = "reading" => Taken(reader.seen, file)
    /\ reader.at = "done" => \E k \in Nat : Heeds(reader.seen, k)

(* The first of the records, as a csv keeps them whatever its columns.     *)
LEMMA SayAgrees ==
    ASSUME NEW fmt, NEW c, NEW a, NEW b, NEW k \in Nat, NEW n \in Nat, k <= n, NEW ex,
           \A i \in 1 .. k : a[i] = b[i]
    PROVE  IsPrefix(Told(Say(fmt, c, a, k, ex)), Told(Say(fmt, c, b, n, ex)))
<1> DEFINE u == Say(fmt, c, a, k, ex)
           v == Say(fmt, c, b, n, ex)
<1>1. DOMAIN u = 1 .. k /\ DOMAIN v = 1 .. n /\ \A i \in 1 .. k : u[i] = v[i]
  BY DEF Say
<1> HIDE DEF u, v
<1>2. IsPrefix(Told(u), Told(v))
  BY <1>1, ToldPrefix
<1> QED BY <1>2 DEF u, v

LEMMA CSVSame ==
    ASSUME NEW c, NEW d, NEW a, NEW b, NEW k, NEW ex, \A i \in 1 .. k : a[i] = b[i]
    PROVE  Say("csv", c, a, k, ex) = Say("csv", d, b, k, ex)
<1>1. ASSUME NEW i \in 1 .. k PROVE AsRead("csv", c, a[i]) = AsRead("csv", d, b[i])
  BY DEF AsRead
<1> QED BY <1>1 DEF Say

Extends(b, a) == Len(a) <= Len(b) /\ \A i \in 1 .. Len(a) : b[i] = a[i]

LEMMA AppendExtends ==
    ASSUME NEW g \in Seq(Record), NEW r \in Record
    PROVE  Extends(Append(g, r), g) /\ Extends(g, g)
<1>1. /\ Append(g, r) \in Seq(Record) /\ Len(Append(g, r)) = Len(g) + 1 /\ Len(g) \in Nat
      /\ \A i \in 1 .. Len(g) : Append(g, r)[i] = g[i]
  BY RecordsMore
<1>2. Len(g) <= Len(Append(g, r)) /\ Len(g) <= Len(g)
  BY <1>1
<1> QED BY <1>1, <1>2 DEF Extends

LEMMA HeardIs ==
    ASSUME Types
    PROVE  /\ Heard \in Seq(Record) /\ Len(Heard) \in Nat
           /\ Extends(Heard, given) /\ Extends(All, Heard) /\ Extends(All, given)
<1>1. /\ All \in Seq(Record) /\ Len(All) = Len(given) + 1 /\ Len(given) \in Nat
      /\ given \in Seq(Record)
      /\ \A i \in 1 .. Len(given) : All[i] = given[i]
  BY AllIs DEF Types
<1>2. Extends(All, given) /\ Extends(given, given) /\ Extends(All, All)
  <2>1. Len(given) <= Len(All) /\ Len(given) <= Len(given) /\ Len(All) <= Len(All)
    BY <1>1
  <2> QED BY <1>1, <2>1 DEF Extends
<1>3. Heard \in {given, All}
  BY DEF Heard
<1>4. Len(All) \in Nat
  BY <1>1
<1> HIDE DEF All, Heard, Extends
<1> QED BY <1>1, <1>2, <1>3, <1>4

(* Nothing that was heard of is taken back.                                *)
LEMMA HeardGrows ==
    ASSUME FilesInv, FilesInv', [Next]_vars
    PROVE  Extends(Heard', Heard)
<1>1. /\ given \in Seq(Record) /\ All \in Seq(Record)
      /\ Len(All) \in Nat /\ Len(given) \in Nat
      /\ Extends(All', given') /\ Extends(Heard', given')
  <2>1. Types /\ Types'
    BY DEF FilesInv
  <2>2. /\ given \in Seq(Record) /\ All \in Seq(Record)
        /\ Len(All) \in Nat /\ Len(given) \in Nat
    BY <2>1, AllIs DEF Types
  <2>3. Extends(All', given') /\ Extends(given', given')
    <3>1. given' \in Seq(Record) /\ cur' \in Record
      BY <2>1 DEF Types
    <3> QED BY <3>1, AppendExtends DEF All
  <2>4. Heard' \in {given', All'}
    BY DEF Heard
  <2> HIDE DEF All, Heard
  <2> QED BY <2>2, <2>3, <2>4
<1>2. Extends(given, given) /\ Extends(All, All)
  BY <1>1 DEF Extends
<1>3. ASSUME given' = given, cur' = cur, wpc' = wpc \/ wpc' # "idle" PROVE Extends(Heard', Heard)
  <2>1. All' = All
    BY <1>3 DEF All
  <2> HIDE DEF All
  <2>2. Extends(All, given)
    BY HeardIs DEF FilesInv
  <2> QED BY <1>2, <1>3, <2>1, <2>2 DEF Heard
<1>4. ASSUME given' = All, wpc # "idle" PROVE Extends(Heard', Heard)
  <2>1. Heard = All
    BY <1>4 DEF Heard
  <2> HIDE DEF All
  <2> QED BY <1>1, <1>4, <2>1
<1>5. ASSUME given' = given, wpc = "idle" PROVE Extends(Heard', Heard)
  <2>1. Heard = given
    BY <1>5 DEF Heard
  <2> QED BY <1>1, <1>5, <2>1
<1> USE DEF settings, memory, disk
<1>6. CASE \E s \in Shapes : Emit(s)
  BY <1>5, <1>6 DEF Emit
<1>7. CASE Prepare
  BY <1>3, <1>7 DEF Prepare
<1>8. CASE PrepareReturns
  BY <1>3, <1>8 DEF PrepareReturns
<1>9. CASE WriteRecord
  <2>1. CASE WriteCSV
    BY <1>3, <2>1 DEF WriteCSV
  <2>2. CASE WriteRow
    BY <1>3, <2>2 DEF WriteRow
  <2>3. CASE WriteHeld
    BY <1>4, <2>3 DEF WriteHeld, All
  <2> QED BY <1>9, <2>1, <2>2, <2>3 DEF WriteRecord
<1>10. CASE PutUnit
  BY <1>3, <1>10 DEF PutUnit
<1>11. CASE RecordReturns
  BY <1>4, <1>11 DEF RecordReturns, All
<1>12. CASE WriteFails
  BY <1>3, <1>12 DEF WriteFails
<1>13. CASE EndRun
  BY <1>5, <1>13 DEF EndRun
<1>14. CASE Close
  BY <1>3, <1>14 DEF Close
<1>15. CASE CloseReturns
  BY <1>3, <1>15 DEF CloseReturns
<1>16. CASE DeleteFile
  BY <1>3, <1>16 DEF DeleteFile
<1>17. CASE Crash
  BY <1>3, <1>17 DEF Crash
<1>18. CASE OpenReader \/ ReadLine \/ ReadEnd
  BY <1>3, <1>18 DEF OpenReader, ReadLine, ReadEnd, WriterFrame
<1>19. CASE Stopped \/ UNCHANGED vars
  BY <1>3, <1>19 DEF Stopped, vars
<1> QED BY <1>6, <1>7, <1>8, <1>9, <1>10, <1>11, <1>12, <1>13, <1>14, <1>15, <1>16, <1>17, <1>18,
           <1>19 DEF Next

(* The lines taken, and a torn one, are a file as far as they go.          *)
LEMMA TakenEnds ==
    ASSUME FilesInv, format = "csv", NEW seen \in Seq(Units), NEW w \in Nat, w <= WholeLen(file),
           \A i \in 1 .. w : seen[i] = file[i],
           Len(seen) = w \/ (Len(seen) = w + 1 /\ seen[w + 1].whole = FALSE)
    PROVE  \E k \in Nat : Heeds(seen, k)
<1>1. PICK rs \in {given, Heard} : Covers(cols, rs) /\ Fits(file, Layout("csv", cols, rs))
  BY FileHeard
<1>2. /\ cols \in Seq(Nat) /\ rs \in Seq(Record) /\ Heard \in Seq(Record)
      /\ Len(rs) \in Nat /\ Len(Heard) \in Nat /\ Extends(Heard, rs)
  <2>1. Extends(Heard, given) /\ Heard \in Seq(Record)
    BY HeardIs DEF FilesInv
  <2>2. Extends(Heard, Heard)
    BY <2>1 DEF Extends
  <2> QED BY <2>1, <2>2 DEF FilesInv, Types
<1> DEFINE L == Layout("csv", cols, rs)
           k == RowCount("csv", cols, seen, rs)
<1>3. L \in Seq(WholeUnits)
  BY <1>2, LayoutTyped DEF AllFormats
<1>4. /\ WholeLen(file) <= Len(L) /\ \A i \in 1 .. WholeLen(file) : file[i] = L[i]
      /\ WholeLen(file) \in Nat
  BY <1>1, FitsAt
<1> HIDE DEF L
<1>5. Fits(seen, L)
  <2>1. w <= Len(L) /\ \A i \in 1 .. w : seen[i] = L[i]
    <3>1. Len(L) \in Nat
      BY <1>3
    <3> QED BY <1>4, <3>1
  <2> QED BY <1>3, <2>1, FitsBuilt
<1>6. k \in 0 .. Len(rs)
  BY <1>2, <1>5, CSVRows DEF L
<1>7. ASSUME NEW ex PROVE Tells(ReadCSV(seen).recs, "csv", <<>>, Heard, k, ex)
  <2>1. Tells(ReadCSV(seen).recs, "csv", cols, rs, k, ex)
    BY <1>1, <1>2, <1>5, CSVSays DEF L
  <2> HIDE DEF k
  <2>2. \A i \in 1 .. k : rs[i] = Heard[i]
    BY <1>2, <1>6 DEF Extends
  <2>3. Say("csv", cols, rs, k, ex) = Say("csv", <<>>, Heard, k, ex)
    BY <2>2, CSVSame
  <2> QED BY <2>1, <2>3 DEF Tells
<1> HIDE DEF k
<1>8. k \in Nat /\ k \in 0 .. Len(Heard)
  BY <1>2, <1>6 DEF Extends
<1> QED BY <1>7, <1>8 DEF Heeds

(* A step that leaves the reader alone and the whole lines as they are.    *)
LEMMA ReaderKept ==
    ASSUME FilesInv, FilesInv', ReaderInv, Extends(Heard', Heard),
           reader' = reader, format' = format,
           reader.at = "reading" => Taken(reader.seen, file)'
    PROVE  ReaderInv'
<1>1. ASSUME reader.at = "done" PROVE \E k \in Nat : Heeds(reader.seen, k)'
  <2>1. PICK k \in Nat : Heeds(reader.seen, k)
    BY <1>1 DEF ReaderInv
  <2> DEFINE seen == reader.seen
  <2> HIDE DEF seen
  <2>2. Heeds(seen, k)
    BY <2>1 DEF seen
  <2>3. Len(Heard) \in Nat /\ Len(Heard') \in Nat
    BY HeardIs DEF FilesInv
  <2>4. /\ k \in 0 .. Len(Heard) /\ k \in 0 .. Len(Heard')
        /\ \A i \in 1 .. k : Heard[i] = Heard'[i]
    BY <2>2, <2>3 DEF Heeds, Extends
  <2>5. ASSUME NEW ex PROVE Tells(ReadCSV(reader.seen).recs, "csv", <<>>, Heard', k, ex)
    <3>1. Tells(ReadCSV(reader.seen).recs, "csv", <<>>, Heard, k, ex)
      BY <2>1 DEF Heeds
    <3>2. Say("csv", <<>>, Heard, k, ex) = Say("csv", <<>>, Heard', k, ex)
      BY <2>4, CSVSame
    <3> QED BY <3>1, <3>2 DEF Tells
  <2> QED BY <2>4, <2>5 DEF Heeds
<1> QED BY <1>1 DEF ReaderInv

LEMMA ReaderStep ==
    ASSUME FilesInv, FilesInv', ReaderInv, [Next]_vars PROVE ReaderInv'
<1>1. Extends(Heard', Heard)
  BY HeardGrows
<1>2. /\ reader \in [at : {"none", "reading", "done", "lost"}, seen : Seq(Units)]
      /\ file \in Seq(Units) /\ file' \in Seq(Units)
  BY DEF FilesInv, Types, ReaderInv
<1>3. ASSUME reader' = reader, format' = format, file' = file PROVE ReaderInv'
  <2>1. reader.at = "reading" => Taken(reader.seen, file)'
    BY <1>3 DEF ReaderInv, Taken
  <2> QED BY <1>1, <1>3, <2>1, ReaderKept
<1> USE DEF settings, memory, disk
<1>4. CASE \E s \in Shapes : Emit(s)
  BY <1>3, <1>4 DEF Emit
<1>5. CASE Prepare
  BY <1>3, <1>5 DEF Prepare
<1>6. CASE PrepareReturns
  BY <1>3, <1>6 DEF PrepareReturns
<1>7. CASE WriteRecord
  <2>1. CASE WriteCSV
    <3>1. CASE cols' = cols
      BY <1>3, <1>7, <2>1, <3>1 DEF WriteCSV, WriteRecord
    <3>2. CASE cols' # cols
      <4>1. format' = format /\ file' = <<>> /\ reader' = Overtaken
        BY <1>7, <2>1, <3>2 DEF WriteCSV, WriteRecord
      <4>2. CASE reader.at = "reading" /\ reader.seen # <<>>
        <5>1. reader' = [at |-> "lost", seen |-> <<>>]
          BY <4>1, <4>2 DEF Overtaken
        <5>2. format' = "csv"
          BY <4>1, <4>2 DEF ReaderInv
        <5>3. reader' \in [at : {"none", "reading", "done", "lost"}, seen : Seq(Units)]
              /\ reader'.at = "lost"
          BY <5>1
        <5> QED BY <5>2, <5>3 DEF ReaderInv
      <4>3. CASE ~ (reader.at = "reading" /\ reader.seen # <<>>)
        <5>1. reader' = reader
          BY <4>1, <4>3 DEF Overtaken
        <5>2. reader.at = "reading" => Taken(reader.seen, file)'
          <6> SUFFICES ASSUME reader.at = "reading" PROVE Taken(reader.seen, file)'
            OBVIOUS
          <6>1. reader.seen = <<>> /\ reader'.seen = <<>> /\ file' = <<>>
            BY <4>1, <4>3, <5>1
          <6>2. WholeLen(file') = 0
            BY <6>1, NoFile
          <6> QED BY <6>1, <6>2 DEF Taken
        <5> QED BY <1>1, <4>1, <5>1, <5>2, ReaderKept
      <4> QED BY <4>2, <4>3
    <3> QED BY <3>1, <3>2
  <2>2. CASE WriteRow
    BY <1>3, <1>7, <2>2 DEF WriteRow, WriteRecord
  <2>3. CASE WriteHeld
    BY <1>3, <1>7, <2>3 DEF WriteHeld, WriteRecord
  <2> QED BY <1>7, <2>1, <2>2, <2>3 DEF WriteRecord
<1>8. CASE PutUnit
  <2>1. format' = format /\ cols' = cols /\ reader' = reader
    BY <1>8 DEF PutUnit
  <2>2. reader.at = "reading" => Taken(reader.seen, file)'
    <3> SUFFICES ASSUME reader.at = "reading" PROVE Taken(reader.seen, file)'
      OBVIOUS
    <3>1. /\ Taken(reader.seen, file) /\ format = "csv" /\ Len(reader.seen) \in Nat
      BY <1>2 DEF ReaderInv
    <3>2. WholeLen(file) <= WholeLen(file') /\ \A i \in 1 .. WholeLen(file) : file'[i] = file[i]
      <4>1. wpc \in {"open", "row", "end"} /\ todo # <<>>
        BY <1>8 DEF PutUnit
      <4>2. PICK g \in Seq(WholeUnits) : Goes(file, todo, g)
        <5>1. format \in AllFormats /\ cols \in Seq(Nat) /\ given \in Seq(Record) /\ All \in Seq(Record)
          BY FormatIs, AllIs DEF FilesInv, Types
        <5>2. /\ Body(format, cols, given) \in Seq(WholeUnits) /\ Body(format, cols, All) \in Seq(WholeUnits)
              /\ Layout(format, cols, given) \in Seq(WholeUnits)
              /\ Layout(format, cols, All) \in Seq(WholeUnits)
          BY <5>1, BodyOf, LayoutTyped
        <5>3. CASE wpc \in {"open", "row"}
          <6>1. prepared
            BY <5>3 DEF FilesInv, Memory, Types
          <6>2. Goes(file, todo, Body(format, cols, given)) \/ Goes(file, todo, Body(format, cols, All))
            BY <5>3, <6>1 DEF FilesInv, Writing
          <6> QED BY <5>2, <6>2
        <5>4. CASE wpc = "end"
          <6>1. Goes(file, todo, Layout(format, cols, given)) \/ Goes(file, todo, Layout(format, cols, All))
            BY <4>1, <5>4 DEF FilesInv, Ending, Final, Shows
          <6> QED BY <5>2, <6>1
        <5> QED BY <4>1, <5>3, <5>4
      <4>3. todo # <<>> /\ PutOne(file, todo, file', todo')
        BY <1>8 DEF PutUnit, PutOne
      <4>4. Goes(file', todo', g) /\ WholeLen(file) <= WholeLen(file')
        BY <4>2, <4>3, GoesPut
      <4>5. /\ \A i \in 1 .. WholeLen(file) : file[i] = g[i] /\ WholeLen(file) \in Nat
            /\ \A i \in 1 .. WholeLen(file') : file'[i] = g[i] /\ WholeLen(file') \in Nat
        BY <4>2, <4>4, FitsAt DEF Goes
      <4> QED BY <4>4, <4>5
    <3>3. WholeLen(file) \in Nat /\ WholeLen(file') \in Nat
      BY <1>2, WholeLenIs
    <3> QED BY <2>1, <3>1, <3>2, <3>3 DEF Taken
  <2> QED BY <1>1, <2>1, <2>2, ReaderKept
<1>9. CASE RecordReturns
  BY <1>3, <1>9 DEF RecordReturns
<1>10. CASE WriteFails
  BY <1>3, <1>10 DEF WriteFails
<1>11. CASE EndRun
  BY <1>3, <1>11 DEF EndRun
<1>12. CASE Close
  <2>1. format' = format /\ reader' = reader
    BY <1>12 DEF Close
  <2>2. CASE Holds
    <3>1. reader.at # "reading"
      BY <2>2 DEF Holds, ReaderInv
    <3> QED BY <1>1, <2>1, <3>1, ReaderKept
  <2>3. CASE ~Holds
    BY <1>3, <1>12, <2>1, <2>3 DEF Close
  <2> QED BY <2>2, <2>3
<1>13. CASE CloseReturns
  BY <1>3, <1>13 DEF CloseReturns
<1>14. CASE DeleteFile
  BY <1>3, <1>14 DEF DeleteFile
<1>15. CASE Crash
  <2>1. format' = format /\ reader' = IF reader.at = "done" THEN reader ELSE NoReader
    BY <1>15 DEF Crash
  <2>2. CASE reader.at = "done"
    BY <1>1, <2>1, <2>2, ReaderKept
  <2>3. CASE reader.at # "done"
    <3>1. reader' = [at |-> "none", seen |-> <<>>]
      BY <2>1, <2>3 DEF NoReader
    <3>2. reader' \in [at : {"none", "reading", "done", "lost"}, seen : Seq(Units)]
          /\ reader'.at = "none" /\ reader'.seen = <<>>
      BY <3>1
    <3> QED BY <3>2 DEF ReaderInv
  <2> QED BY <2>2, <2>3
<1>16. CASE OpenReader
  <2>1. /\ format = "csv" /\ reader.at = "none" /\ reader' = [reader EXCEPT !.at = "reading"]
        /\ format' = format /\ file' = file
    BY <1>16 DEF OpenReader, WriterFrame
  <2>2. reader.seen = <<>>
    BY <2>1 DEF ReaderInv
  <2>3. /\ reader' \in [at : {"none", "reading", "done", "lost"}, seen : Seq(Units)]
        /\ reader'.at = "reading" /\ reader'.seen = <<>>
    BY <1>2, <2>1, <2>2
  <2>4. Taken(<<>>, file')
    <3>1. WholeLen(file') \in Nat
      BY <1>2, WholeLenIs
    <3> QED BY <3>1 DEF Taken
  <2> QED BY <2>1, <2>3, <2>4 DEF ReaderInv
<1>17. CASE ReadLine
  <2> DEFINE seen == reader.seen
             n == Len(seen)
             line == file[n + 1]
  <2>1. /\ reader.at = "reading" /\ n < Len(file) /\ format' = format /\ file' = file
        /\ reader' = [at |-> IF line.whole THEN "reading" ELSE "done", seen |-> Append(seen, line)]
    BY <1>17 DEF ReadLine, WriterFrame
  <2>2. /\ format = "csv" /\ Taken(seen, file) /\ seen \in Seq(Units) /\ n \in Nat
        /\ Len(file) \in Nat
    BY <1>2, <2>1 DEF ReaderInv
  <2>3. line \in Units /\ line.whole \in BOOLEAN /\ n + 1 \in DOMAIN file
    <3> HIDE DEF n
    <3>1. n + 1 \in 1 .. Len(file)
      BY <2>1, <2>2
    <3>2. \A i \in 1 .. Len(file) : file[i] \in Units
      BY <1>2
    <3>3. DOMAIN file = 1 .. Len(file)
      BY <1>2
    <3>4. line \in Units
      BY <3>1, <3>2
    <3>5. \A u \in Units : u.whole \in BOOLEAN
      BY DEF Units
    <3> QED BY <3>1, <3>3, <3>4, <3>5
  <2> HIDE DEF n, line
  <2>4. /\ Append(seen, line) \in Seq(Units) /\ Len(Append(seen, line)) = n + 1
        /\ Append(seen, line)[n + 1] = line
        /\ \A i \in 1 .. n : Append(seen, line)[i] = seen[i]
    BY <2>2, <2>3, OneMore DEF n
  <2>5. \A i \in 1 .. n : seen[i] = file[i] /\ n <= WholeLen(file)
    BY <2>2 DEF Taken, n
  <2>6. n <= WholeLen(file) /\ WholeLen(file) \in Nat
    BY <1>2, <2>2, WholeLenIs DEF Taken, n
  <2> DEFINE more == Append(seen, line)
  <2>7. /\ more \in Seq(Units) /\ Len(more) = n + 1 /\ more[n + 1] = line
        /\ \A i \in 1 .. n : more[i] = file[i]
    BY <2>4, <2>5
  <2> HIDE DEF seen, more
  <2>8. reader' = [at |-> IF line.whole THEN "reading" ELSE "done", seen |-> more]
    BY <2>1 DEF more
  <2>9. CASE line.whole
    <3>1. PICK g : Fits(file, g)
      BY FileShows
    <3>2. n + 1 \in 1 .. WholeLen(file)
      BY <2>3, <2>9, <3>1, FitsAt DEF line
    <3>3. Taken(more, file)
      <4>1. \A i \in 1 .. n + 1 : more[i] = file[i]
        BY <2>2, <2>7 DEF line
      <4> QED BY <2>6, <2>7, <3>2, <4>1 DEF Taken
    <3>4. /\ reader' \in [at : {"none", "reading", "done", "lost"}, seen : Seq(Units)]
          /\ reader'.at = "reading" /\ reader'.seen = more
      BY <2>7, <2>8, <2>9
    <3> QED BY <2>1, <2>2, <3>3, <3>4 DEF ReaderInv
  <2>10. CASE ~line.whole
    <3>1. PICK k \in Nat : Heeds(more, k)
      BY <2>2, <2>3, <2>6, <2>7, <2>10, TakenEnds
    <3>2. /\ reader' \in [at : {"none", "reading", "done", "lost"}, seen : Seq(Units)]
          /\ reader'.at = "done" /\ reader'.seen = more
      BY <2>7, <2>8, <2>10
    <3>3. Heard' = Heard
      BY <1>17 DEF ReadLine, WriterFrame, Heard, All
    <3>4. Heeds(reader.seen, k)'
      BY <3>1, <3>2, <3>3 DEF Heeds
    <3> QED BY <2>1, <2>2, <3>2, <3>4 DEF ReaderInv
  <2> QED BY <2>9, <2>10
<1>18. CASE ReadEnd
  <2>1. /\ reader.at = "reading" /\ Len(reader.seen) = Len(file) /\ format' = format
        /\ reader' = [reader EXCEPT !.at = "done"]
    BY <1>18 DEF ReadEnd, WriterFrame
  <2>2. /\ format = "csv" /\ Taken(reader.seen, file) /\ reader.seen \in Seq(Units)
        /\ Len(reader.seen) \in Nat
    BY <1>2, <2>1 DEF ReaderInv
  <2>3. PICK k \in Nat : Heeds(reader.seen, k)
    BY <2>2, TakenEnds DEF Taken
  <2>4. /\ reader' \in [at : {"none", "reading", "done", "lost"}, seen : Seq(Units)]
        /\ reader'.at = "done" /\ reader'.seen = reader.seen
    BY <1>2, <2>1
  <2>5. Heard' = Heard
    BY <1>18 DEF ReadEnd, WriterFrame, Heard, All
  <2>6. Heeds(reader.seen, k)'
    BY <2>3, <2>4, <2>5 DEF Heeds
  <2> QED BY <2>1, <2>2, <2>4, <2>6 DEF ReaderInv
<1>19. CASE Stopped \/ UNCHANGED vars
  BY <1>3, <1>19 DEF Stopped, vars
<1> QED BY <1>4, <1>5, <1>6, <1>7, <1>8, <1>9, <1>10, <1>11, <1>12, <1>13, <1>14, <1>15, <1>16, <1>17,
           <1>18, <1>19 DEF Next

LEMMA ReaderInvariant == Spec => [](FilesInv /\ ReaderInv)
<1>1. Init => ReaderInv
  <2> SUFFICES ASSUME Init PROVE ReaderInv
    OBVIOUS
  <2>1. reader = [at |-> "none", seen |-> <<>>]
    BY DEF Init, NoReader
  <2>2. reader \in [at : {"none", "reading", "done", "lost"}, seen : Seq(Units)]
        /\ reader.at = "none" /\ reader.seen = <<>>
    BY <2>1
  <2> QED BY <2>2 DEF ReaderInv
<1>2. FilesInv /\ FilesInv' /\ ReaderInv /\ [Next]_vars => ReaderInv'
  BY ReaderStep
<1> QED BY <1>1, <1>2, FilesInvariant, PTL DEF Spec

-----------------------------------------------------------------------------
(* What the properties speak of.                                           *)

(* What was written, as the properties put it.                             *)
LEMMA StorableSaid ==
    ASSUME NEW m \in Nat, NEW rs, DOMAIN rs = 1 .. m, NEW ex
    PROVE  /\ Said(Without(Storable(rs), ex)) = Told(Say(format, cols, rs, m, ex))
           /\ Said(Storable(rs)) = Told(Say(format, cols, rs, m, {}))
<1> DEFINE w == Storable(rs)
<1>1. DOMAIN w = 1 .. m /\ \A i \in 1 .. m : w[i] = AsRead(format, cols, rs[i])
  BY DEF Storable
<1> HIDE DEF w
<1>2. ASSUME NEW e PROVE Said(Without(w, e)) = Told(Say(format, cols, rs, m, e))
  <2>1. Said(Without(w, e)) = Told([i \in 1 .. m |-> Values(FilterRecord(w[i], e))])
    BY <1>1, SaidOfRead
  <2>2. [i \in 1 .. m |-> Values(FilterRecord(w[i], e))] = Say(format, cols, rs, m, e)
    BY <1>1 DEF Say
  <2> QED BY <2>1, <2>2
<1>3. Said(w) = Said(Without(w, {}))
  BY <1>1, PlainSaid
<1> QED BY <1>2, <1>3 DEF w

(* Of the records a reader of lines reaches the first.                     *)
LEMMA ReachableIs ==
    ASSUME NEW rs \in Seq(Record)
    PROVE  LET m == Within(format, rs, Len(rs))
           IN  /\ m \in 0 .. Len(rs) /\ Len(rs) \in Nat /\ Len(Reachable(rs)) = m
               /\ DOMAIN Reachable(rs) = 1 .. m /\ \A i \in 1 .. m : Reachable(rs)[i] = rs[i]
<1> DEFINE n == Len(rs)
<1>1. n \in Nat /\ DOMAIN rs = 1 .. n
  OBVIOUS
<1>2. CASE format = "jsonl"
  <2> DEFINE m == Reach(rs, n, OverMiB)
  <2>1. m \in 0 .. n
    BY <1>1, ReachIs
  <2>2. Scanned(rs, OverMiB) = [i \in 1 .. m |-> rs[i]]
    BY <1>1, ScannedIs
  <2>3. Within(format, rs, n) = m /\ Reachable(rs) = Scanned(rs, OverMiB)
    BY <1>2 DEF Within, Reachable
  <2> HIDE DEF m
  <2>4. m \in Nat
    BY <1>1, <2>1
  <2>5. /\ DOMAIN Reachable(rs) = 1 .. m /\ Len(Reachable(rs)) = m
        /\ \A i \in 1 .. m : Reachable(rs)[i] = rs[i]
    BY <2>2, <2>3, <2>4
  <2> QED BY <1>1, <2>1, <2>3, <2>5
<1>3. CASE format # "jsonl"
  BY <1>1, <1>3 DEF Within, Reachable
<1> QED BY <1>2, <1>3

(* A record without any field says nothing, so that it makes no difference *)
(* whether it is counted.                                                  *)
LEMMA OfferedSays ==
    ASSUME Types, NEW ex
    PROVE  /\ Offered \in Seq(Record)
           /\ Told(Say(format, cols, Offered, Len(Offered), ex))
                = Told(Say(format, cols, All, Len(All), ex))
<1>1. /\ given \in Seq(Record) /\ All \in Seq(Record) /\ Len(All) = Len(given) + 1
      /\ Len(given) \in Nat /\ \A i \in 1 .. Len(given) : All[i] = given[i]
      /\ All[Len(given) + 1] = cur
  BY AllIs, RecordsMore DEF Types, All
<1>2. CASE cur # Empty
  BY <1>1, <1>2 DEF Offered, All
<1>3. CASE cur = Empty
  <2> DEFINE n == Len(given)
             u == Say(format, cols, given, n, ex)
             v == Say(format, cols, All, n + 1, ex)
             P == {i \in 1 .. n : u[i] # {}}
  <2>1. Offered = given
    BY <1>3 DEF Offered
  <2>2. /\ DOMAIN u = 1 .. n /\ DOMAIN v = 1 .. n + 1 /\ \A i \in 1 .. n : u[i] = v[i]
    BY <1>1 DEF Say
  <2>3. v[n + 1] = {}
    <3>1. v[n + 1] = Values(FilterRecord(AsRead(format, cols, Empty), ex))
      BY <1>1, <1>3 DEF Say
    <3>2. DOMAIN AsRead(format, cols, Empty) = {}
      <4>1. DOMAIN Empty = {}
        BY DEF Empty
      <4>2. DOMAIN XMLRecord(cols, Empty) = {}
        BY <4>1 DEF XMLRecord, Node
      <4>3. DOMAIN Restrict(Empty, DOMAIN Empty \cap ToSet(cols)) = {}
        BY <4>1 DEF Restrict
      <4>4. DOMAIN Fitting(Empty) = {}
        BY <4>1 DEF Fitting
      <4> QED BY <4>1, <4>2, <4>3, <4>4 DEF AsRead
    <3>3. DOMAIN FilterRecord(AsRead(format, cols, Empty), ex) = {}
      BY <3>2 DEF FilterRecord, Restrict
    <3>4. Values(FilterRecord(AsRead(format, cols, Empty), ex)) = {}
      BY <3>3 DEF Values
    <3> QED BY <3>1, <3>4
  <2> HIDE DEF u, v
  <2>4. n \in Nat
    BY <1>1
  <2>5. EntriesAt(v, 1 .. n) = u
    <3>1. /\ Numbers(0 + 1 .. 0 + n) /\ Cardinality(0 + 1 .. 0 + n) = n
          /\ Sorted(0 + 1 .. 0 + n) = [i \in 1 .. n |-> 0 + i]
      BY <2>4, SortedInterval
    <3>2. 0 + 1 .. 0 + n = 1 .. n /\ [i \in 1 .. n |-> 0 + i] = [i \in 1 .. n |-> i]
      BY <2>4
    <3>3. Numbers(1 .. n) /\ Cardinality(1 .. n) = n /\ Sorted(1 .. n) = [i \in 1 .. n |-> i]
      BY <3>1, <3>2
    <3>4. EntriesAt(v, 1 .. n) = [i \in 1 .. n |-> v[Sorted(1 .. n)[i]]]
      <4>1. EntriesAt(v, 1 .. n) = [i \in 1 .. Cardinality(1 .. n) |-> v[Sorted(1 .. n)[i]]]
        BY <3>3, EntriesProperties
      <4> QED BY <3>3, <4>1
    <3>5. u = [i \in 1 .. n |-> u[i]]
      BY DEF u, Say
    <3> QED BY <2>2, <3>3, <3>4, <3>5
  <2>6. Told(EntriesAt(v, 1 .. n)) = Told(v)
    <3>1. n + 1 \in Nat /\ 1 .. n \subseteq 1 .. n + 1
      BY <2>4
    <3>2. \A i \in 1 .. n + 1 : i \notin 1 .. n => v[i] = {}
      <4> SUFFICES ASSUME NEW i \in 1 .. n + 1, i \notin 1 .. n PROVE v[i] = {}
        OBVIOUS
      <4>1. i = n + 1
        BY <2>4
      <4> QED BY <2>3, <4>1
    <3> QED BY <2>2, <3>1, <3>2, ToldDropped
  <2> QED BY <1>1, <2>1, <2>5, <2>6 DEF u, v
<1> QED BY <1>2, <1>3

-----------------------------------------------------------------------------
(* From the invariant to the properties.                                   *)

LEMMA FilesTyped ==
    ASSUME FilesInv, ReaderInv PROVE TypeOK
<1>1. /\ file \in Seq(Units) /\ synced \in Nat /\ synced <= WholeLen(file)
  BY DEF FilesInv, Types
<1>2. WholeLen(file) \in Nat /\ WholeLen(file) <= Len(file) /\ Len(file) \in Nat
  BY <1>1, WholeLenIs
<1>3. synced \in 0 .. Len(file)
  BY <1>1, <1>2
<1>4. \A i \in 1 .. Len(file) - 1 : file[i].whole
  BY FileShows DEF Fits
<1>5. Len(given) <= NRec /\ Len(kept) <= NRec
  BY DEF FilesInv, Memory
<1>6. Types
  BY DEF FilesInv
<1>7. /\ format \in Formats /\ outputFields \in OutputFields
      /\ prepared \in BOOLEAN /\ gone \in BOOLEAN /\ closeFailed \in BOOLEAN
  BY <1>6 DEF Types
<1>8. /\ wpc \in {"idle", "prepare", "open", "record", "row", "closing", "end", "closed", "crashed"}
      /\ verdict \in {"none", "ok", "error"}
  BY <1>6 DEF Types
<1>9. reader.at \in {"none", "reading", "done", "lost"}
  BY DEF ReaderInv
<1> QED BY <1>3, <1>4, <1>5, <1>7, <1>8, <1>9 DEF TypeOK

LEMMA NothingMisread ==
    ASSUME FilesInv, ReaderInv PROVE NeverMisread
<1>1. Types
  BY DEF FilesInv
<1>2. /\ format \in AllFormats /\ cols \in Seq(Nat) /\ given \in Seq(Record)
      /\ All \in Seq(Record) /\ Len(All) = Len(given) + 1 /\ Len(given) \in Nat
      /\ \A i \in 1 .. Len(given) : All[i] = given[i]
  BY <1>1, FormatIs, AllIs DEF Types
<1>3. PICK rs \in {given, All} : /\ format \in {"csv", "xlsx"} => Covers(cols, rs)
                                 /\ Fits(file, Layout(format, cols, rs))
  BY FileShows
<1>4. /\ rs \in Seq(Record) /\ Len(rs) \in Nat /\ Len(All) \in Nat /\ Len(rs) <= Len(All)
      /\ \A i \in 1 .. Len(rs) : rs[i] = All[i]
  BY <1>2
<1>5. ASSUME NEW ex
      PROVE  Said(Without(Storable(Offered), ex)) = Told(Say(format, cols, All, Len(All), ex))
  <2>1. /\ Offered \in Seq(Record)
        /\ Told(Say(format, cols, Offered, Len(Offered), ex))
             = Told(Say(format, cols, All, Len(All), ex))
    BY <1>1, OfferedSays
  <2>2. Len(Offered) \in Nat /\ DOMAIN Offered = 1 .. Len(Offered)
    BY <2>1
  <2>3. Said(Without(Storable(Offered), ex)) = Told(Say(format, cols, Offered, Len(Offered), ex))
    BY <2>2, StorableSaid
  <2> QED BY <2>1, <2>3
<1>6. ASSUME NEW ex, NEW way \in ReadWays(format, file) PROVE Rightly(way, ex)
  <2> Reads(way, format, cols, rs, file, ex)
    BY <1>2, <1>3, <1>4, ReadSays
  <2>1. PICK k \in 0 .. Len(rs) : /\ Tells(way.recs, format, cols, rs, k, ex)
                                  /\ way.end = "cut" => format = "csv"
    BY DEF Reads
  <2>2. Said(Without(way.recs, ex)) = Told(Say(format, cols, rs, k, ex))
    BY <2>1 DEF Tells
  <2>3. /\ k \in Nat /\ k <= Len(All) /\ \A i \in 1 .. k : rs[i] = All[i]
    BY <1>4
  <2>4. IsPrefix(Told(Say(format, cols, rs, k, ex)), Told(Say(format, cols, All, Len(All), ex)))
    BY <1>4, <2>3, SayAgrees
  <2> QED BY <1>5, <2>1, <2>2, <2>4 DEF Rightly
<1>7. ASSUME NEW ex, reader.at = "done" PROVE Rightly(ReadCSV(reader.seen), ex)
  <2>1. format = "csv"
    BY <1>7 DEF ReaderInv
  <2>2. PICK k \in Nat : Heeds(reader.seen, k)
    BY <1>7 DEF ReaderInv
  <2>3. Said(Without(ReadCSV(reader.seen).recs, ex)) = Told(Say("csv", <<>>, Heard, k, ex))
    BY <2>2 DEF Heeds, Tells
  <2>4. Say("csv", <<>>, Heard, k, ex) = Say("csv", cols, Heard, k, ex)
    BY CSVSame
  <2>5. k <= Len(All) /\ \A i \in 1 .. k : Heard[i] = All[i]
    <3>1. Len(Heard) \in Nat /\ Extends(All, Heard)
      BY <1>1, HeardIs
    <3>2. k \in 0 .. Len(Heard)
      BY <2>2 DEF Heeds
    <3> HIDE DEF All, Heard
    <3> QED BY <1>4, <3>1, <3>2 DEF Extends
  <2>6. IsPrefix(Told(Say("csv", cols, Heard, k, ex)), Told(Say("csv", cols, All, Len(All), ex)))
    BY <1>4, <2>5, SayAgrees
  <2> QED BY <1>5, <2>1, <2>3, <2>4, <2>6 DEF Rightly
<1> QED BY <1>6, <1>7 DEF NeverMisread

(* The same reader without excluded columns.                               *)
LEMMA ReadSaid ==
    ASSUME NEW recs, NEW fmt, NEW c, NEW rs, NEW k, Tells(recs, fmt, c, rs, k, {})
    PROVE  Said(recs) = Told(Say(fmt, c, rs, k, {}))
<1>1. PICK m \in Nat : DOMAIN recs = 1 .. m
  BY DEF Tells
<1>2. Said(recs) = Said(Without(recs, {}))
  BY <1>1, PlainSaid
<1> QED BY <1>2 DEF Tells

LEMMA ShownIs == ASSUME NEW n \in Int PROVE Shown(n) \in Nat
BY FilesAssumption DEF Shown

(* A line of a csv is as long as the record it is of.                      *)
LEMMA CellsLong ==
    ASSUME NEW c \in Seq(Nat), NEW r \in Record, DOMAIN r \subseteq ToSet(c), NEW sizes
    PROVE  TooLong(Cells(c, r), sizes) <=> TooLong(r, sizes)
<1>1. /\ DOMAIN Cells(c, r) = DOMAIN c
      /\ \A i \in DOMAIN c : Cells(c, r)[i] = ValueOf(r, c[i])
  BY DEF Cells
<1>2. ASSUME TooLong(Cells(c, r), sizes) PROVE TooLong(r, sizes)
  <2>1. PICK i \in DOMAIN c : Cells(c, r)[i] # Empty /\ Cells(c, r)[i][3] \in sizes
    BY <1>1, <1>2 DEF TooLong
  <2>2. c[i] \in DOMAIN r /\ r[c[i]] = Cells(c, r)[i]
    BY <1>1, <2>1 DEF ValueOf
  <2> QED BY <2>1, <2>2 DEF TooLong
<1>3. ASSUME TooLong(r, sizes) PROVE TooLong(Cells(c, r), sizes)
  <2>1. PICK g \in DOMAIN r : r[g] # Empty /\ r[g][3] \in sizes
    BY <1>3 DEF TooLong
  <2>2. PICK i \in DOMAIN c : c[i] = g
    BY DEF ToSet
  <2>3. Cells(c, r)[i] = r[g]
    BY <1>1, <2>2 DEF ValueOf
  <2> QED BY <1>1, <2>1, <2>3 DEF TooLong
<1> QED BY <1>2, <1>3

(* How many records a preview shows of rs.                                 *)
Previewed(rs, k, n) == Least(Shown(n), Reach(rs, k, OverMiB))

LEMMA CSVPreview ==
    ASSUME NEW c \in Seq(Nat), NEW rs \in Seq(Record), Covers(c, rs),
           NEW f, Fits(f, Layout("csv", c, rs)), NEW n \in Int
    PROVE  LET l == Previewed(rs, RowCount("csv", c, f, rs), n)
           IN  Said(PreviewOf("csv", f, n)) = Told(Say("csv", c, rs, l, {}))
<1> DEFINE k == RowCount("csv", c, f, rs)
           rows == RowsIn(f)
           q == Reach(rs, k, OverMiB)
           s == Scanned(rows, OverMiB)
           l == Least(Shown(n), q)
           lines == FirstFew(s, Shown(n))
           recs == PreviewOf("csv", f, n)
<1>1. /\ k \in 0 .. Len(rs) /\ DOMAIN rows = 1 .. k
      /\ \A i \in 1 .. k : rows[i] = Cells(c, rs[i])
      /\ k >= 1 => HeaderOf(f) = c
  BY CSVRows
<1>2. Len(rs) \in Nat /\ k \in Nat
  BY <1>1
<1> HIDE DEF k
<1>3. ASSUME NEW i \in 1 .. k PROVE rs[i] \in Record /\ DOMAIN rs[i] \subseteq ToSet(c)
  <2>1. i \in 1 .. Len(rs)
    BY <1>1, <1>2
  <2> QED BY <2>1 DEF Covers
<1> HIDE DEF rows
<1>4. \A i \in 1 .. k : TooLong(rows[i], OverMiB) <=> TooLong(rs[i], OverMiB)
  BY <1>1, <1>3, CellsLong
<1>5. Reach(rows, k, OverMiB) = q /\ q \in 0 .. k /\ q \in Nat
  BY <1>2, <1>4, ReachSame, ReachIs
<1>6. s = [i \in 1 .. q |-> rows[i]]
  BY <1>1, <1>2, <1>5, ScannedIs
<1> HIDE DEF q, s
<1>7. s = [i \in 1 .. q |-> s[i]] /\ \A i \in 1 .. q : s[i] = rows[i]
  BY <1>6
<1>8. /\ DOMAIN lines = 1 .. l /\ l \in 0 .. q
      /\ \A i \in 1 .. l : lines[i] = s[i]
  <2>1. Shown(n) \in Nat /\ q \in Nat /\ s = [i \in 1 .. q |-> s[i]]
    BY <1>5, <1>7, ShownIs
  <2> QED BY ONLY <2>1, FirstFewIs
<1>9. recs = [i \in DOMAIN lines |-> UnderHeader(HeaderOf(f), lines[i])]
  BY DEF PreviewOf, s, rows
<1> HIDE DEF lines, l, recs
<1>10. l \in Nat /\ DOMAIN recs = 1 .. l
  BY <1>5, <1>8, <1>9
<1>11. ASSUME NEW i \in 1 .. l PROVE SameValues(recs[i], AsRead("csv", c, rs[i]))
  <2>1. i \in 1 .. q /\ i \in 1 .. k /\ k >= 1
    BY <1>2, <1>5, <1>8
  <2>2. lines[i] = Cells(c, rs[i]) /\ HeaderOf(f) = c
    BY <1>1, <1>7, <1>8, <2>1
  <2>3. recs[i] = UnderHeader(c, Cells(c, rs[i]))
    BY <1>8, <1>9, <2>2
  <2>4. SameValues(UnderHeader(c, Cells(c, rs[i])), rs[i])
    BY <1>3, <2>1, CellsSay
  <2>5. AsRead("csv", c, rs[i]) = rs[i]
    BY DEF AsRead
  <2> QED BY <2>3, <2>4, <2>5
<1>12. Said(Without(recs, {})) = Told(Say("csv", c, rs, l, {}))
  BY <1>10, <1>11, DirectSays
<1>13. Said(recs) = Told(Say("csv", c, rs, l, {}))
  BY <1>10, <1>12, PlainSaid
<1> QED BY <1>13 DEF Previewed, recs, l, q, k

LEMMA LinesPreview ==
    ASSUME NEW c \in Seq(Nat), NEW rs \in Seq(Record),
           NEW f, Fits(f, Layout("jsonl", c, rs)), NEW n \in Int
    PROVE  LET l == Previewed(rs, RowCount("jsonl", c, f, rs), n)
           IN  Said(PreviewOf("jsonl", f, n)) = Told(Say("jsonl", c, rs, l, {}))
<1> DEFINE k == RowCount("jsonl", c, f, rs)
           q == Reach(rs, k, OverMiB)
           s == Scanned(RowsIn(f), OverMiB)
           l == Least(Shown(n), q)
           recs == PreviewOf("jsonl", f, n)
<1>1. q \in 0 .. k /\ k \in 0 .. Len(rs) /\ s = [i \in 1 .. q |-> rs[i]]
  BY LinesSaid
<1>2. q \in Nat
  BY <1>1
<1>3. recs = FirstFew(s, Shown(n))
  BY DEF PreviewOf
<1> HIDE DEF q, s
<1>4. s = [i \in 1 .. q |-> s[i]] /\ \A i \in 1 .. q : s[i] = rs[i]
  BY <1>1
<1>5. DOMAIN recs = 1 .. l /\ l \in 0 .. q /\ \A i \in 1 .. l : recs[i] = s[i]
  BY <1>2, <1>3, <1>4, ShownIs, FirstFewIs
<1> HIDE DEF l, recs
<1>6. l \in Nat /\ \A i \in 1 .. l : recs[i] = rs[i]
  <2>1. l \in Nat /\ \A i \in 1 .. l : i \in 1 .. q
    BY <1>2, <1>5
  <2> QED BY <1>4, <1>5, <2>1
<1>7. \A i \in 1 .. l : SameValues(recs[i], AsRead("jsonl", c, rs[i]))
  BY <1>6 DEF SameValues, AsRead
<1>8. Said(Without(recs, {})) = Told(Say("jsonl", c, rs, l, {}))
  BY <1>5, <1>6, <1>7, DirectSays
<1>9. Said(recs) = Told(Say("jsonl", c, rs, l, {}))
  BY <1>5, <1>6, <1>8, PlainSaid
<1> QED BY <1>9 DEF Previewed, recs, l, q, k

(* What a preview of the records accepted would show.                      *)
LEMMA FirstSaid ==
    ASSUME NEW fmt \in {"csv", "jsonl"}, NEW c, NEW rs \in Seq(Record), NEW n \in Int
    PROVE  LET g == FirstFew(Scanned(rs, OverMiB), Shown(n))
               l == Previewed(rs, Len(rs), n)
           IN  /\ l \in 0 .. Len(rs)
               /\ Said(g) = Told(Say(fmt, c, g, l, {})) /\ \A i \in 1 .. l : g[i] = rs[i]
<1> DEFINE k == Len(rs)
           q == Reach(rs, k, OverMiB)
           s == Scanned(rs, OverMiB)
           l == Least(Shown(n), q)
           g == FirstFew(s, Shown(n))
<1>1. k \in Nat /\ DOMAIN rs = 1 .. k
  OBVIOUS
<1>2. q \in 0 .. k /\ s = [i \in 1 .. q |-> rs[i]]
  BY <1>1, ReachIs, ScannedIs
<1>3. q \in Nat
  BY <1>1, <1>2
<1> HIDE DEF q, s, k
<1>4. s = [i \in 1 .. q |-> s[i]] /\ \A i \in 1 .. q : s[i] = rs[i]
  BY <1>2
<1>5. DOMAIN g = 1 .. l /\ l \in 0 .. q /\ \A i \in 1 .. l : g[i] = s[i]
  BY <1>3, <1>4, ShownIs, FirstFewIs
<1> HIDE DEF l, g
<1>6. l \in Nat /\ l \in 0 .. k /\ \A i \in 1 .. l : g[i] = rs[i]
  BY <1>1, <1>2, <1>3, <1>4, <1>5
<1>7. \A i \in 1 .. l : SameValues(g[i], AsRead(fmt, c, g[i]))
  BY DEF SameValues, AsRead
<1>8. Said(Without(g, {})) = Told(Say(fmt, c, g, l, {}))
  BY <1>5, <1>6, <1>7, DirectSays
<1>9. Said(g) = Told(Say(fmt, c, g, l, {}))
  BY <1>5, <1>6, <1>8, PlainSaid
<1> QED BY <1>6, <1>9 DEF Previewed, g, l, s, q, k

LEMMA PreviewGrows ==
    ASSUME NEW m \in Nat, NEW k \in Nat, m <= k, NEW a, NEW b, \A i \in 1 .. m : a[i] = b[i],
           NEW n \in Int
    PROVE  /\ Previewed(a, m, n) <= Previewed(b, k, n)
           /\ Previewed(a, m, n) \in Nat /\ Previewed(b, k, n) \in Nat
<1>1. /\ Reach(a, m, OverMiB) <= Reach(b, k, OverMiB)
      /\ Reach(a, m, OverMiB) \in 0 .. m /\ Reach(b, k, OverMiB) \in 0 .. k
  BY ReachGrows, ReachIs
<1>2. Shown(n) \in Nat
  BY ShownIs
<1> QED BY <1>1, <1>2 DEF Previewed, Least

LEMMA AcceptedSurvive ==
    ASSUME FilesInv PROVE AcceptedSurvives
<1> SUFFICES ASSUME ~Holds, ~gone, ~Rewriting
             PROVE  /\ \A way \in ReadWays(format, file) :
                           IsPrefix(Said(Storable(Reachable(given))), Said(way.recs))
                    /\ format \in {"csv", "jsonl"} =>
                           \A j \in 0 .. PreviewMax + 1 :
                               IsPrefix(Said(FirstFew(Scanned(given, OverMiB), Shown(j))),
                                        Said(PreviewOf(format, file, j)))
  BY DEF AcceptedSurvives
<1>1. Types
  BY DEF FilesInv
<1>2. /\ format \in AllFormats /\ cols \in Seq(Nat) /\ given \in Seq(Record)
      /\ format \notin {"json", "xlsx"}
      /\ All \in Seq(Record) /\ Len(All) = Len(given) + 1 /\ Len(given) \in Nat
      /\ \A i \in 1 .. Len(given) : All[i] = given[i]
  BY <1>1, FormatIs, AllIs DEF Types
<1>3. PICK rs \in {given, All} : /\ format \in {"csv", "xlsx"} => Covers(cols, rs)
                                 /\ Fits(file, Layout(format, cols, rs))
  BY FileShows
<1>4. /\ rs \in Seq(Record) /\ Len(rs) \in Nat /\ Len(given) <= Len(rs)
      /\ \A i \in 1 .. Len(given) : given[i] = rs[i]
  BY <1>2
<1> DEFINE n == RowCount(format, cols, file, rs)
           m == Within(format, given, Len(given))
           q == Within(format, rs, n)
<1>5. n \in 0 .. Len(rs) /\ Before(format, cols) \in {0, 1} /\ WholeLen(file) \in Nat
  <2>1. format \in AllFormats \ {"xlsx"}
    BY <1>2
  <2> HIDE DEF n
  <2>2. RowCount(format, cols, file, rs) \in 0 .. Len(rs) /\ Before(format, cols) \in {0, 1}
    BY <1>2, <1>3, <1>4, <2>1, RowPositions
  <2>3. WholeLen(file) \in Nat
    BY <1>3, FitsAt
  <2> QED BY <2>2, <2>3 DEF n
<1>6. Len(given) <= n
  <2>1. CASE given = <<>>
    <3>1. Len(given) = 0
      BY <2>1
    <3> HIDE DEF n
    <3> QED BY <1>4, <1>5, <3>1
  <2>2. CASE given # <<>>
    <3>1. Before(format, cols) + Len(given) <= synced
      BY <2>2 DEF FilesInv, AcceptedSynced
    <3>2. synced \in Nat /\ synced <= WholeLen(file)
      BY <1>1 DEF Types
    <3>3. Before(format, cols) + Len(given) <= WholeLen(file)
      BY <1>2, <1>5, <3>1, <3>2
    <3> QED BY <1>2, <1>4, <1>5, <3>3 DEF RowCount
  <2> QED BY <2>1, <2>2
<1>7. n \in Nat
  BY <1>4, <1>5
<1>8. ASSUME NEW way \in ReadWays(format, file) PROVE Tells(way.recs, format, cols, rs, q, {})
  <2> Reads(way, format, cols, rs, file, {})
    BY <1>2, <1>3, <1>4, ReadSays
  <2> QED BY <1>2 DEF Reads
<1> HIDE DEF n
<1>9. /\ m \in 0 .. Len(given) /\ DOMAIN Reachable(given) = 1 .. m
      /\ \A i \in 1 .. m : Reachable(given)[i] = given[i]
  BY <1>2, ReachableIs
<1>10. m <= q /\ m \in Nat /\ q \in Nat
  <2>1. CASE format = "jsonl"
    <3>1. /\ Reach(given, Len(given), OverMiB) <= Reach(rs, n, OverMiB)
          /\ Reach(given, Len(given), OverMiB) \in 0 .. Len(given)
          /\ Reach(rs, n, OverMiB) \in 0 .. n
      BY <1>2, <1>4, <1>6, <1>7, ReachGrows, ReachIs
    <3>2. m = Reach(given, Len(given), OverMiB) /\ q = Reach(rs, n, OverMiB)
      BY <2>1 DEF Within
    <3> QED BY <1>2, <1>7, <3>1, <3>2
  <2>2. CASE format # "jsonl"
    BY <1>2, <1>6, <1>7, <2>2 DEF Within
  <2> QED BY <2>1, <2>2
<1> HIDE DEF m, q
<1>11. ASSUME NEW i \in 1 .. m PROVE Reachable(given)[i] = rs[i]
  <2>1. i \in 1 .. Len(given)
    BY <1>2, <1>9, <1>10
  <2>2. Reachable(given)[i] = given[i]
    BY <1>9
  <2> QED BY <1>4, <2>1, <2>2
<1>12. Said(Storable(Reachable(given))) = Told(Say(format, cols, Reachable(given), m, {}))
  BY <1>9, <1>10, StorableSaid
<1>13. IsPrefix(Told(Say(format, cols, Reachable(given), m, {})), Told(Say(format, cols, rs, q, {})))
  BY <1>10, <1>11, SayAgrees
<1>14. ASSUME NEW way \in ReadWays(format, file)
       PROVE  IsPrefix(Said(Storable(Reachable(given))), Said(way.recs))
  <2>1. Said(way.recs) = Told(Say(format, cols, rs, q, {}))
    BY <1>8, ReadSaid
  <2> QED BY <1>12, <1>13, <2>1
<1>15. ASSUME format \in {"csv", "jsonl"}, NEW j \in 0 .. PreviewMax + 1
       PROVE  IsPrefix(Said(FirstFew(Scanned(given, OverMiB), Shown(j))),
                       Said(PreviewOf(format, file, j)))
  <2> DEFINE g == FirstFew(Scanned(given, OverMiB), Shown(j))
             l == Previewed(given, Len(given), j)
             z == Previewed(rs, n, j)
  <2>1. j \in Int
    BY FilesAssumption
  <2>2. l \in 0 .. Len(given) /\ Said(g) = Told(Say(format, cols, g, l, {}))
        /\ \A i \in 1 .. l : g[i] = given[i]
    BY <1>2, <1>15, <2>1, FirstSaid
  <2>3. l <= z /\ l \in Nat /\ z \in Nat
    BY <1>2, <1>4, <1>6, <1>7, <2>1, PreviewGrows
  <2>4. Said(PreviewOf(format, file, j)) = Told(Say(format, cols, rs, z, {}))
    <3>1. CASE format = "csv"
      <4>1. Covers(cols, rs) /\ Fits(file, Layout("csv", cols, rs))
        BY <1>3, <3>1
      <4> QED BY <1>2, <1>4, <2>1, <3>1, <4>1, CSVPreview DEF n
    <3>2. CASE format = "jsonl"
      <4>1. Fits(file, Layout("jsonl", cols, rs))
        BY <1>3, <3>2
      <4> QED BY <1>2, <1>4, <2>1, <3>2, <4>1, LinesPreview DEF n
    <3> QED BY <1>15, <3>1, <3>2
  <2> HIDE DEF g, l, z
  <2>5. \A i \in 1 .. l : g[i] = rs[i]
    BY <1>2, <1>4, <2>2
  <2>6. IsPrefix(Told(Say(format, cols, g, l, {})), Told(Say(format, cols, rs, z, {})))
    BY <2>3, <2>5, SayAgrees
  <2> QED BY <2>2, <2>4, <2>6 DEF g
<1> QED BY <1>14, <1>15

LEMMA OkStored ==
    ASSUME FilesInv PROVE OkMeansStored
<1> SUFFICES ASSUME wpc = "closed", verdict = "ok", ~closeFailed, given # <<>>,
                    NEW way \in ReadWays(format, file)
             PROVE  /\ way.end = IF Len(Reachable(given)) < Len(given) THEN "error" ELSE "eof"
                    /\ Said(way.recs) = Said(Storable(Reachable(given)))
  BY DEF OkMeansStored
<1>1. Types
  BY DEF FilesInv
<1>2. /\ format \in AllFormats /\ cols \in Seq(Nat) /\ given \in Seq(Record) /\ cur \in Record
  BY <1>1, FormatIs DEF Types
<1>3. Layout(format, cols, given) \in Seq(WholeUnits)
  BY <1>2, LayoutTyped
<1>4. file = Layout(format, cols, given)
  <2>1. Goes(file, <<>>, Layout(format, cols, given))
    BY DEF FilesInv, Ending
  <2> QED BY <1>3, <2>1, GoesDone
<1>5. Fits(file, Layout(format, cols, given))
  BY <1>3, <1>4, CompleteFile
<1>6. format \in {"csv", "xlsx"} => Covers(cols, given)
  <2>1. \/ Shows(format, cols, file, todo, wpc, given)
        \/ Shows(format, cols, file, todo, wpc, All)
    BY DEF FilesInv, Ending, Final
  <2>2. Covers(cols, All) => Covers(cols, given)
    BY <1>2, CoversPart DEF All
  <2> QED BY <2>1, <2>2 DEF Shows
<1> DEFINE k == Within(format, given, Len(given))
<1>7. /\ Tells(way.recs, format, cols, given, k, {})
      /\ way.end = IF k < Len(given) THEN "error" ELSE "eof"
  <2>1. Reads(way, format, cols, given, file, {})
    BY <1>2, <1>5, <1>6, ReadSays
  <2> QED BY <1>4, <2>1 DEF Reads
<1>8. /\ k \in 0 .. Len(given) /\ Len(given) \in Nat /\ Len(Reachable(given)) = k
      /\ DOMAIN Reachable(given) = 1 .. k
      /\ \A i \in 1 .. k : Reachable(given)[i] = given[i]
  BY <1>2, ReachableIs
<1> HIDE DEF k
<1>9. k \in Nat
  BY <1>8
<1>10. Said(way.recs) = Told(Say(format, cols, given, k, {}))
  BY <1>7, ReadSaid
<1>11. Said(Storable(Reachable(given))) = Told(Say(format, cols, Reachable(given), k, {}))
  BY <1>8, <1>9, StorableSaid
<1>12. Say(format, cols, Reachable(given), k, {}) = Say(format, cols, given, k, {})
  <2>1. \A i \in 1 .. k : Reachable(given)[i] = given[i]
    BY <1>8
  <2> QED BY ONLY <2>1 DEF Say
<1> QED BY <1>7, <1>8, <1>10, <1>11, <1>12

(* The columns of a conversion have every field of every record.           *)
LEMMA UnionCovers ==
    ASSUME NEW rs \in Seq(Record)
    PROVE  UnionHeaders(rs) \in Seq(Nat) /\ Covers(UnionHeaders(rs), rs)
<1> DEFINE n == Len(rs)
           sets == {DOMAIN rs[i] : i \in 1 .. n}
           all == UNION sets
<1>1. n \in Nat /\ DOMAIN rs = 1 .. n /\ \A i \in 1 .. n : rs[i] \in Record
  OBVIOUS
<1> HIDE DEF n
<1>2. \A i \in 1 .. n : DOMAIN rs[i] \subseteq Nat /\ IsFiniteSet(DOMAIN rs[i])
  BY <1>1, RecordIs
<1>3. IsFiniteSet(sets)
  <2> DEFINE h == [i \in 1 .. n |-> DOMAIN rs[i]]
  <2>1. h \in Surjection(1 .. n, sets)
    BY DEF Surjection
  <2>2. IsFiniteSet(1 .. n)
    BY <1>1, FS_Interval
  <2> QED BY <2>1, <2>2, FS_Surjection
<1>4. IsFiniteSet(all)
  <2>1. \A T \in sets : IsFiniteSet(T)
    BY <1>2
  <2> HIDE DEF sets
  <2> QED BY <1>3, <2>1, FS_UNION
<1>5. Numbers(all) /\ \A i \in 1 .. n : DOMAIN rs[i] \subseteq all
  <2>1. \A T \in sets : T \subseteq Nat
    BY <1>2
  <2>2. \A i \in 1 .. n : DOMAIN rs[i] \in sets
    OBVIOUS
  <2> HIDE DEF sets
  <2>3. all \subseteq Nat
    BY <2>1
  <2>4. \A i \in 1 .. n : DOMAIN rs[i] \subseteq all
    BY <2>2
  <2> HIDE DEF all
  <2> QED BY <1>4, <2>3, <2>4 DEF Numbers
<1>6. UnionHeaders(rs) = Sorted(all)
  BY <1>1 DEF UnionHeaders
<1> HIDE DEF all
<1>7. Sorted(all) \in Seq(Nat) /\ ToSet(Sorted(all)) = all
  BY <1>5, SortedFields
<1> QED BY <1>5, <1>6, <1>7 DEF Covers, n

LEMMA ConversionsTell ==
    ASSUME FilesInv PROVE ConversionsAgree
<1> DEFINE u == Download(file).recs
           c == UnionHeaders(u)
           w(fmt) == [i \in DOMAIN u |-> AsRead(fmt, UnionHeaders(u), u[i])]
<1> SUFFICES ASSUME format = "jsonl", NEW fmt \in {"csv", "xlsx", "json", "xml"},
                    NEW way \in ReadWays(fmt, Converted(fmt, u))
             PROVE  way.end = "eof" /\ Said(way.recs) = Said(w(fmt))
  BY DEF ConversionsAgree
<1>1. /\ fmt \in AllFormats /\ cols \in Seq(Nat) /\ given \in Seq(Record) /\ All \in Seq(Record)
  BY AllIs DEF FilesInv, Types, AllFormats
<1>2. PICK rs \in {given, All} : Fits(file, Layout("jsonl", cols, rs))
  BY FileShows
<1>3. u \in Seq(Record)
  <2> DEFINE k == RowCount("jsonl", cols, file, rs)
             n == Reach(rs, k, Over10MiB)
  <2>1. rs \in Seq(Record)
    BY <1>1
  <2>2. n \in 0 .. k /\ k \in 0 .. Len(rs) /\ Scanned(RowsIn(file), Over10MiB) = [i \in 1 .. n |-> rs[i]]
    BY <1>1, <1>2, <2>1, LinesSaid
  <2> HIDE DEF k, n
  <2>3. u = [i \in 1 .. n |-> rs[i]]
    BY <2>2 DEF Download, ReadLines
  <2>4. n \in Nat /\ \A i \in 1 .. n : rs[i] \in Record
    <3>1. Len(rs) \in Nat /\ \A i \in 1 .. Len(rs) : rs[i] \in Record
      BY <2>1
    <3>2. n \in Nat /\ n <= Len(rs)
      BY <2>2, <3>1
    <3> QED BY <3>1, <3>2
  <2> HIDE DEF u
  <2> QED BY <2>3, <2>4
<1> HIDE DEF u
<1>4. c \in Seq(Nat) /\ Covers(c, u)
  BY <1>3, UnionCovers
<1>5. Converted(fmt, u) = Layout(fmt, c, u)
  BY DEF Converted, Layout, c
<1>6. w(fmt) = [i \in DOMAIN u |-> AsRead(fmt, c, u[i])]
  BY DEF c
<1> HIDE DEF c, w
<1>7. Layout(fmt, c, u) \in Seq(WholeUnits)
  BY <1>1, <1>3, <1>4, LayoutTyped
<1>8. Fits(Layout(fmt, c, u), Layout(fmt, c, u))
  BY <1>7, CompleteFile
<1>9. Tells(way.recs, fmt, c, u, Len(u), {}) /\ way.end = "eof"
  <2>1. way \in ReadWays(fmt, Layout(fmt, c, u))
    BY <1>5
  <2>2. Reads(way, fmt, c, u, Layout(fmt, c, u), {})
    BY <1>1, <1>3, <1>4, <1>8, <2>1, ReadSays
  <2>3. Within(fmt, u, Len(u)) = Len(u) /\ ~ (Len(u) < Len(u))
    <3>1. Len(u) \in Nat
      BY <1>3
    <3> QED BY <3>1 DEF Within
  <2> QED BY <2>2, <2>3 DEF Reads
<1>10. Said(way.recs) = Told(Say(fmt, c, u, Len(u), {}))
  BY <1>9, ReadSaid
<1>11. Said(w(fmt)) = Told(Say(fmt, c, u, Len(u), {}))
  <2>1. Len(u) \in Nat /\ DOMAIN u = 1 .. Len(u)
    BY <1>3
  <2> DEFINE x == w(fmt)
  <2>2. DOMAIN x = 1 .. Len(u) /\ \A i \in 1 .. Len(u) : x[i] = AsRead(fmt, c, u[i])
    BY <1>6, <2>1
  <2> HIDE DEF x
  <2>3. Said(x) = Said(Without(x, {}))
    BY <2>1, <2>2, PlainSaid
  <2>4. Said(Without(x, {})) = Told([i \in 1 .. Len(u) |-> Values(FilterRecord(x[i], {}))])
    BY <2>1, <2>2, SaidOfRead
  <2>5. [i \in 1 .. Len(u) |-> Values(FilterRecord(x[i], {}))] = Say(fmt, c, u, Len(u), {})
    BY <2>2 DEF Say
  <2> QED BY <2>3, <2>4, <2>5 DEF x
<1> QED BY <1>9, <1>10, <1>11

-----------------------------------------------------------------------------
(* The types of all variables, and that only the last unit of a file is    *)
(* ever torn: every writer appends (internal/output).                      *)
THEOREM RecordsTyped == Spec => []TypeOK
<1>1. FilesInv /\ ReaderInv => TypeOK
  BY FilesTyped
<1> QED BY <1>1, ReaderInvariant, PTL

(* Whatever reader of internal/input takes the file of a job, while its    *)
(* writer is at work, after a write that failed or after a crash, and      *)
(* whatever columns are excluded: what it returns says what the first      *)
(* records written say, in order, and each value under its own field or,   *)
(* in xml, the element sanitizeXMLName makes of it.  So does csvReader     *)
(* line by line, unless rewriteAll overtakes it.                           *)
THEOREM NothingReadWrong == Spec => []NeverMisread
<1>1. FilesInv /\ ReaderInv => NeverMisread
  BY NothingMisread
<1> QED BY <1>1, ReaderInvariant, PTL

(* A record whose WriteRecord returned nil can be read, and a preview of   *)
(* a csv or jsonl has it among its first lines, from then on, a crash      *)
(* included: but for json and xlsx before Close, a csv that rewriteAll     *)
(* writes again, what is behind a line of more than 1 MiB, and a file that *)
(* was deleted.                                                            *)
THEOREM AcceptedReadable == Spec => []AcceptedSurvives
<1>1. FilesInv => AcceptedSurvives
  BY AcceptedSurvive
<1> QED BY <1>1, FilesInvariant, PTL

(* When App.Run returned nil and Close did not fail, every reader gets all *)
(* that the records said, and io.EOF behind it; of a jsonl with a line of  *)
(* more than 1 MiB, the records before it and bufio.ErrTooLong.            *)
THEOREM RunStoresAll == Spec => []OkMeansStored
<1>1. FilesInv => OkMeansStored
  BY OkStored
<1> QED BY <1>1, FilesInvariant, PTL

(* A download of a jsonl file that parses says in each of the formats that *)
(* handleDownloadFile converts to what its records say, whatever their     *)
(* fields, but that xlsx cuts long text and xml names and nests values.    *)
THEOREM DownloadsAgree == Spec => []ConversionsAgree
<1>1. FilesInv => ConversionsAgree
  BY ConversionsTell
<1> QED BY <1>1, FilesInvariant, PTL

-----------------------------------------------------------------------------
(* The inductive invariant.                                                *)

Intact == 1 .. MaxSaves

Unrenamed == {"write", "sync", "stat", "copy", "keep", "rename"}

Counters == faults \in Nat /\ budget \in Nat /\ copied \in BOOLEAN

(* Where a save is tells what it has done to the temporary file and to     *)
(* main, and what the files hold is no newer than it.                      *)
Saving ==
    /\ step # "idle" => server = "up"
    /\ saves \in 0 .. MaxSaves /\ may \subseteq 0 .. saves
    /\ \A m \in {main} \union undone : m <= saves /\ (step \in Unrenamed => m < saves)
    /\ step \in Unrenamed \union {"directory"} => saves \in may /\ saves > 0
    /\ step = "sync" => tmp = saves
    /\ step \in {"stat", "copy", "keep", "rename"} => tmp = saves /\ "tmp" \notin dirty
    /\ step = "directory" => main = saves /\ "main" \notin dirty

(* What main is, or may be again, is what a load may return.               *)
Loadable ==
    ~excused => /\ {main} \union undone \subseteq may
                /\ "main" \in dirty => main = Absent

(* What this save's copy is worth.                                         *)
Copied ==
    /\ step \in {"write", "sync", "stat", "copy", "keep"} => ~copied
    /\ step \in {"copy", "keep"} => main # Absent
    /\ step = "keep" => bak = main
    /\ step \in {"rename", "directory"} /\ copied => bak \in Intact /\ "bak" \notin dirty

(* Without a fault since both files were good main is good and stays so,   *)
(* and so is its backup while it is not being written; with one at most,   *)
(* one of the two is whenever no save runs.                                *)
Guarded ==
    /\ faults = 0 => /\ main \in Intact /\ TornFile \notin undone /\ "main" \notin dirty
                     /\ step \in {"rename", "directory"} => copied
                     /\ step \in {"idle", "recover", "write", "sync", "stat"} =>
                           bak \in Intact /\ "bak" \notin dirty
    /\ faults <= 1 /\ step = "idle" /\ main = TornFile => bak \in Intact
    /\ server = "refused" => faults >= 2

SFInv == SFTypeOK /\ Counters /\ Saving /\ Loadable /\ Copied /\ Guarded

LEMMA SFInitOK == SFInit => SFInv
<1> SUFFICES ASSUME SFInit PROVE SFInv
  OBVIOUS
<1> USE DurableFileAssumption DEF SFInit, Absent, TornFile
<1>1. SFTypeOK
  BY DEF SFTypeOK, Contents
<1>2. Counters /\ Copied /\ Guarded
  <2>1. Counters
    BY DEF Counters
  <2>2. Copied
    BY DEF Copied
  <2>3. Guarded
    BY DEF Guarded
  <2> QED BY <2>1, <2>2, <2>3
<1>3. Saving /\ Loadable
  <2>1. may = {0} /\ {0} \subseteq 0 .. 0
    OBVIOUS
  <2> QED BY <2>1 DEF Saving, Loadable, Unrenamed
<1> QED BY <1>1, <1>2, <1>3 DEF SFInv

-----------------------------------------------------------------------------
(* Every action keeps each part of it.                                     *)

LEMMA SFTypeStep == ASSUME SFTypeOK, Counters, Saving, [SFNext]_SFvars PROVE SFTypeOK' /\ Counters'
<1> USE DurableFileAssumption DEF SFTypeOK, Counters, Saving, Contents, Absent, TornFile, Unrenamed
<1>1. CASE Begin
  <2>1. /\ saves' \in 0 .. MaxSaves /\ may' = may \union {saves'} /\ dirty' = dirty \union {"tmp"}
        /\ step' = "write" /\ tmp' = TornFile /\ copied' = FALSE
        /\ UNCHANGED <<main, bak, undone, server, excused, faults, budget>>
    BY <1>1 DEF Begin, NoFault
  <2> QED BY <2>1
<1>2. CASE Write
  BY <1>2 DEF Write, files, NoFault, At
<1>3. CASE Sync
  BY <1>3 DEF Sync, files, NoFault, At
<1>4. CASE Stat
  BY <1>4 DEF Stat, files, NoFault, At
<1>5. CASE Copy
  BY <1>5 DEF Copy, files, NoFault, At
<1>6. CASE Keep
  BY <1>6 DEF Keep, files, NoFault, At
<1>7. CASE Rename
  BY <1>7 DEF Rename, files, NoFault, At
<1>8. CASE SyncDirectory
  BY <1>8 DEF SyncDirectory, files, NoFault, At, Succeeds
<1>9. CASE CopyFails
  BY <1>9 DEF CopyFails, files, NoFault, At, Fault
<1>10. CASE SaveFails
  BY <1>10 DEF SaveFails, files, NoFault, At, Fault
<1>11. CASE SyncDirectoryFails
  BY <1>11 DEF SyncDirectoryFails, files, NoFault, At, Succeeds, Fault
<1>12. CASE Load
  BY <1>12 DEF Load, files, NoFault, At, LoadOf, Fails
<1>13. CASE Exit
  BY <1>13 DEF Exit, files, NoFault, At, Down
<1>14. CASE ServerCrash
  BY <1>14 DEF ServerCrash, files, NoFault, At, Down, Fault
<1>15. CASE PowerFails
  BY <1>15 DEF PowerFails, files, NoFault, At, Down, Fault, AfterPower, Kept
<1>16. CASE Damage
  BY <1>16 DEF Damage, files, NoFault, At, Fault
<1>17. CASE UNCHANGED SFvars
  BY <1>17 DEF SFvars, files, history
<1> QED BY <1>1, <1>2, <1>3, <1>4, <1>5, <1>6, <1>7, <1>8, <1>9, <1>10, <1>11, <1>12, <1>13, <1>14, <1>15, <1>16, <1>17
       DEF SFNext, Save, SaveErrs, Surroundings

LEMMA SavingStep == ASSUME SFTypeOK, Saving, [SFNext]_SFvars PROVE Saving'
<1> USE DurableFileAssumption DEF SFTypeOK, Saving, Contents, Absent, TornFile, Unrenamed
<1>1. CASE Begin
  BY <1>1 DEF Begin, files, NoFault, At
<1>2. CASE Write
  BY <1>2 DEF Write, files, NoFault, At
<1>3. CASE Sync
  BY <1>3 DEF Sync, files, NoFault, At
<1>4. CASE Stat
  BY <1>4 DEF Stat, files, NoFault, At
<1>5. CASE Copy
  BY <1>5 DEF Copy, files, NoFault, At
<1>6. CASE Keep
  BY <1>6 DEF Keep, files, NoFault, At
<1>7. CASE Rename
  BY <1>7 DEF Rename, files, NoFault, At
<1>8. CASE SyncDirectory
  BY <1>8 DEF SyncDirectory, files, NoFault, At, Succeeds
<1>9. CASE CopyFails
  BY <1>9 DEF CopyFails, files, NoFault, At, Fault
<1>10. CASE SaveFails
  BY <1>10 DEF SaveFails, files, NoFault, At, Fault
<1>11. CASE SyncDirectoryFails
  BY <1>11 DEF SyncDirectoryFails, files, NoFault, At, Succeeds, Fault
<1>12. CASE Load
  BY <1>12 DEF Load, files, NoFault, At, LoadOf, Fails
<1>13. CASE Exit
  BY <1>13 DEF Exit, files, NoFault, At, Down
<1>14. CASE ServerCrash
  BY <1>14 DEF ServerCrash, files, NoFault, At, Down, Fault
<1>15. CASE PowerFails
  BY <1>15 DEF PowerFails, files, NoFault, At, Down, Fault, AfterPower, Kept
<1>16. CASE Damage
  BY <1>16 DEF Damage, files, NoFault, At, Fault
<1>17. CASE UNCHANGED SFvars
  BY <1>17 DEF SFvars, files, history
<1> QED BY <1>1, <1>2, <1>3, <1>4, <1>5, <1>6, <1>7, <1>8, <1>9, <1>10, <1>11, <1>12, <1>13, <1>14, <1>15, <1>16, <1>17
       DEF SFNext, Save, SaveErrs, Surroundings

LEMMA LoadableStep == ASSUME SFTypeOK, Saving, Loadable, [SFNext]_SFvars PROVE Loadable'
<1> USE DurableFileAssumption DEF SFTypeOK, Saving, Loadable, Absent, TornFile, Unrenamed
<1>1. CASE Begin
  BY <1>1 DEF Begin, files, NoFault, At
<1>2. CASE Write
  BY <1>2 DEF Write, files, NoFault, At
<1>3. CASE Sync
  BY <1>3 DEF Sync, files, NoFault, At
<1>4. CASE Stat
  BY <1>4 DEF Stat, files, NoFault, At
<1>5. CASE Copy
  BY <1>5 DEF Copy, files, NoFault, At
<1>6. CASE Keep
  BY <1>6 DEF Keep, files, NoFault, At
<1>7. CASE Rename
  BY <1>7 DEF Rename, files, NoFault, At
<1>8. CASE SyncDirectory
  BY <1>8 DEF SyncDirectory, files, NoFault, At, Succeeds
<1>9. CASE CopyFails
  BY <1>9 DEF CopyFails, files, NoFault, At, Fault
<1>10. CASE SaveFails
  BY <1>10 DEF SaveFails, files, NoFault, At, Fault
<1>11. CASE SyncDirectoryFails
  BY <1>11 DEF SyncDirectoryFails, files, NoFault, At, Succeeds, Fault
<1>12. CASE Load
  BY <1>12 DEF Load, files, NoFault, At, LoadOf, Fails
<1>13. CASE Exit
  BY <1>13 DEF Exit, files, NoFault, At, Down
<1>14. CASE ServerCrash
  BY <1>14 DEF ServerCrash, files, NoFault, At, Down, Fault
<1>15. CASE PowerFails
  BY <1>15 DEF PowerFails, files, NoFault, At, Down, Fault, AfterPower, Kept
<1>16. CASE Damage
  BY <1>16 DEF Damage, files, NoFault, At, Fault
<1>17. CASE UNCHANGED SFvars
  BY <1>17 DEF SFvars, files, history
<1> QED BY <1>1, <1>2, <1>3, <1>4, <1>5, <1>6, <1>7, <1>8, <1>9, <1>10, <1>11, <1>12, <1>13, <1>14, <1>15, <1>16, <1>17
       DEF SFNext, Save, SaveErrs, Surroundings

LEMMA CopiedStep == ASSUME SFTypeOK, Saving, Copied, [SFNext]_SFvars PROVE Copied'
<1> USE DurableFileAssumption DEF SFTypeOK, Saving, Copied, Intact, Contents, Absent, TornFile, Unrenamed
<1>1. CASE Begin
  BY <1>1 DEF Begin, files, NoFault, At
<1>2. CASE Write
  BY <1>2 DEF Write, files, NoFault, At
<1>3. CASE Sync
  BY <1>3 DEF Sync, files, NoFault, At
<1>4. CASE Stat
  BY <1>4 DEF Stat, files, NoFault, At
<1>5. CASE Copy
  BY <1>5 DEF Copy, files, NoFault, At
<1>6. CASE Keep
  BY <1>6 DEF Keep, files, NoFault, At
<1>7. CASE Rename
  BY <1>7 DEF Rename, files, NoFault, At
<1>8. CASE SyncDirectory
  BY <1>8 DEF SyncDirectory, files, NoFault, At, Succeeds
<1>9. CASE CopyFails
  BY <1>9 DEF CopyFails, files, NoFault, At, Fault
<1>10. CASE SaveFails
  BY <1>10 DEF SaveFails, files, NoFault, At, Fault
<1>11. CASE SyncDirectoryFails
  BY <1>11 DEF SyncDirectoryFails, files, NoFault, At, Succeeds, Fault
<1>12. CASE Load
  BY <1>12 DEF Load, files, NoFault, At, LoadOf, Fails
<1>13. CASE Exit
  BY <1>13 DEF Exit, files, NoFault, At, Down
<1>14. CASE ServerCrash
  BY <1>14 DEF ServerCrash, files, NoFault, At, Down, Fault
<1>15. CASE PowerFails
  BY <1>15 DEF PowerFails, files, NoFault, At, Down, Fault, AfterPower, Kept
<1>16. CASE Damage
  BY <1>16 DEF Damage, files, NoFault, At, Fault
<1>17. CASE UNCHANGED SFvars
  BY <1>17 DEF SFvars, files, history
<1> QED BY <1>1, <1>2, <1>3, <1>4, <1>5, <1>6, <1>7, <1>8, <1>9, <1>10, <1>11, <1>12, <1>13, <1>14, <1>15, <1>16, <1>17
       DEF SFNext, Save, SaveErrs, Surroundings

LEMMA GuardedStep == ASSUME SFTypeOK, Counters, Saving, Copied, Guarded, [SFNext]_SFvars PROVE Guarded'
<1> USE DurableFileAssumption DEF SFTypeOK, Counters, Saving, Copied, Guarded, Intact, Contents, Absent, TornFile, Unrenamed
<1>1. CASE Begin
  BY <1>1 DEF Begin, files, NoFault, At
<1>2. CASE Write
  BY <1>2 DEF Write, files, NoFault, At
<1>3. CASE Sync
  BY <1>3 DEF Sync, files, NoFault, At
<1>4. CASE Stat
  BY <1>4 DEF Stat, files, NoFault, At
<1>5. CASE Copy
  BY <1>5 DEF Copy, files, NoFault, At
<1>6. CASE Keep
  <2>1. /\ step = "keep" /\ step' = "rename" /\ UNCHANGED <<main, bak, undone, server, faults>>
        /\ dirty' = dirty \ {"bak"}
    BY <1>6 DEF Keep, NoFault, At
  <2>2. main \in Intact => copied'
    <3>1. copied' = (main # TornFile)
      BY <1>6 DEF Keep
    <3>2. main \in Intact => main # TornFile
      OBVIOUS
    <3> QED BY <3>1, <3>2, Zenon
  <2> QED BY <2>1, <2>2
<1>7. CASE Rename
  BY <1>7 DEF Rename, files, NoFault, At
<1>8. CASE SyncDirectory
  <2>1. /\ step = "directory" /\ step' = "idle" /\ undone' = {} /\ server = "up"
        /\ faults' = IF copied THEN 0 ELSE faults
        /\ UNCHANGED <<main, bak, dirty, server>>
    BY <1>8 DEF SyncDirectory, At, Succeeds
  <2>2. main = saves /\ saves > 0 /\ "main" \notin dirty
    BY <2>1
  <2>3. copied => bak \in Intact /\ "bak" \notin dirty
    BY <2>1
  <2>4. CASE copied
    BY <2>1, <2>2, <2>3, <2>4
  <2>5. CASE ~copied
    BY <2>1, <2>2, <2>5
  <2> QED BY <2>4, <2>5
<1>9. CASE CopyFails
  BY <1>9 DEF CopyFails, files, NoFault, At, Fault
<1>10. CASE SaveFails
  BY <1>10 DEF SaveFails, files, NoFault, At, Fault
<1>11. CASE SyncDirectoryFails
  BY <1>11 DEF SyncDirectoryFails, files, NoFault, At, Succeeds, Fault
<1>12. CASE Load
  BY <1>12 DEF Load, files, NoFault, At, LoadOf, Fails
<1>13. CASE Exit
  BY <1>13 DEF Exit, files, NoFault, At, Down
<1>14. CASE ServerCrash
  BY <1>14 DEF ServerCrash, files, NoFault, At, Down, Fault
<1>15. CASE PowerFails
  BY <1>15 DEF PowerFails, files, NoFault, At, Down, Fault, AfterPower, Kept
<1>16. CASE Damage
  BY <1>16 DEF Damage, files, NoFault, At, Fault
<1>17. CASE UNCHANGED SFvars
  BY <1>17 DEF SFvars, files, history
<1> QED BY <1>1, <1>2, <1>3, <1>4, <1>5, <1>6, <1>7, <1>8, <1>9, <1>10, <1>11, <1>12, <1>13, <1>14, <1>15, <1>16, <1>17
       DEF SFNext, Save, SaveErrs, Surroundings


LEMMA SFStep == SFInv /\ [SFNext]_SFvars => SFInv'
BY SFTypeStep, SavingStep, LoadableStep, CopiedStep, GuardedStep DEF SFInv

LEMMA SFInvariant == SFSpec => []SFInv
<1> QED BY SFInitOK, SFStep, PTL DEF SFSpec

-----------------------------------------------------------------------------
(* What the invariant means.                                               *)

(* The files hold what some save wrote, half of it or nothing, through all *)
(* saves, failures, crashes and restarts.                                  *)
THEOREM SFTypeCorrect == SFSpec => []SFTypeOK
<1>1. SFInv => SFTypeOK
  BY DEF SFInv
<1> QED BY <1>1, SFInvariant, PTL

(* Whenever the machine stops, the next start finds what the last          *)
(* successful save wrote or what an interrupted one was writing, unless    *)
(* something else damaged the file or the directory could not be synced.   *)
THEOREM AtomicReplacement == SFSpec => []OldOrNew
<1>1. SFInv => OldOrNew
  <2> SUFFICES ASSUME SFInv, ~excused, NEW m \in {main} \union AfterPower, NEW b \in {bak, TornFile}
               PROVE  LoadOf(m, b) \in may
    BY DEF OldOrNew
  <2>1. {main} \union undone \subseteq may /\ ("main" \in dirty => main = Absent)
    BY DEF SFInv, Loadable
  <2>2. m \in may
    BY <2>1 DEF AfterPower, Kept
  <2>3. m # TornFile
    BY <2>2 DEF SFInv, Saving, SFTypeOK, TornFile
  <2> QED BY <2>2, <2>3 DEF LoadOf
<1> QED BY <1>1, SFInvariant, PTL

(* A single failure never makes the server refuse its own state, at        *)
(* whatever step of a save it strikes.                                     *)
THEOREM SurvivesOneFault == SFSpec => []OneFaultTolerated
<1>1. SFInv => OneFaultTolerated
  BY DEF SFInv, Guarded, OneFaultTolerated
<1> QED BY <1>1, SFInvariant, PTL
=============================================================================
