-------------------------- MODULE ProfileStoreProofs --------------------------
(***************************************************************************)
(* Theorems about ProfileStore, for every set of ids, names, applications, *)
(* mappings and workers, and every number of operations.  The inductive    *)
(* invariant has three parts: StoreTyped, Synchronous and Saved.           *)
(*                                                                         *)
(* The conversions are recursive functions over the profiles of a file or  *)
(* of the runtime; SieveFolds, SyncFolds and LoadFolds say once that they  *)
(* meet their equations, and everything else is induction on a place.      *)
(***************************************************************************)
EXTENDS ProfileStore, WellFoundedInduction, TLAPS

(* A set of numbers that is not empty has a smallest. *)
LEMMA Least == ASSUME NEW S, S \subseteq Nat, S # {} PROVE \E x \in S : \A y \in S : x <= y
<1> DEFINE R == OpToRel(<, Nat)
<1>1. IsWellFoundedOn(R, Nat)  BY NatLessThanWellFounded
<1>2. PICK x \in S : \A y \in S : ~ (<<y, x>> \in R)  BY <1>1, WFMin
<1>3. \A y \in S : y < x => <<y, x>> \in R  BY DEF OpToRel
<1>4. \A y \in S : ~ (y < x)  BY <1>2, <1>3
<1> QED BY <1>4

(* A set that has 0, and with a number the next up to n, has all of them. *)
LEMMA Upwards ==
  ASSUME NEW n \in Nat, NEW S, 0 \in S, \A k \in 1..n : k - 1 \in S => k \in S
  PROVE  \A k \in 0..n : k \in S
<1> SUFFICES ASSUME (0..n) \ S # {} PROVE FALSE  OBVIOUS
<1> DEFINE T == (0..n) \ S
<1>0. T \subseteq Nat /\ T # {}  OBVIOUS
<1>1. PICK k \in T : \A j \in T : k <= j
  <2> HIDE DEF T
  <2> QED BY <1>0, Least
<1>2. k # 0 /\ k \in 1..n /\ k - 1 \in 0..n /\ ~ (k <= k - 1)  BY <1>1
<1>3. k - 1 \in S  BY <1>1, <1>2
<1> QED BY <1>1, <1>2, <1>3

(***************************************************************************)
(* A fold: n steps from a value, each of them within V.                    *)
(***************************************************************************)
Folded(n, V, v, step) ==
  \E f \in [0..n -> V] : f[0] = v /\ \A i \in 1..n : f[i] = step[<<i, f[i - 1]>>]

(* A function defined from 0 upwards, one step at a time, is what each     *)
(* step makes of the one before.                                           *)
LEMMA Iterates ==
  ASSUME NEW n \in Nat, NEW V, NEW v \in V, NEW step,
         \A i \in 1..n : \A x \in V : step[<<i, x>>] \in V
  PROVE  Folded(n, V, v, step)
<1> DEFINE Folds(k) == \E f \in [0..k -> V] :
             f[0] = v /\ \A i \in 1..k : f[i] = step[<<i, f[i - 1]>>]
           S == {k \in 0..n : Folds(k)}
<1>1. 0 \in S
  <2> DEFINE f == [i \in 0..0 |-> v]
  <2>1. f \in [0..0 -> V] /\ f[0] = v  OBVIOUS
  <2>2. \A i \in 1..0 : f[i] = step[<<i, f[i - 1]>>]  OBVIOUS
  <2> HIDE DEF f
  <2>3. Folds(0)  BY <2>1, <2>2
  <2> QED BY <2>3
<1>2. ASSUME NEW k \in 1..n, k - 1 \in S PROVE k \in S
  <2>1. PICK f \in [0..(k - 1) -> V] :
          f[0] = v /\ \A i \in 1..(k - 1) : f[i] = step[<<i, f[i - 1]>>]
    BY <1>2
  <2> DEFINE g == [i \in 0..k |-> IF i = k THEN step[<<k, f[k - 1]>>] ELSE f[i]]
  <2>2. f[k - 1] \in V  OBVIOUS
  <2>3. step[<<k, f[k - 1]>>] \in V  BY <2>2
  <2>4. \A i \in 0..k : i # k => i \in 0..(k - 1)  OBVIOUS
  <2>5. g \in [0..k -> V]  BY <2>3, <2>4
  <2>6. g[0] = v  BY <2>1
  <2>7. ASSUME NEW i \in 1..k PROVE g[i] = step[<<i, g[i - 1]>>]
    <3>1. i - 1 \in 0..k /\ i - 1 # k /\ g[i - 1] = f[i - 1]  OBVIOUS
    <3>2. CASE i = k  BY <3>1, <3>2
    <3>3. CASE i # k
      <4>1. i \in 1..(k - 1) /\ g[i] = f[i]  BY <3>3
      <4> QED BY <2>1, <3>1, <4>1
    <3> QED BY <3>2, <3>3
  <2>8. Folds(k)  BY <2>5, <2>6, <2>7
  <2> QED BY <2>8
<1>3. n \in S  
  <2> HIDE DEF S
  <2> QED BY <1>1, <1>2, Upwards
<1> QED BY <1>3 DEF Folded

(* The equation of Sieve. *)
Kept(s, S, kept) ==
  /\ kept[0] = <<>>
  /\ \A i \in 1..Len(s) :
       kept[i] = IF s[i] \in S THEN Append(kept[i - 1], s[i]) ELSE kept[i - 1]

(* Sieve meets its equation. *)
LEMMA SieveFolds ==
  ASSUME NEW X, NEW s \in Seq(X), NEW S
  PROVE  \E kept \in [0..Len(s) -> Seq(X)] : Kept(s, S, kept) /\ Sieve(s, S) = kept[Len(s)]
<1> DEFINE V == Seq(X)
           step == [p \in (1..Len(s)) \X V |-> IF s[p[1]] \in S THEN Append(p[2], s[p[1]]) ELSE p[2]]
           Next1(f, i) == IF i = 0 THEN <<>>
                         ELSE IF s[i] \in S THEN Append(f[i - 1], s[i]) ELSE f[i - 1]
           F == CHOOSE f : f = [i \in 0..Len(s) |-> Next1(f, i)]
<1>1. Len(s) \in Nat /\ <<>> \in V  OBVIOUS
<1>2. ASSUME NEW i \in 1..Len(s), NEW x \in V
      PROVE  step[<<i, x>>] = (IF s[i] \in S THEN Append(x, s[i]) ELSE x) /\ step[<<i, x>>] \in V
  <2>1. s[i] \in X  OBVIOUS
  <2>2. <<i, x>> \in (1..Len(s)) \X V /\ <<i, x>>[1] = i /\ <<i, x>>[2] = x  OBVIOUS
  <2>3. step[<<i, x>>] = (IF s[i] \in S THEN Append(x, s[i]) ELSE x)  BY <2>2
  <2> QED BY <2>1, <2>3
<1>3. PICK f \in [0..Len(s) -> V] : f[0] = <<>> /\ \A i \in 1..Len(s) : f[i] = step[<<i, f[i - 1]>>]
  <2> DEFINE n == Len(s)
             v == <<>>
  <2> HIDE DEF V, step, n, v
  <2>1. n \in Nat /\ v \in V  BY <1>1 DEF n, v
  <2>2. \A i \in 1..n : \A x \in V : step[<<i, x>>] \in V  BY <1>2 DEF n
  <2>3. Folded(n, V, v, step)  BY <2>1, <2>2, Iterates
  <2> QED BY <2>3 DEF n, v, Folded
<1>4. \A i \in 1..Len(s) : f[i] = IF s[i] \in S THEN Append(f[i - 1], s[i]) ELSE f[i - 1]
  <2> HIDE DEF step
  <2>1. \A i \in 1..Len(s) : f[i - 1] \in V  BY <1>1
  <2> QED BY <1>2, <1>3, <2>1
<1>5. f = [i \in 0..Len(s) |-> Next1(f, i)]
  <2> HIDE DEF step, V
  <2>1. \A i \in 0..Len(s) : i = 0 \/ i \in 1..Len(s)  BY <1>1
  <2> QED BY <1>3, <1>4, <2>1
<1>6. F = [i \in 0..Len(s) |-> Next1(F, i)]
  <2> HIDE DEF Next1
  <2> QED BY <1>5
<1>7. Sieve(s, S) = F[Len(s)]  BY DEF Sieve
<1> HIDE DEF F
<1>8. F[0] = <<>>  BY <1>1, <1>6
<1>9. \A i \in 1..Len(s) : F[i] = IF s[i] \in S THEN Append(F[i - 1], s[i]) ELSE F[i - 1]
  <2>1. \A i \in 1..Len(s) : i \in 0..Len(s) /\ i # 0  BY <1>1
  <2> QED BY <1>6, <2>1
<1>10. \A k \in 0..Len(s) : k \in {j \in 0..Len(s) : F[j] \in V}
  <2> DEFINE n == Len(s)
             T == {j \in 0..n : F[j] \in V}
  <2>1. 0 \in T
    <3>1. F[0] \in V  BY <1>1, <1>8
    <3>2. 0 \in 0..n  BY <1>1
    <3> HIDE DEF V, n
    <3> QED BY <3>1, <3>2
  <2>2. ASSUME NEW k \in 1..n, k - 1 \in T PROVE k \in T
    <3>1. s[k] \in X /\ F[k - 1] \in V  BY <2>2
    <3>2. Append(F[k - 1], s[k]) \in V  BY <3>1
    <3>3. F[k] = IF s[k] \in S THEN Append(F[k - 1], s[k]) ELSE F[k - 1]  BY <1>9
    <3>4. F[k] \in V
      <4> HIDE DEF V
      <4> QED BY <3>1, <3>2, <3>3
    <3>5. k \in 0..n  BY <1>1
    <3> QED BY <3>4, <3>5
  <2>3. n \in Nat  BY <1>1
  <2> HIDE DEF T, n
  <2>4. \A k \in 0..n : k \in T  BY <2>1, <2>2, <2>3, Upwards
  <2> QED BY <2>4 DEF T, n
<1>11. F \in [0..Len(s) -> V]
  <2> HIDE DEF V, Next1
  <2> QED BY <1>6, <1>10
<1> QED BY <1>7, <1>8, <1>9, <1>11 DEF Kept

(* The list r has those of the first k elements of s that are in S, at     *)
(* places of their own.                                                    *)
Picked(s, S, r, k) ==
  \E at \in [DOMAIN r -> 1..k] :
    /\ \A i, j \in DOMAIN r : at[i] = at[j] => i = j
    /\ \A i \in DOMAIN r : r[i] = s[at[i]] /\ s[at[i]] \in S
    /\ \A j \in 1..k : s[j] \in S => \E i \in DOMAIN r : at[i] = j

(* An element of the set is picked after those picked before. *)
LEMMA OneMore ==
  ASSUME NEW X, NEW s \in Seq(X), NEW S, NEW k \in 1..Len(s), NEW r \in Seq(X),
         Picked(s, S, r, k - 1), s[k] \in S
  PROVE  Picked(s, S, Append(r, s[k]), k)
<1> DEFINE t == Append(r, s[k])  n == Len(r)
<1>1. PICK at \in [DOMAIN r -> 1..(k - 1)] :
         /\ \A i, j \in DOMAIN r : at[i] = at[j] => i = j
         /\ \A i \in DOMAIN r : r[i] = s[at[i]] /\ s[at[i]] \in S
         /\ \A j \in 1..(k - 1) : s[j] \in S => \E i \in DOMAIN r : at[i] = j
  BY DEF Picked
<1>2. /\ s[k] \in X /\ n \in Nat /\ DOMAIN r = 1..n
      /\ DOMAIN t = 1..(n + 1) /\ t[n + 1] = s[k]
      /\ \A i \in 1..n : t[i] = r[i] /\ i # n + 1
  OBVIOUS
<1>3. k \in Nat /\ \A i \in 1..n : at[i] \in 1..k /\ at[i] # k  BY <1>1, <1>2
<1> DEFINE to == [i \in 1..(n + 1) |-> IF i = n + 1 THEN k ELSE at[i]]
<1> HIDE DEF t, n
<1>4. \A i \in 1..(n + 1) : i # n + 1 => i \in 1..n  BY <1>2
<1>5. to \in [1..(n + 1) -> 1..k]  BY <1>3, <1>4
<1>6. n + 1 \in 1..(n + 1) /\ \A i \in 1..n : i \in 1..(n + 1)  BY <1>2
<1>7. to[n + 1] = k /\ \A i \in 1..n : to[i] = at[i]  BY <1>2, <1>6
<1> HIDE DEF to
<1>8. ASSUME NEW i \in 1..(n + 1), NEW j \in 1..(n + 1), to[i] = to[j] PROVE i = j
  <2>1. CASE i = n + 1 \/ j = n + 1  BY <1>3, <1>4, <1>7, <1>8, <2>1
  <2>2. CASE i # n + 1 /\ j # n + 1
    <3>1. i \in 1..n /\ j \in 1..n  BY <1>4, <2>2
    <3>2. to[i] = at[i] /\ to[j] = at[j]  BY <1>7, <3>1
    <3>3. at[i] = at[j]  BY <1>8, <3>2
    <3> QED BY <1>1, <1>2, <3>1, <3>3
  <2> QED BY <2>1, <2>2
<1>9. ASSUME NEW i \in 1..(n + 1) PROVE t[i] = s[to[i]] /\ s[to[i]] \in S
  BY <1>1, <1>2, <1>4, <1>7
<1>10. ASSUME NEW j \in 1..k, s[j] \in S PROVE \E i \in 1..(n + 1) : to[i] = j
  <2>1. j = k \/ j \in 1..(k - 1)  BY <1>3
  <2>2. CASE j = k  BY <1>6, <1>7, <2>2
  <2>3. CASE j \in 1..(k - 1)
    <3>1. PICK i \in 1..n : at[i] = j  BY <1>1, <1>2, <1>10, <2>3
    <3> QED BY <1>6, <1>7, <3>1
  <2> QED BY <2>1, <2>2, <2>3
<1>11. Picked(s, S, t, k)
  <2>1. DOMAIN t = 1..(n + 1)  BY <1>2
  <2>2. to \in [DOMAIN t -> 1..k]  BY <1>5, <2>1
  <2>3. \A i, j \in DOMAIN t : to[i] = to[j] => i = j  BY <1>8, <2>1
  <2>4. \A i \in DOMAIN t : t[i] = s[to[i]] /\ s[to[i]] \in S  BY <1>9, <2>1
  <2>5. \A j \in 1..k : s[j] \in S => \E i \in DOMAIN t : to[i] = j  BY <1>10, <2>1
  <2> HIDE DEF t
  <2> QED BY <2>2, <2>3, <2>4, <2>5 DEF Picked
<1> QED BY <1>11 DEF t

(* Another element is passed over. *)
LEMMA NoMore ==
  ASSUME NEW s, NEW S, NEW k \in Nat \ {0}, NEW r, Picked(s, S, r, k - 1), s[k] \notin S
  PROVE  Picked(s, S, r, k)
<1>1. PICK at \in [DOMAIN r -> 1..(k - 1)] :
         /\ \A i, j \in DOMAIN r : at[i] = at[j] => i = j
         /\ \A i \in DOMAIN r : r[i] = s[at[i]] /\ s[at[i]] \in S
         /\ \A j \in 1..(k - 1) : s[j] \in S => \E i \in DOMAIN r : at[i] = j
  BY DEF Picked
<1>2. at \in [DOMAIN r -> 1..k]  OBVIOUS
<1>3. \A j \in 1..k : j = k \/ j \in 1..(k - 1)  OBVIOUS
<1> QED BY <1>1, <1>2, <1>3 DEF Picked

(* Sieve picks the elements that are in S, each once.                      *)
LEMMA SievePicks ==
  ASSUME NEW X, NEW s \in Seq(X), NEW S
  PROVE  Sieve(s, S) \in Seq(X) /\ Picked(s, S, Sieve(s, S), Len(s))
<1> DEFINE n == Len(s)
<1>1. n \in Nat /\ \A k \in 1..n : k \in 0..n /\ k - 1 \in 0..n /\ k \in Nat \ {0}  OBVIOUS
<1>2. PICK kept \in [0..n -> Seq(X)] : Kept(s, S, kept) /\ Sieve(s, S) = kept[n]
  BY SieveFolds
<1> DEFINE T == {k \in 0..n : Picked(s, S, kept[k], k)}
<1>3. 0 \in T
  <2>1. kept[0] = <<>>  BY <1>2 DEF Kept
  <2>2. DOMAIN kept[0] = {} /\ 1..0 = {}  BY <2>1
  <2>3. [i \in {} |-> 0] \in [DOMAIN kept[0] -> 1..0]  BY <2>2
  <2>4. Picked(s, S, kept[0], 0)  BY <2>2, <2>3 DEF Picked
  <2> QED BY <1>1, <2>4
<1>4. ASSUME NEW k \in 1..n, k - 1 \in T PROVE k \in T
  <2>1. kept[k] = IF s[k] \in S THEN Append(kept[k - 1], s[k]) ELSE kept[k - 1]
    BY <1>2 DEF Kept
  <2>2. kept[k - 1] \in Seq(X) /\ Picked(s, S, kept[k - 1], k - 1)  BY <1>1, <1>2, <1>4
  <2>3. Picked(s, S, kept[k], k)
    <3>1. CASE s[k] \in S  BY <2>1, <2>2, <3>1, OneMore
    <3>2. CASE s[k] \notin S  BY <1>1, <2>1, <2>2, <3>2, NoMore
    <3> QED BY <3>1, <3>2
  <2> QED BY <1>1, <2>3
<1>5. n \in T
  <2> HIDE DEF T, n
  <2>1. \A k \in 0..n : k \in T  BY <1>1, <1>3, <1>4, Upwards
  <2> QED BY <1>1, <2>1
<1>6. kept[n] \in Seq(X)  BY <1>1
<1> QED BY <1>2, <1>5, <1>6

(* Min and Max of positions are among them, at their ends. *)
LEMMA EndsOf ==
  ASSUME NEW n \in Nat, NEW I, I \subseteq 1..n, I # {}
  PROVE  /\ Min(I) \in I /\ \A j \in I : Min(I) <= j
         /\ Max(I) \in I /\ \A j \in I : j <= Max(I)
<1>1. I \subseteq Nat  OBVIOUS
<1>2. PICK i \in I : \A j \in I : i <= j  BY <1>1, Least
<1>3. Min(I) \in I /\ \A j \in I : Min(I) <= j  BY <1>2 DEF Min
<1> DEFINE J == {n - j : j \in I}
<1>4. J \subseteq Nat /\ J # {}  OBVIOUS
<1>5. PICK x \in J : \A y \in J : x <= y
  <2> HIDE DEF J
  <2> QED BY <1>4, Least
<1>6. PICK k \in I : x = n - k  OBVIOUS
<1>7. \A j \in I : n - k <= n - j  BY <1>5, <1>6
<1>8. \A j \in I : j <= k  BY <1>1, <1>7
<1>9. Max(I) \in I /\ \A j \in I : j <= Max(I)  BY <1>8 DEF Max
<1> QED BY <1>3, <1>9

(***************************************************************************)
(* The first application with an id is found, if there is one.             *)
(***************************************************************************)
LEMMA AppFound ==
  ASSUME NEW d, NEW X, d.apps \in Seq(X), NEW a
  PROVE  /\ AppIndex(d, a) # 0 <=> a \in AppIds(d)
         /\ AppIndex(d, a) # 0 => /\ AppIndex(d, a) \in DOMAIN d.apps
                                  /\ d.apps[AppIndex(d, a)].id = a
                                  /\ \A j \in DOMAIN d.apps : d.apps[j].id = a => AppIndex(d, a) <= j
<1> DEFINE n == Len(d.apps)
           I == {i \in 1..n : d.apps[i].id = a}
<1>1. n \in Nat /\ DOMAIN d.apps = 1..n  OBVIOUS
<1>2. AppIndex(d, a) = IF I # {} THEN Min(I) ELSE 0  BY DEF AppIndex, SelectInSeq
<1>3. I # {} <=> a \in AppIds(d)  BY <1>1 DEF AppIds
<1>4. I \subseteq 1..n  OBVIOUS
<1> HIDE DEF n
<1>5. I # {} => Min(I) \in I /\ \A j \in I : Min(I) <= j
  <2> HIDE DEF I
  <2> QED BY <1>1, <1>4, EndsOf
<1> QED BY <1>1, <1>2, <1>3, <1>5

(* It is the only one with that property. *)
LEMMA AppIs ==
  ASSUME NEW d, NEW X, d.apps \in Seq(X), NEW i \in DOMAIN d.apps,
         \A j \in DOMAIN d.apps : d.apps[j].id = d.apps[i].id => i <= j
  PROVE  AppIndex(d, d.apps[i].id) = i
<1> DEFINE a == d.apps[i].id  k == AppIndex(d, a)
<1>1. a \in AppIds(d)  BY DEF AppIds
<1>2. k # 0 /\ k \in DOMAIN d.apps /\ d.apps[k].id = a /\ k <= i  BY <1>1, AppFound
<1>3. i <= k  BY <1>2
<1>4. DOMAIN d.apps \subseteq Nat  OBVIOUS
<1> QED BY <1>2, <1>3, <1>4

(***************************************************************************)
(* A runtime name leads to the last profile that bears it, and to the      *)
(* first, or to one with the name.                                         *)
(***************************************************************************)
LEMMA NamedFound ==
  ASSUME NEW d, NEW X, d.profiles \in Seq(X), NEW n \in RuntimeNames(d)
  PROVE  /\ LastNamed(d, n) \in DOMAIN d.profiles
         /\ RuntimeName(d.profiles[LastNamed(d, n)]) = n
         /\ \A j \in DOMAIN d.profiles :
              RuntimeName(d.profiles[j]) = n => j <= LastNamed(d, n)
         /\ FirstNamed(d, n) \in DOMAIN d.profiles
         /\ LET p == d.profiles[FirstNamed(d, n)] IN p.name = n \/ RuntimeName(p) = n
<1> DEFINE l == Len(d.profiles)
           I == {i \in 1..l : RuntimeName(d.profiles[i]) = n}
           J == {i \in 1..l : d.profiles[i].name = n \/ RuntimeName(d.profiles[i]) = n}
<1>1. l \in Nat /\ DOMAIN d.profiles = 1..l  OBVIOUS
<1>2. I \subseteq 1..l /\ J \subseteq 1..l /\ I \subseteq J  OBVIOUS
<1>3. I # {} /\ J # {}  BY <1>1 DEF RuntimeNames
<1>4. LastNamed(d, n) = Max(I)  BY <1>3 DEF LastNamed, SelectLastInSeq
<1>5. FirstNamed(d, n) = Min(J)  BY <1>3 DEF FirstNamed, SelectInSeq
<1> HIDE DEF l
<1>6. Max(I) \in I /\ (\A j \in I : j <= Max(I)) /\ Min(J) \in J
  <2> HIDE DEF I, J
  <2> QED BY <1>1, <1>2, <1>3, EndsOf
<1> QED BY <1>1, <1>4, <1>5, <1>6

(* The same profiles, by id and name, at the same places. *)
SameNames(d, e) ==
  /\ DOMAIN e.profiles = DOMAIN d.profiles
  /\ \A i \in DOMAIN d.profiles : /\ e.profiles[i].id = d.profiles[i].id
                                  /\ e.profiles[i].name = d.profiles[i].name

(* Both depend on ids and names only. *)
LEMMA NamedAlike ==
  ASSUME NEW d, NEW e, NEW X, d.profiles \in Seq(X), e.profiles \in Seq(X), SameNames(d, e), NEW n
  PROVE  /\ FirstNamed(e, n) = FirstNamed(d, n) /\ LastNamed(e, n) = LastNamed(d, n)
         /\ RuntimeNames(e) = RuntimeNames(d) /\ Ids(e) = Ids(d)
<1> DEFINE l == Len(d.profiles)
           I(f) == {i \in 1..l : RuntimeName(f.profiles[i]) = n}
           J(f) == {i \in 1..l : f.profiles[i].name = n \/ RuntimeName(f.profiles[i]) = n}
<1>1. DOMAIN d.profiles = 1..l /\ DOMAIN e.profiles = 1..l /\ Len(e.profiles) = l /\ l \in Nat
  BY DEF SameNames
<1>2. \A i \in 1..l : RuntimeName(e.profiles[i]) = RuntimeName(d.profiles[i])
  BY <1>1 DEF SameNames, RuntimeName
<1>3. I(d) = I(e) /\ J(d) = J(e)  BY <1>1, <1>2 DEF SameNames
<1>4. FirstNamed(e, n) = FirstNamed(d, n)
  BY <1>1, <1>3 DEF FirstNamed, SelectInSeq
<1>5. LastNamed(e, n) = LastNamed(d, n)
  BY <1>1, <1>3 DEF LastNamed, SelectLastInSeq
<1>6. RuntimeNames(e) = RuntimeNames(d)  BY <1>1, <1>2 DEF RuntimeNames
<1>7. Ids(e) = Ids(d)  BY DEF SameNames, Ids
<1> QED BY <1>4, <1>5, <1>6, <1>7

(* The parts of soundness. *)
Sound(d) == d \in Domain /\ IsSound(d)

(* What a profile links is of these ids, and its default is linked. *)
Known(p, ids) == p.default \in ToSet(p.links) \cup {None} /\ ToSet(p.links) \subseteq ids

(* Two profiles of different ids and names. *)
Apart(p, q) == p.id # q.id /\ Lower[p.name] # Lower[q.name]

(* Soundness, in its parts. *)
LEMMA SoundMeans ==
  ASSUME NEW d
  PROVE  IsSound(d) <=> /\ Normal \in Ids(d)
                        /\ \A i \in DOMAIN d.profiles : Known(d.profiles[i], AppIds(d))
                        /\ \A i, j \in DOMAIN d.profiles :
                             i # j => Apart(d.profiles[i], d.profiles[j])
BY Zenon DEF IsSound, Known, Apart

(* The parts of a domain have their types. *)
LEMMA DomainMeans ==
  ASSUME NEW d \in Domain
  PROVE  /\ d.profiles \in Seq(Profile) /\ d.apps \in Seq(Application)
         /\ d.active \in Id \cup RName
         /\ Len(d.profiles) \in Nat /\ DOMAIN d.profiles = 1..Len(d.profiles)
         /\ Len(d.apps) \in Nat /\ DOMAIN d.apps = 1..Len(d.apps)
         /\ \A i \in DOMAIN d.profiles : d.profiles[i] \in Profile
         /\ \A i \in DOMAIN d.apps : d.apps[i] \in Application
<1>1. d.profiles \in Seq(Profile) /\ d.apps \in Seq(Application) /\ d.active \in Id \cup RName
  BY DEF Domain
<1> QED BY <1>1

(* Soundness does not ask which profile is active. *)
LEMMA WithActive ==
  ASSUME NEW d, Sound(d), NEW a \in Id \cup RName
  PROVE  Sound([d EXCEPT !.active = a])
<1> DEFINE e == [d EXCEPT !.active = a]
<1>1. e \in Domain  BY DEF Sound, Domain
<1>2. e.profiles = d.profiles /\ e.apps = d.apps  BY DEF Sound, Domain
<1>3. Ids(e) = Ids(d) /\ AppIds(e) = AppIds(d)  BY <1>2 DEF Ids, AppIds
<1> HIDE DEF e
<1>4. IsSound(e)
  <2>1. IsSound(d)  BY DEF Sound
  <2> QED BY <1>2, <1>3, <2>1, SoundMeans
<1> QED BY <1>1, <1>4 DEF Sound, e

(* The constructor leaves profiles and applications alone. *)
LEMMA ServiceSound ==
  ASSUME NEW d, Sound(d)
  PROVE  /\ Sound(Service(d))
         /\ Service(d).profiles = d.profiles /\ Service(d).apps = d.apps
         /\ Ids(Service(d)) = Ids(d) /\ AppIds(Service(d)) = AppIds(d)
<1>1. Sound(Service(d))
  <2>1. Normal \in Id \cup RName  BY NamesAssumption
  <2> QED BY <2>1, WithActive DEF Service
<1>2. Service(d).profiles = d.profiles /\ Service(d).apps = d.apps
  BY DEF Sound, Domain, Service
<1> QED BY <1>1, <1>2 DEF Ids, AppIds

(* One more application keeps a domain sound. *)
LEMMA AppAdded ==
  ASSUME NEW d, Sound(d), NEW app \in Application
  PROVE  /\ Sound([d EXCEPT !.apps = Append(@, app)])
         /\ AppIds([d EXCEPT !.apps = Append(@, app)]) = AppIds(d) \cup {app.id}
<1> DEFINE e == [d EXCEPT !.apps = Append(d.apps, app)]
<1>1. d \in Domain /\ d.apps \in Seq(Application)  BY DEF Sound, Domain
<1>2. Append(d.apps, app) \in Seq(Application)  BY <1>1
<1>3. e \in Domain /\ e.profiles = d.profiles /\ e.apps = Append(d.apps, app)
  BY <1>1, <1>2 DEF Domain
<1>4. AppIds(e) = AppIds(d) \cup {app.id}
  <2>1. /\ DOMAIN e.apps = 1..(Len(d.apps) + 1) /\ DOMAIN d.apps = 1..Len(d.apps)
        /\ Len(d.apps) \in Nat
        /\ e.apps[Len(d.apps) + 1] = app
        /\ \A i \in DOMAIN d.apps : e.apps[i] = d.apps[i] /\ i \in DOMAIN e.apps
        /\ \A i \in DOMAIN e.apps : i = Len(d.apps) + 1 \/ i \in DOMAIN d.apps
    BY <1>1, <1>3
  <2>2. Len(d.apps) + 1 \in DOMAIN e.apps  BY <2>1
  <2> HIDE DEF e
  <2> QED BY <2>1, <2>2 DEF AppIds
<1>5. Ids(e) = Ids(d)  BY <1>3 DEF Ids
<1> HIDE DEF e
<1>6. IsSound(e)
  <2>1. IsSound(d)  BY DEF Sound
  <2>2. \A i \in DOMAIN d.profiles : Known(d.profiles[i], AppIds(e))
    BY <1>4, <2>1, SoundMeans DEF Known
  <2> QED BY <1>3, <1>5, <2>1, <2>2, SoundMeans
<1> QED BY <1>3, <1>4, <1>6 DEF Sound, e

(* A new profile, of a new id and a free name. *)
LEMMA CreatedSound ==
  ASSUME NEW d, Sound(d), NEW p \in Profile, IdentityIsNew(d, p.id, p.name), Known(p, AppIds(d))
  PROVE  Sound(Created(d, p))
<1> DEFINE e == Created(d, p)
           n == Len(d.profiles)
<1>1. d \in Domain /\ IsSound(d)  BY DEF Sound
<1>2. d.profiles \in Seq(Profile) /\ n \in Nat /\ DOMAIN d.profiles = 1..n  BY <1>1, DomainMeans
<1>3. Append(d.profiles, p) \in Seq(Profile)  BY <1>2
<1>4. e \in Domain /\ e.apps = d.apps /\ e.profiles = Append(d.profiles, p)
  BY <1>1, <1>3 DEF Domain, Created
<1>5. /\ DOMAIN e.profiles = 1..(n + 1) /\ e.profiles[n + 1] = p
      /\ \A i \in 1..n : e.profiles[i] = d.profiles[i]
  BY <1>2, <1>4
<1>6. AppIds(e) = AppIds(d)  BY <1>4 DEF AppIds
<1>7. \A i \in 1..n : d.profiles[i].id # None
  <2>1. \A i \in 1..n : d.profiles[i] \in Profile  BY <1>1, <1>2, DomainMeans
  <2>2. \A i \in 1..n : d.profiles[i].id \in Id  BY <2>1 DEF Profile
  <2> QED BY <2>2, NamesAssumption
<1>8. \A i \in 1..n : d.profiles[i].id # p.id /\ Lower[d.profiles[i].name] # Lower[p.name]
  BY <1>2, <1>7 DEF IdentityIsNew, NameIsFree, Ids
<1> HIDE DEF e, n
<1>9. \A i \in 1..(n + 1) : i = n + 1 \/ i \in 1..n  BY <1>2
<1>10. Normal \in Ids(e)
  <2>1. PICK i \in 1..n : d.profiles[i].id = Normal  BY <1>1, <1>2, SoundMeans DEF Ids
  <2>2. i \in 1..(n + 1)  BY <1>2
  <2> QED BY <1>5, <2>1, <2>2 DEF Ids
<1>11. \A i \in DOMAIN e.profiles : Known(e.profiles[i], AppIds(e))
  <2>1. \A i \in 1..n : Known(d.profiles[i], AppIds(d))  BY <1>1, <1>2, SoundMeans
  <2> QED BY <1>5, <1>6, <1>9, <2>1
<1>12. ASSUME NEW i \in DOMAIN e.profiles, NEW j \in DOMAIN e.profiles, i # j
       PROVE  Apart(e.profiles[i], e.profiles[j])
  <2>1. CASE i = n + 1  BY <1>5, <1>8, <1>9, <1>12, <2>1 DEF Apart
  <2>2. CASE j = n + 1  BY <1>5, <1>8, <1>9, <1>12, <2>2 DEF Apart
  <2>3. CASE i # n + 1 /\ j # n + 1
    <3>1. i \in 1..n /\ j \in 1..n  BY <1>5, <1>9, <2>3
    <3>2. Apart(d.profiles[i], d.profiles[j])  BY <1>1, <1>2, <1>12, <3>1, SoundMeans
    <3> QED BY <1>5, <3>1, <3>2
  <2> QED BY <2>1, <2>2, <2>3
<1>13. IsSound(e)  BY <1>10, <1>11, <1>12, SoundMeans
<1> QED BY <1>4, <1>13 DEF Sound, e

(* A profile that is there is found by its id. *)
LEMMA ProfileFound ==
  ASSUME NEW d \in Domain, NEW id \in Ids(d)
  PROVE  /\ Index(d, id) \in DOMAIN d.profiles /\ ProfileOf(d, id) = d.profiles[Index(d, id)]
         /\ ProfileOf(d, id).id = id /\ ProfileOf(d, id) \in Profile
<1>1. \E i \in DOMAIN d.profiles : d.profiles[i].id = id  BY DEF Ids
<1>2. Index(d, id) \in DOMAIN d.profiles /\ d.profiles[Index(d, id)].id = id
  BY <1>1 DEF Index
<1> QED BY <1>2, DomainMeans DEF ProfileOf

(* A profile put in the place of another. *)
PutAt(d, k, p) == [d EXCEPT !.profiles[k] = p]

(* What a profile put in the place of another makes of the domain. *)
LEMMA PutIs ==
  ASSUME NEW d \in Domain, NEW k \in DOMAIN d.profiles, NEW p \in Profile
  PROVE  LET e == PutAt(d, k, p) IN
         /\ e \in Domain /\ e.apps = d.apps /\ e.active = d.active
         /\ DOMAIN e.profiles = DOMAIN d.profiles /\ e.profiles[k] = p
         /\ \A i \in DOMAIN d.profiles : i # k => e.profiles[i] = d.profiles[i]
<1> DEFINE e == PutAt(d, k, p)
<1>1. d.profiles \in Seq(Profile)  BY DomainMeans
<1>2. [d.profiles EXCEPT ![k] = p] \in Seq(Profile)  BY <1>1
<1>3. /\ e \in Domain /\ e.apps = d.apps /\ e.active = d.active
      /\ e.profiles = [d.profiles EXCEPT ![k] = p]
  BY <1>2 DEF Domain, PutAt
<1> HIDE DEF e
<1>4. /\ DOMAIN e.profiles = DOMAIN d.profiles /\ e.profiles[k] = p
      /\ \A i \in DOMAIN d.profiles : i # k => e.profiles[i] = d.profiles[i]
  BY <1>1, <1>3
<1> QED BY <1>3, <1>4 DEF e

(* A profile changed in place keeps its id, and gets no other's name. *)
LEMMA PutSound ==
  ASSUME NEW d, Sound(d), NEW k \in DOMAIN d.profiles, NEW p \in Profile,
         p.id = d.profiles[k].id, NameIsFree(d, p.name, p.id), Known(p, AppIds(d))
  PROVE  Sound(PutAt(d, k, p))
<1> DEFINE e == PutAt(d, k, p)
<1>1. d \in Domain /\ IsSound(d)  BY DEF Sound
<1>2. /\ e \in Domain /\ e.apps = d.apps /\ DOMAIN e.profiles = DOMAIN d.profiles
      /\ e.profiles[k] = p
      /\ \A i \in DOMAIN d.profiles : i # k => e.profiles[i] = d.profiles[i]
  BY <1>1, PutIs
<1>3. AppIds(e) = AppIds(d)  BY <1>2 DEF AppIds
<1>4. \A i, j \in DOMAIN d.profiles : i # j => Apart(d.profiles[i], d.profiles[j])
  BY <1>1, SoundMeans
<1> HIDE DEF e
<1>5. Normal \in Ids(e)
  <2>1. PICK i \in DOMAIN d.profiles : d.profiles[i].id = Normal  BY <1>1, SoundMeans DEF Ids
  <2>2. e.profiles[i].id = Normal  BY <1>2, <2>1
  <2> QED BY <1>2, <2>1, <2>2 DEF Ids
<1>6. \A i \in DOMAIN e.profiles : Known(e.profiles[i], AppIds(e))
  BY <1>1, <1>2, <1>3, SoundMeans
<1>7. \A i \in DOMAIN d.profiles : i # k => Apart(d.profiles[i], p) /\ Apart(p, d.profiles[i])
  BY <1>4 DEF Apart, NameIsFree
<1>8. \A i, j \in DOMAIN e.profiles : i # j => Apart(e.profiles[i], e.profiles[j])
  BY <1>2, <1>4, <1>7
<1>9. IsSound(e)  BY <1>5, <1>6, <1>8, SoundMeans
<1> QED BY <1>2, <1>9 DEF Sound, e

(* A profile changed, still of its id and of no other's name, keeps a      *)
(* domain sound.                                                           *)
LEMMA ChangedSound ==
  ASSUME NEW d, Sound(d), NEW id \in Ids(d), NEW p \in Profile,
         p.id = id, NameIsFree(d, p.name, id), Known(p, AppIds(d))
  PROVE  Sound(Changed(d, id, p))
<1> DEFINE k == Index(d, id)
<1>1. k \in DOMAIN d.profiles /\ d.profiles[k].id = id  BY ProfileFound DEF Sound
<1>2. Changed(d, id, p) = PutAt(d, k, p)  BY DEF Changed, PutAt
<1> HIDE DEF k
<1> QED BY <1>1, <1>2, PutSound

(* A change that is none of the name. *)
LEMMA KeptNameIsFree ==
  ASSUME NEW d, Sound(d), NEW id \in Ids(d)
  PROVE  NameIsFree(d, ProfileOf(d, id).name, id)
<1>1. d \in Domain /\ IsSound(d)  BY DEF Sound
<1>2. \A i, j \in DOMAIN d.profiles : i # j => Apart(d.profiles[i], d.profiles[j])
  BY <1>1, SoundMeans
<1> QED BY <1>1, <1>2, ProfileFound DEF NameIsFree, Apart

(* The built-in profile, as a template. *)
LEMMA TemplateIs ==
  /\ NormalProfile \in [id : {Normal}, name : {"Normal"}, mode : Mode, links : Seq(AppId),
                         default : AppId \cup {None}, keys : SUBSET Key]
  /\ NormalProfile.id = Normal /\ NormalProfile.name = "Normal" /\ NormalProfile.mode = "basic"
  /\ NormalProfile.default = None /\ NormalProfile.links = <<>> /\ NormalProfile.keys = {}
<1>1. <<>> \in Seq(AppId) /\ {} \in SUBSET Key /\ None \in AppId \cup {None}  OBVIOUS
<1>2. "basic" \in Mode  BY DEF Mode
<1> QED BY <1>1, <1>2 DEF NormalProfile

(* A new profile, made of the built-in one. *)
Template(id, n, mode) == [NormalProfile EXCEPT !.id = id, !.name = n, !.mode = mode]

(* A new profile has the id, the name and the mode it was given and        *)
(* nothing else.                                                           *)
LEMMA NewProfileIs ==
  ASSUME NEW id \in Id, NEW n \in Name, NEW mode \in Mode
  PROVE  LET p == Template(id, n, mode) IN
         /\ p \in Profile
         /\ p.id = id /\ p.name = n /\ p.mode = mode
         /\ p.default = None /\ p.links = <<>> /\ p.keys = {}
         /\ Known(p, {})
<1> DEFINE p == Template(id, n, mode)
<1>1. /\ p \in Profile
      /\ p.id = id /\ p.name = n /\ p.mode = mode
      /\ p.default = NormalProfile.default /\ p.links = NormalProfile.links
      /\ p.keys = NormalProfile.keys
  <2> DEFINE r == NormalProfile
  <2>1. r \in [id : {Normal}, name : {"Normal"}, mode : Mode, links : Seq(AppId),
               default : AppId \cup {None}, keys : SUBSET Key]
    BY TemplateIs
  <2>2. p = [r EXCEPT !.id = id, !.name = n, !.mode = mode]  BY DEF Template
  <2> HIDE DEF r, p
  <2>3. /\ p \in Profile
        /\ p.id = id /\ p.name = n /\ p.mode = mode
        /\ p.default = r.default /\ p.links = r.links /\ p.keys = r.keys
    BY <2>1, <2>2 DEF Profile
  <2> QED BY <2>3 DEF r
<1> HIDE DEF p
<1>2. ToSet(<<>>) = {}  BY DEF ToSet
<1> QED BY <1>1, <1>2, TemplateIs DEF Known, p

(* createProfile keeps a domain sound. *)
LEMMA CreatedNewSound ==
  ASSUME NEW d, Sound(d), NEW id \in Id, NEW n \in Name, NEW mode \in Mode,
         IdentityIsNew(d, id, n)
  PROVE  Sound(CreatedNew(d, id, n, mode))
<1> DEFINE p == Template(id, n, mode)
<1>1. p \in Profile /\ p.id = id /\ p.name = n /\ Known(p, {})  BY NewProfileIs
<1> HIDE DEF p
<1>2. Known(p, AppIds(d))  BY <1>1 DEF Known
<1> QED BY <1>1, <1>2, CreatedSound DEF CreatedNew, Template, p

(* A preset's profile comes with its application, or without one. *)
LEMMA PresetSound ==
  ASSUME NEW d, Sound(d), NEW id \in Id, NEW n \in Name, NEW mode \in Mode, NEW t \in Target,
         NEW p, p = [NormalProfile EXCEPT !.id = id, !.name = n, !.mode = mode,
                                          !.keys = PresetKeys],
         IdentityIsNew(d, id, n)
  PROVE  /\ Sound(Created(d, p))
         /\ Sound([Created(d, [p EXCEPT !.links = <<AppOf[id]>>, !.default = AppOf[id]])
                     EXCEPT !.apps = Append(@, [id |-> AppOf[id], target |-> t])])
<1> DEFINE a == AppOf[id]
           app == [id |-> a, target |-> t]
           r == Template(id, n, mode)
           q == [p EXCEPT !.links = <<a>>, !.default = a]
           e == [d EXCEPT !.apps = Append(@, app)]
<1>1. /\ r \in Profile /\ r.id = id /\ r.name = n /\ r.default = None /\ r.links = <<>>
      /\ Known(r, {})
  BY NewProfileIs
<1>2. p = [r EXCEPT !.keys = PresetKeys]
  <2> DEFINE s == NormalProfile
  <2>1. s \in [id : {Normal}, name : {"Normal"}, mode : Mode, links : Seq(AppId),
               default : AppId \cup {None}, keys : SUBSET Key]
    BY TemplateIs
  <2>2. p = [s EXCEPT !.id = id, !.name = n, !.mode = mode, !.keys = PresetKeys]
        /\ r = [s EXCEPT !.id = id, !.name = n, !.mode = mode]
    BY DEF Template
  <2> HIDE DEF r, s
  <2> QED BY <2>1, <2>2
<1> HIDE DEF r
<1>3. a \in AppId /\ PresetKeys \in SUBSET Key  BY NamesAssumption, KeysAssumption
<1>4. app \in Application  BY <1>3 DEF Application
<1>5. <<a>> \in Seq(AppId) /\ a \in AppId \cup {None}  BY <1>3
<1> HIDE DEF a, app
<1>6. p \in Profile /\ p.id = id /\ p.name = n /\ p.links = <<>> /\ p.default = None
  BY <1>1, <1>2, <1>3 DEF Profile
<1>7. q \in Profile /\ q.id = id /\ q.name = n /\ q.links = <<a>> /\ q.default = a
  BY <1>5, <1>6 DEF Profile
<1>8. Known(p, AppIds(d))  BY <1>1, <1>6 DEF Known
<1>9. Sound(Created(d, p))  BY <1>6, <1>8, CreatedSound
<1>10. Sound(e) /\ AppIds(e) = AppIds(d) \cup {app.id}  BY <1>4, AppAdded
<1>11. app.id = a  BY DEF app
<1>12. Known(q, AppIds(e))
  <2>1. ToSet(<<a>>) = {a}  BY DEF ToSet
  <2> HIDE DEF e, q
  <2> QED BY <1>7, <1>10, <1>11, <2>1 DEF Known
<1>13. e.profiles = d.profiles  BY DEF Sound, Domain
<1>14. IdentityIsNew(e, id, n)
  <2> HIDE DEF e
  <2> QED BY <1>13 DEF IdentityIsNew, NameIsFree, Ids
<1>15. Sound(Created(e, q))
  <2> HIDE DEF e, q
  <2> QED BY <1>7, <1>10, <1>12, <1>14, CreatedSound
<1>16. Created(e, q) = [Created(d, q) EXCEPT !.apps = Append(@, app)]
  <2> HIDE DEF q
  <2> QED BY DEF Created, Sound, Domain
<1> QED BY <1>9, <1>15, <1>16 DEF a, app

(* duplicateProfile keeps a domain sound. *)
LEMMA DuplicatedSound ==
  ASSUME NEW d, Sound(d), NEW source \in Ids(d), NEW id \in Id, NEW n \in Name,
         IdentityIsNew(d, id, n)
  PROVE  Sound(Duplicated(d, source, id, n))
<1> DEFINE q == ProfileOf(d, source)
           p == [q EXCEPT !.id = id, !.name = n]
<1>1. d \in Domain /\ IsSound(d)  BY DEF Sound
<1>2. q \in Profile /\ \E i \in DOMAIN d.profiles : q = d.profiles[i]  BY <1>1, ProfileFound
<1>3. Known(q, AppIds(d))  BY <1>1, <1>2, SoundMeans
<1> HIDE DEF q
<1>4. p \in Profile /\ p.id = id /\ p.name = n /\ p.links = q.links /\ p.default = q.default
  BY <1>2 DEF Profile
<1>5. Known(p, AppIds(d))  BY <1>3, <1>4 DEF Known
<1> HIDE DEF p
<1> QED BY <1>4, <1>5, CreatedSound DEF Duplicated, p, q

(* renameProfile keeps a domain sound. *)
LEMMA RenamedSound ==
  ASSUME NEW d, Sound(d), NEW id \in Ids(d), NEW n \in Name, NameIsFree(d, n, id)
  PROVE  Sound(Renamed(d, id, n))
<1> DEFINE q == ProfileOf(d, id)
           p == [q EXCEPT !.name = n]
<1>1. d \in Domain /\ IsSound(d)  BY DEF Sound
<1>2. q \in Profile /\ q.id = id /\ \E i \in DOMAIN d.profiles : q = d.profiles[i]
  BY <1>1, ProfileFound
<1>3. Known(q, AppIds(d))  BY <1>1, <1>2, SoundMeans
<1> HIDE DEF q
<1>4. p \in Profile /\ p.id = id /\ p.name = n /\ p.links = q.links /\ p.default = q.default
  BY <1>2 DEF Profile
<1>5. Known(p, AppIds(d))  BY <1>3, <1>4 DEF Known
<1> HIDE DEF p
<1> QED BY <1>4, <1>5, ChangedSound DEF Renamed, p, q

(* A change of links and default that the model allows. *)
LEMMA RelinkedSound ==
  ASSUME NEW d, Sound(d), NEW id \in Ids(d), NEW links \in Seq(AppId), NEW default,
         default \in ToSet(links) \cup {None}, ToSet(links) \subseteq AppIds(d)
  PROVE  Sound(Changed(d, id, [ProfileOf(d, id) EXCEPT !.links = links, !.default = default]))
<1> DEFINE q == ProfileOf(d, id)
           p == [q EXCEPT !.links = links, !.default = default]
<1>1. d \in Domain /\ q \in Profile /\ q.id = id  BY ProfileFound DEF Sound
<1>2. default \in AppId \cup {None}
  <2>1. ToSet(links) \subseteq AppId  BY DEF ToSet
  <2> QED BY <2>1
<1>3. NameIsFree(d, q.name, id)  BY KeptNameIsFree
<1> HIDE DEF q
<1>4. p \in Profile /\ p.id = id /\ p.name = q.name /\ p.links = links /\ p.default = default
  BY <1>1, <1>2 DEF Profile
<1>5. Known(p, AppIds(d))  BY <1>4 DEF Known
<1> HIDE DEF p
<1> QED BY <1>3, <1>4, <1>5, ChangedSound DEF p, q

(* What is sieved out is no longer there, and the rest is. *)
LEMMA SieveHas ==
  ASSUME NEW X, NEW s \in Seq(X), NEW S
  PROVE  Sieve(s, S) \in Seq(X) /\ ToSet(Sieve(s, S)) = ToSet(s) \cap S
<1> DEFINE r == Sieve(s, S)
           n == Len(s)
<1>1. r \in Seq(X) /\ Picked(s, S, r, n) /\ DOMAIN s = 1..n  BY SievePicks
<1> HIDE DEF r, n
<1>2. PICK at \in [DOMAIN r -> 1..n] :
         /\ \A i \in DOMAIN r : r[i] = s[at[i]] /\ s[at[i]] \in S
         /\ \A j \in 1..n : s[j] \in S => \E i \in DOMAIN r : at[i] = j
  BY <1>1 DEF Picked
<1>3. ToSet(r) = ToSet(s) \cap S  BY <1>1, <1>2 DEF ToSet
<1> QED BY <1>1, <1>3 DEF r

(* linkApplication keeps a domain sound. *)
LEMMA LinkedSound ==
  ASSUME NEW d, Sound(d), NEW id \in Ids(d), NEW a \in AppIds(d)
  PROVE  Sound(Changed(d, id, LinkedTo(ProfileOf(d, id), a)))
<1> DEFINE q == ProfileOf(d, id)
           links == IF a \in ToSet(q.links) THEN q.links ELSE Append(q.links, a)
           default == IF q.default = None THEN a ELSE q.default
<1>1. d \in Domain /\ IsSound(d)  BY DEF Sound
<1>2. q \in Profile /\ \E i \in DOMAIN d.profiles : q = d.profiles[i]  BY <1>1, ProfileFound
<1>3. Known(q, AppIds(d)) /\ q.links \in Seq(AppId)  BY <1>1, <1>2, SoundMeans DEF Profile
<1>4. a \in AppId
  <2>1. PICK i \in DOMAIN d.apps : d.apps[i].id = a  BY DEF AppIds
  <2>2. d.apps[i] \in Application  BY <1>1, DomainMeans
  <2> QED BY <2>1, <2>2 DEF Application
<1> HIDE DEF q
<1>5. ToSet(Append(q.links, a)) = ToSet(q.links) \cup {a}
  <2> DEFINE n == Len(q.links)
             t == Append(q.links, a)
  <2>1. /\ n \in Nat /\ DOMAIN q.links = 1..n /\ DOMAIN t = 1..(n + 1) /\ t[n + 1] = a
        /\ \A i \in 1..n : t[i] = q.links[i]
    BY <1>3
  <2>2. n + 1 \in 1..(n + 1) /\ \A i \in 1..(n + 1) : i = n + 1 \/ i \in 1..n  BY <2>1
  <2>3. \A i \in 1..n : i \in 1..(n + 1)  BY <2>1
  <2> HIDE DEF n, t
  <2> QED BY <2>1, <2>2, <2>3 DEF ToSet, t
<1>6. links \in Seq(AppId) /\ a \in ToSet(links) /\ ToSet(q.links) \subseteq ToSet(links)
      /\ ToSet(links) \subseteq ToSet(q.links) \cup {a}
  BY <1>3, <1>4, <1>5
<1>7. default \in ToSet(links) \cup {None} /\ ToSet(links) \subseteq AppIds(d)
  BY <1>3, <1>6 DEF Known
<1>8. LinkedTo(q, a) = [q EXCEPT !.links = links, !.default = default]
  BY <1>2 DEF LinkedTo, Profile
<1> HIDE DEF links, default
<1> QED BY <1>6, <1>7, <1>8, RelinkedSound DEF q

(* unlinkApplication keeps a domain sound. *)
LEMMA UnlinkedSound ==
  ASSUME NEW d, Sound(d), NEW id \in Ids(d), NEW a
  PROVE  Sound(Changed(d, id, UnlinkedFrom(ProfileOf(d, id), a)))
<1> DEFINE q == ProfileOf(d, id)
           links == Sieve(q.links, ToSet(q.links) \ {a})
           default == IF q.default # a THEN q.default ELSE IF links = <<>> THEN None ELSE Head(links)
<1>1. d \in Domain /\ IsSound(d)  BY DEF Sound
<1>2. q \in Profile /\ \E i \in DOMAIN d.profiles : q = d.profiles[i]  BY <1>1, ProfileFound
<1>3. Known(q, AppIds(d)) /\ q.links \in Seq(AppId)  BY <1>1, <1>2, SoundMeans DEF Profile
<1> HIDE DEF q
<1>4. links \in Seq(AppId) /\ ToSet(links) = ToSet(q.links) \ {a}
  BY <1>3, SieveHas
<1>5. links # <<>> => Head(links) \in ToSet(links)
  <2> HIDE DEF links
  <2>1. links # <<>> => Len(links) \in Nat /\ 1 \in 1..Len(links) /\ Head(links) = links[1]
        /\ DOMAIN links = 1..Len(links)
    BY <1>4
  <2> QED BY <2>1 DEF ToSet
<1>6. default \in ToSet(links) \cup {None} /\ ToSet(links) \subseteq AppIds(d)
  <2> HIDE DEF links
  <2> QED BY <1>3, <1>4, <1>5 DEF Known
<1>7. UnlinkedFrom(q, a) = [q EXCEPT !.links = links, !.default = default]
  BY <1>2 DEF UnlinkedFrom, Profile
<1> HIDE DEF links, default
<1> QED BY <1>4, <1>6, <1>7, RelinkedSound DEF q

(* setDefaultApplication keeps a domain sound: the default is linked, or   *)
(* none.                                                                   *)
LEMMA DefaultSetSound ==
  ASSUME NEW d, Sound(d), NEW id \in Ids(d), NEW a,
         a # None => a \in ToSet(ProfileOf(d, id).links)
  PROVE  Sound(Changed(d, id, [ProfileOf(d, id) EXCEPT !.default = a]))
<1> DEFINE q == ProfileOf(d, id)
<1>1. d \in Domain /\ IsSound(d)  BY DEF Sound
<1>2. q \in Profile /\ \E i \in DOMAIN d.profiles : q = d.profiles[i]  BY <1>1, ProfileFound
<1>3. Known(q, AppIds(d)) /\ q.links \in Seq(AppId)  BY <1>1, <1>2, SoundMeans DEF Profile
<1>4. [q EXCEPT !.default = a] = [q EXCEPT !.links = q.links, !.default = a]
  BY <1>2 DEF Profile
<1> HIDE DEF q
<1>5. a \in ToSet(q.links) \cup {None} /\ ToSet(q.links) \subseteq AppIds(d)
  BY <1>3 DEF Known, q
<1> QED BY <1>3, <1>4, <1>5, RelinkedSound DEF q

(* Deletion leaves the other profiles, and the applications they refer to. *)
LEMMA DeletedIs ==
  ASSUME NEW d \in Domain, NEW id
  PROVE  LET e == Deleted(d, id) IN
         /\ e \in [profiles : Seq(Profile), apps : Seq(Application), active : {Normal, d.active}]
         /\ e.active # id \/ id = Normal
         /\ ToSet(e.profiles) = {p \in ToSet(d.profiles) : p.id # id}
         /\ Picked(d.profiles, {p \in ToSet(d.profiles) : p.id # id}, e.profiles, Len(d.profiles))
         /\ Picked(d.apps, {app \in ToSet(d.apps) : app.id \in Refer(e)}, e.apps, Len(d.apps))
         /\ AppIds(e) = AppIds(d) \cap Refer(e)
<1> DEFINE S == {p \in ToSet(d.profiles) : p.id # id}
           r == Sieve(d.profiles, S)
           act == IF d.active = id THEN Normal ELSE d.active
           m == [d EXCEPT !.profiles = r, !.active = act]
           T == {app \in ToSet(d.apps) : app.id \in Refer(m)}
           s == Sieve(d.apps, T)
           e == Deleted(d, id)
<1>1. d.profiles \in Seq(Profile) /\ d.apps \in Seq(Application)  BY DomainMeans
<1>2. r \in Seq(Profile) /\ Picked(d.profiles, S, r, Len(d.profiles)) /\ ToSet(r) = S
  <2> HIDE DEF S
  <2>1. r \in Seq(Profile) /\ Picked(d.profiles, S, r, Len(d.profiles))
    BY <1>1, SievePicks
  <2>2. ToSet(r) = ToSet(d.profiles) \cap S  BY <1>1, SieveHas
  <2> QED BY <2>1, <2>2 DEF S
<1>3. s \in Seq(Application) /\ Picked(d.apps, T, s, Len(d.apps)) /\ ToSet(s) = T
  <2> HIDE DEF T
  <2>1. s \in Seq(Application) /\ Picked(d.apps, T, s, Len(d.apps))
    BY <1>1, SievePicks
  <2>2. ToSet(s) = ToSet(d.apps) \cap T  BY <1>1, SieveHas
  <2> QED BY <2>1, <2>2 DEF T
<1>4. m.profiles = r /\ m.apps = d.apps /\ m.active = act  BY DEF Domain
<1>5. e = [m EXCEPT !.apps = s]
  <2>1. e = DroppingOrphans(m)  BY DEF Deleted
  <2>2. DroppingOrphans(m) = [m EXCEPT !.apps = Sieve(m.apps, {app \in ToSet(m.apps) : app.id \in Refer(m)})]
    <3> HIDE DEF m
    <3> QED BY DEF DroppingOrphans
  <2> QED BY <1>4, <2>1, <2>2
<1> HIDE DEF r, s
<1>6. e = [profiles |-> r, apps |-> s, active |-> act]
  <2> HIDE DEF act, e
  <2> QED BY <1>5 DEF Domain
<1> HIDE DEF e
<1>7. e.profiles = r /\ e.apps = s /\ e.active = act  BY <1>6
<1>8. Refer(e) = Refer(m)
  <2> HIDE DEF m
  <2> QED BY <1>4, <1>7 DEF Refer
<1>9. AppIds(e) = AppIds(d) \cap Refer(e)
  <2>1. AppIds(e) = {app.id : app \in ToSet(s)}  BY <1>7 DEF AppIds, ToSet
  <2>2. AppIds(d) = {app.id : app \in ToSet(d.apps)}  BY DEF AppIds, ToSet
  <2> HIDE DEF m
  <2> QED BY <1>3, <1>8, <2>1, <2>2
<1>10. e \in [profiles : Seq(Profile), apps : Seq(Application), active : {Normal, d.active}]
  BY <1>2, <1>3, <1>6
<1>11. e.active # id \/ id = Normal  BY <1>7
<1> HIDE DEF m, S, T
<1>12. T = {app \in ToSet(d.apps) : app.id \in Refer(e)}  BY <1>8 DEF T
<1> QED BY <1>2, <1>3, <1>7, <1>9, <1>10, <1>11, <1>12 DEF e, S

(* deleteProfile and the removal of orphans keep a domain sound: what a    *)
(* profile links is not dropped.                                           *)
LEMMA DeletedSound ==
  ASSUME NEW d, Sound(d), NEW id, id # Normal
  PROVE  Sound(Deleted(d, id))
<1> DEFINE e == Deleted(d, id)
           S == {p \in ToSet(d.profiles) : p.id # id}
           n == Len(d.profiles)
<1>1. d \in Domain /\ IsSound(d)  BY DEF Sound
<1>2. /\ e \in [profiles : Seq(Profile), apps : Seq(Application), active : {Normal, d.active}]
      /\ Picked(d.profiles, S, e.profiles, n)
      /\ AppIds(e) = AppIds(d) \cap Refer(e)
  BY <1>1, DeletedIs
<1> HIDE DEF e
<1>3. e \in Domain  BY <1>1, <1>2, NamesAssumption DEF Domain
<1>4. DOMAIN d.profiles = 1..n  BY <1>1, DomainMeans
<1>5. \A j \in 1..n : d.profiles[j] \in S <=> d.profiles[j].id # id  BY <1>4 DEF ToSet
<1> HIDE DEF S, n
<1>0. Picked(d.profiles, S, e.profiles, n)  BY <1>2
<1>6. PICK at \in [DOMAIN e.profiles -> 1..n] :
        /\ \A i, j \in DOMAIN e.profiles : at[i] = at[j] => i = j
        /\ \A i \in DOMAIN e.profiles : e.profiles[i] = d.profiles[at[i]]
        /\ \A j \in 1..n : d.profiles[j] \in S => \E i \in DOMAIN e.profiles : at[i] = j
  BY ONLY <1>0 DEF Picked
<1>7. Normal \in Ids(e)
  <2>1. PICK j \in 1..n : d.profiles[j].id = Normal  BY <1>1, <1>4, SoundMeans DEF Ids
  <2>2. PICK i \in DOMAIN e.profiles : at[i] = j  BY <1>5, <1>6, <2>1
  <2> QED BY <1>6, <2>1, <2>2 DEF Ids
<1>8. ASSUME NEW i \in DOMAIN e.profiles PROVE Known(e.profiles[i], AppIds(e))
  <2>1. Known(e.profiles[i], AppIds(d))  BY <1>1, <1>4, <1>6, SoundMeans
  <2>2. ToSet(e.profiles[i].links) \subseteq Refer(e)  BY DEF Refer
  <2> QED BY <1>2, <2>1, <2>2 DEF Known
<1>9. \A i, j \in DOMAIN e.profiles : i # j => Apart(e.profiles[i], e.profiles[j])
  <2>1. \A k, l \in 1..n : k # l => Apart(d.profiles[k], d.profiles[l])
    BY <1>1, <1>4, SoundMeans
  <2> QED BY <1>6, <2>1
<1>10. IsSound(e)  BY <1>7, <1>8, <1>9, SoundMeans
<1> QED BY <1>3, <1>10 DEF Sound, e

(* A runtime profile. *)
RProfile == [mode : Mode, target : Target \cup {None}, keys : SUBSET Key]

(* Widened mappings are mappings. *)
LEMMA WideIsKeys ==
  ASSUME NEW keys \in SUBSET Key PROVE WideKeys(keys) \in SUBSET Key
BY KeysAssumption DEF Key, WideKeys

(* The other side is added once. *)
LEMMA WideTwice ==
  ASSUME NEW keys \in SUBSET Key PROVE WideKeys(WideKeys(keys)) = WideKeys(keys)
<1>1. \A key \in keys : key = <<key[1], key[2], key[3]>> /\ key[2] \in DOMAIN Wide
  BY DEF Key
<1>2. \A key \in keys : Wide[Wide[key[2]]] = Wide[key[2]]  BY <1>1, KeysAssumption
<1> DEFINE W == WideKeys(keys)
<1>3. \A w \in W : <<w[1], Wide[w[2]], w[3]>> = w  BY <1>2 DEF WideKeys
<1>4. WideKeys(W) = {<<w[1], Wide[w[2]], w[3]>> : w \in W}  BY DEF WideKeys
<1> HIDE DEF W
<1>5. WideKeys(W) = W  BY <1>3, <1>4
<1> QED BY <1>5 DEF W

(* What one profile's way back to the domain changes. *)
Written(d, e, name, p) ==
  LET i  == FirstNamed(d, name)
      at == AppIndex(d, Aim(d.profiles[i]))
  IN  /\ SameNames(d, e) /\ e.active = d.active
      /\ \A j \in DOMAIN d.profiles : j # i => e.profiles[j] = d.profiles[j]
      /\ e.profiles[i].mode = p.mode /\ e.profiles[i].keys = WideKeys(p.keys)
      /\ p.target = None \/ at # 0 =>
           /\ e.profiles[i].links = d.profiles[i].links
           /\ e.profiles[i].default = d.profiles[i].default
      /\ p.target = None => e.apps = d.apps
      /\ p.target # None /\ at # 0 => e.apps = [d.apps EXCEPT ![at].target = p.target]
      /\ p.target # None /\ at = 0 =>
           /\ e.profiles[i].default = AppOf[name]
           /\ e.profiles[i].links = Append(d.profiles[i].links, AppOf[name])
           /\ e.apps = Append(d.apps, [id |-> AppOf[name], target |-> p.target])

(* What SyncRuntimeToDomain does for one runtime profile: soundness, names *)
(* and the other profiles are kept, and the profile is written.            *)
LEMMA SyncedProfileIs ==
  ASSUME NEW d, Sound(d), NEW n \in RuntimeNames(d), NEW p \in RProfile
  PROVE  Sound(SyncedProfile(d, n, p)) /\ Written(d, SyncedProfile(d, n, p), n, p)
<1> DEFINE e == SyncedProfile(d, n, p)
           i == FirstNamed(d, n)
           q == [d.profiles[i] EXCEPT !.mode = p.mode, !.keys = WideKeys(p.keys)]
           m == PutAt(d, i, q)
           at == AppIndex(d, Aim(d.profiles[i]))
           new == AppOf[n]
<1>1. d \in Domain /\ IsSound(d)  BY DEF Sound
<1>2. i \in DOMAIN d.profiles  BY <1>1, DomainMeans, NamedFound
<1>3. d.profiles[i] \in Profile /\ Known(d.profiles[i], AppIds(d))
  BY <1>1, <1>2, DomainMeans, SoundMeans
<1>4. n \in RName
  <2>1. PICK j \in DOMAIN d.profiles : n = RuntimeName(d.profiles[j])  BY DEF RuntimeNames
  <2>2. d.profiles[j] \in Profile  BY <1>1, DomainMeans
  <2> QED BY <2>1, <2>2 DEF Profile, RuntimeName, RName
<1>5. p.mode \in Mode /\ p.target \in Target \cup {None} /\ WideKeys(p.keys) \in SUBSET Key
  BY WideIsKeys DEF RProfile
<1>6. /\ q \in Profile /\ q.id = d.profiles[i].id /\ q.name = d.profiles[i].name
      /\ q.links = d.profiles[i].links /\ q.default = d.profiles[i].default
      /\ q.mode = p.mode /\ q.keys = WideKeys(p.keys)
  <2> DEFINE r == d.profiles[i]
             w == WideKeys(p.keys)
  <2> HIDE DEF r, w
  <2>1. /\ [r EXCEPT !.mode = p.mode, !.keys = w] \in Profile
        /\ [r EXCEPT !.mode = p.mode, !.keys = w].id = r.id
        /\ [r EXCEPT !.mode = p.mode, !.keys = w].name = r.name
        /\ [r EXCEPT !.mode = p.mode, !.keys = w].links = r.links
        /\ [r EXCEPT !.mode = p.mode, !.keys = w].default = r.default
        /\ [r EXCEPT !.mode = p.mode, !.keys = w].mode = p.mode
        /\ [r EXCEPT !.mode = p.mode, !.keys = w].keys = w
    BY <1>3, <1>5 DEF Profile, r, w
  <2> QED BY <2>1 DEF r, w
<1>7. NameIsFree(d, q.name, q.id)
  <2>1. \A j \in DOMAIN d.profiles : j # i => Apart(d.profiles[j], d.profiles[i])
    BY <1>1, <1>2, SoundMeans
  <2> HIDE DEF q
  <2> QED BY <1>6, <2>1 DEF NameIsFree, Apart
<1>8. Known(q, AppIds(d))  BY <1>3, <1>6 DEF Known
<1> HIDE DEF q
<1>9. /\ Sound(m) /\ m.apps = d.apps /\ m.active = d.active
      /\ DOMAIN m.profiles = DOMAIN d.profiles /\ m.profiles[i] = q
      /\ \A j \in DOMAIN d.profiles : i # j => m.profiles[j] = d.profiles[j]
  <2>1. Sound(m)  BY <1>2, <1>6, <1>7, <1>8, PutSound
  <2> QED BY <1>1, <1>2, <1>6, <2>1, PutIs
<1>10. Aim(m.profiles[i]) = Aim(d.profiles[i])  BY <1>6, <1>9 DEF Aim
<1>11. AppIndex(m, Aim(m.profiles[i])) = at  BY <1>9, <1>10 DEF AppIndex
<1>12. e = WithTarget(m, i, n, p.target)
  <2>1. m = [d EXCEPT !.profiles[i].mode = p.mode, !.profiles[i].keys = WideKeys(p.keys)]
    <3>1. d.profiles \in Seq(Profile)  BY <1>1, DomainMeans
    <3> QED BY <1>1, <1>2, <1>3, <3>1 DEF Domain, PutAt, q, Profile
  <2> QED BY <2>1 DEF SyncedProfile
<1> HIDE DEF m, e, i, at
<1>13. m \in Domain /\ IsSound(m) /\ AppIds(m) = AppIds(d)  BY <1>9 DEF Sound, AppIds
<1>14. SameNames(d, m)
  <2>1. \A j \in DOMAIN d.profiles :
          m.profiles[j].id = d.profiles[j].id /\ m.profiles[j].name = d.profiles[j].name
    BY <1>6, <1>9
  <2> QED BY <1>9, <2>1 DEF SameNames
<1>15. CASE p.target = None
  <2>1. e = m  BY <1>12, <1>15 DEF WithTarget
  <2>2. Written(d, e, n, p)  BY <1>6, <1>9, <1>14, <1>15, <2>1 DEF Written, i
  <2> QED BY <1>9, <2>1, <2>2 DEF e
<1>16. CASE p.target # None /\ at # 0
  <2>1. e = [m EXCEPT !.apps[at].target = p.target]  BY <1>11, <1>12, <1>16 DEF WithTarget
  <2>2. at \in DOMAIN d.apps
    <3>1. d.apps \in Seq(Application)  BY <1>1, DomainMeans
    <3> QED BY <1>16, <3>1, AppFound DEF at
  <2>3. p.target \in Target /\ d.apps \in Seq(Application)
    BY <1>1, <1>5, <1>16, DomainMeans
  <2>4. d.apps[at] \in Application  BY <1>1, <2>2, DomainMeans
  <2>5. [d.apps[at] EXCEPT !.target = p.target] \in Application
        /\ [d.apps[at] EXCEPT !.target = p.target].id = d.apps[at].id
    BY <2>3, <2>4 DEF Application
  <2> DEFINE apps == [d.apps EXCEPT ![at] = [d.apps[at] EXCEPT !.target = p.target]]
  <2>6. apps \in Seq(Application) /\ DOMAIN apps = DOMAIN d.apps
        /\ \A k \in DOMAIN d.apps : apps[k].id = d.apps[k].id
    BY <2>2, <2>3, <2>5
  <2>7. apps = [d.apps EXCEPT ![at].target = p.target]  BY <2>2, <2>3
  <2>8. e.profiles = m.profiles /\ e.active = m.active /\ e.apps = apps
        /\ e \in Domain
    <3>1. e = [m EXCEPT !.apps = apps]  BY <1>9, <1>13, <2>1, <2>7 DEF Domain
    <3> HIDE DEF apps
    <3> QED BY <1>13, <2>6, <3>1 DEF Domain
  <2> HIDE DEF apps
  <2>9. AppIds(e) = AppIds(d) /\ Ids(e) = Ids(m)  BY <2>6, <2>8 DEF AppIds, Ids
  <2>10. IsSound(e)  BY <1>13, <2>8, <2>9, SoundMeans
  <2>11. SameNames(d, e)  BY <1>14, <2>8 DEF SameNames
  <2>12. Written(d, e, n, p)  BY <1>6, <1>9, <1>16, <2>7, <2>8, <2>11 DEF Written, i, at
  <2> QED BY <2>8, <2>10, <2>12 DEF e, Sound
<1>17. CASE p.target # None /\ at = 0
  <2> DEFINE app == [id |-> new, target |-> p.target]
             a == [m EXCEPT !.apps = Append(@, app)]
             links == Append(q.links, new)
             r == [q EXCEPT !.links = links, !.default = new]
  <2>1. e = [m EXCEPT !.apps = Append(@, app), !.profiles[i].links = Append(@, new),
                      !.profiles[i].default = new]
    BY <1>11, <1>12, <1>17 DEF WithTarget
  <2>2. new \in AppId /\ p.target \in Target  BY <1>4, <1>5, <1>17, NamesAssumption
  <2>3. app \in Application  BY <2>2 DEF Application
  <2>4. Sound(a) /\ AppIds(a) = AppIds(d) \cup {app.id}
    <3>1. Sound(m)  BY <1>9
    <3>2. Sound(a) /\ AppIds(a) = AppIds(m) \cup {app.id}  BY ONLY <2>3, <3>1, AppAdded
    <3> QED BY <1>13, <3>2
  <2>5. app.id = new  OBVIOUS
  <2> HIDE DEF app
  <2>6. a.profiles = m.profiles /\ a.active = m.active /\ a.apps = Append(d.apps, app)
        /\ a \in Domain
    BY <1>9, <1>13, <2>4 DEF Domain, Sound
  <2>7. q.links \in Seq(AppId)  BY <1>6 DEF Profile
  <2>8. links \in Seq(AppId)  BY <2>2, <2>7
  <2>9. ToSet(links) = ToSet(q.links) \cup {new}
    <3> DEFINE l == Len(q.links)
    <3>1. /\ l \in Nat /\ DOMAIN q.links = 1..l /\ DOMAIN links = 1..(l + 1)
          /\ links[l + 1] = new /\ \A j \in 1..l : links[j] = q.links[j]
      BY <2>7
    <3>2. l + 1 \in 1..(l + 1) /\ \A j \in 1..(l + 1) : j = l + 1 \/ j \in 1..l  BY <3>1
    <3>3. \A j \in 1..l : j \in 1..(l + 1)  BY <3>1
    <3> HIDE DEF l, links
    <3> QED BY <3>1, <3>2, <3>3 DEF ToSet
  <2> HIDE DEF links, new
  <2>10. /\ r \in Profile /\ r.id = q.id /\ r.name = q.name /\ r.mode = q.mode
         /\ r.keys = q.keys /\ r.links = links /\ r.default = new
    BY <1>6, <2>2, <2>8 DEF Profile
  <2>11. Known(r, AppIds(a))
    BY <1>8, <2>4, <2>5, <2>9, <2>10 DEF Known
  <2>12. e = PutAt(a, i, r)
    <3>1. m.profiles \in Seq(Profile)  BY <1>13, DomainMeans
    <3>2. [m.profiles EXCEPT ![i].links = Append(@, new), ![i].default = new]
            = [m.profiles EXCEPT ![i] = r]
      BY <1>2, <1>9, <3>1, <1>6 DEF Profile, links
    <3>3. e = [m EXCEPT !.apps = Append(m.apps, app),
                 !.profiles = [m.profiles EXCEPT ![i].links = Append(@, new), ![i].default = new]]
      BY <1>13, <2>1 DEF Domain
    <3>4. PutAt(a, i, r) = [m EXCEPT !.apps = Append(m.apps, app),
                 !.profiles = [m.profiles EXCEPT ![i] = r]]
      <4> HIDE DEF r
      <4> QED BY <1>13, <2>6 DEF Domain, PutAt
    <3> QED BY <3>2, <3>3, <3>4
  <2> HIDE DEF r, a
  <2>13. NameIsFree(a, r.name, r.id)
    <3>1. \A j \in DOMAIN d.profiles :
            a.profiles[j].id = d.profiles[j].id /\ a.profiles[j].name = d.profiles[j].name
      BY <1>14, <2>6 DEF SameNames
    <3> QED BY <1>7, <1>9, <2>6, <2>10, <3>1 DEF NameIsFree
  <2>14. Sound(e)  BY <1>2, <1>9, <2>4, <2>6, <2>10, <2>11, <2>12, <2>13, PutSound
  <2>15. /\ e.apps = a.apps /\ e.active = a.active
         /\ DOMAIN e.profiles = DOMAIN a.profiles /\ e.profiles[i] = r
         /\ \A j \in DOMAIN a.profiles : i # j => e.profiles[j] = a.profiles[j]
    BY <1>2, <1>9, <2>6, <2>10, <2>12, PutIs
  <2>16. SameNames(d, e)  BY <1>6, <1>9, <1>14, <2>6, <2>10, <2>15 DEF SameNames
  <2>17. Written(d, e, n, p)
    <3>1. e.profiles[i].links = Append(d.profiles[i].links, AppOf[n])
          /\ e.profiles[i].default = AppOf[n]
      BY <1>6, <2>10, <2>15 DEF links, new
    <3>2. e.apps = Append(d.apps, [id |-> AppOf[n], target |-> p.target])
      BY <2>6, <2>15 DEF app, new
    <3>3. e.profiles[i].mode = p.mode /\ e.profiles[i].keys = WideKeys(p.keys)
      BY <1>6, <2>10, <2>15
    <3>4. e.active = d.active /\ \A j \in DOMAIN d.profiles : j # i => e.profiles[j] = d.profiles[j]
      BY <1>9, <2>6, <2>15
    <3> QED BY <1>17, <2>16, <3>1, <3>2, <3>3, <3>4 DEF Written, i, at
  <2> QED BY <2>14, <2>17 DEF e
<1> QED BY <1>15, <1>16, <1>17

(* Runtime profiles of a domain, of the right types. *)
Runtime(d, r) == DOMAIN r = RuntimeNames(d) /\ \A n \in RuntimeNames(d) : r[n] \in RProfile

(* The equation of Synced. *)
Syncs(d, r, sync) ==
  /\ sync[0] = d
  /\ \A i \in 1..Len(NameOrder) :
       sync[i] = IF NameOrder[i] \in DOMAIN r
                 THEN SyncedProfile(sync[i - 1], NameOrder[i], r[NameOrder[i]])
                 ELSE sync[i - 1]

(* The same ids and names at the same places, in two steps. *)
LEMMA SameNamesJoin ==
  ASSUME NEW d, NEW e, NEW f, SameNames(d, e), SameNames(e, f) PROVE SameNames(d, f)
BY DEF SameNames

(* The way back to the domain, one runtime profile after the other, by name. *)
LEMMA SyncFolds ==
  ASSUME NEW d, Sound(d), NEW r, Runtime(d, r), NEW a
  PROVE  \E sync \in [0..Len(NameOrder) -> {e \in Domain : Sound(e) /\ SameNames(d, e)}] :
           /\ Syncs(d, r, sync)
           /\ Synced(d, r, a) = [sync[Len(NameOrder)] EXCEPT !.active =
                                   IF a = "basic" THEN Normal ELSE a]
<1> DEFINE N == Len(NameOrder)
           V == {e \in Domain : Sound(e) /\ SameNames(d, e)}
           On(x, i) == IF NameOrder[i] \in DOMAIN r
                       THEN SyncedProfile(x, NameOrder[i], r[NameOrder[i]]) ELSE x
           step == [p \in (1..N) \X V |-> On(p[2], p[1])]
           Next1(f, i) == IF i = 0 THEN d ELSE On(f[i - 1], i)
           F == CHOOSE f : f = [i \in 0..N |-> Next1(f, i)]
<1>1. N \in Nat /\ d \in V
  <2>1. NameOrder \in Seq(RName)  BY NamesAssumption
  <2> QED BY <2>1 DEF Sound, SameNames
<1>2. ASSUME NEW i \in 1..N, NEW x \in V PROVE On(x, i) \in V
  <2>1. Sound(x) /\ SameNames(d, x)  OBVIOUS
  <2>2. CASE NameOrder[i] \in DOMAIN r
    <3> DEFINE n == NameOrder[i]
               e == SyncedProfile(x, n, r[n])
    <3>1. d.profiles \in Seq(Profile) /\ x.profiles \in Seq(Profile)
      BY DomainMeans DEF Sound
    <3>2. n \in RuntimeNames(d) /\ r[n] \in RProfile  BY <2>2 DEF Runtime
    <3>3. n \in RuntimeNames(x)  BY <2>1, <3>1, <3>2, NamedAlike
    <3> HIDE DEF e, n
    <3>4. Sound(e) /\ Written(x, e, n, r[n])  BY <2>1, <3>2, <3>3, SyncedProfileIs DEF e
    <3>5. SameNames(x, e)  BY <3>4 DEF Written
    <3>6. SameNames(d, e) /\ e \in Domain  BY <2>1, <3>4, <3>5, SameNamesJoin DEF Sound
    <3>7. On(x, i) = e  BY <2>2 DEF e, n
    <3> HIDE DEF On
    <3> QED BY <3>4, <3>6, <3>7
  <2>3. CASE NameOrder[i] \notin DOMAIN r  BY <2>3
  <2> QED BY <2>2, <2>3
<1> HIDE DEF On
<1>3. \A i \in 1..N : \A x \in V : step[<<i, x>>] = On(x, i)
  <2> HIDE DEF V
  <2>1. \A i \in 1..N : \A x \in V : <<i, x>> \in (1..N) \X V /\ <<i, x>>[1] = i /\ <<i, x>>[2] = x
    OBVIOUS
  <2> QED BY <2>1
<1> HIDE DEF step
<1>4. PICK f \in [0..N -> V] : f[0] = d /\ \A i \in 1..N : f[i] = step[<<i, f[i - 1]>>]
  <2> HIDE DEF N, V
  <2>1. \A i \in 1..N : \A x \in V : step[<<i, x>>] \in V  BY <1>2, <1>3
  <2>2. Folded(N, V, d, step)  BY <1>1, <2>1, Iterates
  <2> QED BY <2>2 DEF Folded
<1>5. \A i \in 1..N : i \in 0..N /\ i # 0 /\ i - 1 \in 0..N  BY <1>1
<1>6. \A i \in 0..N : i = 0 \/ i \in 1..N  BY <1>1
<1> HIDE DEF V
<1>7. \A i \in 1..N : f[i] = On(f[i - 1], i)  BY <1>3, <1>4, <1>5
<1>8. f = [i \in 0..N |-> Next1(f, i)]  BY <1>4, <1>6, <1>7
<1>9. F = [i \in 0..N |-> Next1(F, i)]
  <2> HIDE DEF Next1
  <2> QED BY <1>8
<1>10. Synced(d, r, a) = [F[N] EXCEPT !.active = IF a = "basic" THEN Normal ELSE a]
  BY DEF Synced, On
<1> HIDE DEF F
<1>11. F[0] = d  BY <1>1, <1>9
<1>12. \A i \in 1..N : F[i] = On(F[i - 1], i)  BY <1>5, <1>9
<1>13. \A k \in 0..N : F[k] \in V
  <2> DEFINE T == {j \in 0..N : F[j] \in V}
  <2>1. 0 \in T  BY <1>1, <1>11
  <2>2. \A k \in 1..N : k - 1 \in T => k \in T  BY <1>2, <1>5, <1>12
  <2> HIDE DEF T
  <2>3. \A k \in 0..N : k \in T  BY <1>1, <2>1, <2>2, Upwards
  <2> QED BY <2>3 DEF T
<1>14. F \in [0..N -> V]
  <2> HIDE DEF Next1
  <2> QED BY <1>9, <1>13
<1>15. Syncs(d, r, F)  BY <1>11, <1>12 DEF Syncs, On
<1> QED BY <1>10, <1>14, <1>15 DEF V

(* SyncRuntimeToDomain keeps a domain sound, with the same profiles by id  *)
(* and name.                                                               *)
LEMMA SyncedSound ==
  ASSUME NEW d, Sound(d), NEW r, Runtime(d, r), NEW a \in RName
  PROVE  /\ Sound(Synced(d, r, a)) /\ SameNames(d, Synced(d, r, a))
         /\ RuntimeNames(Synced(d, r, a)) = RuntimeNames(d)
<1> DEFINE N == Len(NameOrder)
           V == {e \in Domain : Sound(e) /\ SameNames(d, e)}
           act == IF a = "basic" THEN Normal ELSE a
           e == Synced(d, r, a)
<1>1. PICK sync \in [0..N -> V] : e = [sync[N] EXCEPT !.active = act]
  BY SyncFolds
<1>2. N \in 0..N  BY NamesAssumption
<1>3. sync[N] \in Domain /\ Sound(sync[N]) /\ SameNames(d, sync[N])  BY <1>2
<1>4. act \in Id \cup RName  BY NamesAssumption
<1> HIDE DEF e, act, V
<1>5. Sound(e)  BY <1>1, <1>3, <1>4, WithActive
<1>6. e.profiles = sync[N].profiles  BY <1>1, <1>3 DEF Domain
<1>7. SameNames(d, e)  BY <1>3, <1>6 DEF SameNames
<1>8. d.profiles \in Seq(Profile) /\ e.profiles \in Seq(Profile)  BY <1>5, DomainMeans DEF Sound
<1>9. RuntimeNames(e) = RuntimeNames(d)  BY <1>7, <1>8, NamedAlike
<1> QED BY <1>5, <1>7, <1>9 DEF e

(* The runtime names of a domain are runtime names. *)
LEMMA RuntimeNamesTyped ==
  ASSUME NEW d \in Domain PROVE RuntimeNames(d) \subseteq RName
<1> SUFFICES ASSUME NEW i \in DOMAIN d.profiles PROVE RuntimeName(d.profiles[i]) \in RName
  BY DEF RuntimeNames
<1>1. d.profiles[i] \in Profile  BY DomainMeans
<1> QED BY <1>1 DEF Profile, RuntimeName, RName

(* ProjectDomainToRuntime makes runtime profiles, one for each runtime     *)
(* name, and names one of them.                                            *)
LEMMA ProjectedTyped ==
  ASSUME NEW d \in Domain
  PROVE  Runtime(d, Projected(d)) /\ ProjectedActive(d) \in RName
<1>1. DOMAIN Projected(d) = RuntimeNames(d)  BY DEF Projected
<1>2. ASSUME NEW n \in RuntimeNames(d) PROVE Projected(d)[n] \in RProfile
  <2> DEFINE p == d.profiles[LastNamed(d, n)]
             k == AppIndex(d, Aim(p))
  <2>1. d.profiles \in Seq(Profile) /\ d.apps \in Seq(Application)  BY DomainMeans
  <2>2. p \in Profile  BY <2>1, NamedFound, DomainMeans
  <2>3. k # 0 => d.apps[k] \in Application  BY <2>1, AppFound, DomainMeans
  <2>4. Projected(d)[n] = ProjectedProfile(d, p)  BY DEF Projected
  <2> HIDE DEF p
  <2>5. p.mode \in Mode /\ p.keys \in SUBSET Key  BY <2>2 DEF Profile
  <2>6. k # 0 => d.apps[k].target \in Target \cup {None}  BY <2>3 DEF Application
  <2>7. ProjectedProfile(d, p) =
          [mode |-> p.mode, target |-> IF k = 0 THEN None ELSE d.apps[k].target, keys |-> p.keys]
    BY DEF ProjectedProfile
  <2> HIDE DEF k
  <2> QED BY <2>4, <2>5, <2>6, <2>7 DEF RProfile
<1>3. ProjectedActive(d) \in RName
  <2>1. d.active \in Ids(d) => ProfileOf(d, d.active) \in Profile  BY ProfileFound
  <2> QED BY <2>1 DEF ProjectedActive, Profile, RuntimeName, RName
<1> QED BY <1>1, <1>2, <1>3 DEF Runtime

(* A file that loads: its profiles are typed, and two of one name are both *)
(* taken for the built-in one.                                             *)
FileIsGood(f) ==
  /\ f.apps \in Seq(Application)
  /\ \A fp \in f.profiles :
       fp.name \in RName /\ fp.mode \in Mode /\ fp.builtIn \in BOOLEAN /\ fp.keys \in SUBSET Key
  /\ \A fp, gp \in f.profiles :
       ~ LooksNormal(fp) /\ ~ LooksNormal(gp) /\ Lower[fp.name] = Lower[gp.name] => fp = gp

(* What Append does to places and elements. *)
LEMMA AppendIs ==
  ASSUME NEW X, NEW s \in Seq(X), NEW x \in X
  PROVE  LET t == Append(s, x) IN
         /\ t \in Seq(X) /\ Len(s) \in Nat /\ DOMAIN s = 1..Len(s)
         /\ DOMAIN t = 1..(Len(s) + 1) /\ Len(s) + 1 \in DOMAIN t /\ t[Len(s) + 1] = x
         /\ \A i \in DOMAIN s : i \in DOMAIN t /\ t[i] = s[i]
         /\ \A i \in DOMAIN t : i \in DOMAIN s \/ i = Len(s) + 1
<1>1. Append(s, x) \in Seq(X) /\ Len(s) \in Nat /\ DOMAIN s = 1..Len(s)  OBVIOUS
<1>2. DOMAIN Append(s, x) = 1..(Len(s) + 1)  OBVIOUS
<1>3. Append(s, x)[Len(s) + 1] = x /\ \A i \in 1..Len(s) : Append(s, x)[i] = s[i]  OBVIOUS
<1>4. /\ Len(s) + 1 \in 1..(Len(s) + 1)
      /\ \A i \in 1..(Len(s) + 1) : i \in 1..Len(s) \/ i = Len(s) + 1
      /\ \A i \in 1..Len(s) : i \in 1..(Len(s) + 1)
  OBVIOUS
<1> QED BY <1>1, <1>2, <1>3, <1>4

(* The file's profile with the k-th id becomes one of its own, or part of  *)
(* the built-in one.                                                       *)
Nth(f, k)  == FileProfileOf(f, IdOrder[k])
IsIn(f, k) == \E fp \in f.profiles : fp.id = IdOrder[k]
Own(f, k)  == IsIn(f, k) /\ ~ LooksNormal(Nth(f, k))
Norm(f, k) == IsIn(f, k) /\ LooksNormal(Nth(f, k))

(* What such a profile is loaded as. *)
Element(f, k) ==
  LoadedProfile(f, Template(Nth(f, k).id, Nth(f, k).name, Nth(f, k).mode), Nth(f, k))

(* The profile of the file with the k-th id is one of the file, with that  *)
(* id.                                                                     *)
LEMMA NthIs ==
  ASSUME NEW f, NEW k, IsIn(f, k)
  PROVE  Nth(f, k) \in f.profiles /\ Nth(f, k).id = IdOrder[k]
BY DEF Nth, IsIn, FileProfileOf

(* What ConfigToDomain adds to a profile: the mappings, and the            *)
(* application if the file has it.                                         *)
LEMMA LoadedProfileIs ==
  ASSUME NEW f, FileIsGood(f), NEW fp \in f.profiles, NEW p \in Profile, Known(p, AppIds(f))
  PROVE  LET q == LoadedProfile(f, p, fp) IN
         /\ q \in Profile /\ Known(q, AppIds(f))
         /\ q.id = p.id /\ q.name = p.name /\ q.mode = p.mode /\ q.keys = p.keys \cup fp.keys
         /\ fp.app \in AppIds(f) => q.default = fp.app
         /\ fp.app \notin AppIds(f) => q.default = p.default /\ q.links = p.links
<1> DEFINE q == LoadedProfile(f, p, fp)
           linked == fp.app \in AppIds(f)
           links == IF linked THEN Append(p.links, fp.app) ELSE p.links
           default == IF linked THEN fp.app ELSE p.default
           keys == p.keys \cup fp.keys
<1>1. q = [p EXCEPT !.keys = keys, !.links = links, !.default = default]
  BY DEF LoadedProfile, AppIds
<1>2. p.links \in Seq(AppId) /\ p.default \in AppId \cup {None} /\ p.keys \in SUBSET Key
  BY DEF Profile
<1>3. linked => fp.app \in AppId
  <2>1. f.apps \in Seq(Application)  BY DEF FileIsGood
  <2>2. \A i \in DOMAIN f.apps : f.apps[i] \in Application  BY <2>1
  <2>3. linked => \E i \in DOMAIN f.apps : f.apps[i].id = fp.app  BY DEF AppIds
  <2> QED BY <2>2, <2>3 DEF Application
<1>4. keys \in SUBSET Key  BY <1>2 DEF FileIsGood
<1>5. links \in Seq(AppId) /\ default \in AppId \cup {None}  BY <1>2, <1>3
<1>6. /\ linked => ToSet(links) = ToSet(p.links) \cup {fp.app}
      /\ ~ linked => ToSet(links) = ToSet(p.links)
  <2>1. CASE linked
    <3>1. links = Append(p.links, fp.app) /\ fp.app \in AppId  BY <1>3, <2>1
    <3> HIDE DEF links
    <3>2. /\ links \in Seq(AppId) /\ Len(p.links) + 1 \in DOMAIN links
          /\ links[Len(p.links) + 1] = fp.app
          /\ \A i \in DOMAIN p.links : i \in DOMAIN links /\ links[i] = p.links[i]
          /\ \A i \in DOMAIN links : i \in DOMAIN p.links \/ i = Len(p.links) + 1
      BY <1>2, <3>1, AppendIs
    <3> QED BY <2>1, <3>2 DEF ToSet
  <2>2. CASE ~ linked  BY <2>2
  <2> QED BY <2>1, <2>2
<1>7. /\ linked => default = fp.app
      /\ ~ linked => default = p.default /\ links = p.links
  OBVIOUS
<1>8. linked <=> fp.app \in AppIds(f)  OBVIOUS
<1> HIDE DEF q, links, default, keys, linked
<1>9. /\ q \in Profile /\ q.id = p.id /\ q.name = p.name /\ q.mode = p.mode
      /\ q.keys = keys /\ q.links = links /\ q.default = default
  BY <1>1, <1>4, <1>5 DEF Profile
<1>10. Known(q, AppIds(f))  BY <1>6, <1>7, <1>8, <1>9 DEF Known
<1> QED BY <1>7, <1>8, <1>9, <1>10 DEF q, keys

(* A profile of its own bears the id, the name and the mode of the file. *)
LEMMA ElementIs ==
  ASSUME NEW f, FileIsGood(f), NEW k \in 1..Len(IdOrder), Own(f, k)
  PROVE  LET p == Element(f, k) IN
         /\ p \in Profile /\ Known(p, AppIds(f))
         /\ p.id = IdOrder[k] /\ p.id # Normal
         /\ p.name = Nth(f, k).name /\ ~ LikeBuiltIn(p.name)
         /\ p.mode = Nth(f, k).mode /\ p.keys = Nth(f, k).keys
         /\ Nth(f, k).app \in AppIds(f) => p.default = Nth(f, k).app
         /\ Nth(f, k).app \notin AppIds(f) => p.default = None /\ p.links = <<>>
<1> DEFINE fp == Nth(f, k)
           t == Template(fp.id, fp.name, fp.mode)
           p == Element(f, k)
<1>1. fp \in f.profiles /\ fp.id = IdOrder[k] /\ ~ LooksNormal(fp)  BY NthIs DEF Own
<1>2. IdOrder[k] \in (Id \cup {"basic"}) \ {Normal}
  <2>1. IdOrder \in Seq((Id \cup {"basic"}) \ {Normal})  BY FileAssumption
  <2> QED BY <2>1
<1>3. fp.id \in Id /\ fp.id # Normal /\ ~ LikeBuiltIn(fp.name)  BY <1>1, <1>2 DEF LooksNormal
<1>4. fp.name \in Name /\ fp.mode \in Mode
  <2>1. LikeBuiltIn("basic")  BY NamesAssumption DEF LikeBuiltIn
  <2>2. fp.name \in RName /\ fp.mode \in Mode  BY <1>1 DEF FileIsGood
  <2> QED BY <1>3, <2>1, <2>2 DEF RName
<1> HIDE DEF fp
<1>5. /\ t \in Profile /\ t.id = fp.id /\ t.name = fp.name /\ t.mode = fp.mode
      /\ t.default = None /\ t.links = <<>> /\ t.keys = {} /\ Known(t, {})
  BY <1>3, <1>4, NewProfileIs
<1>6. Known(t, AppIds(f))  BY <1>5 DEF Known
<1>7. p = LoadedProfile(f, t, fp)  BY DEF Element, fp
<1> HIDE DEF t, p
<1>8. /\ p \in Profile /\ Known(p, AppIds(f))
      /\ p.id = t.id /\ p.name = t.name /\ p.mode = t.mode /\ p.keys = t.keys \cup fp.keys
      /\ fp.app \in AppIds(f) => p.default = fp.app
      /\ fp.app \notin AppIds(f) => p.default = t.default /\ p.links = t.links
  <2>1. fp \in f.profiles /\ t \in Profile /\ Known(t, AppIds(f))  BY <1>1, <1>5, <1>6
  <2>2. LET q == LoadedProfile(f, t, fp) IN
        /\ q \in Profile /\ Known(q, AppIds(f))
        /\ q.id = t.id /\ q.name = t.name /\ q.mode = t.mode /\ q.keys = t.keys \cup fp.keys
        /\ fp.app \in AppIds(f) => q.default = fp.app
        /\ fp.app \notin AppIds(f) => q.default = t.default /\ q.links = t.links
    BY ONLY <2>1, LoadedProfileIs, FileIsGood(f)
  <2> QED BY <1>7, <2>2
<1> QED BY <1>1, <1>3, <1>5, <1>8 DEF p, fp

(* The built-in profile. *)
IsBuiltIn(p) == p.id = Normal /\ p.name = "Normal" /\ p.mode = "basic"

(* What the profiles ps read up to the i-th id are. *)
Loading(f, ps, i) ==
  /\ ps \in Seq(Profile)
  /\ \A j \in DOMAIN ps : Known(ps[j], AppIds(f))
  /\ \A j \in DOMAIN ps : IsBuiltIn(ps[j]) \/ \E k \in 1..i : Own(f, k) /\ ps[j] = Element(f, k)
  /\ \A j, k \in DOMAIN ps : j # k => Apart(ps[j], ps[k])
  /\ \A k \in 1..i : Own(f, k) => \E j \in DOMAIN ps : ps[j] = Element(f, k)

(* The built-in one is of one profile of the file. *)
LoadingNormal(f, ps, i) ==
  /\ (\A k \in 1..i : ~ Norm(f, k)) => \A j \in DOMAIN ps : ps[j].id # Normal
  /\ \A k \in 1..i : Norm(f, k) /\ (\A l \in 1..i : Norm(f, l) => l = k) =>
       \E j \in DOMAIN ps : ps[j] = LoadedProfile(f, NormalProfile, Nth(f, k))

(* The built-in profile is a profile, and links nothing. *)
LEMMA BuiltInTyped == NormalProfile \in Profile /\ IsBuiltIn(NormalProfile)
                      /\ \A ids : Known(NormalProfile, ids)
<1>1. ToSet(<<>>) = {}  BY DEF ToSet
<1>2. Normal \in Id  BY NamesAssumption
<1>3. NormalProfile \in Profile /\ IsBuiltIn(NormalProfile)
  BY <1>2, TemplateIs DEF Profile, IsBuiltIn
<1>4. \A ids : Known(NormalProfile, ids)  BY <1>1, TemplateIs DEF Known
<1> QED BY <1>3, <1>4

(* One is apart from those of other ids, and from the built-in one. *)
LEMMA OwnApart ==
  ASSUME NEW f, FileIsGood(f), NEW k \in 1..Len(IdOrder), Own(f, k), NEW p,
         \/ IsBuiltIn(p)
         \/ \E l \in 1..Len(IdOrder) : l # k /\ Own(f, l) /\ p = Element(f, l)
  PROVE  Apart(Element(f, k), p) /\ Apart(p, Element(f, k))
<1> DEFINE e == Element(f, k)
<1>1. e.id = IdOrder[k] /\ e.id # Normal /\ e.name = Nth(f, k).name /\ ~ LikeBuiltIn(e.name)
  BY ElementIs
<1>2. CASE IsBuiltIn(p)
  BY <1>1, <1>2, NamesAssumption DEF IsBuiltIn, Apart, LikeBuiltIn
<1>3. ASSUME NEW l \in 1..Len(IdOrder), l # k, Own(f, l), p = Element(f, l)
      PROVE  Apart(e, p) /\ Apart(p, e)
  <2>1. p.id = IdOrder[l] /\ p.name = Nth(f, l).name  BY <1>3, ElementIs
  <2>2. IdOrder[l] # IdOrder[k]
    <3>1. IsInjective(IdOrder) /\ DOMAIN IdOrder = 1..Len(IdOrder)  BY FileAssumption
    <3> QED BY <1>3, <3>1 DEF IsInjective
  <2>3. /\ Nth(f, k) \in f.profiles /\ Nth(f, k).id = IdOrder[k] /\ ~ LooksNormal(Nth(f, k))
        /\ Nth(f, l) \in f.profiles /\ Nth(f, l).id = IdOrder[l] /\ ~ LooksNormal(Nth(f, l))
    BY <1>3, NthIs DEF Own
  <2>4. Lower[Nth(f, k).name] # Lower[Nth(f, l).name]  BY <2>2, <2>3 DEF FileIsGood
  <2> QED BY <1>1, <2>1, <2>2, <2>4 DEF Apart
<1> QED BY <1>2, <1>3

(* The place of the built-in profile among those loaded so far. *)
LEMMA NormalFound ==
  ASSUME NEW X, NEW ps \in Seq(X)
  PROVE  LET normal == SelectInSeq(ps, LAMBDA p : p.id = Normal) IN
         /\ normal = 0 => \A j \in DOMAIN ps : ps[j].id # Normal
         /\ normal # 0 => normal \in DOMAIN ps /\ ps[normal].id = Normal
<1> DEFINE n == Len(ps)
           I == {i \in 1..n : ps[i].id = Normal}
           normal == SelectInSeq(ps, LAMBDA p : p.id = Normal)
<1>1. n \in Nat /\ DOMAIN ps = 1..n  OBVIOUS
<1>2. normal = IF I # {} THEN Min(I) ELSE 0  BY DEF SelectInSeq
<1>3. I \subseteq 1..n  OBVIOUS
<1> HIDE DEF n
<1>4. I # {} => Min(I) \in I
  <2> HIDE DEF I
  <2> QED BY <1>1, <1>3, EndsOf
<1>5. I # {} => Min(I) # 0  BY <1>1, <1>3, <1>4
<1> HIDE DEF normal
<1>6. normal = 0 => \A j \in DOMAIN ps : ps[j].id # Normal  BY <1>1, <1>2, <1>5
<1>7. normal # 0 => normal \in DOMAIN ps /\ ps[normal].id = Normal  BY <1>1, <1>2, <1>4
<1> QED BY <1>6, <1>7 DEF normal

(* One more profile of the file is one of its own. *)
LEMMA OwnLoaded ==
  ASSUME NEW f, FileIsGood(f), NEW i \in 1..Len(IdOrder), NEW ps,
         Loading(f, ps, i - 1), LoadingNormal(f, ps, i - 1), Own(f, i),
         NEW qs, qs = Append(ps, Element(f, i))
  PROVE  Loading(f, qs, i) /\ LoadingNormal(f, qs, i)
<1> DEFINE n == Len(ps)
           e == Element(f, i)
<1>1. /\ e \in Profile /\ Known(e, AppIds(f)) /\ e.id # Normal  BY ElementIs
<1>2. ps \in Seq(Profile)  BY DEF Loading
<1> HIDE DEF e
<1>3. /\ qs \in Seq(Profile) /\ n \in Nat /\ n + 1 \in DOMAIN qs /\ qs[n + 1] = e
      /\ \A j \in DOMAIN ps : j \in DOMAIN qs /\ qs[j] = ps[j]
      /\ \A j \in DOMAIN qs : j \in DOMAIN ps \/ j = n + 1
  BY <1>1, <1>2, AppendIs DEF e
<1> HIDE DEF n
<1>4. \A k \in 1..i : k = i \/ k \in 1..(i - 1)  OBVIOUS
<1>5. i \in 1..i /\ \A k \in 1..(i - 1) : k \in 1..i /\ k # i /\ k \in 1..Len(IdOrder)
  <2>1. Len(IdOrder) \in Nat  BY FileAssumption
  <2> QED BY <2>1
<1>6. \A j \in DOMAIN ps : IsBuiltIn(ps[j]) \/ \E k \in 1..(i - 1) : Own(f, k) /\ ps[j] = Element(f, k)
  BY DEF Loading
<1>7. \A j \in DOMAIN ps : Apart(e, ps[j]) /\ Apart(ps[j], e)
  BY <1>5, <1>6, OwnApart DEF e
<1>8. \A j \in DOMAIN qs : Known(qs[j], AppIds(f))  BY <1>1, <1>3 DEF Loading
<1>9. \A j \in DOMAIN qs : IsBuiltIn(qs[j]) \/ \E k \in 1..i : Own(f, k) /\ qs[j] = Element(f, k)
  BY <1>3, <1>5, <1>6 DEF e
<1>10. \A j, k \in DOMAIN qs : j # k => Apart(qs[j], qs[k])  BY <1>3, <1>7 DEF Loading
<1>11. \A k \in 1..i : Own(f, k) => \E j \in DOMAIN qs : qs[j] = Element(f, k)
  BY <1>3, <1>4 DEF Loading, e
<1>12. Loading(f, qs, i)  BY <1>3, <1>8, <1>9, <1>10, <1>11 DEF Loading
<1>13. ~ Norm(f, i)  BY DEF Own, Norm
<1>14. (\A k \in 1..i : ~ Norm(f, k)) => \A j \in DOMAIN qs : qs[j].id # Normal
  BY <1>1, <1>3, <1>5 DEF LoadingNormal
<1>15. ASSUME NEW k \in 1..i, Norm(f, k), \A l \in 1..i : Norm(f, l) => l = k
       PROVE  \E j \in DOMAIN qs : qs[j] = LoadedProfile(f, NormalProfile, Nth(f, k))
  <2>1. k \in 1..(i - 1)  BY <1>4, <1>13, <1>15
  <2>2. \E j \in DOMAIN ps : ps[j] = LoadedProfile(f, NormalProfile, Nth(f, k))
    BY <1>5, <1>15, <2>1 DEF LoadingNormal
  <2> QED BY <1>3, <2>2
<1>16. LoadingNormal(f, qs, i)  BY <1>14, <1>15 DEF LoadingNormal
<1> QED BY <1>12, <1>16

(* Or part of the built-in one. *)
LEMMA NormLoaded ==
  ASSUME NEW f, FileIsGood(f), NEW i \in 1..Len(IdOrder), NEW ps,
         Loading(f, ps, i - 1), LoadingNormal(f, ps, i - 1), Norm(f, i),
         NEW qs, qs = WithLoaded(f, ps, Nth(f, i))
  PROVE  Loading(f, qs, i) /\ LoadingNormal(f, qs, i)
<1> DEFINE n == Len(ps)
           normal == SelectInSeq(ps, LAMBDA p : p.id = Normal)
           fp == Nth(f, i)
           New(p) == LoadedProfile(f, p, fp)
<1>1. ps \in Seq(Profile) /\ \A j \in DOMAIN ps : ps[j] \in Profile  BY DEF Loading
<1>2. fp \in f.profiles /\ LooksNormal(fp)  BY NthIs DEF Norm
<1>3. /\ normal = 0 => \A j \in DOMAIN ps : ps[j].id # Normal
      /\ normal # 0 => normal \in DOMAIN ps /\ ps[normal].id = Normal
  BY <1>1, NormalFound
<1>4. qs = IF normal = 0 THEN Append(ps, New(NormalProfile))
           ELSE [ps EXCEPT ![normal] = New(ps[normal])]
  BY <1>2 DEF WithLoaded
<1> HIDE DEF normal, fp, New
<1>5. \A k \in 1..i : k = i \/ k \in 1..(i - 1)  OBVIOUS
<1>6. i \in 1..i /\ \A k \in 1..(i - 1) : k \in 1..i /\ k # i /\ k \in 1..Len(IdOrder)
  <2>1. Len(IdOrder) \in Nat  BY FileAssumption
  <2> QED BY <2>1
<1>7. \A j \in DOMAIN ps : IsBuiltIn(ps[j]) \/ \E k \in 1..(i - 1) : Own(f, k) /\ ps[j] = Element(f, k)
  BY DEF Loading
<1>8. \A k \in 1..(i - 1) : Own(f, k) => Element(f, k).id # Normal  BY <1>6, ElementIs
<1>9. ~ Own(f, i)  BY DEF Own, Norm
<1>10. ASSUME NEW p \in Profile, IsBuiltIn(p), Known(p, AppIds(f))
       PROVE  New(p) \in Profile /\ IsBuiltIn(New(p)) /\ Known(New(p), AppIds(f))
  BY <1>2, <1>10, LoadedProfileIs DEF IsBuiltIn, New
<1>11. CASE normal = 0
  <2> DEFINE e == New(NormalProfile)
  <2>1. e \in Profile /\ IsBuiltIn(e) /\ Known(e, AppIds(f))  BY <1>10, BuiltInTyped
  <2> HIDE DEF e
  <2>2. /\ qs \in Seq(Profile) /\ n \in Nat /\ n + 1 \in DOMAIN qs /\ qs[n + 1] = e
        /\ \A j \in DOMAIN ps : j \in DOMAIN qs /\ qs[j] = ps[j]
        /\ \A j \in DOMAIN qs : j \in DOMAIN ps \/ j = n + 1
    BY <1>1, <1>4, <1>11, <2>1, AppendIs DEF e
  <2> HIDE DEF n
  <2>3. \A j \in DOMAIN ps : \E k \in 1..(i - 1) : Own(f, k) /\ ps[j] = Element(f, k)
    BY <1>3, <1>7, <1>11 DEF IsBuiltIn
  <2>4. \A j \in DOMAIN ps : Apart(e, ps[j]) /\ Apart(ps[j], e)
    BY <1>6, <2>1, <2>3, OwnApart
  <2>5. \A j \in DOMAIN qs : Known(qs[j], AppIds(f))  BY <2>1, <2>2 DEF Loading
  <2>6. \A j \in DOMAIN qs : IsBuiltIn(qs[j]) \/ \E k \in 1..i : Own(f, k) /\ qs[j] = Element(f, k)
    BY <1>6, <2>1, <2>2, <2>3
  <2>7. \A j, k \in DOMAIN qs : j # k => Apart(qs[j], qs[k])  BY <2>2, <2>4 DEF Loading
  <2>8. \A k \in 1..i : Own(f, k) => \E j \in DOMAIN qs : qs[j] = Element(f, k)
    BY <1>5, <1>9, <2>2 DEF Loading
  <2>9. Loading(f, qs, i)  BY <2>2, <2>5, <2>6, <2>7, <2>8 DEF Loading
  <2>10. ASSUME NEW k \in 1..i, Norm(f, k), \A l \in 1..i : Norm(f, l) => l = k
         PROVE  \E j \in DOMAIN qs : qs[j] = LoadedProfile(f, NormalProfile, Nth(f, k))
    <3>1. k = i  BY <1>6, <2>10
    <3> QED BY <2>2, <3>1 DEF e, New, fp
  <2>11. LoadingNormal(f, qs, i)  BY <1>6, <2>10 DEF LoadingNormal
  <2> QED BY <2>9, <2>11
<1>12. CASE normal # 0
  <2> DEFINE e == New(ps[normal])
  <2>1. normal \in DOMAIN ps /\ ps[normal].id = Normal  BY <1>3, <1>12
  <2>2. IsBuiltIn(ps[normal]) /\ Known(ps[normal], AppIds(f))
    BY <1>7, <1>8, <2>1 DEF Loading
  <2>3. e \in Profile /\ IsBuiltIn(e) /\ Known(e, AppIds(f))  BY <1>1, <1>10, <2>1, <2>2
  <2> HIDE DEF e
  <2>4. /\ qs \in Seq(Profile) /\ DOMAIN qs = DOMAIN ps /\ qs[normal] = e
        /\ \A j \in DOMAIN ps : j # normal => qs[j] = ps[j]
    BY <1>1, <1>4, <1>12, <2>1, <2>3 DEF e
  <2>5. \A j \in DOMAIN ps : j # normal => Apart(e, ps[j]) /\ Apart(ps[j], e)
    <3>1. e.id = ps[normal].id /\ e.name = ps[normal].name  BY <2>2, <2>3 DEF IsBuiltIn
    <3> QED BY <2>1, <3>1 DEF Loading, Apart
  <2>6. \A j \in DOMAIN qs : Known(qs[j], AppIds(f))  BY <2>3, <2>4 DEF Loading
  <2>7. \A j \in DOMAIN qs : IsBuiltIn(qs[j]) \/ \E k \in 1..i : Own(f, k) /\ qs[j] = Element(f, k)
    BY <1>6, <1>7, <2>3, <2>4
  <2>8. \A j, k \in DOMAIN qs : j # k => Apart(qs[j], qs[k])  BY <2>4, <2>5 DEF Loading
  <2>9. ASSUME NEW k \in 1..i, Own(f, k) PROVE \E j \in DOMAIN qs : qs[j] = Element(f, k)
    <3>1. k \in 1..(i - 1)  BY <1>5, <1>9, <2>9
    <3>2. PICK j \in DOMAIN ps : ps[j] = Element(f, k)  BY <2>9, <3>1 DEF Loading
    <3>3. j # normal  BY <1>8, <2>1, <2>9, <3>1, <3>2
    <3> QED BY <2>4, <3>2, <3>3
  <2>10. Loading(f, qs, i)  BY <2>4, <2>6, <2>7, <2>8, <2>9 DEF Loading
  <2>11. ASSUME NEW k \in 1..i, Norm(f, k), \A l \in 1..i : Norm(f, l) => l = k
         PROVE  FALSE
    <3>1. k = i  BY <1>6, <2>11
    <3>2. \A l \in 1..(i - 1) : ~ Norm(f, l)  BY <1>6, <2>11, <3>1
    <3> QED BY <2>1, <3>2 DEF LoadingNormal
  <2>12. LoadingNormal(f, qs, i)  BY <1>6, <2>11 DEF LoadingNormal
  <2> QED BY <2>10, <2>12
<1> QED BY <1>11, <1>12

(* Nothing of that id. *)
LEMMA NoneLoaded ==
  ASSUME NEW f, NEW i \in 1..Len(IdOrder), NEW ps,
         Loading(f, ps, i - 1), LoadingNormal(f, ps, i - 1), ~ IsIn(f, i)
  PROVE  Loading(f, ps, i) /\ LoadingNormal(f, ps, i)
<1>1. \A k \in 1..i : k = i \/ k \in 1..(i - 1)  OBVIOUS
<1>2. \A k \in 1..(i - 1) : k \in 1..i  OBVIOUS
<1>3. ~ Own(f, i) /\ ~ Norm(f, i)  BY DEF Own, Norm
<1>4. Loading(f, ps, i)
  <2>1. \A j \in DOMAIN ps : IsBuiltIn(ps[j]) \/ \E k \in 1..i : Own(f, k) /\ ps[j] = Element(f, k)
    BY <1>2 DEF Loading
  <2>2. \A k \in 1..i : Own(f, k) => \E j \in DOMAIN ps : ps[j] = Element(f, k)
    BY <1>1, <1>3 DEF Loading
  <2> QED BY <2>1, <2>2 DEF Loading
<1>5. LoadingNormal(f, ps, i)
  <2>1. (\A k \in 1..i : ~ Norm(f, k)) => \A j \in DOMAIN ps : ps[j].id # Normal
    BY <1>2 DEF LoadingNormal
  <2>2. ASSUME NEW k \in 1..i, Norm(f, k), \A l \in 1..i : Norm(f, l) => l = k
        PROVE  \E j \in DOMAIN ps : ps[j] = LoadedProfile(f, NormalProfile, Nth(f, k))
    <3>1. k \in 1..(i - 1)  BY <1>1, <1>3, <2>2
    <3> QED BY <1>2, <2>2, <3>1 DEF LoadingNormal
  <2> QED BY <2>1, <2>2 DEF LoadingNormal
<1> QED BY <1>4, <1>5

(* One step of reading. *)
ReadUpTo(f, ps, i) == IF IsIn(f, i) THEN WithLoaded(f, ps, Nth(f, i)) ELSE ps

(* One more id of the file, read. *)
LEMMA ReadStep ==
  ASSUME NEW f, FileIsGood(f), NEW i \in 1..Len(IdOrder), NEW ps,
         Loading(f, ps, i - 1), LoadingNormal(f, ps, i - 1)
  PROVE  Loading(f, ReadUpTo(f, ps, i), i) /\ LoadingNormal(f, ReadUpTo(f, ps, i), i)
<1> DEFINE fp == Nth(f, i)
           qs == ReadUpTo(f, ps, i)
<1>1. CASE ~ IsIn(f, i)  BY <1>1, NoneLoaded DEF ReadUpTo
<1>2. CASE Norm(f, i)
  <2>1. qs = WithLoaded(f, ps, fp)  BY <1>2 DEF Norm, ReadUpTo
  <2> HIDE DEF qs
  <2>2. Loading(f, qs, i) /\ LoadingNormal(f, qs, i)  BY <1>2, <2>1, NormLoaded
  <2> QED BY <2>2 DEF qs
<1>3. CASE Own(f, i)
  <2>1. qs = WithLoaded(f, ps, fp) /\ ~ LooksNormal(fp)  BY <1>3 DEF Own, ReadUpTo
  <2>2. qs = Append(ps, LoadedProfile(f, Template(fp.id, fp.name, fp.mode), fp))
    <3> HIDE DEF qs, fp
    <3> QED BY <2>1 DEF WithLoaded, Template
  <2>3. qs = Append(ps, Element(f, i))  BY <2>2 DEF Element
  <2> HIDE DEF qs
  <2>4. Loading(f, qs, i) /\ LoadingNormal(f, qs, i)  BY <1>3, <2>3, OwnLoaded
  <2> QED BY <2>4 DEF qs
<1> QED BY <1>1, <1>2, <1>3 DEF Own, Norm

(* So every id in turn. *)
LEMMA ReadUpwards ==
  ASSUME NEW f, FileIsGood(f), NEW load, load[0] = <<>>,
         \A i \in 1..Len(IdOrder) :
           Loading(f, load[i - 1], i - 1) /\ LoadingNormal(f, load[i - 1], i - 1) =>
             load[i] = ReadUpTo(f, load[i - 1], i)
  PROVE  \A i \in 0..Len(IdOrder) : Loading(f, load[i], i) /\ LoadingNormal(f, load[i], i)
<1> DEFINE N == Len(IdOrder)
           T == {i \in 0..N : Loading(f, load[i], i) /\ LoadingNormal(f, load[i], i)}
<1>1. N \in Nat  BY FileAssumption
<1>2. 0 \in T
  <2>1. <<>> \in Seq(Profile) /\ DOMAIN <<>> = {} /\ 1..0 = {}  OBVIOUS
  <2>2. Loading(f, <<>>, 0) /\ LoadingNormal(f, <<>>, 0)
    BY <2>1 DEF Loading, LoadingNormal
  <2> QED BY <1>1, <2>2
<1>3. ASSUME NEW i \in 1..N, i - 1 \in T PROVE i \in T
  <2>1. Loading(f, load[i - 1], i - 1) /\ LoadingNormal(f, load[i - 1], i - 1)  BY <1>3
  <2>2. load[i] = ReadUpTo(f, load[i - 1], i)  BY <2>1
  <2>3. Loading(f, load[i], i) /\ LoadingNormal(f, load[i], i)  BY <2>1, <2>2, ReadStep
  <2> QED BY <1>1, <2>3
<1> HIDE DEF N, T
<1>4. \A i \in 0..N : i \in T  BY <1>1, <1>2, <1>3, Upwards
<1> QED BY <1>4 DEF N, T

(* The profiles that ConfigToDomain loads are those of all the ids. *)
LEMMA LoadFolds ==
  ASSUME NEW f, FileIsGood(f)
  PROVE  \E ps : /\ Loading(f, ps, Len(IdOrder)) /\ LoadingNormal(f, ps, Len(IdOrder))
                 /\ LoadedProfiles(f) = IF \E i \in DOMAIN ps : ps[i].id = Normal THEN ps
                                        ELSE <<NormalProfile>> \o ps
<1> DEFINE N == Len(IdOrder)
           V == Seq(Profile)
           On(x, i) == ReadUpTo(f, x, i)
           step == [p \in (1..N) \X V |-> IF On(p[2], p[1]) \in V THEN On(p[2], p[1]) ELSE <<>>]
           Next1(g, i) == IF i = 0 THEN <<>> ELSE On(g[i - 1], i)
           F == CHOOSE g : g = [i \in 0..N |-> Next1(g, i)]
<1>1. N \in Nat /\ <<>> \in V  BY FileAssumption
<1> HIDE DEF On
<1>2. ASSUME NEW i \in 1..N, NEW x \in V
      PROVE  /\ step[<<i, x>>] \in V
             /\ On(x, i) \in V => step[<<i, x>>] = On(x, i)
  <2> HIDE DEF V
  <2>1. <<i, x>> \in (1..N) \X V /\ <<i, x>>[1] = i /\ <<i, x>>[2] = x  OBVIOUS
  <2>2. step[<<i, x>>] = IF On(x, i) \in V THEN On(x, i) ELSE <<>>  BY <2>1
  <2> HIDE DEF step
  <2> QED BY <1>1, <2>2
<1> HIDE DEF step
<1>3. PICK g \in [0..N -> V] : g[0] = <<>> /\ \A i \in 1..N : g[i] = step[<<i, g[i - 1]>>]
  <2> DEFINE v == <<>>
  <2> HIDE DEF N, V, v
  <2>1. \A i \in 1..N : \A x \in V : step[<<i, x>>] \in V  BY <1>2
  <2>2. Folded(N, V, v, step)  BY <1>1, <2>1, Iterates DEF v
  <2> QED BY <2>2 DEF Folded, v
<1>4. \A i \in 1..N : i \in 0..N /\ i # 0 /\ i - 1 \in 0..N  BY <1>1
<1>5. \A i \in 0..N : i = 0 \/ i \in 1..N  BY <1>1
<1>6. ASSUME NEW i \in 1..N, Loading(f, g[i - 1], i - 1), LoadingNormal(f, g[i - 1], i - 1)
      PROVE  g[i] = On(g[i - 1], i)
  <2>1. Loading(f, On(g[i - 1], i), i)  BY <1>6, ReadStep DEF On
  <2>2. On(g[i - 1], i) \in V /\ g[i - 1] \in V  BY <1>4, <2>1 DEF Loading
  <2> HIDE DEF V
  <2> QED BY <1>2, <1>3, <2>2
<1>7. \A i \in 0..N : Loading(f, g[i], i) /\ LoadingNormal(f, g[i], i)
  BY <1>3, <1>6, ReadUpwards DEF On
<1>8. \A i \in 1..N : g[i] = On(g[i - 1], i)  BY <1>4, <1>6, <1>7
<1>9. g = [i \in 0..N |-> Next1(g, i)]
  <2> HIDE DEF V
  <2> QED BY <1>3, <1>5, <1>8
<1>10. F = [i \in 0..N |-> Next1(F, i)]
  <2> HIDE DEF Next1
  <2> QED BY <1>9
<1>11. LoadedProfiles(f) = IF \E i \in DOMAIN F[N] : F[N][i].id = Normal THEN F[N]
                           ELSE <<NormalProfile>> \o F[N]
  BY DEF LoadedProfiles, On, ReadUpTo, IsIn, Nth
<1> HIDE DEF F
<1>12. F[0] = <<>> /\ \A i \in 1..N : F[i] = On(F[i - 1], i)  BY <1>1, <1>4, <1>10
<1>13. N \in 0..N  BY <1>1
<1>14. Loading(f, F[N], N) /\ LoadingNormal(f, F[N], N)
  BY <1>12, <1>13, ReadUpwards DEF On
<1> QED BY <1>11, <1>14

(* What the built-in profile put in front does to the places of the        *)
(* others.                                                                 *)
LEMMA PutInFront ==
  ASSUME NEW X, NEW s \in Seq(X), NEW x \in X
  PROVE  LET t == <<x>> \o s IN
         /\ t \in Seq(X) /\ 1 \in DOMAIN t /\ t[1] = x
         /\ \A i \in DOMAIN s : i + 1 \in DOMAIN t /\ t[i + 1] = s[i] /\ i + 1 # 1
         /\ \A i \in DOMAIN t : i = 1 \/ \E j \in DOMAIN s : i = j + 1
<1> DEFINE t == <<x>> \o s
<1>1. <<x>> \in Seq(X) /\ t \in Seq(X) /\ Len(t) = Len(s) + 1 /\ Len(s) \in Nat
      /\ DOMAIN s = 1..Len(s) /\ DOMAIN t = 1..Len(t)
  OBVIOUS
<1>2. t[1] = x /\ \A i \in 1..Len(s) : t[i + 1] = s[i]  OBVIOUS
<1> HIDE DEF t
<1>3. 1 \in DOMAIN t /\ \A i \in 1..Len(s) : i + 1 \in DOMAIN t /\ i + 1 # 1  BY <1>1
<1>4. \A i \in DOMAIN t : i = 1 \/ (i - 1 \in DOMAIN s /\ i = (i - 1) + 1)  BY <1>1
<1> QED BY <1>1, <1>2, <1>3, <1>4 DEF t

(* What a file is loaded as. *)
LEMMA LoadedIs ==
  ASSUME NEW f, FileIsGood(f)
  PROVE  LET d == Loaded(f) IN
         /\ Sound(d) /\ d.apps = f.apps
         /\ \A j \in DOMAIN d.profiles :
              \/ IsBuiltIn(d.profiles[j])
              \/ \E k \in 1..Len(IdOrder) : Own(f, k) /\ d.profiles[j] = Element(f, k)
         /\ \A k \in 1..Len(IdOrder) :
              Own(f, k) => \E j \in DOMAIN d.profiles : d.profiles[j] = Element(f, k)
         /\ \A k \in 1..Len(IdOrder) :
              Norm(f, k) /\ (\A l \in 1..Len(IdOrder) : Norm(f, l) => l = k) =>
                \E j \in DOMAIN d.profiles :
                  d.profiles[j] = LoadedProfile(f, NormalProfile, Nth(f, k))
<1> DEFINE d == Loaded(f)
           N == Len(IdOrder)
<1>1. PICK ps : /\ Loading(f, ps, N) /\ LoadingNormal(f, ps, N)
                /\ LoadedProfiles(f) = IF \E i \in DOMAIN ps : ps[i].id = Normal THEN ps
                                       ELSE <<NormalProfile>> \o ps
  BY LoadFolds
<1>2. /\ d.profiles = LoadedProfiles(f) /\ d.apps = f.apps
      /\ d.active = LoadedActive(LoadedProfiles(f), f.default)
      /\ d = [profiles |-> LoadedProfiles(f), apps |-> f.apps,
              active |-> LoadedActive(LoadedProfiles(f), f.default)]
  BY DEF Loaded
<1> HIDE DEF d, N
<1>3. AppIds(d) = AppIds(f)  BY <1>2 DEF AppIds
<1>4. /\ d.profiles \in Seq(Profile) /\ Normal \in Ids(d)
      /\ \A j \in DOMAIN d.profiles : Known(d.profiles[j], AppIds(f))
      /\ \A j \in DOMAIN d.profiles :
           IsBuiltIn(d.profiles[j]) \/ \E k \in 1..N : Own(f, k) /\ d.profiles[j] = Element(f, k)
      /\ \A j, k \in DOMAIN d.profiles : j # k => Apart(d.profiles[j], d.profiles[k])
      /\ \A j \in DOMAIN ps : \E k \in DOMAIN d.profiles : d.profiles[k] = ps[j]
  <2>1. CASE \E i \in DOMAIN ps : ps[i].id = Normal
    <3>1. d.profiles = ps  BY <1>1, <1>2, <2>1
    <3>2. Normal \in Ids(d)  BY <2>1, <3>1 DEF Ids
    <3> QED BY <1>1, <3>1, <3>2 DEF Loading
  <2>2. CASE ~ \E i \in DOMAIN ps : ps[i].id = Normal
    <3> DEFINE t == d.profiles
    <3>1. t = <<NormalProfile>> \o ps  BY <1>1, <1>2, <2>2
    <3> HIDE DEF t
    <3>2. ps \in Seq(Profile)  BY <1>1 DEF Loading
    <3>3. NormalProfile \in Profile /\ IsBuiltIn(NormalProfile) /\ Known(NormalProfile, AppIds(f))
      BY BuiltInTyped
    <3>4. /\ t \in Seq(Profile) /\ 1 \in DOMAIN t /\ t[1] = NormalProfile
          /\ \A i \in DOMAIN ps : i + 1 \in DOMAIN t /\ t[i + 1] = ps[i] /\ i + 1 # 1
          /\ \A i \in DOMAIN t : i = 1 \/ \E j \in DOMAIN ps : i = j + 1
      BY <3>1, <3>2, <3>3, PutInFront
    <3>5. \A i \in DOMAIN t : i = 1 \/ \E j \in DOMAIN ps : i = j + 1 /\ t[i] = ps[j]  BY <3>4
    <3>6. Normal \in Ids(d)  BY <3>3, <3>4 DEF Ids, IsBuiltIn, t
    <3>7. \A j \in DOMAIN t : Known(t[j], AppIds(f))  BY <1>1, <3>3, <3>4, <3>5 DEF Loading
    <3>8. \A j \in DOMAIN ps : \E k \in 1..N : Own(f, k) /\ ps[j] = Element(f, k)
      BY <1>1, <2>2 DEF Loading, IsBuiltIn
    <3>9. \A j \in DOMAIN t :
            IsBuiltIn(t[j]) \/ \E k \in 1..N : Own(f, k) /\ t[j] = Element(f, k)
      BY <3>3, <3>4, <3>5, <3>8
    <3>10. \A j \in DOMAIN ps : Apart(NormalProfile, ps[j]) /\ Apart(ps[j], NormalProfile)
      <4> SUFFICES ASSUME NEW j \in DOMAIN ps
                   PROVE  Apart(NormalProfile, ps[j]) /\ Apart(ps[j], NormalProfile)
        OBVIOUS
      <4>1. PICK k \in 1..N : Own(f, k) /\ ps[j] = Element(f, k)  BY <3>8
      <4> QED BY <3>3, <4>1, OwnApart DEF N
    <3>11. ASSUME NEW j \in DOMAIN t, NEW k \in DOMAIN t, j # k PROVE Apart(t[j], t[k])
      <4>1. CASE j = 1  BY <3>4, <3>5, <3>10, <3>11, <4>1
      <4>2. CASE k = 1  BY <3>4, <3>5, <3>10, <3>11, <4>2
      <4>3. CASE j # 1 /\ k # 1
        <5>1. PICK a \in DOMAIN ps : j = a + 1 /\ t[j] = ps[a]  BY <3>5, <4>3
        <5>2. PICK b \in DOMAIN ps : k = b + 1 /\ t[k] = ps[b]  BY <3>5, <4>3
        <5>3. a # b  BY <3>11, <5>1, <5>2
        <5> QED BY <1>1, <5>1, <5>2, <5>3 DEF Loading
      <4> QED BY <4>1, <4>2, <4>3
    <3>12. \A j \in DOMAIN ps : \E k \in DOMAIN t : t[k] = ps[j]  BY <3>4
    <3> QED BY <3>4, <3>6, <3>7, <3>9, <3>11, <3>12 DEF t
  <2> QED BY <2>1, <2>2
<1>5. d.active \in Id \cup RName
  <2> DEFINE t == LoadedProfiles(f)
             J == {i \in 1..Len(t) : Lower[t[i].name] = Lower[f.default]}
             named == SelectInSeq(t, LAMBDA p : Lower[p.name] = Lower[f.default])
  <2>1. t \in Seq(Profile) /\ DOMAIN t = 1..Len(t) /\ Len(t) \in Nat
        /\ \A i \in DOMAIN t : t[i] \in Profile
    BY <1>2, <1>4
  <2>2. \A i \in DOMAIN t : t[i].id \in Id  BY <2>1 DEF Profile
  <2>3. named = IF J # {} THEN Min(J) ELSE 0  BY DEF SelectInSeq
  <2>4. J \subseteq 1..Len(t)  OBVIOUS
  <2> HIDE DEF t
  <2>5. J # {} => Min(J) \in J
    <3> HIDE DEF J
    <3> QED BY <2>1, <2>4, EndsOf
  <2>6. named # 0 => t[named].id \in Id  BY <2>1, <2>2, <2>3, <2>5
  <2>7. LoadedActive(t, f.default) =
          IF \E i \in DOMAIN t : t[i].id = f.default THEN f.default
          ELSE IF named # 0 THEN t[named].id ELSE Normal
    BY DEF LoadedActive
  <2> HIDE DEF named
  <2>8. LoadedActive(t, f.default) \in Id  BY <2>2, <2>6, <2>7, NamesAssumption
  <2> QED BY <1>2, <2>8 DEF t
<1>6. f.apps \in Seq(Application)  BY DEF FileIsGood
<1>7. d \in Domain  BY <1>2, <1>4, <1>5, <1>6 DEF Domain
<1>8. IsSound(d)  BY <1>3, <1>4, SoundMeans
<1>9. \A k \in 1..N : Own(f, k) => \E j \in DOMAIN d.profiles : d.profiles[j] = Element(f, k)
  BY <1>1, <1>4 DEF Loading
<1>10. \A k \in 1..N : Norm(f, k) /\ (\A l \in 1..N : Norm(f, l) => l = k) =>
         \E j \in DOMAIN d.profiles : d.profiles[j] = LoadedProfile(f, NormalProfile, Nth(f, k))
  BY <1>1, <1>4 DEF LoadingNormal
<1> QED BY <1>2, <1>4, <1>7, <1>8, <1>9, <1>10 DEF Sound, d, N

(* A file that config_v3 writes has typed profiles of different names. *)
LEMMA SerializedIsGood ==
  ASSUME NEW d, Sound(d), NEW a
  PROVE  FileIsGood(SerializedFile(d, a))
<1> DEFINE f == SerializedFile(d, a)
<1>1. d \in Domain /\ IsSound(d)  BY DEF Sound
<1>2. f.apps = d.apps /\ f.profiles = {FileProfile(d.profiles[i]) : i \in DOMAIN d.profiles}
  BY DEF SerializedFile
<1> HIDE DEF f
<1>3. f.apps \in Seq(Application)  BY <1>1, <1>2, DomainMeans
<1>4. ASSUME NEW i \in DOMAIN d.profiles
      PROVE  LET fp == FileProfile(d.profiles[i]) IN
             /\ fp.name \in RName /\ fp.mode \in Mode /\ fp.builtIn \in BOOLEAN
             /\ fp.keys \in SUBSET Key
             /\ ~ LooksNormal(fp) => fp.name = d.profiles[i].name
  <2> DEFINE p == d.profiles[i]
             fp == FileProfile(p)
  <2>1. p \in Profile  BY <1>1, DomainMeans
  <2> HIDE DEF p
  <2>2. /\ fp.name = RuntimeName(p) /\ fp.mode = p.mode /\ fp.builtIn = (p.id = Normal)
        /\ fp.keys = p.keys
    BY DEF FileProfile
  <2> HIDE DEF fp
  <2>3. fp.name \in RName  BY <2>1, <2>2 DEF RName, RuntimeName, Profile
  <2>4. ~ LooksNormal(fp) => fp.name = p.name
    BY <2>2 DEF LooksNormal, RuntimeName
  <2>5. fp.mode \in Mode /\ fp.builtIn \in BOOLEAN /\ fp.keys \in SUBSET Key
    BY <2>1, <2>2 DEF Profile
  <2> QED BY <2>3, <2>4, <2>5 DEF p, fp
<1>5. ASSUME NEW i \in DOMAIN d.profiles, NEW j \in DOMAIN d.profiles,
             ~ LooksNormal(FileProfile(d.profiles[i])), ~ LooksNormal(FileProfile(d.profiles[j])),
             Lower[FileProfile(d.profiles[i]).name] = Lower[FileProfile(d.profiles[j]).name]
      PROVE  FileProfile(d.profiles[i]) = FileProfile(d.profiles[j])
  <2>1. Lower[d.profiles[i].name] = Lower[d.profiles[j].name]  BY <1>4, <1>5
  <2>2. i = j  BY <1>1, <2>1, SoundMeans DEF Apart
  <2> QED BY <2>2
<1>6. \A fp \in f.profiles :
        fp.name \in RName /\ fp.mode \in Mode /\ fp.builtIn \in BOOLEAN /\ fp.keys \in SUBSET Key
  BY <1>2, <1>4
<1>7. \A fp, gp \in f.profiles :
        ~ LooksNormal(fp) /\ ~ LooksNormal(gp) /\ Lower[fp.name] = Lower[gp.name] => fp = gp
  BY <1>2, <1>5
<1> QED BY <1>3, <1>6, <1>7 DEF FileIsGood, f

(* Runtime names are distinct, in lower case too, but for one like the     *)
(* built-in one's.                                                         *)
LEMMA NamesApart ==
  ASSUME NEW d, Sound(d), NEW n \in RuntimeNames(d), NEW m \in RuntimeNames(d),
         Lower[n] = Lower[m], ~ LikeBuiltIn(n)
  PROVE  n = m
<1>1. PICK i \in DOMAIN d.profiles : RuntimeName(d.profiles[i]) = n  BY DEF RuntimeNames
<1>2. PICK j \in DOMAIN d.profiles : RuntimeName(d.profiles[j]) = m  BY DEF RuntimeNames
<1>3. LikeBuiltIn("basic") /\ (LikeBuiltIn(m) <=> LikeBuiltIn(n))
  BY NamesAssumption DEF LikeBuiltIn
<1>4. d.profiles[i].name = n /\ d.profiles[j].name = m  BY <1>1, <1>2, <1>3 DEF RuntimeName
<1>5. i = j  BY <1>4, SoundMeans DEF Sound, Apart
<1> QED BY <1>4, <1>5

(* So has a legacy file. *)
LEMMA LegacyIsGood ==
  ASSUME NEW d, Sound(d), NEW r, Runtime(d, r)
  PROVE  FileIsGood(LegacyFile(r))
<1> DEFINE f == LegacyFile(r)
           S == {n \in DOMAIN r \ Dotted : r[n].mode = "targeted"}
           t == Sieve(NameOrder, S)
<1>1. /\ f.apps = [i \in DOMAIN t |-> [id |-> MigratedApp[t[i]], target |-> r[t[i]].target]]
      /\ f.profiles = {LegacyProfile(n, r[n]) : n \in DOMAIN r \ Dotted}
  BY DEF LegacyFile
<1>2. t \in Seq(RName) /\ ToSet(t) = ToSet(NameOrder) \cap S
  <2> HIDE DEF S
  <2> QED BY NamesAssumption, SieveHas
<1> HIDE DEF f, t
<1>3. DOMAIN t = 1..Len(t) /\ Len(t) \in Nat /\ \A i \in DOMAIN t : t[i] \in RName /\ t[i] \in S
  BY <1>2 DEF ToSet
<1>4. \A n \in DOMAIN r : r[n] \in RProfile /\ n \in RName
  BY RuntimeNamesTyped DEF Sound, Runtime
<1>5. f.apps \in Seq(Application)
  <2>1. ASSUME NEW i \in DOMAIN t
        PROVE  [id |-> MigratedApp[t[i]], target |-> r[t[i]].target] \in Application
    <3>1. MigratedApp[t[i]] \in AppId  BY <1>3, FileAssumption
    <3>2. r[t[i]].target \in Target \cup {None}  BY <1>3, <1>4 DEF RProfile
    <3> QED BY <3>1, <3>2 DEF Application
  <2> QED BY <1>1, <1>3, <2>1
<1>6. ASSUME NEW n \in DOMAIN r
      PROVE  LET fp == LegacyProfile(n, r[n]) IN
             /\ fp.name = n /\ fp.name \in RName /\ fp.mode \in Mode /\ fp.builtIn \in BOOLEAN
             /\ fp.keys \in SUBSET Key
  <2> DEFINE p == r[n]
             fp == LegacyProfile(n, p)
             w == WideKeys(p.keys)
  <2>1. p \in RProfile /\ n \in RName  BY <1>4
  <2> HIDE DEF p
  <2>2. fp.name = n /\ fp.mode = p.mode /\ fp.builtIn = (p.mode = "basic") /\ fp.keys = w
    BY DEF LegacyProfile
  <2>3. p.keys \in SUBSET Key /\ p.mode \in Mode  BY <2>1 DEF RProfile
  <2>4. w \in SUBSET Key  BY <2>3, WideIsKeys
  <2> HIDE DEF fp, w
  <2> QED BY <2>1, <2>2, <2>3, <2>4 DEF fp, p
<1>7. ASSUME NEW n \in DOMAIN r, NEW m \in DOMAIN r,
             ~ LooksNormal(LegacyProfile(n, r[n])), ~ LooksNormal(LegacyProfile(m, r[m])),
             Lower[n] = Lower[m]
      PROVE  LegacyProfile(n, r[n]) = LegacyProfile(m, r[m])
  <2>1. ~ LikeBuiltIn(n)  BY <1>6, <1>7 DEF LooksNormal
  <2>2. n \in RuntimeNames(d) /\ m \in RuntimeNames(d)  BY DEF Runtime
  <2>3. n = m  BY <1>7, <2>1, <2>2, NamesApart
  <2> QED BY <2>3
<1>8. \A fp \in f.profiles :
        fp.name \in RName /\ fp.mode \in Mode /\ fp.builtIn \in BOOLEAN /\ fp.keys \in SUBSET Key
  BY <1>1, <1>6
<1>9. \A fp, gp \in f.profiles :
        ~ LooksNormal(fp) /\ ~ LooksNormal(gp) /\ Lower[fp.name] = Lower[gp.name] => fp = gp
  BY <1>1, <1>6, <1>7
<1> QED BY <1>5, <1>8, <1>9 DEF FileIsGood, f

(* The default configuration is sound. *)
LEMMA DefaultDomainSound == Sound(DefaultDomain)
<1> DEFINE d == DefaultDomain
           s == <<NormalProfile>>
<1>1. d.profiles = s /\ d.apps = <<>> /\ d = [profiles |-> s, apps |-> <<>>, active |-> Normal]
  BY DEF DefaultDomain
<1>2. NormalProfile \in Profile /\ IsBuiltIn(NormalProfile) /\ \A ids : Known(NormalProfile, ids)
  BY BuiltInTyped
<1> HIDE DEF d
<1>3. s \in Seq(Profile) /\ DOMAIN s = {1} /\ s[1] = NormalProfile  BY <1>2
<1> HIDE DEF s
<1>4. d \in Domain  BY <1>1, <1>3, NamesAssumption DEF Domain
<1>5. Normal \in Ids(d)  BY <1>1, <1>2, <1>3 DEF Ids, IsBuiltIn
<1>6. IsSound(d)  BY <1>1, <1>2, <1>3, <1>5, SoundMeans
<1> QED BY <1>4, <1>6 DEF Sound, d

(***************************************************************************)
(* The types: of the domain, of the runtime profiles and of the file.      *)
(***************************************************************************)
StoreTyped ==
  /\ Sound(domain) /\ Runtime(domain, runtime) /\ active \in RName
  /\ FileIsGood(file)

(* The types of the bookkeeping. *)
CountersTyped == saving \subseteq Thread /\ clean \in BOOLEAN /\ ops \in 0..MaxOps

(* The types hold at the start. *)
LEMMA StoreStarts == Init => StoreTyped /\ CountersTyped
<1> SUFFICES ASSUME Init PROVE StoreTyped /\ CountersTyped  OBVIOUS
<1>1. Sound(domain)  BY DefaultDomainSound, ProfileStoreAssumption DEF Init, Sound
<1>2. Runtime(domain, runtime) /\ active \in RName
  BY <1>1, ProjectedTyped DEF Init, Sound
<1>3. FileIsGood(file)  BY <1>1, SerializedIsGood DEF Init
<1>4. CountersTyped  BY ProfileStoreAssumption DEF Init, CountersTyped
<1> QED BY <1>1, <1>2, <1>3, <1>4 DEF StoreTyped

(* A domain that an operation makes sound. *)
LEMMA BecomesTyped ==
  ASSUME StoreTyped, NEW d, Becomes(d), file' = file, Sound(d)
  PROVE  StoreTyped'
<1>1. domain' = d /\ Runtime(d, runtime') /\ active' \in RName
  BY ProjectedTyped DEF Becomes, Sound
<1> QED BY <1>1 DEF StoreTyped, Runtime, RuntimeNames

(* An edit of one runtime profile keeps the types. *)
LEMMA EditTyped ==
  ASSUME StoreTyped, NEW n \in DOMAIN runtime, NEW p \in RProfile, EditRuntime(n, p)
  PROVE  StoreTyped'
<1>1. /\ domain' = domain /\ active' = active /\ file' = file
      /\ runtime' = [runtime EXCEPT ![n] = p]
  BY DEF EditRuntime, Operation
<1>2. Runtime(domain, runtime')  BY <1>1 DEF StoreTyped, Runtime
<1> QED BY <1>1, <1>2 DEF StoreTyped, Runtime, RuntimeNames

(* A runtime profile with other mappings is one. *)
LEMMA RekeyedTyped ==
  ASSUME NEW p \in RProfile, NEW keys \in SUBSET Key
  PROVE  [p EXCEPT !.keys = keys] \in RProfile
BY DEF RProfile

(* AddKey, RemoveKey, UpdateKey and DuplicateKey keep the types. *)
LEMMA KeysTyped ==
  ASSUME StoreTyped, NEW n \in RName, EditKeys(n)
  PROVE  StoreTyped'
<1>1. n \in DOMAIN runtime => runtime[n] \in RProfile /\ runtime[n].keys \in SUBSET Key
  BY DEF StoreTyped, Runtime, RProfile
<1>2. ASSUME NEW trigger \in Trigger
      PROVE  /\ n \in DOMAIN runtime => Without(runtime[n].keys, trigger) \in SUBSET Key
             /\ \A a \in Action : <<trigger[1], trigger[2], a>> \in Key
  <2>1. trigger \in Usage \X DOMAIN Wide  BY KeysAssumption
  <2>2. \A a \in Action : <<trigger[1], trigger[2], a>> \in Key  BY <2>1, KeysAssumption DEF Key
  <2> QED BY <1>1, <2>2 DEF Without
<1>3. ASSUME NEW trigger \in Trigger, RemoveKey(n, trigger) PROVE StoreTyped'
  BY <1>1, <1>2, <1>3, EditTyped, RekeyedTyped DEF RemoveKey
<1>4. ASSUME NEW trigger \in Trigger, NEW a \in Action, AddKey(n, trigger, a) PROVE StoreTyped'
  <2>1. n \in DOMAIN runtime  BY <1>4 DEF AddKey
  <2>2. Without(runtime[n].keys, trigger) \cup {<<trigger[1], trigger[2], a>>} \in SUBSET Key
    BY <1>2, <2>1
  <2> QED BY <1>1, <1>4, <2>1, <2>2, EditTyped, RekeyedTyped DEF AddKey
<1>5. ASSUME NEW key \in runtime[n].keys, NEW a \in Action, UpdateKey(n, key, a) PROVE StoreTyped'
  <2>1. n \in DOMAIN runtime  BY <1>5 DEF UpdateKey
  <2>2. <<key[1], key[2], a>> \in Key  BY <1>1, <2>1, KeysAssumption DEF Key
  <2>3. (runtime[n].keys \ {key}) \cup {<<key[1], key[2], a>>} \in SUBSET Key
    BY <1>1, <2>1, <2>2
  <2> QED BY <1>1, <1>5, <2>1, <2>3, EditTyped, RekeyedTyped DEF UpdateKey
<1>6. ASSUME NEW key \in runtime[n].keys, NEW u \in Usage, DuplicateKey(n, key, u) PROVE StoreTyped'
  <2>1. n \in DOMAIN runtime  BY <1>6 DEF DuplicateKey
  <2>2. <<u, key[2], key[3]>> \in Key  BY <1>1, <2>1 DEF Key
  <2>3. runtime[n].keys \cup {<<u, key[2], key[3]>>} \in SUBSET Key  BY <1>1, <2>1, <2>2
  <2> QED BY <1>1, <1>6, <2>1, <2>3, EditTyped, RekeyedTyped DEF DuplicateKey
<1> QED BY <1>3, <1>4, <1>5, <1>6 DEF EditKeys

(* What SetProfile makes of a profile. *)
LEMMA RetargetedTyped ==
  ASSUME NEW p \in RProfile, NEW mode \in Mode, NEW t \in Target \cup {None}
  PROVE  [p EXCEPT !.mode = mode, !.target = t] \in RProfile
BY DEF RProfile

(* What a profile newly made by a name is. *)
LEMMA CreatedHere ==
  ASSUME StoreTyped, NEW id \in Id, NEW n \in Name, NEW mode \in Mode, IdentityIsNew(domain, id, n)
  PROVE  LET d == CreatedNew(Service(domain), id, n, mode) IN
         Sound(d) /\ IdentityIsNew(Service(domain), id, n)
<1>1. Sound(Service(domain)) /\ Service(domain).profiles = domain.profiles
  BY ServiceSound DEF StoreTyped
<1>2. IdentityIsNew(Service(domain), id, n)
  BY <1>1 DEF IdentityIsNew, NameIsFree, Ids
<1> QED BY <1>1, <1>2, CreatedNewSound

(* DASH_SET_PROFILE keeps the types. *)
LEMMA ProfileSetTyped ==
  ASSUME StoreTyped, NEW n \in RName, NEW mode \in Mode, NEW t \in NewTarget \cup {None},
         SetProfile(n, mode, t) \/ SetNewProfile(n, mode, t)
  PROVE  StoreTyped'
<1>1. t \in Target \cup {None}  BY ProfileStoreAssumption
<1>2. CASE SetProfile(n, mode, t)
  <2>1. n \in DOMAIN runtime /\ runtime[n] \in RProfile
    BY <1>2 DEF SetProfile, StoreTyped, Runtime
  <2> QED BY <1>1, <1>2, <2>1, EditTyped, RetargetedTyped DEF SetProfile
<1>3. CASE SetNewProfile(n, mode, t)
  <2> DEFINE d == CreatedNew(Service(domain), Sanitize[n], n, mode)
  <2>1. n \in Name /\ Sanitize[n] \in Id
    BY <1>3, NamesAssumption DEF SetNewProfile, RName
  <2>2. Sound(d)  BY <1>3, <2>1, CreatedHere DEF SetNewProfile
  <2>3. /\ domain' = d /\ active' = ProjectedActive(d) /\ file' = file
        /\ runtime' = [Projected(d) EXCEPT ![n] = [@ EXCEPT !.mode = mode, !.target = t]]
    BY <1>3 DEF SetNewProfile, Operation
  <2> HIDE DEF d
  <2>4. Runtime(d, Projected(d)) /\ ProjectedActive(d) \in RName  BY <2>2, ProjectedTyped DEF Sound
  <2> DEFINE r == Projected(d)
  <2> HIDE DEF r
  <2>5. Runtime(d, runtime')
    <3>1. DOMAIN r = RuntimeNames(d) /\ \A m \in RuntimeNames(d) : r[m] \in RProfile
      BY <2>4 DEF Runtime, r
    <3>2. runtime' = [r EXCEPT ![n] = [r[n] EXCEPT !.mode = mode, !.target = t]]
      BY <2>3 DEF r
    <3>3. n \in RuntimeNames(d) => [r[n] EXCEPT !.mode = mode, !.target = t] \in RProfile
      BY <1>1, <3>1, RetargetedTyped
    <3> QED BY <3>1, <3>2, <3>3 DEF Runtime
  <2> QED BY <2>2, <2>3, <2>4, <2>5 DEF StoreTyped, Runtime, RuntimeNames
<1> QED BY <1>2, <1>3

(* A profile created, made of a preset or duplicated keeps the types. *)
LEMMA NewProfileTyped ==
  ASSUME StoreTyped, NEW id \in NewId, NEW n \in Name, NewProfile(id, n)
  PROVE  StoreTyped'
<1>0. id \in Id  BY ProfileStoreAssumption
<1>1. Sound(Service(domain)) /\ Service(domain).profiles = domain.profiles
      /\ Ids(Service(domain)) = Ids(domain)
  BY ServiceSound DEF StoreTyped
<1>2. IdentityIsNew(domain, id, n) => IdentityIsNew(Service(domain), id, n)
  BY <1>1 DEF IdentityIsNew, NameIsFree
<1>3. ASSUME NEW mode \in Mode, CreateProfile(id, n, mode) PROVE StoreTyped'
  <2> DEFINE d == CreatedNew(Service(domain), id, n, mode)
  <2>1. IdentityIsNew(domain, id, n) /\ Becomes(d) /\ file' = file
    BY <1>3 DEF CreateProfile, Operation
  <2>2. Sound(d)  BY <1>0, <2>1, CreatedHere
  <2> HIDE DEF d
  <2> QED BY <2>1, <2>2, BecomesTyped
<1>4. ASSUME NEW mode \in Mode, NEW t \in NewTarget, ApplyPreset(id, n, mode, t) PROVE StoreTyped'
  <2> DEFINE s == Service(domain)
             p == [NormalProfile EXCEPT !.id = id, !.name = n, !.mode = mode, !.keys = PresetKeys]
             d == IF mode = "basic" THEN Created(s, p)
                  ELSE [Created(s, [p EXCEPT !.links = <<AppOf[id]>>, !.default = AppOf[id]])
                          EXCEPT !.apps = Append(@, [id |-> AppOf[id], target |-> t])]
  <2>1. IdentityIsNew(domain, id, n) /\ Becomes(d) /\ file' = file
    BY <1>4 DEF ApplyPreset, Operation
  <2>2. t \in Target  BY ProfileStoreAssumption
  <2>3. p = [NormalProfile EXCEPT !.id = id, !.name = n, !.mode = mode, !.keys = PresetKeys]
    OBVIOUS
  <2>4. Sound(s) /\ IdentityIsNew(s, id, n)  BY <1>1, <1>2, <2>1
  <2>5. Sound(d)
    <3> HIDE DEF s, p
    <3>1. /\ Sound(Created(s, p))
          /\ Sound([Created(s, [p EXCEPT !.links = <<AppOf[id]>>, !.default = AppOf[id]])
                     EXCEPT !.apps = Append(@, [id |-> AppOf[id], target |-> t])])
      BY <1>0, <2>2, <2>3, <2>4, PresetSound
    <3> QED BY <3>1
  <2> HIDE DEF d
  <2> QED BY <2>1, <2>5, BecomesTyped
<1>5. ASSUME NEW ref \in Ref, Duplicate(ref, id, n) PROVE StoreTyped'
  <2>1. PICK source \in Ids(domain) :
          /\ IdentityIsNew(domain, id, n) /\ file' = file
          /\ Becomes(Duplicated(Service(domain), source, id, n))
    BY <1>5 DEF Duplicate, OnProfile, Operation
  <2>2. Sound(Duplicated(Service(domain), source, id, n))
    BY <1>0, <1>1, <1>2, <2>1, DuplicatedSound
  <2> QED BY <2>1, <2>2, BecomesTyped
<1> QED BY <1>3, <1>4, <1>5 DEF NewProfile

(* The service sees the profiles of the domain. *)
LEMMA ServiceProfile ==
  ASSUME Sound(domain), NEW id
  PROVE  ProfileOf(Service(domain), id) = ProfileOf(domain, id)
<1>1. Service(domain).profiles = domain.profiles  BY ServiceSound
<1> QED BY <1>1 DEF ProfileOf, Index

(* Deletion, renaming, linking, unlinking and the choice of a default keep *)
(* the types.                                                              *)
LEMMA ChangeTyped ==
  ASSUME StoreTyped, NEW ref \in Ref, ChangeProfile(ref)
  PROVE  StoreTyped'
<1> DEFINE s == Service(domain)
<1>1. Sound(s) /\ s.profiles = domain.profiles /\ Ids(s) = Ids(domain) /\ AppIds(s) = AppIds(domain)
  BY ServiceSound DEF StoreTyped
<1>2. \A id : ProfileOf(s, id) = ProfileOf(domain, id)  BY ServiceProfile DEF StoreTyped
<1> HIDE DEF s
<1>3. CASE Delete(ref)
  <2>1. PICK id \in Ids(domain) \ {Normal} : Becomes(Deleted(s, id)) /\ file' = file
    BY <1>3 DEF Delete, OnProfile, Operation, s
  <2>2. Sound(Deleted(s, id))  BY <1>1, <2>1, DeletedSound
  <2> QED BY <2>1, <2>2, BecomesTyped
<1>4. ASSUME NEW n \in Name, Rename(ref, n) PROVE StoreTyped'
  <2>1. PICK id \in Ids(domain) \ {Normal} :
          NameIsFree(domain, n, id) /\ Becomes(Renamed(s, id, n)) /\ file' = file
    BY <1>4 DEF Rename, OnProfile, Operation, s
  <2>2. NameIsFree(s, n, id)  BY <1>1, <2>1 DEF NameIsFree
  <2>3. Sound(Renamed(s, id, n))  BY <1>1, <2>1, <2>2, RenamedSound
  <2> QED BY <2>1, <2>3, BecomesTyped
<1>5. ASSUME NEW a, SetDefault(ref, a) PROVE StoreTyped'
  <2>1. PICK id \in Ids(domain) :
          /\ a # None => a \in ToSet(ProfileOf(domain, id).links) \cap AppIds(domain)
          /\ Becomes(Changed(s, id, [ProfileOf(domain, id) EXCEPT !.default = a])) /\ file' = file
    BY <1>5 DEF SetDefault, OnProfile, Operation, s
  <2>2. Sound(Changed(s, id, [ProfileOf(s, id) EXCEPT !.default = a]))
    BY <1>1, <1>2, <2>1, DefaultSetSound
  <2>3. Sound(Changed(s, id, [ProfileOf(domain, id) EXCEPT !.default = a]))
    BY <1>2, <2>2
  <2> QED BY <2>1, <2>3, BecomesTyped
<1>6. ASSUME NEW a \in AppIds(domain), Link(ref, a) PROVE StoreTyped'
  <2>1. PICK id \in Ids(domain) : Becomes(Changed(s, id, LinkedTo(ProfileOf(s, id), a))) /\ file' = file
    BY <1>2, <1>6 DEF Link, OnProfile, Operation, s
  <2>2. Sound(Changed(s, id, LinkedTo(ProfileOf(s, id), a)))  BY <1>1, LinkedSound
  <2> QED BY <2>1, <2>2, BecomesTyped
<1>7. ASSUME NEW a \in AppIds(domain), Unlink(ref, a) PROVE StoreTyped'
  <2>1. PICK id \in Ids(domain) :
          Becomes(Changed(s, id, UnlinkedFrom(ProfileOf(s, id), a))) /\ file' = file
    BY <1>2, <1>7 DEF Unlink, OnProfile, Operation, s
  <2>2. Sound(Changed(s, id, UnlinkedFrom(ProfileOf(s, id), a)))  BY <1>1, UnlinkedSound
  <2> QED BY <2>1, <2>2, BecomesTyped
<1> QED BY <1>3, <1>4, <1>5, <1>6, <1>7, ProfileStoreAssumption DEF ChangeProfile

(* An operation that leaves the profiles as they are keeps the types. *)
LEMMA ServedTyped ==
  ASSUME StoreTyped, NEW e, Sound(e), e.profiles = domain.profiles, domain' = e,
         UNCHANGED <<runtime, active, file>>
  PROVE  StoreTyped'
BY DEF StoreTyped, Runtime, RuntimeNames

(* So does a switch, a new application, and a request the service refuses. *)
LEMMA RestTyped ==
  ASSUME StoreTyped,
         \/ \E n \in RName : Switch(n)
         \/ \E w \in Worker, n \in Name, t \in NewTarget : CreateApplication(w, n, t)
         \/ Refused
  PROVE  StoreTyped'
<1>1. ASSUME NEW n \in RName, Switch(n) PROVE StoreTyped'
  BY <1>1 DEF Switch, StoreTyped, Runtime, RuntimeNames
<1>2. ASSUME NEW w \in Worker, NEW n \in Name, NEW t \in NewTarget, CreateApplication(w, n, t)
      PROVE  StoreTyped'
  <2> DEFINE app == [id |-> AppOf[n], target |-> t]
             e == [domain EXCEPT !.apps = Append(@, app)]
  <2>1. app \in Application
    <3>1. AppOf[n] \in AppId /\ t \in Target  BY NamesAssumption, ProfileStoreAssumption DEF RName
    <3> QED BY <3>1 DEF Application
  <2>2. domain' = e /\ UNCHANGED <<runtime, active, file>>
    BY <1>2 DEF CreateApplication, Operation
  <2> HIDE DEF app
  <2>3. Sound(e)  BY <2>1, AppAdded DEF StoreTyped
  <2>4. e.profiles = domain.profiles  BY DEF StoreTyped, Sound, Domain
  <2> HIDE DEF e
  <2> QED BY <2>2, <2>3, <2>4, ServedTyped
<1>3. CASE Refused
  <2>1. Sound(Service(domain)) /\ Service(domain).profiles = domain.profiles
    BY ServiceSound DEF StoreTyped
  <2>2. domain' = Service(domain) /\ UNCHANGED <<runtime, active, file>>  BY <1>3 DEF Refused
  <2> QED BY <2>1, <2>2, ServedTyped
<1> QED BY <1>1, <1>2, <1>3

(* So does a save, a reload and a restart: config.ini always holds a file  *)
(* that loads.                                                             *)
LEMMA FileTyped ==
  ASSUME StoreTyped, \/ \E t \in Thread : WriteConfig(t)
                     \/ Reload \/ Restart
  PROVE  StoreTyped'
<1>1. ASSUME NEW t \in Thread, WriteConfig(t) PROVE StoreTyped'
  <2> DEFINE d == Synced(domain, runtime, active)
  <2>1. Sound(d) /\ RuntimeNames(d) = RuntimeNames(domain)  BY SyncedSound DEF StoreTyped
  <2>2. /\ domain' = d /\ UNCHANGED <<runtime, active>>
        /\ file' \in {file, SerializedFile(d, active), LegacyFile(runtime)}
    BY <1>1 DEF WriteConfig
  <2> HIDE DEF d
  <2>3. FileIsGood(SerializedFile(d, active))  BY <2>1, SerializedIsGood
  <2>4. FileIsGood(LegacyFile(runtime))  BY LegacyIsGood DEF StoreTyped
  <2>5. FileIsGood(file')  BY <2>2, <2>3, <2>4 DEF StoreTyped
  <2>6. Runtime(d, runtime)  BY <2>1 DEF StoreTyped, Runtime
  <2>7. domain' = d /\ runtime' = runtime /\ active' = active  BY <2>2
  <2>8. active \in RName  BY DEF StoreTyped
  <2> QED BY <2>1, <2>5, <2>6, <2>7, <2>8 DEF StoreTyped, Runtime, RuntimeNames
<1>2. ASSUME NEW d, Sound(d), LoadConfig(d), file' = file,
             active' = active \/ active' = ProjectedActive(d)
      PROVE  StoreTyped'
  <2>1. Runtime(d, Projected(d)) /\ ProjectedActive(d) \in RName  BY <1>2, ProjectedTyped DEF Sound
  <2>2. domain' = d /\ runtime' = Projected(d)  BY <1>2 DEF LoadConfig
  <2>3. active' \in RName  BY <1>2, <2>1 DEF StoreTyped
  <2> QED BY <1>2, <2>1, <2>2, <2>3 DEF StoreTyped, Runtime, RuntimeNames
<1>3. Sound(Loaded(file)) /\ Sound(DefaultDomain)  BY LoadedIs, DefaultDomainSound DEF StoreTyped
<1>4. CASE Restart
  <2>1. LoadConfig(Loaded(file)) /\ file' = file /\ active' = ProjectedActive(domain')
    BY <1>4 DEF Restart
  <2>2. domain' = Loaded(file)  BY <2>1 DEF LoadConfig
  <2> QED BY <1>2, <1>3, <2>1, <2>2
<1>5. CASE Reload
  <2>1. \/ /\ LoadConfig(Loaded(file)) /\ active' \in {active, ProjectedActive(domain')}
        \/ LoadConfig(DefaultDomain) /\ active' = active
    BY <1>5 DEF Reload
  <2>2. file' = file  BY <1>5 DEF Reload
  <2>3. LoadConfig(Loaded(file)) => domain' = Loaded(file)  BY DEF LoadConfig
  <2> QED BY <1>2, <1>3, <2>1, <2>2, <2>3
<1> QED BY <1>1, <1>4, <1>5

(* A step of the program keeps the types and the soundness of the domain. *)
LEMMA StoreStays == StoreTyped /\ [Next]_vars => StoreTyped'
<1> SUFFICES ASSUME StoreTyped, [Next]_vars PROVE StoreTyped'  OBVIOUS
<1>1. CASE Next
  <2>1. ASSUME NEW n \in RName, EditKeys(n) \/ EditProfile(n) PROVE StoreTyped'
    BY <2>1, KeysTyped, ProfileSetTyped DEF EditProfile
  <2> QED BY <1>1, <2>1, NewProfileTyped, ChangeTyped, RestTyped, FileTyped,
           ProfileStoreAssumption DEF Next
<1>2. CASE UNCHANGED vars
  BY <1>2 DEF vars, memory, StoreTyped, Runtime, RuntimeNames
<1> QED BY <1>1, <1>2

(* An operation keeps the bookkeeping typed. *)
LEMMA OperationCounts ==
  ASSUME CountersTyped, NEW t \in Thread, NEW names, Operation(t, names)
  PROVE  CountersTyped'
<1>1. /\ ops < MaxOps /\ ops' = ops + 1 /\ saving' = saving \cup {t} /\ clean' = FALSE
  BY DEF Operation, MayOperate
<1>2. MaxOps \in Nat /\ ops \in 0..MaxOps /\ saving \subseteq Thread
  BY ProfileStoreAssumption DEF CountersTyped
<1>3. ops' \in 0..MaxOps  BY <1>1, <1>2
<1>4. saving' \subseteq Thread /\ clean' \in BOOLEAN  BY <1>1, <1>2
<1> QED BY <1>3, <1>4 DEF CountersTyped

(* So does every step. *)
LEMMA CountersStay == CountersTyped /\ [Next]_vars => CountersTyped'
<1> SUFFICES ASSUME CountersTyped, [Next]_vars PROVE CountersTyped'  OBVIOUS
<1>0. Main \in Thread /\ Worker \subseteq Thread  BY DEF Thread
<1>1. ASSUME NEW names, Operation(Main, names) PROVE CountersTyped'
  BY <1>0, <1>1, OperationCounts
<1>2. ASSUME NEW n \in RName, EditKeys(n) PROVE CountersTyped'
  BY <1>1, <1>2 DEF EditKeys, RemoveKey, AddKey, DuplicateKey, UpdateKey, EditRuntime
<1>3. ASSUME NEW n \in RName, EditProfile(n) PROVE CountersTyped'
  BY <1>1, <1>3 DEF EditProfile, SetProfile, SetNewProfile, EditRuntime
<1>4. ASSUME NEW n \in RName, Switch(n) PROVE CountersTyped'
  BY <1>4, ProfileStoreAssumption DEF Switch, CountersTyped
<1>5. ASSUME NEW id \in NewId, NEW n \in Name, NewProfile(id, n) PROVE CountersTyped'
  BY <1>1, <1>5 DEF NewProfile, CreateProfile, ApplyPreset, Duplicate, OnProfile
<1>6. ASSUME NEW ref \in Ref, ChangeProfile(ref) PROVE CountersTyped'
  BY <1>1, <1>6 DEF ChangeProfile, Delete, SetDefault, Rename, Link, Unlink, OnProfile
<1>7. ASSUME NEW w \in Worker, NEW n \in Name, NEW t \in NewTarget, CreateApplication(w, n, t)
      PROVE  CountersTyped'
  BY <1>0, <1>7, OperationCounts DEF CreateApplication
<1>8. ASSUME NEW t \in Thread, WriteConfig(t) PROVE CountersTyped'
  BY <1>8 DEF WriteConfig, CountersTyped
<1>9. CASE Refused \/ Reload \/ Restart
  BY <1>9 DEF Refused, Reload, Restart, CountersTyped
<1>10. CASE UNCHANGED vars  BY <1>10 DEF vars, CountersTyped
<1> QED BY <1>2, <1>3, <1>4, <1>5, <1>6, <1>7, <1>8, <1>9, <1>10, ProfileStoreAssumption DEF Next

(* The domain is sound, the runtime profiles are those of its names, and   *)
(* config.ini is a file that loads without a clash of ids or names.        *)
THEOREM StoreIsTyped == Spec => [](StoreTyped /\ CountersTyped)
<1>1. Init => StoreTyped /\ CountersTyped  BY StoreStarts
<1>2. StoreTyped /\ CountersTyped /\ [Next]_vars => (StoreTyped /\ CountersTyped)'
  BY StoreStays, CountersStay
<1> QED BY <1>1, <1>2, PTL DEF Spec

(* In every state the program reaches the built-in profile exists, no two  *)
(* profiles have one id or one name, the applications a profile links      *)
(* exist and its default is one of them; and the runtime profiles are      *)
(* those of the domain's profiles, whatever edits, saves, reloads and      *)
(* restarts come in between.                                               *)
THEOREM DomainStaysSound == Spec => []DomainIsSound
<1>1. StoreTyped /\ CountersTyped => DomainIsSound
  BY DEF StoreTyped, Sound, Runtime, CountersTyped, DomainIsSound
<1> QED BY <1>1, StoreIsTyped, PTL

(* For a name that one profile bears, the first and the last of the name   *)
(* are that one.                                                           *)
LEMMA FirstIsLast ==
  ASSUME NEW d, Sound(d), NEW n \in RuntimeNames(d), Unambiguous(d, n)
  PROVE  FirstNamed(d, n) = LastNamed(d, n)
<1> DEFINE i == FirstNamed(d, n)  k == LastNamed(d, n)
<1>1. d \in Domain /\ d.profiles \in Seq(Profile) /\ IsSound(d)  BY DomainMeans DEF Sound
<1>2. /\ k \in DOMAIN d.profiles /\ RuntimeName(d.profiles[k]) = n
      /\ i \in DOMAIN d.profiles /\ (d.profiles[i].name = n \/ RuntimeName(d.profiles[i]) = n)
  BY <1>1, NamedFound
<1> HIDE DEF i, k
<1>3. CASE RuntimeName(d.profiles[i]) = n  BY <1>2, <1>3 DEF Unambiguous, i, k
<1>4. CASE RuntimeName(d.profiles[i]) # n
  <2>1. i # k /\ d.profiles[i].name = n /\ d.profiles[i].id = Normal /\ n # "basic"
    BY <1>2, <1>4 DEF RuntimeName
  <2>2. d.profiles[k].name = n  BY <1>2, <2>1 DEF RuntimeName
  <2>3. Apart(d.profiles[i], d.profiles[k])  BY <1>1, <1>2, <2>1, SoundMeans
  <2> QED BY <2>1, <2>2, <2>3 DEF Apart
<1> QED BY <1>3, <1>4

(* Two runtime names find two profiles. *)
LEMMA FirstIsOwn ==
  ASSUME NEW d, Sound(d), NEW n \in RuntimeNames(d), NEW m \in RuntimeNames(d),
         FirstNamed(d, n) = FirstNamed(d, m)
  PROVE  n = m
<1> DEFINE i == FirstNamed(d, n)
<1>1. d \in Domain /\ d.profiles \in Seq(Profile) /\ IsSound(d)  BY DomainMeans DEF Sound
<1>2. /\ i \in DOMAIN d.profiles
      /\ d.profiles[i].name = n \/ RuntimeName(d.profiles[i]) = n
      /\ d.profiles[i].name = m \/ RuntimeName(d.profiles[i]) = m
  BY <1>1, NamedFound
<1> HIDE DEF i
<1>3. ASSUME NEW x \in RuntimeNames(d), d.profiles[i].name = x, RuntimeName(d.profiles[i]) # x
      PROVE  FALSE
  <2>1. PICK j \in DOMAIN d.profiles : RuntimeName(d.profiles[j]) = x  BY DEF RuntimeNames
  <2>2. d.profiles[i].id = Normal /\ x # "basic"  BY <1>3 DEF RuntimeName
  <2>3. d.profiles[j].name = x /\ i # j  BY <1>3, <2>1, <2>2 DEF RuntimeName
  <2>4. Apart(d.profiles[i], d.profiles[j])  BY <1>1, <1>2, <2>3, SoundMeans
  <2> QED BY <1>3, <2>3, <2>4 DEF Apart
<1> QED BY <1>2, <1>3

(* A profile's target is at the application it is aimed at, if that is its *)
(* own alone.                                                              *)
Aims(d, x) == Aim(d.profiles[x])

(* No other profile is aimed at the application of x, and no other has its *)
(* id.                                                                     *)
Alone(d, x) ==
  /\ \A j \in DOMAIN d.profiles : Aims(d, j) = Aims(d, x) => j = x
  /\ \A i, j \in DOMAIN d.apps : d.apps[i].id = Aims(d, x) /\ d.apps[j].id = Aims(d, x) => i = j

(* The profile x of the domain holds what the runtime profile p holds. *)
Bears(d, x, p) ==
  /\ d.profiles[x].mode = p.mode /\ d.profiles[x].keys = WideKeys(p.keys)
  /\ p.target # None =>
       /\ Aims(d, x) \in AppIds(d)
       /\ Alone(d, x) => \A i \in DOMAIN d.apps : d.apps[i].id = Aims(d, x) => d.apps[i].target = p.target

(* What of the applications one profile's way back keeps. *)
LEMMA AppsWritten ==
  ASSUME NEW d, Sound(d), NEW e, NEW n \in RName, NEW p \in RProfile, Written(d, e, n, p)
  PROVE  LET at  == AppIndex(d, Aims(d, FirstNamed(d, n)))
             len == Len(d.apps)
         IN
         /\ \A i \in DOMAIN d.apps : i \in DOMAIN e.apps /\ e.apps[i].id = d.apps[i].id
         /\ \A i \in DOMAIN d.apps : i # at \/ p.target = None => e.apps[i].target = d.apps[i].target
         /\ at = 0 /\ p.target # None => /\ len + 1 \in DOMAIN e.apps /\ e.apps[len + 1].id = AppOf[n]
                                         /\ e.apps[len + 1].target = p.target
         /\ at # 0 \/ p.target = None => DOMAIN e.apps = DOMAIN d.apps
         /\ at # 0 /\ p.target # None => e.apps[at].target = p.target
         /\ at # 0 => at \in DOMAIN d.apps /\ d.apps[at].id = Aims(d, FirstNamed(d, n))
<1> DEFINE at == AppIndex(d, Aims(d, FirstNamed(d, n)))
           len == Len(d.apps)
           new == [id |-> AppOf[n], target |-> p.target]
<1>1. d.apps \in Seq(Application) /\ len \in Nat /\ DOMAIN d.apps = 1..len
      /\ \A i \in DOMAIN d.apps : d.apps[i] \in Application
  BY DomainMeans DEF Sound
<1>2. at # 0 => at \in DOMAIN d.apps /\ d.apps[at].id = Aims(d, FirstNamed(d, n))
  BY <1>1, AppFound
<1>3. /\ p.target = None => e.apps = d.apps
      /\ p.target # None /\ at # 0 => e.apps = [d.apps EXCEPT ![at].target = p.target]
      /\ p.target # None /\ at = 0 => e.apps = Append(d.apps, new)
  BY DEF Written, Aims
<1> HIDE DEF at, len
<1>4. CASE p.target = None  BY <1>2, <1>3, <1>4 DEF at, len
<1>5. CASE p.target # None /\ at # 0
  <2>1. e.apps = [d.apps EXCEPT ![at].target = p.target] /\ at \in DOMAIN d.apps
    BY <1>2, <1>3, <1>5
  <2>2. \A i \in DOMAIN d.apps : i # at => e.apps[i] = d.apps[i]  BY <1>1, <2>1
  <2>3. e.apps[at].target = p.target /\ e.apps[at].id = d.apps[at].id
    BY <1>1, <2>1 DEF Application
  <2>4. DOMAIN e.apps = DOMAIN d.apps  BY <2>1
  <2> QED BY <1>2, <1>5, <2>2, <2>3, <2>4 DEF at, len
<1>6. CASE p.target # None /\ at = 0
  <2>1. e.apps = Append(d.apps, new)  BY <1>3, <1>6
  <2>2. new \in Application
    <3>1. AppOf[n] \in AppId /\ p.target \in Target \cup {None}  BY NamesAssumption DEF RProfile
    <3> QED BY <3>1 DEF Application
  <2>3. new.id = AppOf[n] /\ new.target = p.target  OBVIOUS
  <2> HIDE DEF new
  <2>4. /\ len + 1 \in DOMAIN e.apps /\ e.apps[len + 1] = new
        /\ \A i \in DOMAIN d.apps : i \in DOMAIN e.apps /\ e.apps[i] = d.apps[i]
    BY <1>1, <2>1, <2>2, AppendIs DEF len
  <2> QED BY <1>6, <2>3, <2>4 DEF at, len
<1> QED BY <1>4, <1>5, <1>6

(* What one profile's way back does to the others, and to its own. *)
LEMMA AimsWritten ==
  ASSUME NEW d, Sound(d), NEW e, Sound(e), NEW n \in RuntimeNames(d), NEW p \in RProfile,
         Written(d, e, n, p)
  PROVE  LET y == FirstNamed(d, n) IN
         /\ y \in DOMAIN d.profiles /\ DOMAIN e.profiles = DOMAIN d.profiles
         /\ \A j \in DOMAIN d.profiles : j # y => Aims(e, j) = Aims(d, j)
         /\ p.target = None \/ Aims(d, y) \in AppIds(d) => Aims(e, y) = Aims(d, y)
         /\ p.target # None /\ Aims(d, y) \notin AppIds(d) => Aims(e, y) = AppOf[n]
<1> DEFINE y == FirstNamed(d, n)
<1>1. d.profiles \in Seq(Profile) /\ d.apps \in Seq(Application)  BY DomainMeans DEF Sound
<1>2. y \in DOMAIN d.profiles  BY <1>1, NamedFound
<1>3. AppIndex(d, Aims(d, y)) # 0 <=> Aims(d, y) \in AppIds(d)  BY <1>1, AppFound
<1> HIDE DEF y
<1>4. DOMAIN e.profiles = DOMAIN d.profiles  BY DEF Written, SameNames
<1>5. \A j \in DOMAIN d.profiles : j # y => e.profiles[j] = d.profiles[j]
  BY DEF Written, y
<1>6. p.target = None \/ Aims(d, y) \in AppIds(d) =>
        e.profiles[y].links = d.profiles[y].links /\ e.profiles[y].default = d.profiles[y].default
  BY <1>3 DEF Written, Aims, y
<1>7. p.target # None /\ Aims(d, y) \notin AppIds(d) => e.profiles[y].default = AppOf[n]
  BY <1>3 DEF Written, Aims, y
<1>8. AppOf[n] # None
  <2>1. n \in RName  BY RuntimeNamesTyped DEF Sound
  <2> QED BY <2>1, NamesAssumption
<1> QED BY <1>2, <1>4, <1>5, <1>6, <1>7, <1>8 DEF Aims, Aim, y

(* A profile just written bears what it was written from. *)
LEMMA BearsOwn ==
  ASSUME NEW d, Sound(d), NEW e, Sound(e), NEW n \in RuntimeNames(d), NEW p \in RProfile,
         Written(d, e, n, p)
  PROVE  Bears(e, FirstNamed(d, n), p)
<1> DEFINE y == FirstNamed(d, n)
           at == AppIndex(d, Aims(d, y))
<1>1. n \in RName  BY RuntimeNamesTyped DEF Sound
<1>2. e.profiles[y].mode = p.mode /\ e.profiles[y].keys = WideKeys(p.keys)
  BY DEF Written
<1>3. ASSUME p.target # None
      PROVE  \E i \in DOMAIN e.apps : e.apps[i].id = Aims(e, y) /\ e.apps[i].target = p.target
  <2>1. d.apps \in Seq(Application)  BY DomainMeans DEF Sound
  <2>2. at # 0 <=> Aims(d, y) \in AppIds(d)  BY <2>1, AppFound
  <2>3. CASE at # 0
    <3>1. Aims(e, y) = Aims(d, y)  BY <2>2, <2>3, AimsWritten
    <3>2. at \in DOMAIN d.apps /\ d.apps[at].id = Aims(d, y)
          /\ at \in DOMAIN e.apps /\ e.apps[at].id = d.apps[at].id /\ e.apps[at].target = p.target
      BY <1>1, <1>3, <2>3, AppsWritten
    <3> QED BY <3>1, <3>2
  <2>4. CASE at = 0
    <3>1. Aims(e, y) = AppOf[n]  BY <1>3, <2>2, <2>4, AimsWritten
    <3>2. Len(d.apps) + 1 \in DOMAIN e.apps /\ e.apps[Len(d.apps) + 1].id = AppOf[n]
          /\ e.apps[Len(d.apps) + 1].target = p.target
      BY <1>1, <1>3, <2>4, AppsWritten
    <3> QED BY <3>1, <3>2
  <2> QED BY <2>3, <2>4
<1> HIDE DEF y
<1>4. p.target # None => Aims(e, y) \in AppIds(e)  BY <1>3 DEF AppIds
<1>5. p.target # None /\ Alone(e, y) =>
        \A i \in DOMAIN e.apps : e.apps[i].id = Aims(e, y) => e.apps[i].target = p.target
  BY <1>3 DEF Alone
<1> QED BY <1>2, <1>4, <1>5 DEF Bears, y

(* A profile written before still bears it, unless the next one shares its *)
(* application.                                                            *)
LEMMA BearsOther ==
  ASSUME NEW d, Sound(d), NEW e, Sound(e), NEW n \in RuntimeNames(d), NEW p \in RProfile,
         Written(d, e, n, p),
         NEW x \in DOMAIN d.profiles, x # FirstNamed(d, n), NEW q, Bears(d, x, q)
  PROVE  Bears(e, x, q)
<1> DEFINE y == FirstNamed(d, n)
           at == AppIndex(d, Aims(d, y))
           a == Aims(d, x)
<1>0. n \in RName  BY RuntimeNamesTyped DEF Sound
<1>1. e.profiles[x] = d.profiles[x]  BY DEF Written
<1>2. /\ y \in DOMAIN d.profiles /\ DOMAIN e.profiles = DOMAIN d.profiles
      /\ \A j \in DOMAIN d.profiles : j # y => Aims(e, j) = Aims(d, j)
      /\ Aims(d, y) \in AppIds(d) => Aims(e, y) = Aims(d, y)
  BY AimsWritten
<1>3. Aims(e, x) = a  BY <1>1 DEF Aims
<1>4. /\ \A i \in DOMAIN d.apps : i \in DOMAIN e.apps /\ e.apps[i].id = d.apps[i].id
      /\ \A i \in DOMAIN d.apps : i # at => e.apps[i].target = d.apps[i].target
      /\ at # 0 => d.apps[at].id = Aims(d, y) /\ at \in DOMAIN d.apps
  BY <1>0, AppsWritten
<1> HIDE DEF at, a, y
<1>5. AppIds(d) \subseteq AppIds(e)  BY <1>4 DEF AppIds
<1>6. ASSUME q.target # None PROVE a \in AppIds(e)
  BY <1>5, <1>6 DEF Bears, a
<1>7. ASSUME q.target # None, Alone(e, x), NEW i \in DOMAIN e.apps, e.apps[i].id = a
      PROVE  e.apps[i].target = q.target
  <2>1. a \in AppIds(d)  BY <1>7 DEF Bears, a
  <2>2. \A j \in DOMAIN d.profiles : Aims(d, j) = a => j = x
    <3>1. ASSUME Aims(d, y) = a PROVE FALSE
      <4>1. Aims(e, y) = a  BY <1>2, <2>1, <3>1
      <4> QED BY <1>2, <1>3, <1>7, <4>1 DEF Alone, y
    <3> QED BY <1>2, <1>3, <1>7, <3>1 DEF Alone
  <2>3. \A k, l \in DOMAIN d.apps : d.apps[k].id = a /\ d.apps[l].id = a => k = l
    BY <1>3, <1>4, <1>7 DEF Alone
  <2>4. PICK k \in DOMAIN d.apps : d.apps[k].id = a  BY <2>1 DEF AppIds
  <2>5. k = i  BY <1>3, <1>4, <1>7, <2>4 DEF Alone
  <2>6. d.apps[k].target = q.target  BY <1>7, <2>2, <2>3, <2>4 DEF Bears, Alone, a
  <2>7. at # k
    <3>1. at = k => Aims(d, y) = a /\ at # 0
      <4>1. 0 \notin DOMAIN d.apps
        <5>1. d.apps \in Seq(Application)  BY DomainMeans DEF Sound
        <5> QED BY <5>1
      <4> QED BY <1>4, <2>4, <4>1
    <3> QED BY <1>2, <2>2, <3>1 DEF y
  <2> QED BY <1>4, <2>4, <2>5, <2>6, <2>7
<1> QED BY <1>1, <1>3, <1>6, <1>7 DEF Bears, a

(* After the way back every profile bears what its runtime profile was. *)
LEMMA SyncedBears ==
  ASSUME NEW d, Sound(d), NEW r, Runtime(d, r), NEW a \in RName
  PROVE  \A n \in RuntimeNames(d) : Bears(Synced(d, r, a), FirstNamed(d, n), r[n])
<1> DEFINE N == Len(NameOrder)
           V == {e \in Domain : Sound(e) /\ SameNames(d, e)}
           act == IF a = "basic" THEN Normal ELSE a
           e == Synced(d, r, a)
           At(k) == NameOrder[k] \in DOMAIN r
           x(k) == FirstNamed(d, NameOrder[k])
<1>1. PICK sync \in [0..N -> V] : Syncs(d, r, sync) /\ e = [sync[N] EXCEPT !.active = act]
  BY SyncFolds
<1>2. N \in Nat /\ DOMAIN NameOrder = 1..N /\ IsInjective(NameOrder) /\ RName \subseteq ToSet(NameOrder)
  BY NamesAssumption
<1> HIDE DEF e, act
<1>3. \A i \in 0..N : sync[i] \in Domain /\ Sound(sync[i]) /\ SameNames(d, sync[i])  OBVIOUS
<1> DEFINE T == {i \in 0..N : \A k \in 1..i : At(k) => Bears(sync[i], x(k), r[NameOrder[k]])}
<1>4. 0 \in T  BY <1>2
<1>5. ASSUME NEW i \in 1..N, i - 1 \in T PROVE i \in T
  <2>1. /\ i \in 0..N /\ i - 1 \in 0..N
        /\ \A k \in 1..i : k = i \/ k \in 1..(i - 1)
        /\ \A k \in 1..(i - 1) : k # i /\ k \in 1..N
    BY <1>2
  <2>2. sync[i] = IF At(i) THEN SyncedProfile(sync[i - 1], NameOrder[i], r[NameOrder[i]])
                  ELSE sync[i - 1]
    BY <1>1 DEF Syncs
  <2>3. \A k \in 1..(i - 1) : At(k) => Bears(sync[i - 1], x(k), r[NameOrder[k]])  BY <1>5
  <2>4. CASE ~ At(i)
    <3>1. \A k \in 1..i : At(k) => k \in 1..(i - 1)  BY <2>1, <2>4
    <3>2. sync[i] = sync[i - 1]  BY <2>2, <2>4
    <3> QED BY <2>1, <2>3, <3>1, <3>2
  <2>5. CASE At(i)
    <3> DEFINE n == NameOrder[i]
               p == r[n]
               s == sync[i - 1]
               t == sync[i]
    <3>1. Sound(s) /\ SameNames(d, s) /\ s \in Domain /\ d \in Domain  BY <1>3, <2>1 DEF Sound
    <3>2. n \in RuntimeNames(d) /\ p \in RProfile  BY <2>5 DEF Runtime
    <3>3. d.profiles \in Seq(Profile) /\ s.profiles \in Seq(Profile)  BY <3>1, DomainMeans
    <3>4. \A m : FirstNamed(s, m) = FirstNamed(d, m) /\ RuntimeNames(s) = RuntimeNames(d)
      BY <3>1, <3>3, NamedAlike
    <3>5. t = SyncedProfile(s, n, p)  BY <2>2, <2>5
    <3>6. n \in RuntimeNames(s)  BY <3>2, <3>4
    <3> HIDE DEF n, p, s, t, x
    <3>7. Sound(t) /\ Written(s, t, n, p)  BY <3>1, <3>2, <3>5, <3>6, SyncedProfileIs
    <3>8. Bears(t, FirstNamed(d, n), p)  BY <3>1, <3>2, <3>4, <3>6, <3>7, BearsOwn
    <3>9. ASSUME NEW k \in 1..(i - 1), At(k) PROVE Bears(t, x(k), r[NameOrder[k]])
      <4>1. NameOrder[k] # n /\ NameOrder[k] \in RuntimeNames(d)
        <5>1. NameOrder[k] # NameOrder[i]  BY <1>2, <2>1 DEF IsInjective
        <5> QED BY <3>9, <5>1 DEF n, Runtime
      <4>2. x(k) # FirstNamed(s, n)  BY <3>2, <3>4, <4>1, FirstIsOwn DEF x
      <4>3. x(k) \in DOMAIN s.profiles  BY <3>1, <3>3, <4>1, NamedFound DEF SameNames, x
      <4>4. Bears(s, x(k), r[NameOrder[k]])  BY <2>3, <3>9 DEF s
      <4> QED BY <3>1, <3>2, <3>6, <3>7, <4>2, <4>3, <4>4, BearsOther
    <3>10. \A k \in 1..i : At(k) => Bears(t, x(k), r[NameOrder[k]])
      BY <2>1, <3>8, <3>9 DEF x, n, p
    <3> QED BY <2>1, <3>10 DEF t
  <2> QED BY <2>4, <2>5
<1>6. N \in T
  <2> HIDE DEF T, N
  <2>1. \A i \in 0..N : i \in T  BY <1>2, <1>4, <1>5, Upwards
  <2> QED BY <1>2, <2>1
<1>7. \A k \in 1..N : At(k) => Bears(sync[N], x(k), r[NameOrder[k]])  BY <1>6
<1>8. e.profiles = sync[N].profiles /\ e.apps = sync[N].apps
  BY <1>1, <1>2, <1>3 DEF Domain
<1>9. ASSUME NEW y, NEW p, Bears(sync[N], y, p) PROVE Bears(e, y, p)
  BY <1>8, <1>9 DEF Bears, Aims, Alone, AppIds
<1>10. ASSUME NEW n \in RuntimeNames(d) PROVE Bears(e, FirstNamed(d, n), r[n])
  <2>1. n \in RName /\ n \in DOMAIN r  BY RuntimeNamesTyped DEF Sound, Runtime
  <2>2. PICK k \in 1..N : NameOrder[k] = n  BY <1>2, <2>1 DEF ToSet
  <2> QED BY <1>7, <1>9, <2>1, <2>2
<1> QED BY <1>10 DEF e

(* Every runtime profile with a target has an application to hold it. *)
Covers(d, r) ==
  \A n \in RuntimeNames(d) : r[n].target # None => Aims(d, FirstNamed(d, n)) \in AppIds(d)

(* The same profiles, aimed at the same applications. *)
SameAims(d, e) ==
  /\ SameNames(d, e)
  /\ \A j \in DOMAIN d.profiles : Aims(e, j) = Aims(d, j)
  /\ DOMAIN e.apps = DOMAIN d.apps
  /\ \A i \in DOMAIN d.apps : e.apps[i].id = d.apps[i].id

(* If every target has an application, the way back needs no other. *)
LEMMA SyncedCovered ==
  ASSUME NEW d, Sound(d), NEW r, Runtime(d, r), NEW a \in RName, Covers(d, r)
  PROVE  SameAims(d, Synced(d, r, a))
<1> DEFINE N == Len(NameOrder)
           V == {e \in Domain : Sound(e) /\ SameNames(d, e)}
           act == IF a = "basic" THEN Normal ELSE a
           e == Synced(d, r, a)
<1>1. PICK sync \in [0..N -> V] : Syncs(d, r, sync) /\ e = [sync[N] EXCEPT !.active = act]
  BY SyncFolds
<1>2. N \in Nat  BY NamesAssumption
<1> HIDE DEF e, act
<1>3. \A i \in 0..N : sync[i] \in Domain /\ Sound(sync[i]) /\ SameNames(d, sync[i])  OBVIOUS
<1> DEFINE T == {i \in 0..N : SameAims(d, sync[i])}
<1>4. 0 \in T
  <2>1. sync[0] = d /\ 0 \in 0..N  BY <1>1, <1>2 DEF Syncs
  <2> QED BY <2>1 DEF SameAims, SameNames
<1>5. ASSUME NEW i \in 1..N, i - 1 \in T PROVE i \in T
  <2>1. i \in 0..N /\ i - 1 \in 0..N  BY <1>2
  <2> DEFINE n == NameOrder[i]
             p == r[n]
             s == sync[i - 1]
             t == sync[i]
  <2>2. t = IF n \in DOMAIN r THEN SyncedProfile(s, n, p) ELSE s  BY <1>1 DEF Syncs
  <2>3. SameAims(d, s)  BY <1>5
  <2>4. CASE n \notin DOMAIN r  BY <2>1, <2>2, <2>3, <2>4
  <2>5. CASE n \in DOMAIN r
    <3>1. Sound(s) /\ SameNames(d, s) /\ s \in Domain /\ d \in Domain  BY <1>3, <2>1 DEF Sound
    <3>2. n \in RuntimeNames(d) /\ p \in RProfile  BY <2>5 DEF Runtime
    <3>3. d.profiles \in Seq(Profile) /\ s.profiles \in Seq(Profile)  BY <3>1, DomainMeans
    <3>4. FirstNamed(s, n) = FirstNamed(d, n) /\ RuntimeNames(s) = RuntimeNames(d)
      BY <3>1, <3>3, NamedAlike
    <3>5. t = SyncedProfile(s, n, p)  BY <2>2, <2>5
    <3>6. p.target # None => Aims(d, FirstNamed(d, n)) \in AppIds(d)  BY <3>2 DEF Covers
    <3> HIDE DEF n, p, s, t
    <3>7. Sound(t) /\ Written(s, t, n, p)  BY <3>1, <3>2, <3>4, <3>5, SyncedProfileIs
    <3>8. AppIds(s) = AppIds(d)  BY <2>3 DEF SameAims, AppIds
    <3> DEFINE y == FirstNamed(s, n)
               at == AppIndex(s, Aims(s, y))
    <3>9. y \in DOMAIN d.profiles  BY <3>2, <3>3, <3>4, NamedFound
    <3>10. p.target # None => Aims(s, y) \in AppIds(s)  BY <2>3, <3>4, <3>6, <3>8, <3>9 DEF SameAims
    <3>11. at # 0 <=> Aims(s, y) \in AppIds(s)
      <4>1. s.apps \in Seq(Application)  BY <3>1, DomainMeans
      <4> QED BY <4>1, AppFound
    <3>12. /\ DOMAIN t.apps = DOMAIN s.apps
           /\ \A j \in DOMAIN s.apps : t.apps[j].id = s.apps[j].id
      <4>1. n \in RName  BY <3>1, <3>2, RuntimeNamesTyped
      <4>2. at # 0 \/ p.target = None  BY <3>10, <3>11
      <4> QED BY <3>1, <3>2, <3>7, <4>1, <4>2, AppsWritten
    <3>13. \A j \in DOMAIN s.profiles : Aims(t, j) = Aims(s, j)
      BY <3>1, <3>2, <3>4, <3>7, <3>10, AimsWritten
    <3>14. SameNames(d, t)  BY <3>1, <3>7, SameNamesJoin DEF Written
    <3>15. DOMAIN s.profiles = DOMAIN d.profiles  BY <3>1 DEF SameNames
    <3>16. SameAims(d, t)  BY <2>3, <3>12, <3>13, <3>14, <3>15 DEF SameAims
    <3> QED BY <2>1, <3>16 DEF t
  <2> QED BY <2>4, <2>5
<1>6. N \in T
  <2> HIDE DEF T, N
  <2>1. \A i \in 0..N : i \in T  BY <1>2, <1>4, <1>5, Upwards
  <2> QED BY <1>2, <2>1
<1>7. SameAims(d, sync[N])  BY <1>6
<1>8. e.profiles = sync[N].profiles /\ e.apps = sync[N].apps
  BY <1>1, <1>2, <1>3 DEF Domain
<1>9. SameAims(d, e)  BY <1>7, <1>8 DEF SameAims, SameNames, Aims
<1> QED BY <1>9 DEF e

(* No application has the empty id. *)
LEMMA AppIdsTyped ==
  ASSUME NEW d \in Domain PROVE AppIds(d) \subseteq AppId /\ None \notin AppIds(d)
<1>1. \A i \in DOMAIN d.apps : d.apps[i] \in Application  BY DomainMeans
<1> QED BY <1>1, NamesAssumption DEF AppIds, Application

(* What a profile bears is projected. *)
LEMMA BearsIsKept ==
  ASSUME NEW e, Sound(e), NEW n \in RuntimeNames(e), Unambiguous(e, n), NEW p \in RProfile,
         Bears(e, FirstNamed(e, n), p)
  PROVE  Keeps(e, n, p, Projected(e)[n])
<1> DEFINE x == FirstNamed(e, n)
           q == Projected(e)[n]
           k == AppIndex(e, Aims(e, x))
<1>1. x = LastNamed(e, n)  BY FirstIsLast
<1>2. q = ProjectedProfile(e, e.profiles[LastNamed(e, n)])  BY DEF Projected
<1>3. /\ q.mode = e.profiles[x].mode /\ q.keys = e.profiles[x].keys
      /\ k # 0 => q.target = e.apps[k].target
  BY <1>1, <1>2 DEF ProjectedProfile, Aims
<1>4. e \in Domain /\ e.apps \in Seq(Application)  BY DomainMeans DEF Sound
<1> HIDE DEF q
<1>5. q.mode = p.mode /\ WideKeys(q.keys) = WideKeys(p.keys)
  <2>1. p.keys \in SUBSET Key  BY DEF RProfile
  <2> QED BY <1>3, <2>1, WideTwice DEF Bears
<1>6. ASSUME p.target # None, OwnsTarget(e, n) PROVE q.target = p.target
  <2>1. Aims(e, x) \in AppIds(e)  BY <1>6 DEF Bears
  <2>2. k # 0 /\ k \in DOMAIN e.apps /\ e.apps[k].id = Aims(e, x)  BY <1>4, <2>1, AppFound
  <2>3. Aims(e, x) # None  BY <1>4, <2>1, AppIdsTyped
  <2> HIDE DEF x
  <2>4. Alone(e, x)
    BY <1>1, <1>6, <2>3 DEF OwnsTarget, Alone, Aims
  <2> HIDE DEF k
  <2>5. e.apps[k].target = p.target  BY <1>6, <2>2, <2>4 DEF Bears, x
  <2> QED BY <1>3, <2>2, <2>5
<1> QED BY <1>5, <1>6 DEF Keeps, q

(* The runtime profiles are those a projection would make. *)
Follows(d, r) ==
  \A n \in RuntimeNames(d) : Unambiguous(d, n) => Keeps(d, n, r[n], Projected(d)[n])

(* After SyncRuntimeToDomain the runtime profiles are what a projection    *)
(* would make of the domain.                                               *)
LEMMA SyncedFollows ==
  ASSUME NEW d, Sound(d), NEW r, Runtime(d, r), NEW a \in RName
  PROVE  Covers(Synced(d, r, a), r) /\ Follows(Synced(d, r, a), r)
<1> DEFINE e == Synced(d, r, a)
<1>1. Sound(e) /\ SameNames(d, e) /\ RuntimeNames(e) = RuntimeNames(d)  BY SyncedSound
<1>2. \A n \in RuntimeNames(d) : Bears(e, FirstNamed(d, n), r[n])  BY SyncedBears
<1> HIDE DEF e
<1>3. \A n : FirstNamed(e, n) = FirstNamed(d, n)
  <2>1. d.profiles \in Seq(Profile) /\ e.profiles \in Seq(Profile)
    BY <1>1, DomainMeans DEF Sound
  <2> QED BY <1>1, <2>1, NamedAlike
<1>4. Covers(e, r)  BY <1>1, <1>2, <1>3 DEF Covers, Bears
<1>5. \A n \in RuntimeNames(e) : r[n] \in RProfile  BY <1>1 DEF Runtime
<1>6. Follows(e, r)  BY <1>1, <1>2, <1>3, <1>5, BearsIsKept DEF Follows
<1> QED BY <1>4, <1>6 DEF e

(* Where only the built-in profile is like the built-in one, every runtime *)
(* name is one profile's.                                                  *)
LEMMA OneName ==
  ASSUME NEW d, Sound(d), OneBuiltIn(d) PROVE \A n : Unambiguous(d, n)
<1> SUFFICES ASSUME NEW i \in DOMAIN d.profiles, NEW j \in DOMAIN d.profiles,
                    RuntimeName(d.profiles[i]) = RuntimeName(d.profiles[j]), i # j
             PROVE  FALSE
  BY DEF Unambiguous
<1>1. Apart(d.profiles[i], d.profiles[j])  BY SoundMeans DEF Sound
<1>2. LikeBuiltIn("basic")  BY NamesAssumption DEF LikeBuiltIn
<1>3. CASE d.profiles[i].id = Normal \/ d.profiles[j].id = Normal
  <2>1. RuntimeName(d.profiles[i]) = "basic" /\ RuntimeName(d.profiles[j]) = "basic"
    BY <1>3 DEF RuntimeName
  <2>2. d.profiles[i].id = Normal /\ d.profiles[j].id = Normal  BY <1>2, <2>1 DEF OneBuiltIn
  <2> QED BY <1>1, <2>2 DEF Apart
<1>4. CASE d.profiles[i].id # Normal /\ d.profiles[j].id # Normal
  BY <1>1, <1>4 DEF RuntimeName, Apart
<1> QED BY <1>3, <1>4

(* The runtime profiles just projected are those of the domain. *)
LEMMA ProjectedFollows ==
  ASSUME NEW d, Sound(d), OneBuiltIn(d)
  PROVE  Covers(d, Projected(d)) /\ Follows(d, Projected(d))
<1>1. d \in Domain /\ d.apps \in Seq(Application)  BY DomainMeans DEF Sound
<1>2. ASSUME NEW n \in RuntimeNames(d), Projected(d)[n].target # None
      PROVE  Aims(d, FirstNamed(d, n)) \in AppIds(d)
  <2>1. FirstNamed(d, n) = LastNamed(d, n)  BY OneName, FirstIsLast
  <2> DEFINE p == d.profiles[LastNamed(d, n)]
  <2>2. Projected(d)[n] = ProjectedProfile(d, p)  BY DEF Projected
  <2> HIDE DEF p
  <2>3. AppIndex(d, Aim(p)) # 0  BY <1>2, <2>2 DEF ProjectedProfile
  <2>4. Aim(p) \in AppIds(d)  BY <1>1, <2>3, AppFound
  <2> QED BY <2>1, <2>4 DEF Aims, p
<1>3. Follows(d, Projected(d))  BY DEF Follows, Keeps
<1> QED BY <1>2, <1>3 DEF Covers

(* No profile loaded from a file is like the built-in one, but that one    *)
(* itself.                                                                 *)
LEMMA LoadedHasOne ==
  ASSUME NEW f, FileIsGood(f) PROVE OneBuiltIn(Loaded(f))
<1> DEFINE d == Loaded(f)
<1>1. \A j \in DOMAIN d.profiles :
        \/ IsBuiltIn(d.profiles[j])
        \/ \E k \in 1..Len(IdOrder) : Own(f, k) /\ d.profiles[j] = Element(f, k)
  BY LoadedIs
<1> HIDE DEF d
<1> SUFFICES ASSUME NEW j \in DOMAIN d.profiles, LikeBuiltIn(RuntimeName(d.profiles[j])),
                    d.profiles[j].id # Normal
             PROVE  FALSE
  BY DEF OneBuiltIn, d
<1>2. PICK k \in 1..Len(IdOrder) : Own(f, k) /\ d.profiles[j] = Element(f, k)
  BY <1>1 DEF IsBuiltIn
<1>3. ~ LikeBuiltIn(d.profiles[j].name)  BY <1>2, ElementIs
<1> QED BY <1>3 DEF RuntimeName

(* Nor is one of the default configuration. *)
LEMMA DefaultHasOne == OneBuiltIn(DefaultDomain)
<1> DEFINE s == <<NormalProfile>>
<1>1. DefaultDomain.profiles = s  BY DEF DefaultDomain
<1>2. DOMAIN s = {1} /\ s[1] = NormalProfile  OBVIOUS
<1> HIDE DEF s
<1> QED BY <1>1, <1>2, TemplateIs DEF OneBuiltIn

(* An application more, of a new id, changes no projection. *)
LEMMA AddedFollows ==
  ASSUME NEW d, Sound(d), NEW app \in Application, NEW r, Covers(d, r), NEW e,
         e = [d EXCEPT !.apps = Append(@, app)]
  PROVE  /\ Covers(e, r)
         /\ \A n \in RuntimeNames(d) : Projected(e)[n] = Projected(d)[n]
         /\ Follows(d, r) => Follows(e, r)
<1>1. d \in Domain /\ IsSound(d)  BY DEF Sound
<1>2. /\ e.profiles = d.profiles /\ e.apps = Append(d.apps, app)
      /\ AppIds(e) = AppIds(d) \cup {app.id} /\ Sound(e)
  BY <1>1, AppAdded DEF Domain
<1>3. d.profiles \in Seq(Profile) /\ d.apps \in Seq(Application) /\ e.apps \in Seq(Application)
  BY <1>1, <1>2, DomainMeans DEF Sound
<1>4. SameNames(d, e)  BY <1>2 DEF SameNames
<1>5. \A n : FirstNamed(e, n) = FirstNamed(d, n) /\ LastNamed(e, n) = LastNamed(d, n)
      /\ RuntimeNames(e) = RuntimeNames(d)
  BY <1>2, <1>3, <1>4, NamedAlike
<1>6. Covers(e, r)  BY <1>2, <1>5 DEF Covers, Aims
<1>7. \A i \in DOMAIN d.apps : i \in DOMAIN e.apps /\ e.apps[i] = d.apps[i]
  BY <1>2, <1>3, AppendIs
<1>8. ASSUME NEW a \in AppIds(d) PROVE AppIndex(e, a) = AppIndex(d, a)
  <2>1. /\ AppIndex(d, a) # 0 /\ AppIndex(d, a) \in DOMAIN d.apps /\ d.apps[AppIndex(d, a)].id = a
        /\ \A j \in DOMAIN d.apps : d.apps[j].id = a => AppIndex(d, a) <= j
    BY <1>3, AppFound
  <2>2. /\ AppIndex(e, a) # 0 /\ AppIndex(e, a) \in DOMAIN e.apps /\ e.apps[AppIndex(e, a)].id = a
        /\ \A j \in DOMAIN e.apps : e.apps[j].id = a => AppIndex(e, a) <= j
    <3>1. a \in AppIds(e)  BY <1>2
    <3>2. e.apps \in Seq(Application)  BY <1>3
    <3> QED BY ONLY <3>1, <3>2, AppFound
  <2> DEFINE i == AppIndex(d, a)  k == AppIndex(e, a)
  <2>3. k <= i
    <3>1. i \in DOMAIN e.apps /\ e.apps[i].id = a  BY <1>7, <2>1
    <3> QED BY <2>2, <3>1
  <2>4. DOMAIN d.apps = 1..Len(d.apps) /\ Len(d.apps) \in Nat
        /\ DOMAIN e.apps = 1..(Len(d.apps) + 1)
    BY <1>2, <1>3
  <2> HIDE DEF i, k
  <2>5. i \in 1..Len(d.apps) /\ k \in 1..(Len(d.apps) + 1)  BY <2>1, <2>2, <2>4 DEF i, k
  <2>6. k \in DOMAIN d.apps  BY <2>3, <2>4, <2>5
  <2>7. i <= k  BY <1>7, <2>1, <2>2, <2>6 DEF i, k
  <2>8. i = k  BY <2>3, <2>5, <2>7
  <2> QED BY <2>8 DEF i, k
<1>9. None \notin AppIds(d) /\ None \notin AppIds(e)  BY <1>1, <1>2, AppIdsTyped DEF Sound
<1>10. ASSUME NEW n \in RuntimeNames(d) PROVE Projected(e)[n] = Projected(d)[n]
  <2> DEFINE p == d.profiles[LastNamed(d, n)]
  <2>1. Projected(d)[n] = ProjectedProfile(d, p) /\ Projected(e)[n] = ProjectedProfile(e, p)
    BY <1>2, <1>5 DEF Projected
  <2>2. p \in Profile /\ Known(p, AppIds(d))
    <3>1. LastNamed(d, n) \in DOMAIN d.profiles  BY <1>3, NamedFound
    <3> QED BY <1>1, <3>1, DomainMeans, SoundMeans
  <2> HIDE DEF p
  <2>3. Aim(p) = None \/ Aim(p) \in AppIds(d)
    <3>1. p.links # <<>> => Head(p.links) \in ToSet(p.links)
      <4>1. p.links \in Seq(AppId)  BY <2>2 DEF Profile
      <4>2. p.links # <<>> => 1 \in DOMAIN p.links /\ Head(p.links) = p.links[1]  BY <4>1
      <4> QED BY <4>2 DEF ToSet
    <3> QED BY <2>2, <3>1 DEF Known, Aim
  <2>4. CASE Aim(p) \in AppIds(d)
    <3> DEFINE k == AppIndex(d, Aim(p))
    <3>1. AppIndex(e, Aim(p)) = k  BY <1>8, <2>4
    <3>2. k # 0 => e.apps[k] = d.apps[k]  BY <1>3, <1>7, AppFound
    <3> HIDE DEF k
    <3> QED BY <2>1, <3>1, <3>2 DEF ProjectedProfile, k
  <2>5. CASE Aim(p) = None
    <3>1. AppIndex(d, Aim(p)) = 0 /\ AppIndex(e, Aim(p)) = 0  BY <1>3, <1>9, <2>5, AppFound
    <3> QED BY <2>1, <3>1 DEF ProjectedProfile
  <2> QED BY <2>3, <2>4, <2>5
<1>11. ASSUME NEW n \in RuntimeNames(d), Unambiguous(e, n), Follows(d, r)
       PROVE  Keeps(e, n, r[n], Projected(e)[n])
  <2>1. Unambiguous(d, n)  BY <1>2, <1>11 DEF Unambiguous
  <2>2. Keeps(d, n, r[n], Projected(d)[n])  BY <1>11, <2>1 DEF Follows
  <2>3. OwnsTarget(e, n) => OwnsTarget(d, n)  BY <1>2, <1>5, <1>7 DEF OwnsTarget
  <2>4. Projected(e)[n] = Projected(d)[n]  BY <1>10
  <2> QED BY <2>2, <2>3, <2>4 DEF Keeps
<1> QED BY <1>5, <1>6, <1>10, <1>11 DEF Follows

(* The second part of the inductive invariant: between the main thread's   *)
(* edits the domain holds what the runtime profiles hold.                  *)
Synchronous ==
  /\ Main \notin saving \/ clean => Covers(domain, runtime)
  /\ Main \notin saving => Follows(domain, runtime)

(* The application of an id, if there is one of it, is still there. *)
Carries(d, e, a) ==
  a \in AppIds(d) /\ (\A i, j \in DOMAIN d.apps : d.apps[i].id = a /\ d.apps[j].id = a => i = j) =>
    a \in AppIds(e) /\ e.apps[AppIndex(e, a)].target = d.apps[AppIndex(d, a)].target

(* A profile that is carried over, with its application, is kept. *)
LEMMA Untouched ==
  ASSUME NEW d, Sound(d), NEW r, Runtime(d, r), Covers(d, r), Follows(d, r), NEW a \in RName,
         NEW e, Sound(e), NEW n \in RuntimeNames(d), Unambiguous(d, n), Unambiguous(e, n),
         NEW y \in DOMAIN e.profiles, e.profiles[y] = d.profiles[LastNamed(d, n)],
         Carries(d, e, Aims(d, LastNamed(d, n)))
  PROVE  n \in RuntimeNames(e) /\ Keeps(Synced(d, r, a), n, r[n], Projected(e)[n])
<1> DEFINE s == Synced(d, r, a)
           x == LastNamed(d, n)
           p == d.profiles[x]
           q == Projected(e)[n]
           o == Projected(d)[n]
<1>1. /\ d \in Domain /\ d.profiles \in Seq(Profile) /\ d.apps \in Seq(Application)
      /\ e \in Domain /\ e.profiles \in Seq(Profile) /\ e.apps \in Seq(Application)
  BY DomainMeans DEF Sound
<1>2. x \in DOMAIN d.profiles /\ RuntimeName(p) = n  BY <1>1, NamedFound
<1>3. n \in RuntimeNames(e)  BY <1>2 DEF RuntimeNames
<1>4. LastNamed(e, n) = y
  <2>1. LastNamed(e, n) \in DOMAIN e.profiles /\ RuntimeName(e.profiles[LastNamed(e, n)]) = n
    BY <1>1, <1>3, NamedFound
  <2> QED BY <1>2, <2>1 DEF Unambiguous
<1>5. q = ProjectedProfile(e, p) /\ o = ProjectedProfile(d, p)
  BY <1>3, <1>4 DEF Projected
<1>6. SameAims(d, s) /\ Sound(s) /\ SameNames(d, s)  BY SyncedCovered, SyncedSound
<1>7. Keeps(d, n, r[n], o)  BY DEF Follows
<1>8. FirstNamed(d, n) = x  BY FirstIsLast
<1>9. r[n].target # None => Aim(p) \in AppIds(d)  BY <1>8 DEF Covers, Aims
<1> HIDE DEF s, q, o
<1>10. LastNamed(s, n) = x
  <2>1. s.profiles \in Seq(Profile)  BY <1>6, DomainMeans DEF Sound
  <2> QED BY <1>1, <1>6, <2>1, NamedAlike
<1> HIDE DEF x, p
<1>11. OwnsTarget(s, n) => OwnsTarget(d, n)
  <2>1. DOMAIN s.profiles = DOMAIN d.profiles  BY <1>6 DEF SameNames
  <2>2. Aims(s, x) = Aims(d, x)  BY <1>2, <1>6 DEF SameAims
  <2> QED BY <1>6, <1>10, <2>1, <2>2 DEF OwnsTarget, SameAims, Aims, x
<1>12. q.mode = o.mode /\ q.keys = o.keys  BY <1>5 DEF ProjectedProfile
<1>13. ASSUME r[n].target # None, OwnsTarget(d, n) PROVE q.target = o.target
  <2>1. Aim(p) \in AppIds(d) /\ Aim(p) # None  BY <1>1, <1>9, <1>13, AppIdsTyped
  <2>2. \A i, j \in DOMAIN d.apps : d.apps[i].id = Aim(p) /\ d.apps[j].id = Aim(p) => i = j
    BY <1>13, <2>1 DEF OwnsTarget, x, p
  <2>3. Carries(d, e, Aim(p))  BY DEF Aims, x, p
  <2>4. Aim(p) \in AppIds(e)
        /\ e.apps[AppIndex(e, Aim(p))].target = d.apps[AppIndex(d, Aim(p))].target
    BY <2>1, <2>2, <2>3 DEF Carries
  <2>5. AppIndex(e, Aim(p)) # 0 /\ AppIndex(d, Aim(p)) # 0  BY <1>1, <2>1, <2>4, AppFound
  <2> QED BY <1>5, <2>4, <2>5 DEF ProjectedProfile
<1>14. Keeps(s, n, r[n], q)  BY <1>7, <1>11, <1>12, <1>13 DEF Keeps
<1> QED BY <1>3, <1>14 DEF s, q

(* Applications left as they were are carried over. *)
LEMMA SameApps ==
  ASSUME NEW d, NEW e, e.apps = d.apps, NEW a PROVE Carries(d, e, a)
BY DEF Carries, AppIds, AppIndex

(* So are those that another is added to. *)
LEMMA MoreApps ==
  ASSUME NEW d, NEW e, d.apps \in Seq(Application), NEW app \in Application,
         e.apps = Append(d.apps, app), NEW a
  PROVE  Carries(d, e, a)
<1> SUFFICES ASSUME a \in AppIds(d)
             PROVE  a \in AppIds(e) /\ e.apps[AppIndex(e, a)].target = d.apps[AppIndex(d, a)].target
  BY DEF Carries
<1> DEFINE i == AppIndex(d, a)  k == AppIndex(e, a)  n == Len(d.apps)
<1>1. /\ e.apps \in Seq(Application) /\ n \in Nat /\ DOMAIN d.apps = 1..n
      /\ DOMAIN e.apps = 1..(n + 1)
      /\ \A j \in DOMAIN d.apps : j \in DOMAIN e.apps /\ e.apps[j] = d.apps[j]
  BY AppendIs
<1>2. a \in AppIds(e)  BY <1>1 DEF AppIds
<1>3. /\ i \in DOMAIN d.apps /\ d.apps[i].id = a
      /\ \A j \in DOMAIN d.apps : d.apps[j].id = a => i <= j
  BY AppFound
<1>4. /\ k \in DOMAIN e.apps /\ e.apps[k].id = a
      /\ \A j \in DOMAIN e.apps : e.apps[j].id = a => k <= j
  BY ONLY <1>2, e.apps \in Seq(Application), <1>1, AppFound
<1> HIDE DEF i, k, n
<1>5. k <= i  BY <1>1, <1>3, <1>4
<1>6. i \in 1..n /\ k \in 1..(n + 1)  BY <1>1, <1>3, <1>4
<1>7. k \in DOMAIN d.apps  BY <1>1, <1>5, <1>6
<1>8. i <= k  BY <1>1, <1>3, <1>4, <1>7
<1>9. i = k  BY <1>5, <1>6, <1>8
<1> QED BY <1>1, <1>2, <1>3, <1>9 DEF i, k

(* Deletion drops no application that a profile left refers to. *)
LEMMA FewerApps ==
  ASSUME NEW d \in Domain, NEW id, NEW e, e = Deleted(d, id),
         NEW y \in DOMAIN e.profiles, e.profiles[y].links \in Seq(AppId)
  PROVE  Carries(d, e, Aims(e, y))
<1> DEFINE a == Aims(e, y)
           S == {app \in ToSet(d.apps) : app.id \in Refer(e)}
           n == Len(d.apps)
<1> SUFFICES ASSUME a \in AppIds(d),
                    \A i, j \in DOMAIN d.apps : d.apps[i].id = a /\ d.apps[j].id = a => i = j
             PROVE  a \in AppIds(e) /\ e.apps[AppIndex(e, a)].target = d.apps[AppIndex(d, a)].target
  BY DEF Carries
<1>1. /\ e \in [profiles : Seq(Profile), apps : Seq(Application), active : {Normal, d.active}]
      /\ Picked(d.apps, S, e.apps, n) /\ AppIds(e) = AppIds(d) \cap Refer(e)
  BY DeletedIs
<1>2. e.apps \in Seq(Application) /\ d.apps \in Seq(Application) /\ DOMAIN d.apps = 1..n
  BY <1>1, DomainMeans
<1>3. a \in Refer(e)
  <2> DEFINE p == e.profiles[y]
  <2>1. p.links # <<>> => Head(p.links) \in ToSet(p.links)
    <3>1. p.links # <<>> => 1 \in DOMAIN p.links /\ Head(p.links) = p.links[1]  OBVIOUS
    <3> QED BY <3>1 DEF ToSet
  <2>2. a \in ToSet(p.links) \cup {p.default}  BY <2>1 DEF Aims, Aim
  <2> QED BY <2>2 DEF Refer
<1> HIDE DEF S, n
<1>4. a \in AppIds(e)  BY <1>1, <1>3
<1> HIDE DEF a
<1> DEFINE i == AppIndex(d, a)  k == AppIndex(e, a)
<1>5. i \in DOMAIN d.apps /\ d.apps[i].id = a  BY <1>2, AppFound
<1>6. k \in DOMAIN e.apps /\ e.apps[k].id = a
  BY ONLY <1>2, <1>4, AppFound
<1> HIDE DEF i, k
<1>7. PICK j \in 1..n : e.apps[k] = d.apps[j]  BY <1>1, <1>6 DEF Picked
<1>8. j = i  BY <1>2, <1>5, <1>6, <1>7
<1> QED BY <1>4, <1>7, <1>8 DEF i, k, a

(* What EditsAreLocal says of one runtime profile. *)
Local(n) ==
  Unambiguous(domain, n) /\ Unambiguous(domain', n) =>
    /\ n \in DOMAIN runtime'
    /\ \/ runtime'[n] = runtime[n]
       \/ Keeps(Synced(domain, runtime, active), n, runtime[n], runtime'[n])

(* A profile carried over by an operation of the service is left as it     *)
(* was.                                                                    *)
LEMMA CarriedOver ==
  ASSUME StoreTyped, Synchronous, Main \notin saving, NEW n \in DOMAIN runtime,
         NEW e, Sound(e), domain' = e, DOMAIN runtime' = RuntimeNames(e),
         n \in RuntimeNames(e) => runtime'[n] = Projected(e)[n],
         NEW y \in DOMAIN e.profiles, e.profiles[y] = domain.profiles[LastNamed(domain, n)],
         Carries(domain, e, Aims(domain, LastNamed(domain, n)))
  PROVE  Local(n)
<1> SUFFICES ASSUME Unambiguous(domain, n), Unambiguous(e, n)
             PROVE  /\ n \in RuntimeNames(e)
                    /\ Keeps(Synced(domain, runtime, active), n, runtime[n], Projected(e)[n])
  BY DEF Local
<1>1. Sound(domain) /\ Runtime(domain, runtime) /\ active \in RName /\ n \in RuntimeNames(domain)
  BY DEF StoreTyped, Runtime
<1>2. Covers(domain, runtime) /\ Follows(domain, runtime)  BY DEF Synchronous
<1> QED BY <1>1, <1>2, Untouched

(* The last of a runtime name is there. *)
LEMMA LastIsThere ==
  ASSUME StoreTyped, NEW n \in DOMAIN runtime
  PROVE  /\ LastNamed(domain, n) \in DOMAIN domain.profiles
         /\ RuntimeName(domain.profiles[LastNamed(domain, n)]) = n
<1>1. domain.profiles \in Seq(Profile) /\ n \in RuntimeNames(domain)
  BY DomainMeans DEF StoreTyped, Sound, Runtime
<1> QED BY <1>1, NamedFound

(* A profile created leaves every other as it was. *)
LEMMA CreatedLocal ==
  ASSUME StoreTyped, Synchronous, Main \notin saving, NEW n \in DOMAIN runtime,
         NEW e, Sound(e), domain' = e, DOMAIN runtime' = RuntimeNames(e),
         n \in RuntimeNames(e) => runtime'[n] = Projected(e)[n],
         NEW p, e.profiles = Append(domain.profiles, p),
         e.apps = domain.apps \/ \E app \in Application : e.apps = Append(domain.apps, app)
  PROVE  Local(n)
<1> DEFINE x == LastNamed(domain, n)
<1>1. x \in DOMAIN domain.profiles  BY LastIsThere
<1>2. domain.profiles \in Seq(Profile) /\ domain.apps \in Seq(Application)
  BY DomainMeans DEF StoreTyped, Sound
<1> HIDE DEF x
<1>3. x \in DOMAIN e.profiles /\ e.profiles[x] = domain.profiles[x]  BY <1>1, <1>2
<1>4. Carries(domain, e, Aims(domain, x))  BY <1>2, SameApps, MoreApps
<1> QED BY <1>3, <1>4, CarriedOver DEF x

(* A profile changed leaves every other as it was. *)
LEMMA ChangedLocal ==
  ASSUME StoreTyped, Synchronous, Main \notin saving, NEW n \in DOMAIN runtime,
         NEW id \in Ids(domain), RuntimeName(ProfileOf(domain, id)) # n,
         NEW p, NEW e, e = Changed(Service(domain), id, p), Sound(e), Becomes(e)
  PROVE  Local(n)
<1> DEFINE x == LastNamed(domain, n)
           k == Index(domain, id)
           s == Service(domain)
<1>1. x \in DOMAIN domain.profiles /\ RuntimeName(domain.profiles[x]) = n  BY LastIsThere
<1>2. k \in DOMAIN domain.profiles /\ ProfileOf(domain, id) = domain.profiles[k]
  BY ProfileFound DEF StoreTyped, Sound
<1>3. x # k  BY <1>1, <1>2
<1>4. /\ s \in Domain /\ s.profiles = domain.profiles /\ s.apps = domain.apps
  BY ServiceSound DEF StoreTyped, Sound
<1>5. Index(s, id) = k  BY <1>4 DEF Index
<1>6. domain.profiles \in Seq(Profile)  BY DomainMeans DEF StoreTyped, Sound
<1> HIDE DEF x, k, s
<1>7. e.apps = s.apps /\ e.profiles = [s.profiles EXCEPT ![k] = p]
  BY <1>4, <1>5 DEF Changed, Domain, s
<1>8. x \in DOMAIN e.profiles /\ e.profiles[x] = domain.profiles[x]
  BY <1>1, <1>3, <1>4, <1>6, <1>7
<1>9. Carries(domain, e, Aims(domain, x))  BY <1>4, <1>7, SameApps
<1>10. domain' = e /\ runtime' = Projected(e)  BY DEF Becomes
<1>11. DOMAIN runtime' = RuntimeNames(e)  BY <1>10 DEF Projected
<1> QED BY <1>8, <1>9, <1>10, <1>11, CarriedOver DEF x

(* A profile deleted leaves every other as it was. *)
LEMMA DeletedLocal ==
  ASSUME StoreTyped, Synchronous, Main \notin saving, NEW n \in DOMAIN runtime,
         NEW id \in Ids(domain), RuntimeName(ProfileOf(domain, id)) # n,
         NEW e, e = Deleted(Service(domain), id), Sound(e), Becomes(e)
  PROVE  Local(n)
<1> DEFINE x == LastNamed(domain, n)
           k == Index(domain, id)
           s == Service(domain)
<1>1. x \in DOMAIN domain.profiles /\ RuntimeName(domain.profiles[x]) = n  BY LastIsThere
<1>2. k \in DOMAIN domain.profiles /\ ProfileOf(domain, id) = domain.profiles[k]
      /\ domain.profiles[k].id = id
  BY ProfileFound DEF StoreTyped, Sound
<1>3. s \in Domain /\ s.profiles = domain.profiles /\ s.apps = domain.apps /\ AppIds(s) = AppIds(domain)
  BY ServiceSound DEF StoreTyped, Sound
<1> HIDE DEF x, k, s
<1>4. domain.profiles[x].id # id
  <2>1. x # k  BY <1>1, <1>2
  <2>2. Apart(domain.profiles[x], domain.profiles[k])
    BY <1>1, <1>2, <2>1, SoundMeans DEF StoreTyped, Sound
  <2> QED BY <1>2, <2>2 DEF Apart
<1>5. e \in [profiles : Seq(Profile), apps : Seq(Application), active : {Normal, s.active}]
      /\ ToSet(e.profiles) = {p \in ToSet(s.profiles) : p.id # id}
  BY <1>3, DeletedIs DEF s
<1>6. domain.profiles[x] \in ToSet(e.profiles)
  <2>1. domain.profiles[x] \in ToSet(domain.profiles)  BY <1>1 DEF ToSet
  <2> QED BY <1>3, <1>4, <1>5, <2>1
<1>7. PICK y \in DOMAIN e.profiles : e.profiles[y] = domain.profiles[x]  BY <1>6 DEF ToSet
<1>8. e.profiles[y].links \in Seq(AppId)
  <2>1. domain.profiles[x] \in Profile  BY <1>1, DomainMeans DEF StoreTyped, Sound
  <2> QED BY <1>7, <2>1 DEF Profile
<1>9. Carries(s, e, Aims(e, y))  BY <1>3, <1>8, FewerApps DEF s
<1>10. Carries(domain, e, Aims(domain, x))
  <2>1. Aims(e, y) = Aims(domain, x)  BY <1>7 DEF Aims
  <2> QED BY <1>3, <1>9, <2>1 DEF Carries, AppIndex
<1>11. domain' = e /\ runtime' = Projected(e)  BY DEF Becomes
<1>12. DOMAIN runtime' = RuntimeNames(e)  BY <1>11 DEF Projected
<1> QED BY <1>7, <1>10, <1>11, <1>12, CarriedOver DEF x

(* An edit of one runtime profile leaves every other as it was. *)
LEMMA EditLocal ==
  ASSUME StoreTyped, NEW m, NEW p, EditRuntime(m, p), NEW n \in DOMAIN runtime \ touched'
  PROVE  Local(n)
<1>1. runtime' = [runtime EXCEPT ![m] = p] /\ touched' = {m}  BY DEF EditRuntime, Operation
<1>2. n \in DOMAIN runtime' /\ runtime'[n] = runtime[n]  BY <1>1
<1> QED BY <1>2 DEF Local

(* A step that leaves the runtime profiles alone is about none of them. *)
LEMMA SameLocal ==
  ASSUME runtime' = runtime, NEW n \in DOMAIN runtime PROVE Local(n)
BY DEF Local

(* CreateProfile, ApplyPreset and Duplicate are about one profile. *)
LEMMA NewProfileLocal ==
  ASSUME StoreTyped, Synchronous, NEW id \in NewId, NEW m \in Name, NewProfile(id, m),
         NEW n \in DOMAIN runtime
  PROVE  Local(n)
<1> DEFINE s == Service(domain)
<1>1. Main \notin saving
  BY DEF NewProfile, CreateProfile, ApplyPreset, Duplicate, OnProfile, MayOperate, Operation
<1>2. s \in Domain /\ s.profiles = domain.profiles /\ s.apps = domain.apps
  BY ServiceSound DEF StoreTyped, Sound
<1>3. StoreTyped'
  BY NewProfileTyped
<1> HIDE DEF s
<1>4. ASSUME NEW p, Becomes(Created(s, p)) PROVE Local(n)
  <2> DEFINE e == Created(s, p)
  <2>1. e.profiles = Append(domain.profiles, p) /\ e.apps = domain.apps
    BY <1>2 DEF Created, Domain
  <2> HIDE DEF e
  <2>2. domain' = e /\ runtime' = Projected(e)  BY <1>4 DEF Becomes, e
  <2>3. Sound(e) /\ DOMAIN runtime' = RuntimeNames(e)
    BY <1>3, <2>2 DEF StoreTyped, Projected
  <2> QED BY <1>1, <2>1, <2>2, <2>3, CreatedLocal
<1>5. ASSUME NEW p, NEW app \in Application,
             Becomes([Created(s, p) EXCEPT !.apps = Append(@, app)])
      PROVE  Local(n)
  <2> DEFINE e == [Created(s, p) EXCEPT !.apps = Append(@, app)]
  <2>1. e.profiles = Append(domain.profiles, p) /\ e.apps = Append(domain.apps, app)
    BY <1>2 DEF Created, Domain
  <2> HIDE DEF e
  <2>2. domain' = e /\ runtime' = Projected(e)  BY <1>5 DEF Becomes, e
  <2>3. Sound(e) /\ DOMAIN runtime' = RuntimeNames(e)
    BY <1>3, <2>2 DEF StoreTyped, Projected
  <2> QED BY <1>1, <2>1, <2>2, <2>3, CreatedLocal
<1>6. ASSUME NEW mode \in Mode, CreateProfile(id, m, mode) PROVE Local(n)
  BY <1>4, <1>6 DEF CreateProfile, CreatedNew, s
<1>7. ASSUME NEW mode \in Mode, NEW t \in NewTarget, ApplyPreset(id, m, mode, t) PROVE Local(n)
  <2> DEFINE p == [NormalProfile EXCEPT !.id = id, !.name = m, !.mode = mode, !.keys = PresetKeys]
             app == [id |-> AppOf[id], target |-> t]
             q == [p EXCEPT !.links = <<AppOf[id]>>, !.default = AppOf[id]]
  <2>1. \/ Becomes(Created(s, p))
        \/ Becomes([Created(s, q) EXCEPT !.apps = Append(@, app)])
    BY <1>7 DEF ApplyPreset, s
  <2>2. app \in Application
    <3>1. AppOf[id] \in AppId /\ t \in Target  BY NamesAssumption, ProfileStoreAssumption
    <3> QED BY <3>1 DEF Application
  <2> HIDE DEF p, q, app
  <2> QED BY <1>4, <1>5, <2>1, <2>2
<1>8. ASSUME NEW ref \in Ref, Duplicate(ref, id, m) PROVE Local(n)
  BY <1>4, <1>8 DEF Duplicate, Duplicated, s
<1> QED BY <1>6, <1>7, <1>8 DEF NewProfile

(* Delete, Rename, Link, Unlink and SetDefault are about one profile. *)
LEMMA ChangeLocal ==
  ASSUME StoreTyped, Synchronous, NEW ref \in Ref, ChangeProfile(ref),
         NEW n \in DOMAIN runtime \ touched'
  PROVE  Local(n)
<1> DEFINE s == Service(domain)
<1>1. Main \notin saving
  BY DEF ChangeProfile, Delete, SetDefault, Rename, Link, Unlink, OnProfile, MayOperate
<1>2. StoreTyped'  BY ChangeTyped
<1>3. ASSUME NEW id \in Ids(domain), NEW p, Becomes(Changed(s, id, p)),
             touched' = {RuntimeName(ProfileOf(domain, id))}
      PROVE  Local(n)
  <2> DEFINE e == Changed(s, id, p)
  <2>1. e = Changed(Service(domain), id, p) /\ Becomes(e)  BY <1>3
  <2> HIDE DEF e
  <2>2. Sound(e)  BY <1>2, <2>1 DEF Becomes, StoreTyped
  <2>3. RuntimeName(ProfileOf(domain, id)) # n  BY <1>3
  <2> QED BY <1>1, <2>1, <2>2, <2>3, ChangedLocal
<1>4. CASE Delete(ref)
  <2>1. PICK id \in Ids(domain) :
          Becomes(Deleted(s, id)) /\ touched' = {RuntimeName(ProfileOf(domain, id))}
    BY <1>4 DEF Delete, OnProfile, Operation
  <2> DEFINE e == Deleted(s, id)
  <2>2. e = Deleted(Service(domain), id) /\ Becomes(e)  BY <2>1
  <2> HIDE DEF e
  <2>3. Sound(e)  BY <1>2, <2>2 DEF Becomes, StoreTyped
  <2>4. RuntimeName(ProfileOf(domain, id)) # n  BY <2>1
  <2> QED BY <1>1, <2>2, <2>3, <2>4, DeletedLocal
<1> HIDE DEF s
<1>5. ASSUME NEW m, Rename(ref, m) PROVE Local(n)
  BY <1>3, <1>5 DEF Rename, Renamed, OnProfile, Operation, s
<1>6. ASSUME NEW a, SetDefault(ref, a) PROVE Local(n)
  BY <1>3, <1>6 DEF SetDefault, OnProfile, Operation, s
<1>7. ASSUME NEW a, Link(ref, a) \/ Unlink(ref, a) PROVE Local(n)
  BY <1>3, <1>7 DEF Link, Unlink, OnProfile, Operation, s
<1> QED BY <1>4, <1>5, <1>6, <1>7 DEF ChangeProfile

(* DASH_SET_PROFILE of a new profile is about that one. *)
LEMMA SetNewLocal ==
  ASSUME StoreTyped, Synchronous, NEW m \in RName, NEW mode \in Mode, NEW t \in NewTarget \cup {None},
         SetNewProfile(m, mode, t), NEW n \in DOMAIN runtime \ touched'
  PROVE  Local(n)
<1> DEFINE s == Service(domain)
           p == [NormalProfile EXCEPT !.id = Sanitize[m], !.name = m, !.mode = mode]
           e == Created(s, p)
           r == Projected(e)
<1>1. Main \notin saving /\ touched' = {m}  BY DEF SetNewProfile, Operation, MayOperate
<1>2. s \in Domain /\ s.profiles = domain.profiles /\ s.apps = domain.apps
  BY ServiceSound DEF StoreTyped, Sound
<1>3. StoreTyped'  BY ProfileSetTyped
<1>4. domain' = e /\ runtime' = [r EXCEPT ![m] = [@ EXCEPT !.mode = mode, !.target = t]]
  BY DEF SetNewProfile, CreatedNew
<1> HIDE DEF s, p
<1>5. e.profiles = Append(domain.profiles, p) /\ e.apps = domain.apps
  BY <1>2 DEF Created, Domain
<1> HIDE DEF e
<1>6. Sound(e) /\ DOMAIN runtime' = RuntimeNames(e)
  BY <1>3, <1>4 DEF StoreTyped, Runtime
<1>7. DOMAIN r = RuntimeNames(e)  BY DEF Projected
<1> HIDE DEF r
<1>8. n \in RuntimeNames(e) => runtime'[n] = r[n]  BY <1>1, <1>4, <1>7
<1> QED BY <1>1, <1>4, <1>5, <1>6, <1>8, CreatedLocal DEF r

(* One operation's step leaves the others' profiles. *)
LEMMA StepIsLocal ==
  ASSUME StoreTyped, Synchronous, [Next]_vars, NEW n \in DOMAIN runtime \ touched'
  PROVE  Local(n)
<1>1. ASSUME NEW m \in RName, EditKeys(m) PROVE Local(n)
  BY <1>1, EditLocal DEF EditKeys, RemoveKey, AddKey, UpdateKey, DuplicateKey
<1>2. ASSUME NEW m \in RName, EditProfile(m) PROVE Local(n)
  BY <1>2, EditLocal, SetNewLocal DEF EditProfile, SetProfile
<1>3. ASSUME NEW m \in RName, Switch(m) PROVE Local(n)  BY <1>3, SameLocal DEF Switch
<1>4. ASSUME NEW w \in Worker, NEW m \in Name, NEW t \in NewTarget, CreateApplication(w, m, t)
      PROVE  Local(n)
  BY <1>4, SameLocal DEF CreateApplication
<1>5. ASSUME NEW t \in Thread, WriteConfig(t) PROVE Local(n)
  BY <1>5, SameLocal DEF WriteConfig
<1>6. CASE Refused  BY <1>6, SameLocal DEF Refused
<1>7. CASE Reload \/ Restart  BY <1>7 DEF Reload, Restart
<1>8. CASE UNCHANGED vars  BY <1>8, SameLocal DEF vars, memory
<1> QED BY <1>1, <1>2, <1>3, <1>4, <1>5, <1>6, <1>7, <1>8, NewProfileLocal, ChangeLocal,
           ProfileStoreAssumption DEF Next

(* The main thread's edits end being synchronous; its save begins it again. *)
LEMMA MainOperates ==
  ASSUME NEW names, Operation(Main, names) PROVE Synchronous'
<1>1. Main \in saving' /\ ~ clean'  BY DEF Operation
<1> QED BY <1>1 DEF Synchronous

(* A step that leaves the domain and the runtime profiles alone keeps them *)
(* in step.                                                                *)
LEMMA SameSynchronous ==
  ASSUME Synchronous, UNCHANGED <<domain, runtime, saving, clean>> PROVE Synchronous'
BY DEF Synchronous, Covers, Follows, Keeps, Unambiguous, OwnsTarget

(* A domain just written from, or projected to, the runtime profiles is in *)
(* step with them.                                                         *)
LEMMA SynchronousOf ==
  ASSUME Covers(domain', runtime'), Follows(domain', runtime') PROVE Synchronous'
BY DEF Synchronous, Covers, Follows

(* The domain and the runtime profiles start in step. *)
LEMMA SynchronousStarts == Init => Synchronous
<1> SUFFICES ASSUME Init PROVE Synchronous  OBVIOUS
<1>1. Sound(domain) /\ OneBuiltIn(domain) /\ runtime = Projected(domain)
  BY DefaultDomainSound, DefaultHasOne, ProfileStoreAssumption DEF Init, Sound
<1> QED BY <1>1, ProjectedFollows DEF Synchronous

(* And they stay in step, but for the main thread's edits not saved yet:   *)
(* AddKey and the like change the runtime profiles only, and the           *)
(* WriteConfig that is due brings them back.                               *)
LEMMA SynchronousStays == StoreTyped /\ Synchronous /\ [Next]_vars => Synchronous'
<1> SUFFICES ASSUME StoreTyped, Synchronous, [Next]_vars PROVE Synchronous'  OBVIOUS
<1>0. Sound(domain) /\ Runtime(domain, runtime) /\ active \in RName /\ FileIsGood(file)
  BY DEF StoreTyped
<1>1. ASSUME NEW n \in RName, EditKeys(n) \/ EditProfile(n) PROVE Synchronous'
  BY <1>1, MainOperates DEF EditKeys, RemoveKey, AddKey, DuplicateKey, UpdateKey, EditRuntime,
                            EditProfile, SetProfile, SetNewProfile
<1>2. ASSUME NEW id \in NewId, NEW n \in Name, NewProfile(id, n) PROVE Synchronous'
  BY <1>2, MainOperates DEF NewProfile, CreateProfile, ApplyPreset, Duplicate, OnProfile
<1>3. ASSUME NEW ref \in Ref, ChangeProfile(ref) PROVE Synchronous'
  BY <1>3, MainOperates DEF ChangeProfile, Delete, SetDefault, Rename, Link, Unlink, OnProfile
<1>4. ASSUME NEW n \in RName, Switch(n) PROVE Synchronous'
  BY <1>4, SameSynchronous DEF Switch
<1>5. ASSUME NEW w \in Worker, NEW n \in Name, NEW t \in NewTarget, CreateApplication(w, n, t)
      PROVE  Synchronous'
  <2> DEFINE app == [id |-> AppOf[n], target |-> t]
             e == [domain EXCEPT !.apps = Append(@, app)]
  <2>1. domain' = e /\ runtime' = runtime /\ ~ clean' /\ saving' = saving \cup {w}
    BY <1>5 DEF CreateApplication, Operation
  <2>2. app \in Application
    <3>1. AppOf[n] \in AppId /\ t \in Target  BY NamesAssumption, ProfileStoreAssumption DEF RName
    <3> QED BY <3>1 DEF Application
  <2>3. e = [domain EXCEPT !.apps = Append(@, app)]  OBVIOUS
  <2> HIDE DEF e, app
  <2>4. CASE Main \in saving  BY <2>1, <2>4 DEF Synchronous
  <2>5. CASE Main \notin saving
    <3>1. Covers(domain, runtime) /\ Follows(domain, runtime)  BY <2>5 DEF Synchronous
    <3>2. Covers(e, runtime) /\ Follows(e, runtime)  BY <1>0, <2>2, <2>3, <3>1, AddedFollows
    <3> QED BY <2>1, <3>2, SynchronousOf
  <2> QED BY <2>4, <2>5
<1>6. ASSUME NEW t \in Thread, WriteConfig(t) PROVE Synchronous'
  <2>1. domain' = Synced(domain, runtime, active) /\ runtime' = runtime
    BY <1>6 DEF WriteConfig
  <2> QED BY <1>0, <2>1, SyncedFollows, SynchronousOf
<1>7. CASE Refused
  <2>1. /\ Service(domain).profiles = domain.profiles /\ Service(domain).apps = domain.apps
    BY <1>0, ServiceSound
  <2>2. domain'.profiles = domain.profiles /\ domain'.apps = domain.apps
        /\ UNCHANGED <<runtime, saving, clean>>
    BY <1>7, <2>1 DEF Refused
  <2>3. RuntimeNames(domain') = RuntimeNames(domain) /\ AppIds(domain') = AppIds(domain)
    BY <2>2 DEF RuntimeNames, AppIds
  <2>4. \A n : FirstNamed(domain', n) = FirstNamed(domain, n)
               /\ LastNamed(domain', n) = LastNamed(domain, n)
    BY <2>2 DEF FirstNamed, LastNamed
  <2>5. Projected(domain') = Projected(domain)
    <3>1. \A p : ProjectedProfile(domain', p) = ProjectedProfile(domain, p)
      BY <2>2 DEF ProjectedProfile, AppIndex
    <3> QED BY <2>2, <2>3, <2>4, <3>1 DEF Projected
  <2>6. \A r : Covers(domain', r) <=> Covers(domain, r)  BY <2>2, <2>3, <2>4 DEF Covers, Aims
  <2>7. \A r : Follows(domain, r) => Follows(domain', r)
    BY <2>2, <2>3, <2>4, <2>5 DEF Follows, Keeps, Unambiguous, OwnsTarget
  <2> QED BY <2>2, <2>6, <2>7 DEF Synchronous
<1>8. CASE Reload \/ Restart
  <2>1. \/ domain' = Loaded(file) /\ runtime' = Projected(Loaded(file))
        \/ domain' = DefaultDomain /\ runtime' = Projected(DefaultDomain)
    BY <1>8 DEF Reload, Restart, LoadConfig
  <2>2. /\ Sound(Loaded(file)) /\ OneBuiltIn(Loaded(file))
        /\ Sound(DefaultDomain) /\ OneBuiltIn(DefaultDomain)
    BY <1>0, LoadedIs, LoadedHasOne, DefaultDomainSound, DefaultHasOne
  <2> QED BY <2>1, <2>2, ProjectedFollows, SynchronousOf
<1>9. CASE UNCHANGED vars  BY <1>9, SameSynchronous DEF vars, memory
<1> QED BY <1>1, <1>2, <1>3, <1>4, <1>5, <1>6, <1>7, <1>8, <1>9, ProfileStoreAssumption DEF Next

(* An operation on one profile leaves every other as it was, though each   *)
(* projection rebuilds them all and each save rewrites the domain.         *)
THEOREM EditsStayLocal == Spec => EditsAreLocal
<1>1. Init => StoreTyped /\ Synchronous  BY StoreStarts, SynchronousStarts
<1>2. StoreTyped /\ Synchronous /\ [Next]_vars => (StoreTyped /\ Synchronous)'
  BY StoreStays, SynchronousStays
<1>3. StoreTyped /\ Synchronous /\ [Next]_vars =>
        [\A n \in DOMAIN runtime \ touched' :
           Unambiguous(domain, n) /\ Unambiguous(domain', n) =>
             /\ n \in DOMAIN runtime'
             /\ \/ runtime'[n] = runtime[n]
                \/ Keeps(Synced(domain, runtime, active), n, runtime[n], runtime'[n])]_vars
  BY StepIsLocal DEF Local
<1> QED BY <1>1, <1>2, <1>3, PTL DEF Spec, EditsAreLocal

(* A runtime name unlike the built-in one's is one profile's. *)
LEMMA OwnName ==
  ASSUME NEW d, Sound(d), NEW n, ~ LikeBuiltIn(n) PROVE Unambiguous(d, n)
<1> SUFFICES ASSUME NEW i \in DOMAIN d.profiles, NEW j \in DOMAIN d.profiles,
                    RuntimeName(d.profiles[i]) = n, RuntimeName(d.profiles[j]) = n, i # j
             PROVE  FALSE
  BY DEF Unambiguous
<1>1. LikeBuiltIn("basic")  BY NamesAssumption DEF LikeBuiltIn
<1>2. d.profiles[i].name = n /\ d.profiles[j].name = n  BY <1>1 DEF RuntimeName
<1>3. Apart(d.profiles[i], d.profiles[j])  BY SoundMeans DEF Sound
<1> QED BY <1>2, <1>3 DEF Apart

(* The profile a runtime name is loaded into, if there is one.             *)
LEMMA LoadedIsProjected ==
  ASSUME NEW f, FileIsGood(f), NEW j \in DOMAIN Loaded(f).profiles, NEW n,
         RuntimeName(Loaded(f).profiles[j]) = n
  PROVE  /\ n \in DOMAIN Projected(Loaded(f))
         /\ Projected(Loaded(f))[n] = ProjectedProfile(Loaded(f), Loaded(f).profiles[j])
<1> DEFINE d == Loaded(f)
<1>1. Sound(d) /\ OneBuiltIn(d)  BY LoadedIs, LoadedHasOne
<1>2. d.profiles \in Seq(Profile)  BY <1>1, DomainMeans DEF Sound
<1> HIDE DEF d
<1>3. n \in RuntimeNames(d)  BY DEF RuntimeNames, d
<1>4. LastNamed(d, n) \in DOMAIN d.profiles /\ RuntimeName(d.profiles[LastNamed(d, n)]) = n
  BY <1>2, <1>3, NamedFound
<1>5. Unambiguous(d, n)  BY <1>1, OneName
<1>6. LastNamed(d, n) = j  BY <1>4, <1>5 DEF Unambiguous, d
<1>7. DOMAIN Projected(d) = RuntimeNames(d)  BY DEF Projected
<1>8. Projected(d)[n] = ProjectedProfile(d, d.profiles[j])  BY <1>3, <1>6 DEF Projected
<1> QED BY <1>3, <1>7, <1>8 DEF d

(* What is loaded for a profile of the file has the file's application.    *)
LEMMA LoadedTarget ==
  ASSUME NEW f, FileIsGood(f), NEW p, NEW a,
         a \in AppIds(f) => p.default = a,
         a \notin AppIds(f) => p.default = None /\ p.links = <<>>
  PROVE  ProjectedProfile(Loaded(f), p).target =
           IF AppIndex(f, a) = 0 THEN None ELSE f.apps[AppIndex(f, a)].target
<1>1. Loaded(f).apps = f.apps  BY LoadedIs
<1>2. \A b : AppIndex(Loaded(f), b) = AppIndex(f, b)  BY <1>1 DEF AppIndex
<1>3. f.apps \in Seq(Application)  BY DEF FileIsGood
<1>4. None \notin AppIds(f)
  <2>1. \A i \in DOMAIN f.apps : f.apps[i] \in Application  BY <1>3
  <2> QED BY <2>1, NamesAssumption DEF AppIds, Application
<1>5. ProjectedProfile(Loaded(f), p).target =
        IF AppIndex(f, Aim(p)) = 0 THEN None ELSE f.apps[AppIndex(f, Aim(p))].target
  BY <1>1, <1>2 DEF ProjectedProfile
<1>6. CASE a \in AppIds(f)
  <2>1. Aim(p) = a  BY <1>4, <1>6 DEF Aim
  <2> QED BY <1>5, <2>1
<1>7. CASE a \notin AppIds(f)
  <2>1. Aim(p) = None  BY <1>7 DEF Aim
  <2>2. AppIndex(f, a) = 0  BY <1>3, <1>7, AppFound
  <2>3. AppIndex(f, None) = 0  BY <1>3, <1>4, AppFound
  <2> QED BY <1>5, <2>1, <2>2, <2>3
<1> QED BY <1>6, <1>7

(* The place in the file of a profile that config_v3 writes. *)
LEMMA WrittenAt ==
  ASSUME NEW e, Sound(e), Serializable(e), NEW a, NEW x \in DOMAIN e.profiles
  PROVE  \E k \in 1..Len(IdOrder) :
           /\ IsIn(SerializedFile(e, a), k)
           /\ Nth(SerializedFile(e, a), k) = FileProfile(e.profiles[x])
           /\ IdOrder[k] = FileProfile(e.profiles[x]).id
<1> DEFINE f == SerializedFile(e, a)
           p == e.profiles[x]
           fp == FileProfile(p)
<1>1. f.profiles = {FileProfile(e.profiles[i]) : i \in DOMAIN e.profiles}  BY DEF SerializedFile
<1> HIDE DEF f
<1>2. \A q : FileProfile(q).id = IF q.id = Normal THEN "basic" ELSE q.id  BY DEF FileProfile
<1>3. "basic" \notin Ids(e) /\ (Ids(e) \ {Normal}) \cap UnsafeId = {}  BY DEF Serializable
<1>4. p.id \in Ids(e) /\ p.id \in Id
  <2>1. p \in Profile  BY DomainMeans DEF Sound
  <2> QED BY <2>1 DEF Ids, Profile
<1>5. fp.id \in {"basic"} \cup (Id \ (UnsafeId \cup {Normal}))  BY <1>2, <1>3, <1>4
<1>6. fp.id \in ToSet(IdOrder) /\ DOMAIN IdOrder = 1..Len(IdOrder)  BY <1>5, FileAssumption
<1>7. PICK k \in 1..Len(IdOrder) : IdOrder[k] = fp.id  BY <1>6 DEF ToSet
<1>8. fp \in f.profiles  BY <1>1
<1>9. IsIn(f, k)  BY <1>7, <1>8 DEF IsIn
<1>10. Nth(f, k) = fp
  <2>1. Nth(f, k) \in f.profiles /\ Nth(f, k).id = IdOrder[k]  BY <1>9, NthIs
  <2>2. PICK i \in DOMAIN e.profiles : Nth(f, k) = FileProfile(e.profiles[i])  BY <1>1, <2>1
  <2>3. e.profiles[i].id \in Ids(e)  BY DEF Ids
  <2>4. e.profiles[i].id = p.id
    <3>1. FileProfile(e.profiles[i]).id = fp.id  BY <1>7, <2>1, <2>2
    <3>2. e.profiles[i].id # "basic" /\ p.id # "basic"  BY <1>3, <1>4, <2>3
    <3> QED BY <1>2, <3>1, <3>2
  <2>5. i = x
    <3>1. i # x => Apart(e.profiles[i], e.profiles[x])  BY SoundMeans DEF Sound
    <3> QED BY <2>4, <3>1 DEF Apart
  <2> QED BY <2>2, <2>5
<1> QED BY <1>7, <1>9, <1>10 DEF f

(* Storable, and what SavedIsLoaded says, of any domain, runtime profiles  *)
(* and file.                                                               *)
StorableIn(e, r, n) ==
  /\ Serializable(e) \/ (r[n].mode = "targeted" /\ n \notin Dotted)
  /\ LikeBuiltIn(n) => r[n].mode = "basic" /\ OneBuiltIn(e)

(* config.ini returns the runtime profiles it can hold. *)
Returns(e, r, f) ==
  \A n \in RuntimeNames(e) : StorableIn(e, r, n) =>
    n \in DOMAIN Projected(Loaded(f)) /\ Keeps(e, n, r[n], Projected(Loaded(f))[n])

(* What is loaded of a profile that is taken for the built-in one, if it is *)
(* the first.                                                               *)
LEMMA BuiltInLoaded ==
  ASSUME NEW f, FileIsGood(f), NEW fp \in f.profiles
  PROVE  LET q == LoadedProfile(f, NormalProfile, fp) IN
         /\ q.id = NormalProfile.id /\ q.mode = NormalProfile.mode
         /\ q.keys = NormalProfile.keys \cup fp.keys
         /\ fp.app \in AppIds(f) => q.default = fp.app
         /\ fp.app \notin AppIds(f) => q.default = NormalProfile.default /\ q.links = NormalProfile.links
<1>1. NormalProfile \in Profile /\ Known(NormalProfile, AppIds(f))  BY BuiltInTyped
<1> QED BY <1>1, LoadedProfileIs

(* config.ini as config_v3 writes it is loaded as it was. *)
LEMMA SerializedReturns ==
  ASSUME NEW e, Sound(e), NEW r, Runtime(e, r), Follows(e, r), Serializable(e), NEW a
  PROVE  Returns(e, r, SerializedFile(e, a))
<1> DEFINE f == SerializedFile(e, a)
           d == Loaded(f)
<1>1. FileIsGood(f)  BY SerializedIsGood
<1>2. f.apps = e.apps /\ f.profiles = {FileProfile(e.profiles[i]) : i \in DOMAIN e.profiles}
  BY DEF SerializedFile
<1> HIDE DEF f
<1>3. AppIds(f) = AppIds(e) /\ \A b : AppIndex(f, b) = AppIndex(e, b)
  BY <1>2 DEF AppIds, AppIndex
<1> SUFFICES ASSUME NEW n \in RuntimeNames(e), StorableIn(e, r, n)
             PROVE  n \in DOMAIN Projected(d) /\ Keeps(e, n, r[n], Projected(d)[n])
  BY DEF Returns, f
<1> DEFINE x == LastNamed(e, n)
           p == e.profiles[x]
           fp == FileProfile(p)
           o == Projected(e)[n]
<1>4. x \in DOMAIN e.profiles /\ RuntimeName(p) = n
  <2>1. e.profiles \in Seq(Profile)  BY DomainMeans DEF Sound
  <2> QED BY <2>1, NamedFound
<1>5. o = ProjectedProfile(e, p)  BY DEF Projected
<1> HIDE DEF x, d, o
<1>6. /\ fp.id = IF p.id = Normal THEN "basic" ELSE p.id
      /\ fp.name = n /\ fp.mode = p.mode /\ fp.builtIn = (p.id = Normal)
      /\ fp.app = Aim(p) /\ fp.keys = p.keys
  BY <1>4 DEF FileProfile
<1>7. /\ o.mode = p.mode /\ o.keys = p.keys
      /\ o.target = IF AppIndex(e, Aim(p)) = 0 THEN None ELSE e.apps[AppIndex(e, Aim(p))].target
  BY <1>5 DEF ProjectedProfile
<1> HIDE DEF fp
<1>8. PICK k \in 1..Len(IdOrder) : IsIn(f, k) /\ Nth(f, k) = fp /\ IdOrder[k] = fp.id
  BY <1>4, WrittenAt DEF f, fp
<1>9. p.id # "basic"
  <2>1. p.id \in Ids(e)  BY <1>4 DEF Ids
  <2> QED BY <2>1 DEF Serializable
<1>10. LikeBuiltIn("basic")  BY NamesAssumption DEF LikeBuiltIn
<1>11. ASSUME NEW q, NEW j \in DOMAIN d.profiles, d.profiles[j] = q, RuntimeName(q) = n,
              q.mode = p.mode, q.keys = p.keys, Unambiguous(e, n),
              Aim(p) \in AppIds(f) => q.default = Aim(p),
              Aim(p) \notin AppIds(f) => q.default = None /\ q.links = <<>>
       PROVE  n \in DOMAIN Projected(d) /\ Keeps(e, n, r[n], Projected(d)[n])
  <2>1. n \in DOMAIN Projected(d) /\ Projected(d)[n] = ProjectedProfile(d, q)
    BY <1>1, <1>11, LoadedIsProjected DEF d
  <2>2. ProjectedProfile(d, q).target =
          IF AppIndex(f, Aim(p)) = 0 THEN None ELSE f.apps[AppIndex(f, Aim(p))].target
    BY <1>1, <1>11, LoadedTarget DEF d
  <2>3. ProjectedProfile(d, q).mode = q.mode /\ ProjectedProfile(d, q).keys = q.keys
    BY DEF ProjectedProfile
  <2>4. /\ Projected(d)[n].mode = o.mode /\ Projected(d)[n].keys = o.keys
        /\ Projected(d)[n].target = o.target
    BY <1>2, <1>3, <1>7, <1>11, <2>1, <2>2, <2>3
  <2>5. Keeps(e, n, r[n], o)  BY <1>11 DEF Follows, o
  <2> QED BY <2>1, <2>4, <2>5 DEF Keeps
<1>12. CASE ~ LooksNormal(fp)
  <2>1. Own(f, k)  BY <1>8, <1>12 DEF Own
  <2>2. PICK j \in DOMAIN d.profiles : d.profiles[j] = Element(f, k)  BY <1>1, <2>1, LoadedIs DEF d
  <2> DEFINE q == Element(f, k)
  <2>3. /\ q.id # Normal /\ q.name = fp.name /\ q.mode = fp.mode /\ q.keys = fp.keys
        /\ fp.app \in AppIds(f) => q.default = fp.app
        /\ fp.app \notin AppIds(f) => q.default = None /\ q.links = <<>>
    BY <1>1, <1>8, <2>1, ElementIs
  <2> HIDE DEF q
  <2>4. RuntimeName(q) = n  BY <1>6, <2>3 DEF RuntimeName
  <2>5. ~ LikeBuiltIn(n)  BY <1>6, <1>12 DEF LooksNormal
  <2>6. Unambiguous(e, n)  BY <2>5, OwnName
  <2> QED BY <1>6, <1>11, <2>2, <2>3, <2>4, <2>6 DEF q
<1>13. CASE LooksNormal(fp)
  <2>1. LikeBuiltIn(n)  BY <1>4, <1>6, <1>9, <1>10, <1>13 DEF LooksNormal, RuntimeName
  <2>2. OneBuiltIn(e) /\ r[n].mode = "basic"  BY <2>1 DEF StorableIn
  <2>3. p.id = Normal  BY <1>4, <2>1, <2>2 DEF OneBuiltIn
  <2>4. n = "basic" /\ fp.id = "basic"  BY <1>4, <1>6, <2>3 DEF RuntimeName
  <2>5. Norm(f, k)  BY <1>8, <1>13 DEF Norm
  <2>6. ASSUME NEW l \in 1..Len(IdOrder), Norm(f, l) PROVE l = k
    <3>1. Nth(f, l) \in f.profiles /\ Nth(f, l).id = IdOrder[l] /\ LooksNormal(Nth(f, l))
      BY <2>6, NthIs DEF Norm
    <3>2. PICK i \in DOMAIN e.profiles : Nth(f, l) = FileProfile(e.profiles[i])  BY <1>2, <3>1
    <3> DEFINE t == e.profiles[i]
    <3>3. /\ FileProfile(t).id = IF t.id = Normal THEN "basic" ELSE t.id
          /\ FileProfile(t).name = RuntimeName(t) /\ FileProfile(t).builtIn = (t.id = Normal)
      BY DEF FileProfile
    <3>4. t.id \in Ids(e) /\ t.id # "basic"
      <4>1. t.id \in Ids(e)  BY DEF Ids
      <4> QED BY <4>1 DEF Serializable
    <3> HIDE DEF t
    <3>5. t.id = Normal \/ LikeBuiltIn(RuntimeName(t))
      BY <3>1, <3>2, <3>3, <3>4 DEF LooksNormal, t
    <3>6. t.id = Normal  BY <2>2, <3>5 DEF OneBuiltIn, t
    <3>7. IdOrder[l] = "basic"  BY <3>1, <3>2, <3>3, <3>6 DEF t
    <3>8. IsInjective(IdOrder) /\ DOMAIN IdOrder = 1..Len(IdOrder)  BY FileAssumption
    <3> QED BY <1>8, <2>4, <3>7, <3>8 DEF IsInjective
  <2>7. PICK j \in DOMAIN d.profiles : d.profiles[j] = LoadedProfile(f, NormalProfile, Nth(f, k))
    BY <1>1, <2>5, <2>6, LoadedIs DEF d
  <2> DEFINE q == LoadedProfile(f, NormalProfile, fp)
  <2>8. fp \in f.profiles  BY <1>8, NthIs
  <2>9. /\ NormalProfile \in Profile /\ IsBuiltIn(NormalProfile) /\ Known(NormalProfile, AppIds(f))
        /\ NormalProfile.keys = {} /\ NormalProfile.default = None /\ NormalProfile.links = <<>>
    BY BuiltInTyped, TemplateIs
  <2>10. /\ q.id = NormalProfile.id /\ q.mode = NormalProfile.mode
         /\ q.keys = NormalProfile.keys \cup fp.keys
         /\ fp.app \in AppIds(f) => q.default = fp.app
         /\ fp.app \notin AppIds(f) => q.default = NormalProfile.default /\ q.links = NormalProfile.links
    BY <1>1, <2>8, BuiltInLoaded
  <2> HIDE DEF q
  <2>11. RuntimeName(q) = n /\ q.mode = "basic"  BY <2>4, <2>9, <2>10 DEF RuntimeName, IsBuiltIn
  <2>12. Unambiguous(e, n)  BY <2>2, OneName
  <2>13. p.mode = "basic"
    <3>1. Keeps(e, n, r[n], o)  BY <2>12 DEF Follows, o
    <3> QED BY <1>7, <2>2, <3>1 DEF Keeps
  <2> QED BY <1>6, <1>8, <1>11, <2>7, <2>9, <2>10, <2>11, <2>12, <2>13 DEF q
<1> QED BY <1>12, <1>13

(* The place in the legacy file of a profile that the parser keeps apart. *)
LEMMA LegacyAt ==
  ASSUME NEW e, Sound(e), NEW r, Runtime(e, r), NEW n \in RuntimeNames(e), ~ LikeBuiltIn(n),
         r[n].mode = "targeted", n \notin Dotted
  PROVE  \E k \in 1..Len(IdOrder) :
           Own(LegacyFile(r), k) /\ Nth(LegacyFile(r), k) = LegacyProfile(n, r[n])
<1> DEFINE f == LegacyFile(r)
           fp == LegacyProfile(n, r[n])
<1>1. f.profiles = {LegacyProfile(m, r[m]) : m \in DOMAIN r \ Dotted}  BY DEF LegacyFile
<1> HIDE DEF f
<1>2. \A m : LegacyProfile(m, r[m]).id = MigratedId[m]  BY DEF LegacyProfile
<1>3. fp.name = n /\ fp.builtIn = FALSE
  <2>1. fp.name = n /\ fp.builtIn = (r[n].mode = "basic")  BY DEF LegacyProfile
  <2> QED BY <2>1
<1>4. DOMAIN r = RuntimeNames(e) /\ RuntimeNames(e) \subseteq RName
  BY RuntimeNamesTyped DEF Runtime, Sound
<1>5. fp \in f.profiles  BY <1>1, <1>4
<1>6. fp.id = MigratedId[n]  BY <1>2
<1>7. MigratedId[n] \in ToSet(IdOrder) \ {"basic"} /\ DOMAIN IdOrder = 1..Len(IdOrder)
  BY <1>4, FileAssumption
<1>8. PICK k \in 1..Len(IdOrder) : IdOrder[k] = MigratedId[n]  BY <1>7 DEF ToSet
<1>9. ~ LooksNormal(fp)  BY <1>3, <1>6, <1>7 DEF LooksNormal
<1> HIDE DEF fp
<1>10. IsIn(f, k)  BY <1>5, <1>6, <1>8 DEF IsIn
<1>11. Nth(f, k) = fp
  <2>1. Nth(f, k) \in f.profiles /\ Nth(f, k).id = IdOrder[k]  BY <1>10, NthIs
  <2>2. PICK m \in DOMAIN r : Nth(f, k) = LegacyProfile(m, r[m])  BY <1>1, <2>1
  <2>3. MigratedId[m] = MigratedId[n]  BY <1>2, <1>8, <2>1, <2>2
  <2>4. m \in RName /\ n \in RName /\ m \in RuntimeNames(e)  BY <1>4
  <2>5. Lower[n] = Lower[m]  BY <2>3, <2>4, FileAssumption
  <2>6. n = m  BY <2>4, <2>5, NamesApart
  <2> QED BY <2>2, <2>6 DEF fp
<1> QED BY <1>8, <1>9, <1>10, <1>11 DEF Own, f, fp

(* The application that the legacy parser makes for it is its own. *)
LEMMA LegacyTarget ==
  ASSUME NEW e, Sound(e), NEW r, Runtime(e, r), NEW n \in RuntimeNames(e), ~ LikeBuiltIn(n),
         r[n].mode = "targeted", n \notin Dotted
  PROVE  LET f == LegacyFile(r)
             a == MigratedApp[n]
         IN  /\ a \in AppIds(f) /\ AppIndex(f, a) # 0
             /\ f.apps[AppIndex(f, a)].target = r[n].target
<1> DEFINE f == LegacyFile(r)
           a == MigratedApp[n]
           S == {m \in DOMAIN r \ Dotted : r[m].mode = "targeted"}
           t == Sieve(NameOrder, S)
           i == AppIndex(f, a)
<1>1. f.apps = [j \in DOMAIN t |-> [id |-> MigratedApp[t[j]], target |-> r[t[j]].target]]
  BY DEF LegacyFile
<1>2. t \in Seq(RName) /\ ToSet(t) = ToSet(NameOrder) \cap S
  <2> HIDE DEF S
  <2> QED BY NamesAssumption, SieveHas
<1>3. f.apps \in Seq(Application)  BY LegacyIsGood DEF FileIsGood
<1> HIDE DEF f, t
<1>4. DOMAIN r = RuntimeNames(e) /\ RuntimeNames(e) \subseteq RName
  BY RuntimeNamesTyped DEF Runtime, Sound
<1>5. n \in S /\ n \in ToSet(NameOrder)  BY <1>4, NamesAssumption
<1>6. PICK j \in DOMAIN t : t[j] = n  BY <1>2, <1>5 DEF ToSet
<1>7. f.apps[j].id = a /\ j \in DOMAIN f.apps  BY <1>1, <1>6
<1>8. a \in AppIds(f)  BY <1>7 DEF AppIds
<1> HIDE DEF a
<1>9. i \in DOMAIN f.apps /\ f.apps[i].id = a /\ i # 0
  BY ONLY <1>3, <1>8, AppFound
<1> HIDE DEF i
<1>10. i \in DOMAIN t /\ MigratedApp[t[i]] = MigratedApp[n] /\ f.apps[i].target = r[t[i]].target
  BY <1>1, <1>9 DEF a
<1>11. t[i] \in RName /\ t[i] \in S
  <2>1. t[i] \in ToSet(t)  BY <1>10 DEF ToSet
  <2> QED BY <1>2, <1>10, <2>1
<1>12. n \in RName /\ t[i] \in RuntimeNames(e)  BY <1>4, <1>11
<1>13. Lower[n] = Lower[t[i]]  BY <1>10, <1>11, <1>12, FileAssumption
<1>14. n = t[i]  BY <1>12, <1>13, NamesApart
<1> QED BY <1>8, <1>9, <1>10, <1>14 DEF f, a, i

(* The legacy file, of the targeted profiles, is loaded as it was. *)
LEMMA LegacyReturns ==
  ASSUME NEW e, Sound(e), NEW r, Runtime(e, r), ~ Serializable(e)
  PROVE  Returns(e, r, LegacyFile(r))
<1> DEFINE f == LegacyFile(r)
           d == Loaded(f)
<1>1. FileIsGood(f)  BY LegacyIsGood
<1> SUFFICES ASSUME NEW n \in RuntimeNames(e), StorableIn(e, r, n)
             PROVE  n \in DOMAIN Projected(d) /\ Keeps(e, n, r[n], Projected(d)[n])
  BY DEF Returns
<1> DEFINE fp == LegacyProfile(n, r[n])
           a == MigratedApp[n]
<1>2. r[n].mode = "targeted" /\ n \notin Dotted /\ ~ LikeBuiltIn(n)
  <2>1. r[n].mode = "targeted" /\ n \notin Dotted  BY DEF StorableIn
  <2> QED BY <2>1 DEF StorableIn
<1>3. PICK k \in 1..Len(IdOrder) : Own(f, k) /\ Nth(f, k) = fp  BY <1>2, LegacyAt
<1>4. a \in AppIds(f) /\ AppIndex(f, a) # 0 /\ f.apps[AppIndex(f, a)].target = r[n].target
  BY <1>2, LegacyTarget
<1> HIDE DEF f
<1>5. PICK j \in DOMAIN d.profiles : d.profiles[j] = Element(f, k)  BY <1>1, <1>3, LoadedIs
<1>6. fp.name = n /\ fp.mode = "targeted" /\ fp.app = a /\ fp.keys = WideKeys(r[n].keys)
  <2>1. /\ fp.name = n /\ fp.mode = r[n].mode /\ fp.keys = WideKeys(r[n].keys)
        /\ fp.app = IF r[n].mode = "basic" THEN None ELSE a
    BY DEF LegacyProfile
  <2> QED BY <1>2, <2>1
<1> HIDE DEF fp, d, a
<1> DEFINE q == Element(f, k)
<1>7. q.id # Normal /\ q.name = n /\ q.mode = "targeted" /\ q.keys = WideKeys(r[n].keys) /\ q.default = a
  <2>1. /\ q.id # Normal /\ q.name = fp.name /\ q.mode = fp.mode /\ q.keys = fp.keys
        /\ fp.app \in AppIds(f) => q.default = fp.app
    BY <1>1, <1>3, ElementIs
  <2> QED BY <1>4, <1>6, <2>1
<1> HIDE DEF q
<1>8. RuntimeName(q) = n  BY <1>7 DEF RuntimeName
<1>9. n \in DOMAIN Projected(d) /\ Projected(d)[n] = ProjectedProfile(d, q)
  BY <1>1, <1>5, <1>8, LoadedIsProjected DEF d, q
<1>10. ProjectedProfile(d, q).target = r[n].target
  BY <1>1, <1>4, <1>7, LoadedTarget DEF d
<1>11. ProjectedProfile(d, q).mode = "targeted" /\ ProjectedProfile(d, q).keys = WideKeys(r[n].keys)
  BY <1>7 DEF ProjectedProfile
<1>12. WideKeys(WideKeys(r[n].keys)) = WideKeys(r[n].keys)
  <2>1. r[n].keys \in SUBSET Key  BY DEF Runtime, RProfile
  <2> QED BY <2>1, WideTwice
<1> QED BY <1>2, <1>9, <1>10, <1>11, <1>12 DEF Keeps

(* What config.ini returns depends on the names and the aims of the        *)
(* profiles, and not on what they bear.                                    *)
LEMMA ReturnsAlike ==
  ASSUME NEW d, Sound(d), NEW e, Sound(e), SameAims(d, e), NEW r, NEW f, Returns(d, r, f)
  PROVE  Returns(e, r, f)
<1>1. d.profiles \in Seq(Profile) /\ e.profiles \in Seq(Profile)  BY DomainMeans DEF Sound
<1>2. /\ SameNames(d, e) /\ DOMAIN e.profiles = DOMAIN d.profiles
      /\ \A i \in DOMAIN d.profiles : /\ e.profiles[i].id = d.profiles[i].id
                                      /\ e.profiles[i].name = d.profiles[i].name
                                      /\ Aims(e, i) = Aims(d, i)
      /\ DOMAIN e.apps = DOMAIN d.apps /\ \A i \in DOMAIN d.apps : e.apps[i].id = d.apps[i].id
  BY DEF SameAims, SameNames
<1>3. /\ \A n : LastNamed(e, n) = LastNamed(d, n)
      /\ RuntimeNames(e) = RuntimeNames(d) /\ Ids(e) = Ids(d)
  BY <1>1, <1>2, NamedAlike
<1>4. AppIds(e) = AppIds(d)  BY <1>2 DEF AppIds
<1>5. Serializable(e) => Serializable(d)  BY <1>2, <1>3, <1>4 DEF Serializable
<1>6. OneBuiltIn(e) => OneBuiltIn(d)  BY <1>2 DEF OneBuiltIn, RuntimeName
<1>7. \A n : StorableIn(e, r, n) => StorableIn(d, r, n)  BY <1>5, <1>6 DEF StorableIn
<1>8. ASSUME NEW n \in RuntimeNames(d), OwnsTarget(e, n) PROVE OwnsTarget(d, n)
  <2> DEFINE x == LastNamed(d, n)
  <2>1. x \in DOMAIN d.profiles  BY <1>1, NamedFound
  <2>2. Aims(e, x) = Aims(d, x) /\ LastNamed(e, n) = x  BY <1>2, <1>3, <2>1
  <2> HIDE DEF x
  <2> QED BY <1>2, <1>8, <2>2 DEF OwnsTarget, Aims, x
<1>9. ASSUME NEW n \in RuntimeNames(d), NEW q, Keeps(d, n, r[n], q) PROVE Keeps(e, n, r[n], q)
  BY <1>8, <1>9 DEF Keeps
<1> QED BY <1>3, <1>7, <1>9 DEF Returns

(* What was loaded is loaded again. *)
LEMMA LoadedReturns == ASSUME NEW f PROVE Returns(Loaded(f), Projected(Loaded(f)), f)
BY DEF Returns, Keeps, Projected

(* The third part of the inductive invariant. *)
Saved == clean => Returns(domain, runtime, file)

(* config.ini starts as it is loaded. *)
LEMMA SavedStarts == Init => Saved
<1> SUFFICES ASSUME Init PROVE Saved  OBVIOUS
<1>1. Sound(domain) /\ OneBuiltIn(domain) /\ runtime = Projected(domain)
  BY DefaultDomainSound, DefaultHasOne, ProfileStoreAssumption DEF Init, Sound
<1>2. Serializable(DefaultDomain)
  <2> DEFINE s == <<NormalProfile>>
  <2>1. DefaultDomain.profiles = s /\ DefaultDomain.apps = <<>>  BY DEF DefaultDomain
  <2>2. DOMAIN s = {1} /\ s[1] = NormalProfile  OBVIOUS
  <2> HIDE DEF s
  <2>3. Ids(DefaultDomain) = {Normal}  BY <2>1, <2>2, TemplateIs DEF Ids
  <2>4. AppIds(DefaultDomain) = {}  BY <2>1 DEF AppIds
  <2>5. "basic" # Normal  BY DEF Normal
  <2> QED BY <2>1, <2>3, <2>4, <2>5 DEF Serializable
<1>3. Serializable(domain)  BY <1>2, ProfileStoreAssumption DEF Init
<1>4. Runtime(domain, runtime) /\ Follows(domain, runtime)
  <2>1. domain \in Domain /\ Follows(domain, runtime)  BY <1>1, ProjectedFollows DEF Sound
  <2> QED BY <1>1, <2>1, ProjectedTyped
<1>5. file = SerializedFile(domain, active)  BY DEF Init
<1> QED BY <1>1, <1>3, <1>4, <1>5, SerializedReturns DEF Saved

(* A save that fails leaves what an earlier one has written. *)
LEMMA WrittenIsSaved ==
  ASSUME StoreTyped, Synchronous, Saved, NEW t \in Thread, WriteConfig(t) PROVE Saved'
<1> DEFINE d == Synced(domain, runtime, active)
<1>0. Sound(domain) /\ Runtime(domain, runtime) /\ active \in RName  BY DEF StoreTyped
<1>1. /\ domain' = d /\ runtime' = runtime
      /\ \/ file' = IF Serializable(d) THEN SerializedFile(d, active) ELSE LegacyFile(runtime)
         \/ UNCHANGED <<file, clean>>
  BY DEF WriteConfig
<1>2. Sound(d) /\ RuntimeNames(d) = RuntimeNames(domain)  BY <1>0, SyncedSound
<1>3. Follows(d, runtime)  BY <1>0, SyncedFollows
<1>4. Runtime(d, runtime)  BY <1>0, <1>2 DEF Runtime
<1>5. CASE clean /\ UNCHANGED <<file, clean>>
  <2>1. SameAims(domain, d)  BY <1>0, <1>5, SyncedCovered DEF Synchronous
  <2> HIDE DEF d
  <2>2. Returns(d, runtime, file)  BY <1>0, <1>2, <1>5, <2>1, ReturnsAlike DEF Saved
  <2> QED BY <1>1, <1>5, <2>2 DEF Saved
<1>6. CASE ~ clean /\ UNCHANGED <<file, clean>>  BY <1>6 DEF Saved
<1> HIDE DEF d
<1>7. CASE file' = IF Serializable(d) THEN SerializedFile(d, active) ELSE LegacyFile(runtime)
  <2>1. CASE Serializable(d)
    <3>1. Returns(d, runtime, SerializedFile(d, active))  BY <1>2, <1>3, <1>4, <2>1, SerializedReturns
    <3> QED BY <1>1, <1>7, <2>1, <3>1 DEF Saved
  <2>2. CASE ~ Serializable(d)
    <3>1. Returns(d, runtime, LegacyFile(runtime))  BY <1>2, <1>4, <2>2, LegacyReturns
    <3> QED BY <1>1, <1>7, <2>2, <3>1 DEF Saved
  <2> QED BY <2>1, <2>2
<1> QED BY <1>1, <1>5, <1>6, <1>7

(* After an edit nothing is claimed of config.ini. *)
LEMMA EditIsNotSaved == ASSUME NEW t, NEW names, Operation(t, names) PROVE Saved'
BY DEF Operation, Saved

(* And it stays so: a save, a failed save, a reload and a restart leave a  *)
(* file that returns the profiles, or claim nothing.                       *)
LEMMA SavedStays == StoreTyped /\ Synchronous /\ Saved /\ [Next]_vars => Saved'
<1> SUFFICES ASSUME StoreTyped, Synchronous, Saved, [Next]_vars PROVE Saved'  OBVIOUS
<1>1. ASSUME NEW n \in RName, EditKeys(n) \/ EditProfile(n) PROVE Saved'
  BY <1>1, EditIsNotSaved DEF EditKeys, RemoveKey, AddKey, DuplicateKey, UpdateKey, EditRuntime,
                    EditProfile, SetProfile, SetNewProfile
<1>2. ASSUME NEW id \in NewId, NEW n \in Name, NewProfile(id, n) PROVE Saved'
  BY <1>2, EditIsNotSaved DEF NewProfile, CreateProfile, ApplyPreset, Duplicate, OnProfile
<1>3. ASSUME NEW ref \in Ref, ChangeProfile(ref) PROVE Saved'
  BY <1>3, EditIsNotSaved DEF ChangeProfile, Delete, SetDefault, Rename, Link, Unlink, OnProfile
<1>4. ASSUME NEW n \in RName, Switch(n) PROVE Saved'
  BY <1>4 DEF Switch, Saved
<1>5. ASSUME NEW w \in Worker, NEW n \in Name, NEW t \in NewTarget, CreateApplication(w, n, t)
      PROVE  Saved'
  BY <1>5, EditIsNotSaved DEF CreateApplication
<1>6. ASSUME NEW t \in Thread, WriteConfig(t) PROVE Saved'  BY <1>6, WrittenIsSaved
<1>7. CASE Refused
  <2>1. Sound(domain)  BY DEF StoreTyped
  <2>2. /\ domain' = Service(domain) /\ UNCHANGED <<runtime, file, clean>>  BY <1>7 DEF Refused
  <2>3. /\ Sound(domain') /\ domain'.profiles = domain.profiles /\ domain'.apps = domain.apps
    BY <2>1, <2>2, ServiceSound
  <2>4. SameAims(domain, domain')  BY <2>3 DEF SameAims, SameNames, Aims
  <2>5. clean => Returns(domain', runtime, file)  BY <2>1, <2>3, <2>4, ReturnsAlike DEF Saved
  <2> QED BY <2>2, <2>5 DEF Saved
<1>8. CASE Reload \/ Restart
  <2>1. /\ file' = file
        /\ \/ domain' = Loaded(file) /\ runtime' = Projected(Loaded(file))
           \/ ~ clean'
    BY <1>8 DEF Reload, Restart, LoadConfig
  <2> QED BY <2>1, LoadedReturns DEF Saved
<1>9. CASE UNCHANGED vars  BY <1>9 DEF vars, memory, Saved
<1> QED BY <1>1, <1>2, <1>3, <1>4, <1>5, <1>6, <1>7, <1>8, <1>9, ProfileStoreAssumption DEF Next

(* Domain, runtime profiles and config.ini agree: the domain is sound, and *)
(* what a save reported as done has written is what the next start loads.  *)
THEOREM ProfilesStayAgreed == Spec => []ProfilesAgree
<1> DEFINE I == StoreTyped /\ CountersTyped /\ Synchronous /\ Saved
<1>1. Init => I  BY StoreStarts, SynchronousStarts, SavedStarts
<1>2. I /\ [Next]_vars => I'  BY StoreStays, CountersStay, SynchronousStays, SavedStays
<1>3. I => ProfilesAgree
  <2> SUFFICES ASSUME I PROVE ProfilesAgree  OBVIOUS
  <2>1. DomainIsSound
    BY DEF StoreTyped, Sound, Runtime, CountersTyped, DomainIsSound
  <2>2. DOMAIN runtime = RuntimeNames(domain)  BY DEF StoreTyped, Runtime
  <2>3. \A n : Storable(n) <=> StorableIn(domain, runtime, n)  BY DEF Storable, StorableIn
  <2>4. SavedIsLoaded  BY <2>2, <2>3 DEF Saved, Returns, SavedIsLoaded
  <2> QED BY <2>1, <2>4 DEF ProfilesAgree
<1> HIDE DEF I
<1> QED BY <1>1, <1>2, <1>3, PTL DEF Spec
===============================================================================
