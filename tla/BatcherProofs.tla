---------------------------- MODULE BatcherProofs ----------------------------
(***************************************************************************)
(* Theorems about the batcher, for every set of names, hosts and tag lists *)
(* and every number of metrics: the batch is what grouping by series asks  *)
(* for exactly as long as no two metrics in it share a key without being   *)
(* of one series, which metrics with key:value tags never do; and whether  *)
(* they do or not, it keeps every point.                                   *)
(*                                                                         *)
(* What sorting, joining and enumerating do to a list of any length needs  *)
(* induction.  It is had without an induction scheme from the least number *)
(* principle: the lengths for which a claim fails have a least element.    *)
(***************************************************************************)
EXTENDS Batcher, FiniteSetTheorems, SequenceTheorems, WellFoundedInduction, TLAPS

-----------------------------------------------------------------------------
(* The least number principle. *)
LEMMA LeastNumber ==
  ASSUME NEW T \in SUBSET Nat, T # {}
  PROVE  \E m \in T : \A k \in T : m <= k
<1> DEFINE R == {ss \in Nat \X Nat : ss[1] < ss[2]}
<1>1. IsWellFoundedOn(R, Nat)
  BY NatLessThanWellFounded DEF OpToRel
<1> HIDE DEF R
<1>2. PICK m \in T : \A k \in T : ~(<<k, m>> \in R)
  BY <1>1, WFMin
<1>3. ASSUME NEW k \in T, k < m PROVE FALSE
  <2>1. <<k, m>> \in R
    BY <1>3 DEF R
  <2> QED
    BY <1>2, <2>1
<1>4. \A k \in T : m <= k
  BY <1>3
<1> QED
  BY <1>4

(* Two ascending enumerations of one set are the same: where they first    *)
(* differed, the smaller number would be missing from the other.           *)
IsAscending(s) == \A i, j \in DOMAIN s : i < j => s[i] < s[j]

LEMMA AscendingUnique ==
  ASSUME NEW n \in Nat, NEW s \in [1 .. n -> Nat], NEW t \in [1 .. n -> Nat],
         IsAscending(s), IsAscending(t),
         \A i \in 1 .. n : \E j \in 1 .. n : s[i] = t[j],
         \A i \in 1 .. n : \E j \in 1 .. n : t[i] = s[j]
  PROVE  s = t
<1> DEFINE D == {i \in 1 .. n : s[i] # t[i]}
<1>1. CASE D = {}
  <2>1. \A i \in 1 .. n : s[i] = t[i]
    BY <1>1
  <2>2. s = [i \in 1 .. n |-> s[i]] /\ t = [i \in 1 .. n |-> t[i]]
    OBVIOUS
  <2> QED
    BY <2>1, <2>2, Zenon
<1>2. CASE D # {}
  <2>1. PICK m \in D : \A k \in D : m <= k
    <3>1. D \in SUBSET Nat
      OBVIOUS
    <3> HIDE DEF D
    <3> QED
      BY <1>2, <3>1, LeastNumber
  <2>2. m \in 1 .. n /\ s[m] # t[m] /\ \A k \in 1 .. m - 1 : s[k] = t[k]
    BY <2>1
  <2>3. PICK j \in 1 .. n : s[m] = t[j]
    BY <2>2
  <2>4. PICK k \in 1 .. n : t[m] = s[k]
    BY <2>2
  <2>5. j > m
    <3>1. CASE j < m
      BY <2>2, <2>3, <3>1 DEF IsAscending
    <3>2. CASE j = m
      BY <2>2, <2>3, <3>2
    <3> QED
      BY <2>2, <3>1, <3>2
  <2>6. k > m
    <3>1. CASE k < m
      BY <2>2, <2>4, <3>1 DEF IsAscending
    <3>2. CASE k = m
      BY <2>2, <2>4, <3>2
    <3> QED
      BY <2>2, <3>1, <3>2
  <2>7. t[m] < t[j] /\ s[m] < s[k]
    BY <2>2, <2>5, <2>6 DEF IsAscending
  <2>8. s[m] \in Nat /\ t[m] \in Nat
    BY <2>2
  <2>9. t[m] < s[m] /\ s[m] < t[m]
    BY <2>3, <2>4, <2>7
  <2> QED
    BY <2>8, <2>9
<1> QED
  BY <1>1, <1>2

LEMMA AscendingInjective ==
  ASSUME NEW n \in Nat, NEW s \in [1 .. n -> Nat], IsAscending(s)
  PROVE  \A i, j \in 1 .. n : s[i] = s[j] => i = j
<1> SUFFICES ASSUME NEW i \in 1 .. n, NEW j \in 1 .. n, s[i] = s[j] PROVE i = j
    OBVIOUS
<1>1. ~(i < j) /\ ~(j < i)
  BY DEF IsAscending
<1> QED
  BY <1>1

(* The reference's enumeration of a set is the ascending list of it that   *)
(* the batcher has built.                                                  *)
LEMMA AscendingIs ==
  ASSUME NEW v \in Seq(Nat), IsAscending(v), NEW S, S = {v[i] : i \in DOMAIN v}
  PROVE  v = Ascending(S)
<1> DEFINE n == Len(v)
<1>1. n \in Nat /\ DOMAIN v = 1 .. n /\ v \in [1 .. n -> S] /\ v \in [1 .. n -> Nat]
  OBVIOUS
<1>2. v \in Bijection(1 .. n, S)
  <2> HIDE DEF n
  <2>1. \A i, j \in 1 .. n : v[i] = v[j] => i = j
    BY <1>1, AscendingInjective
  <2>2. \A x \in S : \E i \in 1 .. n : v[i] = x
    BY <1>1
  <2> QED
    BY <1>1, <2>1, <2>2 DEF Bijection, Injection, Surjection, IsInjective
<1> HIDE DEF n
<1>3. ExistsBijection(1 .. n, S) /\ Cardinality(S) = n
  BY <1>1, <1>2, FS_CountingElements DEF ExistsBijection
<1> DEFINE IsIt(s) == \A i, j \in DOMAIN s : i < j => s[i] < s[j]
           c == CHOOSE s \in [1 .. n -> S] : IsIt(s)
<1>4. c \in [1 .. n -> S] /\ IsIt(c)
  BY <1>1 DEF IsAscending
<1>5. Ascending(S) = c
  BY <1>3 DEF Ascending
<1> HIDE DEF c
<1>6. S \subseteq Nat
  BY <1>1
<1>7. IsFiniteSet(S) /\ IsFiniteSet(1 .. n) /\ Cardinality(1 .. n) = n
  <2>1. IsFiniteSet(S)
    BY <1>1, <1>3, FS_NatBijection
  <2>2. IsFiniteSet(1 .. n) /\ Cardinality(1 .. n) = IF 1 > n THEN 0 ELSE n - 1 + 1
    BY <1>1, FS_Interval
  <2> QED
    BY <1>1, <2>1, <2>2
<1>8. c \in [1 .. n -> Nat] /\ IsAscending(c)
  BY <1>4, <1>6 DEF IsAscending
<1>9. c \in Injection(1 .. n, S)
  <2>1. \A i, j \in 1 .. n : c[i] = c[j] => i = j
    BY <1>1, <1>8, AscendingInjective
  <2> QED
    BY <1>4, <2>1 DEF Injection, IsInjective
<1>10. c \in Surjection(1 .. n, S)
  BY <1>3, <1>7, <1>9, FS_Injection
<1>11. \A i \in 1 .. n : \E j \in 1 .. n : v[i] = c[j]
  BY <1>1, <1>10 DEF Surjection
<1>12. \A i \in 1 .. n : \E j \in 1 .. n : c[i] = v[j]
  BY <1>1, <1>4
<1>13. v = c
  BY <1>1, <1>8, <1>11, <1>12, AscendingUnique
<1> QED
  BY <1>5, <1>13

-----------------------------------------------------------------------------
(* Go's order of strings is total. *)
Strings == Seq(Nat)

BeforeAt(s, t, i) ==
  /\ i \in 1 .. Len(t)
  /\ \A j \in 1 .. i - 1 : j <= Len(s) /\ s[j] = t[j]
  /\ i > Len(s) \/ s[i] < t[i]

LEMMA BeforeSomewhere ==
  ASSUME NEW s, NEW t PROVE Before(s, t) <=> \E i : BeforeAt(s, t, i)
BY DEF Before, BeforeAt

LEMMA BeforeTransitive ==
  ASSUME NEW s \in Strings, NEW t \in Strings, NEW u \in Strings, Before(s, t), Before(t, u)
  PROVE  Before(s, u)
<1>1. PICK i : BeforeAt(s, t, i)
  BY BeforeSomewhere
<1>2. PICK k : BeforeAt(t, u, k)
  BY BeforeSomewhere
<1>3. i \in Nat /\ k \in Nat /\ Len(s) \in Nat /\ Len(t) \in Nat /\ Len(u) \in Nat
  BY <1>1, <1>2 DEF BeforeAt, Strings
<1>4. /\ \A j \in 1 .. Len(s) : s[j] \in Nat
      /\ \A j \in 1 .. Len(t) : t[j] \in Nat
      /\ \A j \in 1 .. Len(u) : u[j] \in Nat
  BY DEF Strings
<1>5. CASE i < k
  <2>1. BeforeAt(s, u, i)
    BY <1>1, <1>2, <1>3, <1>5 DEF BeforeAt
  <2> QED
    BY <2>1, BeforeSomewhere
<1>6. CASE i = k
  <2>1. BeforeAt(s, u, i)
    BY <1>1, <1>2, <1>3, <1>4, <1>6 DEF BeforeAt
  <2> QED
    BY <2>1, BeforeSomewhere
<1>7. CASE k < i
  <2>1. BeforeAt(s, u, k)
    BY <1>1, <1>2, <1>3, <1>7 DEF BeforeAt
  <2> QED
    BY <2>1, BeforeSomewhere
<1> QED
  BY <1>3, <1>5, <1>6, <1>7

LEMMA BeforeAsymmetric ==
  ASSUME NEW s \in Strings, NEW t \in Strings, Before(s, t)
  PROVE  ~Before(t, s)
<1> SUFFICES ASSUME Before(t, s) PROVE FALSE
    OBVIOUS
<1>1. PICK i : BeforeAt(s, t, i)
  BY BeforeSomewhere
<1>2. PICK k : BeforeAt(t, s, k)
  BY BeforeSomewhere
<1>3. i \in Nat /\ k \in Nat /\ Len(s) \in Nat /\ Len(t) \in Nat
  BY <1>1, <1>2 DEF BeforeAt, Strings
<1>4. /\ \A j \in 1 .. Len(s) : s[j] \in Nat
      /\ \A j \in 1 .. Len(t) : t[j] \in Nat
  BY DEF Strings
<1>5. ~(i < k)
  BY <1>1, <1>2, <1>3, <1>4 DEF BeforeAt
<1>6. ~(k < i)
  BY <1>1, <1>2, <1>3, <1>4 DEF BeforeAt
<1>7. i # k
  BY <1>1, <1>2, <1>3, <1>4 DEF BeforeAt
<1> QED
  BY <1>3, <1>5, <1>6, <1>7

LEMMA BeforeTotal ==
  ASSUME NEW s \in Strings, NEW t \in Strings, s # t
  PROVE  Before(s, t) \/ Before(t, s)
<1> DEFINE D == {i \in 1 .. Len(s) + 1 : i > Len(s) \/ i > Len(t) \/ s[i] # t[i]}
<1>1. /\ Len(s) \in Nat /\ Len(t) \in Nat
      /\ \A j \in 1 .. Len(s) : s[j] \in Nat
      /\ \A j \in 1 .. Len(t) : t[j] \in Nat
  BY DEF Strings
<1>2. D \in SUBSET Nat /\ D # {}
  <2>1. Len(s) + 1 \in D
    BY <1>1
  <2> QED
    BY <1>1, <2>1
<1>3. PICK m \in D : \A k \in D : m <= k
  <2> HIDE DEF D
  <2> QED
    BY <1>2, LeastNumber
<1>4. /\ m \in 1 .. Len(s) + 1
      /\ m > Len(s) \/ m > Len(t) \/ s[m] # t[m]
      /\ \A j \in 1 .. m - 1 : j <= Len(s) /\ j <= Len(t) /\ s[j] = t[j]
  BY <1>1, <1>3
<1> HIDE DEF D
<1>5. CASE m > Len(s) /\ m > Len(t)
  <2>1. Len(s) = m - 1 /\ Len(t) = m - 1
    <3>1. Len(s) = m - 1
      BY <1>1, <1>4, <1>5
    <3>2. CASE m = 1
      BY <1>1, <1>5, <3>1, <3>2
    <3>3. CASE m > 1
      <4>1. m - 1 <= Len(t)
        BY <1>1, <1>4, <3>3
      <4>2. m \in Nat /\ m > Len(t)
        BY <1>1, <1>4, <1>5
      <4> QED
        BY <1>1, <3>1, <4>1, <4>2
    <3> QED
      BY <1>1, <1>4, <3>2, <3>3
  <2>2. \A j \in 1 .. Len(s) : s[j] = t[j]
    BY <1>4, <2>1
  <2>3. s = t
    BY <2>1, <2>2, SeqEqual DEF Strings
  <2> QED
    BY <2>3
<1>6. CASE m <= Len(t) /\ (m > Len(s) \/ s[m] < t[m])
  <2>1. BeforeAt(s, t, m)
    BY <1>1, <1>4, <1>6 DEF BeforeAt
  <2> QED
    BY <2>1, BeforeSomewhere
<1>7. CASE m <= Len(s) /\ (m > Len(t) \/ t[m] < s[m])
  <2>1. BeforeAt(t, s, m)
    BY <1>1, <1>4, <1>7 DEF BeforeAt
  <2> QED
    BY <2>1, BeforeSomewhere
<1> QED
  BY <1>1, <1>4, <1>5, <1>6, <1>7

(* A string that is before one is before all that are not before that one. *)
LEMMA BeforeAll ==
  ASSUME NEW s \in Strings, NEW t \in Strings, NEW u \in Strings,
         Before(s, t), ~Before(u, t)
  PROVE  ~Before(u, s)
<1>1. CASE u = t
  BY <1>1, BeforeAsymmetric
<1>2. CASE Before(t, u)
  BY <1>2, BeforeTransitive, BeforeAsymmetric
<1> QED
  BY <1>1, <1>2, BeforeTotal

-----------------------------------------------------------------------------
(* Every list of strings can be sorted, so that Sorted is what it says: by *)
(* induction on the length, the last string goes in front of the first one *)
(* that it is before.                                                      *)
CanSort(n) ==
  \A tags \in [1 .. n -> Strings] : \E p \in Shuffles(n) :
    \A i, j \in 1 .. n : i < j => ~Before(tags[p[j]], tags[p[i]])

LEMMA InsertLast ==
  ASSUME NEW n \in Nat, CanSort(n)
  PROVE  CanSort(n + 1)
<1> SUFFICES ASSUME NEW tags \in [1 .. n + 1 -> Strings]
             PROVE  \E p \in Shuffles(n + 1) :
                      \A i, j \in 1 .. n + 1 : i < j => ~Before(tags[p[j]], tags[p[i]])
    BY DEF CanSort
<1> DEFINE front == [i \in 1 .. n |-> tags[i]]
           x == tags[n + 1]
<1>1. front \in [1 .. n -> Strings] /\ x \in Strings
  OBVIOUS
<1>2. PICK q \in Shuffles(n) :
        \A i, j \in 1 .. n : i < j => ~Before(front[q[j]], front[q[i]])
  BY <1>1 DEF CanSort
<1>3. /\ q \in [1 .. n -> 1 .. n]
      /\ \A i, j \in 1 .. n : q[i] = q[j] => i = j
  BY DEF Shuffles, IsInjective
<1>4. \A i, j \in 1 .. n : i < j => ~Before(tags[q[j]], tags[q[i]])
  BY <1>2, <1>3
<1> DEFINE After == {i \in 1 .. n : Before(x, tags[q[i]])}
<1>5. PICK k \in 1 .. n + 1 :
        /\ \A i \in 1 .. k - 1 : ~Before(x, tags[q[i]])
        /\ k <= n => Before(x, tags[q[k]])
  <2>1. CASE After = {}
    <3>1. \A i \in 1 .. n : ~Before(x, tags[q[i]])
      BY <2>1
    <3>2. n + 1 \in 1 .. n + 1 /\ (n + 1) - 1 = n /\ ~(n + 1 <= n)
      OBVIOUS
    <3> HIDE DEF x, After
    <3> QED
      BY <3>1, <3>2
  <2>2. CASE After # {}
    <3>1. PICK k \in After : \A i \in After : k <= i
      <4>1. After \in SUBSET Nat
        OBVIOUS
      <4> HIDE DEF After
      <4> QED
        BY <2>2, <4>1, LeastNumber
    <3>2. k \in 1 .. n /\ Before(x, tags[q[k]])
      OBVIOUS
    <3>3. \A i \in 1 .. k - 1 : ~Before(x, tags[q[i]])
      BY <3>1, <3>2
    <3>4. k \in 1 .. n + 1
      BY <3>2
    <3> HIDE DEF x, After
    <3> QED
      BY <3>2, <3>3, <3>4
  <2> QED
    BY <2>1, <2>2
<1> HIDE DEF After, front
<1> DEFINE p == [i \in 1 .. n + 1 |-> IF i < k THEN q[i] ELSE IF i = k THEN n + 1 ELSE q[i - 1]]
<1>6. /\ \A i \in 1 .. k - 1 : i \in 1 .. n /\ p[i] = q[i]
      /\ p[k] = n + 1
      /\ \A i \in k + 1 .. n + 1 : i - 1 \in 1 .. n /\ p[i] = q[i - 1]
  OBVIOUS
<1>7. p \in [1 .. n + 1 -> 1 .. n + 1]
  BY <1>3
<1>8. \A i \in 1 .. n + 1 : i \in 1 .. k - 1 \/ i = k \/ i \in k + 1 .. n + 1
  OBVIOUS
<1> HIDE DEF p
<1>9. \A i \in 1 .. n : q[i] \in 1 .. n
  BY <1>3
<1>10. \A i, j \in 1 .. n + 1 : p[i] = p[j] => i = j
  <2>1. ASSUME NEW i \in 1 .. n + 1, NEW j \in 1 .. n + 1, i < j, p[i] = p[j] PROVE FALSE
    <3>1. CASE j < k
      <4>1. p[i] = q[i] /\ p[j] = q[j] /\ i \in 1 .. n /\ j \in 1 .. n
        BY <1>6, <2>1, <3>1
      <4>2. q[i] = q[j]
        BY <2>1, <4>1
      <4>3. i = j
        BY <1>3, <4>1, <4>2
      <4> QED
        BY <2>1, <4>3
    <3>2. CASE j = k
      <4>1. p[i] = q[i] /\ p[j] = n + 1 /\ i \in 1 .. n
        BY <1>6, <2>1, <3>2
      <4>2. q[i] = n + 1 /\ q[i] \in 1 .. n
        BY <1>9, <2>1, <4>1
      <4> QED
        BY <4>2
    <3>3. CASE k < j /\ i < k
      <4>1. p[i] = q[i] /\ p[j] = q[j - 1] /\ i \in 1 .. n /\ j - 1 \in 1 .. n /\ i < j - 1
        BY <1>6, <3>3
      <4>2. q[i] = q[j - 1]
        BY <2>1, <4>1
      <4>3. i = j - 1
        BY <1>3, <4>1, <4>2
      <4> QED
        BY <4>1, <4>3
    <3>4. CASE i = k
      <4>1. p[i] = n + 1 /\ p[j] = q[j - 1] /\ j - 1 \in 1 .. n
        BY <1>6, <2>1, <3>4
      <4>2. q[j - 1] = n + 1 /\ q[j - 1] \in 1 .. n
        BY <1>9, <2>1, <4>1
      <4> QED
        BY <4>2
    <3>5. CASE k < i
      <4>1. /\ p[i] = q[i - 1] /\ p[j] = q[j - 1] /\ i - 1 \in 1 .. n /\ j - 1 \in 1 .. n
            /\ i - 1 # j - 1
        BY <1>6, <2>1, <3>5
      <4> QED
        BY <1>3, <2>1, <4>1
    <3> QED
      BY <2>1, <3>1, <3>2, <3>3, <3>4, <3>5
  <2> HIDE DEF x
  <2> QED
    BY <2>1
<1>11. p \in Shuffles(n + 1)
  BY <1>7, <1>10 DEF Shuffles, IsInjective
<1>12. ASSUME NEW i \in 1 .. n + 1, NEW j \in 1 .. n + 1, i < j
       PROVE  ~Before(tags[p[j]], tags[p[i]])
  <2>1. CASE j < k
    <3>1. p[i] = q[i] /\ p[j] = q[j] /\ i \in 1 .. n /\ j \in 1 .. n
      BY <1>6, <1>12, <2>1
    <3> QED
      BY <1>4, <1>12, <3>1
  <2>2. CASE i < k /\ j = k
    <3>1. p[i] = q[i] /\ p[j] = n + 1 /\ i \in 1 .. k - 1
      BY <1>6, <2>2
    <3> QED
      BY <1>5, <3>1
  <2>3. CASE i < k /\ k < j
    <3>1. p[i] = q[i] /\ p[j] = q[j - 1] /\ i \in 1 .. n /\ j - 1 \in 1 .. n /\ i < j - 1
      BY <1>6, <2>3
    <3> QED
      BY <1>4, <3>1
  <2>4. CASE i = k
    <3>1. /\ p[i] = n + 1 /\ p[j] = q[j - 1] /\ k \in 1 .. n /\ j - 1 \in 1 .. n
          /\ k = j - 1 \/ k < j - 1
      BY <1>6, <1>12, <2>4
    <3>2. Before(x, tags[q[k]])
      BY <1>5, <3>1
    <3>3. tags[q[k]] \in Strings /\ tags[q[j - 1]] \in Strings
      BY <1>9, <3>1
    <3>4. ~Before(tags[q[j - 1]], tags[q[k]])
      BY <1>4, <3>1, <3>2, <3>3, BeforeAsymmetric, BeforeAll
    <3> QED
      BY <1>1, <3>1, <3>2, <3>3, <3>4, BeforeAll
  <2>5. CASE k < i
    <3>1. /\ p[i] = q[i - 1] /\ p[j] = q[j - 1] /\ i - 1 \in 1 .. n /\ j - 1 \in 1 .. n
          /\ i - 1 < j - 1
      BY <1>6, <1>12, <2>5
    <3> QED
      BY <1>4, <3>1
  <2> QED
    BY <1>12, <2>1, <2>2, <2>3, <2>4, <2>5
<1> QED
  BY <1>11, <1>12

LEMMA AllCanSort == \A n \in Nat : CanSort(n)
<1> DEFINE T == {n \in Nat : ~CanSort(n)}
<1>1. ASSUME T # {} PROVE FALSE
  <2>1. PICK m \in T : \A k \in T : m <= k
    <3>1. T \in SUBSET Nat
      OBVIOUS
    <3> HIDE DEF T
    <3> QED
      BY <1>1, <3>1, LeastNumber
  <2>2. m # 0
    <3>1. CanSort(0)
      <4>1. ASSUME NEW tags \in [1 .. 0 -> Strings]
            PROVE  \E p \in Shuffles(0) :
                     \A i, j \in 1 .. 0 : i < j => ~Before(tags[p[j]], tags[p[i]])
        <5>1. [i \in 1 .. 0 |-> i] \in Shuffles(0)
          BY DEF Shuffles, IsInjective
        <5>2. \A i \in 1 .. 0 : FALSE
          OBVIOUS
        <5> QED
          BY <5>1, <5>2
      <4> QED
        BY <4>1 DEF CanSort
    <3> QED
      BY <3>1
  <2>3. m - 1 \in Nat /\ CanSort(m - 1)
    BY <2>1, <2>2
  <2>4. CanSort((m - 1) + 1)
    BY <2>3, InsertLast
  <2>5. (m - 1) + 1 = m
    BY <2>3
  <2> QED
    BY <2>4, <2>5
<1> QED
  BY <1>1

LEMMA SortedIsSorted ==
  ASSUME NEW tags \in Seq(Strings)
  PROVE  Sorted(tags) \in Arrangements(tags) /\ InOrder(Sorted(tags))
<1> DEFINE n == Len(tags)
<1>1. n \in Nat /\ tags \in [1 .. n -> Strings]
  OBVIOUS
<1>2. PICK p \in Shuffles(n) : \A i, j \in 1 .. n : i < j => ~Before(tags[p[j]], tags[p[i]])
  <2> HIDE DEF n
  <2>1. CanSort(n)
    BY <1>1, AllCanSort
  <2> QED
    BY <1>1, <2>1 DEF CanSort
<1> DEFINE t == [i \in 1 .. n |-> tags[p[i]]]
<1>3. t \in Arrangements(tags)
  BY DEF Arrangements
<1>4. Len(t) = n /\ \A i \in 1 .. n : t[i] = tags[p[i]]
  BY <1>1
<1>5. InOrder(t)
  <2> HIDE DEF n, t
  <2> QED
    BY <1>2, <1>4 DEF InOrder
<1> HIDE DEF t
<1> QED
  BY <1>3, <1>5 DEF Sorted

-----------------------------------------------------------------------------
(* Lists of tags with one colon each are told apart when they are joined:  *)
(* by induction on the length, the joined list has two atoms for each tag. *)
KeyValue == {tag \in Seq(Nat) : Len(tag) = 2}

(* The function that FlattenSeq is the last value of. *)
IsFlattening(f, s, n) ==
  /\ f \in [1 .. n -> Seq(Nat)]
  /\ \A i \in 1 .. n : f[i] = IF i = 1 THEN s[i] ELSE f[i - 1] \o s[i]

LEMMA FlatteningExtends ==
  ASSUME NEW s \in Seq(Seq(Nat)), NEW n \in Nat, 1 <= n, n + 1 <= Len(s),
         NEW g, IsFlattening(g, s, n)
  PROVE  \E f : IsFlattening(f, s, n + 1)
<1> DEFINE last == g[n] \o s[n + 1]
           f == [i \in 1 .. n + 1 |-> IF i = n + 1 THEN last ELSE g[i]]
<1>1. g[n] \in Seq(Nat) /\ s[n + 1] \in Seq(Nat)
  BY DEF IsFlattening
<1>2. last \in Seq(Nat)
  BY <1>1, ConcatProperties
<1>3. \A i \in 1 .. n : g[i] \in Seq(Nat) /\ g[i] = IF i = 1 THEN s[i] ELSE g[i - 1] \o s[i]
  BY DEF IsFlattening
<1> HIDE DEF last
<1>4. f \in [1 .. n + 1 -> Seq(Nat)]
  BY <1>2, <1>3
<1>5. f[n + 1] = last /\ \A i \in 1 .. n : f[i] = g[i]
  OBVIOUS
<1> HIDE DEF f
<1>6. f[n + 1] = f[(n + 1) - 1] \o s[n + 1]
  <2>1. (n + 1) - 1 = n /\ n \in 1 .. n
    OBVIOUS
  <2> QED
    BY <1>5, <2>1 DEF last
<1>7. ASSUME NEW i \in 1 .. n PROVE f[i] = IF i = 1 THEN s[i] ELSE f[i - 1] \o s[i]
  <2>1. i # 1 => i - 1 \in 1 .. n
    OBVIOUS
  <2> QED
    BY <1>3, <1>5, <2>1
<1>8. \A i \in 1 .. n + 1 : i \in 1 .. n \/ (i = n + 1 /\ i # 1)
  OBVIOUS
<1>9. IsFlattening(f, s, n + 1)
  BY <1>4, <1>6, <1>7, <1>8 DEF IsFlattening
<1> QED
  BY <1>9

LEMMA FlatteningExists ==
  ASSUME NEW s \in Seq(Seq(Nat))
  PROVE  \A n \in 1 .. Len(s) : \E f : IsFlattening(f, s, n)
<1> DEFINE T == {n \in 1 .. Len(s) : ~\E f : IsFlattening(f, s, n)}
<1>1. T \in SUBSET Nat
  OBVIOUS
<1>2. \A n \in 1 .. Len(s) : n \in T <=> ~\E f : IsFlattening(f, s, n)
  OBVIOUS
<1>3. T \subseteq 1 .. Len(s) /\ Len(s) \in Nat
  OBVIOUS
<1> HIDE DEF T
<1>4. ASSUME T # {} PROVE FALSE
  <2>1. PICK m \in T : \A k \in T : m <= k
    BY <1>1, <1>4, LeastNumber
  <2>2. m \in Nat /\ m \in 1 .. Len(s) /\ 1 <= m /\ m <= Len(s)
    BY <1>3
  <2>3. m # 1
    <3> SUFFICES ASSUME m = 1 PROVE FALSE
        OBVIOUS
    <3>1. s[1] \in Seq(Nat)
      BY <2>2
    <3>2. IsFlattening([i \in 1 .. 1 |-> s[1]], s, 1)
      BY <3>1 DEF IsFlattening
    <3> QED
      BY <1>2, <2>2, <3>2
  <2> DEFINE n == m - 1
  <2>4. n \in Nat /\ 1 <= n /\ n + 1 = m /\ n + 1 <= Len(s) /\ n \in 1 .. Len(s) /\ ~(m <= n)
    BY <1>3, <2>2, <2>3
  <2> HIDE DEF n
  <2>5. PICK g : IsFlattening(g, s, n)
    BY <1>2, <2>1, <2>4
  <2>6. \E f : IsFlattening(f, s, n + 1)
    BY <2>4, <2>5, FlatteningExtends
  <2> QED
    BY <1>2, <2>2, <2>4, <2>6
<1> QED
  BY <1>2, <1>4

LEMMA FlattenSeqIs ==
  ASSUME NEW s \in Seq(Seq(Nat)), Len(s) # 0
  PROVE  \E f : /\ DOMAIN f = 1 .. Len(s) /\ FlattenSeq(s) = f[Len(s)]
                /\ \A i \in 1 .. Len(s) : f[i] = IF i = 1 THEN s[i] ELSE f[i - 1] \o s[i]
<1> DEFINE body(f) == [i \in 1 .. Len(s) |-> IF i = 1 THEN s[i] ELSE f[i - 1] \o s[i]]
           c == CHOOSE f : f = body(f)
<1>1. PICK g : IsFlattening(g, s, Len(s))
  BY FlatteningExists
<1>2. g = body(g)
  BY <1>1 DEF IsFlattening
<1> HIDE DEF body
<1>3. c = body(c)
  BY <1>2
<1>4. FlattenSeq(s) = c[Len(s)]
  BY DEF FlattenSeq, body
<1> HIDE DEF c
<1>5. DOMAIN c = 1 .. Len(s)
  BY <1>3 DEF body
<1>6. \A i \in 1 .. Len(s) : c[i] = IF i = 1 THEN s[i] ELSE c[i - 1] \o s[i]
  BY <1>3 DEF body
<1> QED
  BY <1>4, <1>5, <1>6

(* What joining n tags with one colon each gives. *)
IsJoined(joined, s, n) ==
  /\ joined \in Seq(Nat) /\ Len(joined) = 2 * n
  /\ \A j \in 1 .. n : joined[2 * j - 1] = s[j][1] /\ joined[2 * j] = s[j][2]

LEMMA JoinOneMore ==
  ASSUME NEW s \in Seq(KeyValue), NEW n \in Nat, n + 1 <= Len(s), NEW joined,
         IsJoined(joined, s, n)
  PROVE  IsJoined(joined \o s[n + 1], s, n + 1)
<1> DEFINE tag == s[n + 1]
           more == joined \o tag
<1>1. tag \in Seq(Nat) /\ Len(tag) = 2 /\ joined \in Seq(Nat) /\ Len(joined) = 2 * n
  BY DEF KeyValue, IsJoined
<1> HIDE DEF tag
<1>2. /\ more \in Seq(Nat) /\ Len(more) = 2 * n + 2
      /\ \A k \in 1 .. 2 * n + 2 : more[k] = IF k <= 2 * n THEN joined[k] ELSE tag[k - 2 * n]
  <2>1. /\ more \in Seq(Nat) /\ Len(more) = Len(joined) + Len(tag)
        /\ \A k \in 1 .. Len(joined) + Len(tag) :
              more[k] = IF k <= Len(joined) THEN joined[k] ELSE tag[k - Len(joined)]
    BY <1>1, ConcatProperties
  <2> HIDE DEF more
  <2> QED
    BY <1>1, <2>1
<1> HIDE DEF more
<1>3. 2 * n \in Nat /\ 2 * (n + 1) = 2 * n + 2
  OBVIOUS
<1>4. ASSUME NEW j \in 1 .. n + 1
      PROVE  more[2 * j - 1] = s[j][1] /\ more[2 * j] = s[j][2]
  <2>1. CASE j = n + 1
    <3>1. /\ 2 * j - 1 = 2 * n + 1 /\ 2 * j = 2 * n + 2
          /\ 2 * n + 1 \in 1 .. 2 * n + 2 /\ 2 * n + 2 \in 1 .. 2 * n + 2
          /\ (2 * n + 1) - 2 * n = 1 /\ (2 * n + 2) - 2 * n = 2
          /\ ~(2 * n + 1 <= 2 * n) /\ ~(2 * n + 2 <= 2 * n)
      BY <1>3, <2>1
    <3>2. more[2 * n + 1] = tag[1] /\ more[2 * n + 2] = tag[2]
      BY <1>2, <3>1
    <3> QED
      BY <2>1, <3>1, <3>2 DEF tag
  <2>2. CASE j <= n
    <3>1. /\ j \in 1 .. n /\ 2 * j - 1 \in 1 .. 2 * n + 2 /\ 2 * j \in 1 .. 2 * n + 2
          /\ 2 * j - 1 <= 2 * n /\ 2 * j <= 2 * n
      BY <2>2
    <3>2. more[2 * j - 1] = joined[2 * j - 1] /\ more[2 * j] = joined[2 * j]
      BY <1>2, <3>1
    <3> QED
      BY <3>1, <3>2 DEF IsJoined
  <2> QED
    BY <2>1, <2>2
<1>5. IsJoined(more, s, n + 1)
  BY <1>2, <1>3, <1>4 DEF IsJoined
<1> QED
  BY <1>5 DEF more, tag

LEMMA FlattenJoins ==
  ASSUME NEW s \in Seq(KeyValue), Len(s) # 0
  PROVE  IsJoined(FlattenSeq(s), s, Len(s))
<1>1. s \in Seq(Seq(Nat)) /\ Len(s) \in Nat /\ Len(s) \in 1 .. Len(s)
  BY DEF KeyValue
<1>2. PICK f : /\ DOMAIN f = 1 .. Len(s) /\ FlattenSeq(s) = f[Len(s)]
               /\ \A i \in 1 .. Len(s) : f[i] = IF i = 1 THEN s[i] ELSE f[i - 1] \o s[i]
  BY <1>1, FlattenSeqIs
<1> DEFINE T == {n \in 1 .. Len(s) : ~IsJoined(f[n], s, n)}
<1>3. T \in SUBSET Nat /\ T \subseteq 1 .. Len(s)
  OBVIOUS
<1>4. \A n \in 1 .. Len(s) : n \in T <=> ~IsJoined(f[n], s, n)
  OBVIOUS
<1> HIDE DEF T
<1>5. ASSUME T # {} PROVE FALSE
  <2>1. PICK m \in T : \A k \in T : m <= k
    BY <1>3, <1>5, LeastNumber
  <2>2. m \in Nat /\ m \in 1 .. Len(s) /\ 1 <= m /\ m <= Len(s)
    BY <1>1, <1>3
  <2>3. m # 1
    <3> SUFFICES ASSUME m = 1 PROVE FALSE
        OBVIOUS
    <3>1. f[1] = s[1]
      BY <1>2, <2>2
    <3>2. s[1] \in Seq(Nat) /\ Len(s[1]) = 2
      BY <2>2 DEF KeyValue
    <3>3. \A j \in 1 .. 1 : 2 * j - 1 = 1 /\ 2 * j = 2 /\ j = 1
      OBVIOUS
    <3>4. IsJoined(f[1], s, 1)
      BY <3>1, <3>2, <3>3 DEF IsJoined
    <3> QED
      BY <1>4, <2>2, <3>4
  <2> DEFINE n == m - 1
  <2>4. n \in Nat /\ n + 1 = m /\ n + 1 <= Len(s) /\ n \in 1 .. Len(s) /\ ~(m <= n)
    BY <1>1, <2>2, <2>3
  <2>5. f[m] = f[n] \o s[n + 1]
    BY <1>2, <2>2, <2>3, <2>4
  <2> HIDE DEF n
  <2>6. IsJoined(f[n], s, n)
    BY <1>4, <2>1, <2>4
  <2>7. IsJoined(f[n] \o s[n + 1], s, n + 1)
    BY <2>4, <2>6, JoinOneMore
  <2> QED
    BY <1>4, <2>2, <2>4, <2>5, <2>7
<1> QED
  BY <1>1, <1>2, <1>4, <1>5

LEMMA FlattenInjective ==
  ASSUME NEW s \in Seq(KeyValue), NEW t \in Seq(KeyValue), FlattenSeq(s) = FlattenSeq(t)
  PROVE  s = t
<1>1. ASSUME NEW u \in Seq(KeyValue) PROVE Len(FlattenSeq(u)) = 2 * Len(u)
  <2>1. CASE Len(u) = 0
    BY <2>1 DEF FlattenSeq
  <2>2. CASE Len(u) # 0
    BY <2>2, FlattenJoins DEF IsJoined
  <2> QED
    BY <2>1, <2>2
<1>2. Len(s) \in Nat /\ Len(t) \in Nat /\ 2 * Len(s) = 2 * Len(t)
  BY <1>1
<1>3. Len(s) = Len(t)
  BY <1>2
<1>4. ASSUME NEW i \in 1 .. Len(s) PROVE s[i] = t[i]
  <2>1. IsJoined(FlattenSeq(s), s, Len(s)) /\ IsJoined(FlattenSeq(t), t, Len(t))
    BY <1>3, FlattenJoins
  <2>2. s[i][1] = t[i][1] /\ s[i][2] = t[i][2]
    BY <1>3, <2>1 DEF IsJoined
  <2>3. s[i] \in Seq(Nat) /\ t[i] \in Seq(Nat) /\ Len(s[i]) = 2 /\ Len(t[i]) = 2
    BY <1>3 DEF KeyValue
  <2>4. \A j \in 1 .. 2 : j = 1 \/ j = 2
    OBVIOUS
  <2> QED
    BY <2>2, <2>3, <2>4, SeqEqual
<1> QED
  BY <1>3, <1>4, SeqEqual

(* The tag lists that may occur have different keys unless they have the   *)
(* same tags.                                                              *)
TagKeysDiffer ==
  \A s, t \in TagLists : getTagKey(s) = getTagKey(t) => Sorted(s) = Sorted(t)

(* Lists of key:value tags never share a key (batcher.go, getTagKey).      *)
THEOREM KeyValueTagsDiffer == TagLists \subseteq Seq(KeyValue) => TagKeysDiffer
<1> SUFFICES ASSUME TagLists \subseteq Seq(KeyValue), NEW s \in TagLists, NEW t \in TagLists,
                    getTagKey(s) = getTagKey(t)
             PROVE  Sorted(s) = Sorted(t)
    BY DEF TagKeysDiffer
<1>1. ASSUME NEW tags \in TagLists PROVE Sorted(tags) \in Seq(KeyValue)
  <2>1. tags \in Seq(KeyValue) /\ tags \in Seq(Strings)
    BY DEF KeyValue, Strings
  <2>2. PICK p \in Shuffles(Len(tags)) : Sorted(tags) = [i \in 1 .. Len(tags) |-> tags[p[i]]]
    BY <2>1, SortedIsSorted DEF Arrangements
  <2>3. p \in [1 .. Len(tags) -> 1 .. Len(tags)] /\ Len(tags) \in Nat
    BY <2>1 DEF Shuffles
  <2> QED
    BY <2>1, <2>2, <2>3
<1>2. FlattenSeq(Sorted(s)) = FlattenSeq(Sorted(t))
  BY DEF getTagKey
<1> QED
  BY <1>1, <1>2, FlattenInjective

-----------------------------------------------------------------------------
(* Metrics of one series have the same key; if their tags' keys differ     *)
(* when their tags do, other metrics have not.                             *)
LEMMA SameKey ==
  ASSUME NEW d, NEW e
  PROVE  /\ SameSeries(d, e) => getStringKey(d) = getStringKey(e)
         /\ (getTagKey(d.tags) = getTagKey(e.tags) => Sorted(d.tags) = Sorted(e.tags)) =>
              (getStringKey(d) = getStringKey(e) => SameSeries(d, e))
<1>2. Sorted(d.tags) = Sorted(e.tags) => getTagKey(d.tags) = getTagKey(e.tags)
  BY DEF getTagKey
<1>3. CASE d.host = NoHost <=> e.host = NoHost
  BY <1>2, <1>3 DEF getStringKey, SameSeries
<1>4. CASE ~(d.host = NoHost <=> e.host = NoHost)
  <2>1. \A a, b, x, y, z : <<a, b>> # <<x, y, z>>
    OBVIOUS
  <2>2. d.host # e.host
    BY <1>4
  <2> QED
    BY <1>4, <2>1, <2>2 DEF getStringKey, SameSeries
<1> QED
  BY <1>3, <1>4

(* The key of the n-th metric. *)
Key(n) == getStringKey(arrivals[n])

HistoryInv ==
  /\ arrivals \in Seq(Distribution)
  /\ values \in Seq(Seq(Nat)) /\ Len(values) = Len(arrivals)
  /\ gone \subseteq 1 .. Len(arrivals)

(* The map leads from the key of each metric that waits to the first one   *)
(* with this key.                                                          *)
MapInv ==
  /\ \A k \in DOMAIN metrics : metrics[k] \in Waiting /\ Key(metrics[k]) = k
  /\ \A n \in Waiting : Key(n) \in DOMAIN metrics /\ metrics[Key(n)] <= n

(* The object there has the points of all the metrics with the key.        *)
PointsInv ==
  \A k \in DOMAIN metrics :
    LET v == values[metrics[k]]
    IN  IsAscending(v) /\ ToSet(v) = {n \in Waiting : Key(n) = k}

IInv == HistoryInv /\ MapInv /\ PointsInv

(* A metric joins the object of its series, or becomes its first one.      *)
LEMMA AddMetricStep == ASSUME IInv, NEW d \in Distribution, AddMetric(d) PROVE IInv'
<1>0. PICK N \in Nat : N = Len(arrivals)
  BY DEF IInv, HistoryInv
<1> DEFINE n == N + 1
           key == getStringKey(d)
           NextKey(i) == getStringKey(arrivals'[i])
<1>1. /\ arrivals' = Append(arrivals, d) /\ gone' = gone
      /\ IF key \in DOMAIN metrics
           THEN /\ values' = Append([values EXCEPT ![metrics[key]] = Append(@, n)], <<n>>)
                /\ metrics' = metrics
           ELSE /\ values' = Append(values, <<n>>)
                /\ metrics' = [k \in DOMAIN metrics \cup {key} |->
                                 IF k = key THEN n ELSE metrics[k]]
  BY <1>0 DEF AddMetric, Join
<1>2. HistoryInv /\ MapInv /\ PointsInv
  BY DEF IInv
<1>3. N \in Nat /\ n \in Nat /\ n = N + 1 /\ <<n>> \in Seq(Nat)
  OBVIOUS
<1>4. /\ arrivals' \in Seq(Distribution) /\ Len(arrivals') = n
      /\ arrivals'[n] = d /\ \A i \in 1 .. N : arrivals'[i] = arrivals[i]
  BY <1>0, <1>1, <1>2 DEF HistoryInv
<1>5. Waiting \subseteq 1 .. N /\ DOMAIN arrivals = 1 .. N /\ gone \subseteq 1 .. N
  BY <1>0, <1>2 DEF HistoryInv, Waiting
<1>6. Waiting' = Waiting \cup {n}
  <2>1. DOMAIN arrivals' = 1 .. n
    BY <1>4
  <2> QED
    BY <1>1, <1>3, <1>5, <2>1 DEF Waiting
<1>7. NextKey(n) = key /\ \A i \in 1 .. N : NextKey(i) = Key(i)
  BY <1>3, <1>4 DEF Key
<1> HIDE DEF key, n, NextKey
<1>8. CASE key \in DOMAIN metrics
  <2> DEFINE m == metrics[key]
  <2>1. m \in 1 .. N /\ m \in Waiting /\ Key(m) = key
    BY <1>2, <1>5, <1>8 DEF MapInv
  <2> DEFINE joined == [values EXCEPT ![m] = Append(@, n)]
  <2>2. values \in Seq(Seq(Nat)) /\ Len(values) = N
    BY <1>0, <1>2 DEF HistoryInv
  <2>3. values[m] \in Seq(Nat) /\ Append(values[m], n) \in Seq(Nat)
    BY <1>3, <2>1, <2>2
  <2>4. /\ joined \in Seq(Seq(Nat)) /\ Len(joined) = N /\ joined[m] = Append(values[m], n)
        /\ \A i \in 1 .. N : i # m => joined[i] = values[i]
    BY <2>1, <2>2, <2>3, ExceptSeq
  <2>5. values' = Append(joined, <<n>>) /\ metrics' = metrics
    BY <1>1, <1>8
  <2> HIDE DEF joined, m
  <2>6. /\ values' \in Seq(Seq(Nat)) /\ Len(values') = n /\ values'[m] = Append(values[m], n)
        /\ \A i \in 1 .. N : i # m => values'[i] = values[i]
    <3>1. /\ values' \in Seq(Seq(Nat)) /\ Len(values') = N + 1
          /\ \A i \in 1 .. N : values'[i] = joined[i]
      BY <1>3, <2>4, <2>5
    <3> QED
      BY <1>3, <2>1, <2>4, <3>1
  <2>7. HistoryInv'
    BY <1>0, <1>1, <1>3, <1>4, <1>5, <2>6 DEF HistoryInv
  <2>8. MapInv'
    <3>1. \A k \in DOMAIN metrics : metrics[k] \in Waiting' /\ NextKey(metrics[k]) = k
      BY <1>2, <1>5, <1>6, <1>7 DEF MapInv
    <3>2. \A i \in Waiting' : NextKey(i) \in DOMAIN metrics /\ metrics[NextKey(i)] <= i
      <4>1. \A i \in Waiting : NextKey(i) \in DOMAIN metrics /\ metrics[NextKey(i)] <= i
        BY <1>2, <1>5, <1>7 DEF MapInv
      <4>2. NextKey(n) \in DOMAIN metrics /\ metrics[NextKey(n)] <= n
        BY <1>3, <1>7, <1>8, <2>1 DEF m
      <4> QED
        BY <1>6, <4>1, <4>2
    <3> QED
      BY <2>5, <3>1, <3>2 DEF MapInv, Key, NextKey
  <2>9. ASSUME NEW k \in DOMAIN metrics
        PROVE  /\ IsAscending(values'[metrics[k]])
               /\ ToSet(values'[metrics[k]]) = {i \in Waiting' : NextKey(i) = k}
    <3>1. /\ metrics[k] \in 1 .. N /\ values[metrics[k]] \in Seq(Nat) /\ Key(metrics[k]) = k
          /\ IsAscending(values[metrics[k]])
          /\ ToSet(values[metrics[k]]) = {i \in Waiting : Key(i) = k}
      BY <1>2, <1>5, <2>2 DEF MapInv, PointsInv
    <3>2. {i \in Waiting' : NextKey(i) = k} =
            {i \in Waiting : Key(i) = k} \cup (IF k = key THEN {n} ELSE {})
      BY <1>5, <1>6, <1>7
    <3>3. CASE k = key
      <4> DEFINE v == values[m]
                 w == Append(v, n)
      <4>1. metrics[k] = m /\ values'[m] = w /\ v \in Seq(Nat) /\ IsAscending(v)
        BY <2>3, <2>6, <3>1, <3>3 DEF m
      <4>2. ToSet(v) = {i \in Waiting : Key(i) = k}
        BY <3>1, <3>3 DEF m
      <4>3. \A i \in DOMAIN v : v[i] \in Nat /\ v[i] < n
        BY <1>3, <1>5, <4>1, <4>2 DEF ToSet
      <4> HIDE DEF v
      <4>4. /\ w \in Seq(Nat) /\ DOMAIN w = DOMAIN v \cup {Len(v) + 1} /\ w[Len(v) + 1] = n
            /\ \A i \in DOMAIN v : w[i] = v[i]
            /\ DOMAIN v = 1 .. Len(v) /\ Len(v) \in Nat
        BY <1>3, <4>1
      <4> HIDE DEF w
      <4>5. IsAscending(w)
        BY <4>1, <4>3, <4>4 DEF IsAscending
      <4>6. ToSet(w) = ToSet(v) \cup {n}
        BY <4>4 DEF ToSet
      <4> QED
        BY <3>2, <3>3, <4>1, <4>2, <4>5, <4>6
    <3>4. CASE k # key
      <4>1. metrics[k] # m
        BY <2>1, <3>1, <3>4
      <4> QED
        BY <2>6, <3>1, <3>2, <3>4, <4>1
    <3> QED
      BY <3>3, <3>4
  <2>10. PointsInv'
    BY <2>5, <2>9 DEF PointsInv, Key, NextKey
  <2> QED
    BY <2>7, <2>8, <2>10 DEF IInv
<1>9. CASE key \notin DOMAIN metrics
  <2>1. values \in Seq(Seq(Nat)) /\ Len(values) = N
    BY <1>0, <1>2 DEF HistoryInv
  <2>2. values' = Append(values, <<n>>)
    BY <1>1, <1>9
  <2>3. /\ DOMAIN metrics' = DOMAIN metrics \cup {key} /\ metrics'[key] = n
        /\ \A k \in DOMAIN metrics : metrics'[k] = metrics[k] /\ k # key
    BY <1>1, <1>9
  <2>4. /\ values' \in Seq(Seq(Nat)) /\ Len(values') = n /\ values'[n] = <<n>>
        /\ \A i \in 1 .. N : values'[i] = values[i]
    BY <1>3, <2>1, <2>2
  <2>5. HistoryInv'
    BY <1>1, <1>3, <1>4, <1>5, <2>4 DEF HistoryInv
  <2>6. \A i \in Waiting : Key(i) # key
    BY <1>2, <1>9 DEF MapInv
  <2>7. MapInv'
    <3>1. \A k \in DOMAIN metrics' : metrics'[k] \in Waiting' /\ NextKey(metrics'[k]) = k
      BY <1>2, <1>5, <1>6, <1>7, <2>3 DEF MapInv
    <3>2. \A i \in Waiting' : NextKey(i) \in DOMAIN metrics' /\ metrics'[NextKey(i)] <= i
      <4>1. \A i \in Waiting : NextKey(i) \in DOMAIN metrics' /\ metrics'[NextKey(i)] <= i
        BY <1>2, <1>5, <1>7, <2>3 DEF MapInv
      <4>2. NextKey(n) \in DOMAIN metrics' /\ metrics'[NextKey(n)] <= n
        BY <1>3, <1>7, <2>3
      <4> QED
        BY <1>6, <4>1, <4>2
    <3> QED
      BY <3>1, <3>2 DEF MapInv, Key, NextKey
  <2>8. ASSUME NEW k \in DOMAIN metrics'
        PROVE  /\ IsAscending(values'[metrics'[k]])
               /\ ToSet(values'[metrics'[k]]) = {i \in Waiting' : NextKey(i) = k}
    <3>1. CASE k = key
      <4>1. {i \in Waiting' : NextKey(i) = k} = {n}
        BY <1>5, <1>6, <1>7, <2>6, <3>1
      <4>2. values'[metrics'[k]] = <<n>>
        BY <2>3, <2>4, <3>1
      <4>3. IsAscending(<<n>>) /\ ToSet(<<n>>) = {n}
        BY DEF IsAscending, ToSet
      <4> QED
        BY <4>1, <4>2, <4>3
    <3>2. CASE k # key
      <4>1. /\ k \in DOMAIN metrics /\ metrics[k] \in 1 .. N /\ metrics'[k] = metrics[k]
            /\ IsAscending(values[metrics[k]])
            /\ ToSet(values[metrics[k]]) = {i \in Waiting : Key(i) = k}
        BY <1>2, <1>5, <2>3, <3>2 DEF MapInv, PointsInv
      <4>2. {i \in Waiting' : NextKey(i) = k} = {i \in Waiting : Key(i) = k}
        BY <1>5, <1>6, <1>7, <3>2
      <4> QED
        BY <2>4, <4>1, <4>2
    <3> QED
      BY <3>1, <3>2
  <2>9. PointsInv'
    BY <2>8 DEF PointsInv, Key, NextKey
  <2> QED
    BY <2>5, <2>7, <2>9 DEF IInv
<1> QED
  BY <1>8, <1>9

(* The batch has the points of all the metrics that wait. *)
LEMMA PointsOfBatch ==
  ASSUME MapInv, PointsInv
  PROVE  UNION {ToSet(series.points) : series \in ToAPIMetrics} = Waiting
<1> DEFINE sent == UNION {ToSet(series.points) : series \in ToAPIMetrics}
<1>1. \A k \in DOMAIN metrics : ToSet(values[metrics[k]]) = {n \in Waiting : Key(n) = k}
  BY DEF PointsInv
<1>2. sent = UNION {ToSet(values[metrics[k]]) : k \in DOMAIN metrics}
  <2>1. \A k \in DOMAIN metrics : ToAPIMetric(metrics[k]).points = values[metrics[k]]
    BY DEF ToAPIMetric
  <2>2. {ToSet(series.points) : series \in ToAPIMetrics} =
          {ToSet(values[metrics[k]]) : k \in DOMAIN metrics}
    BY <2>1 DEF ToAPIMetrics
  <2> QED
    BY <2>2
<1> HIDE DEF sent
<1>3. sent \subseteq Waiting
  BY <1>1, <1>2
<1>4. \A n \in Waiting : Key(n) \in DOMAIN metrics /\ n \in ToSet(values[metrics[Key(n)]])
  BY <1>1 DEF MapInv
<1>5. sent = Waiting
  BY <1>2, <1>3, <1>4
<1> QED
  BY <1>5 DEF sent

(* A batch that is sent takes all the metrics that wait with it. *)
LEMMA SendMetricsBatchStep == ASSUME IInv, SendMetricsBatch PROVE IInv'
<1>1. /\ UNCHANGED <<arrivals, values>> /\ DOMAIN metrics' = {}
      /\ gone' = gone \cup UNION {ToSet(series.points) : series \in ToAPIMetrics}
  BY DEF SendMetricsBatch, MakeBatcher
<1>2. HistoryInv /\ MapInv /\ PointsInv
  BY DEF IInv
<1>6. gone' = gone \cup Waiting
  BY <1>1, <1>2, PointsOfBatch
<1>7. Waiting' = {} /\ gone' \subseteq 1 .. Len(arrivals)
  <2>1. arrivals' = arrivals
    BY <1>1
  <2>2. Waiting' = {}
    BY <1>6, <2>1 DEF Waiting
  <2>3. Waiting \subseteq 1 .. Len(arrivals)
    BY <1>2 DEF Waiting, HistoryInv
  <2> QED
    BY <1>2, <1>6, <2>2, <2>3 DEF HistoryInv
<1> QED
  BY <1>1, <1>2, <1>7 DEF IInv, HistoryInv, MapInv, PointsInv

LEMMA BatcherInvariant == Spec => []IInv
<1>1. Init => IInv
  BY DEF Init, MakeBatcher, IInv, HistoryInv, MapInv, PointsInv, Waiting
<1>2. IInv /\ UNCHANGED vars => IInv'
  BY DEF vars, IInv, HistoryInv, MapInv, PointsInv, Waiting, Key
<1>3. IInv /\ [Next]_vars => IInv'
  BY <1>2, AddMetricStep, SendMetricsBatchStep DEF Next, Done
<1> QED
  BY <1>1, <1>3, PTL DEF Spec

(* A series of the reference has its points where they can be listed: up   *)
(* to any number the metrics that are in a set have an ascending list.     *)
Listed(S, n) ==
  \E w \in Seq(Nat) : IsAscending(w) /\ {w[i] : i \in DOMAIN w} = {k \in 1 .. n : k \in S}

LEMMA ListOneMore ==
  ASSUME NEW S, NEW n \in Nat, Listed(S, n)
  PROVE  Listed(S, n + 1)
<1>1. PICK w \in Seq(Nat) : IsAscending(w) /\ {w[i] : i \in DOMAIN w} = {k \in 1 .. n : k \in S}
  BY DEF Listed
<1>2. CASE n + 1 \notin S
  <2>1. {k \in 1 .. n + 1 : k \in S} = {k \in 1 .. n : k \in S}
    BY <1>2
  <2> QED
    BY <1>1, <2>1 DEF Listed
<1>3. CASE n + 1 \in S
  <2> DEFINE v == Append(w, n + 1)
  <2>1. /\ v \in Seq(Nat) /\ DOMAIN v = DOMAIN w \cup {Len(w) + 1} /\ v[Len(w) + 1] = n + 1
        /\ \A i \in DOMAIN w : v[i] = w[i]
        /\ DOMAIN w = 1 .. Len(w) /\ Len(w) \in Nat
    OBVIOUS
  <2>2. \A i \in DOMAIN w : w[i] \in Nat /\ w[i] < n + 1
    <3>1. \A i \in DOMAIN w : w[i] \in {k \in 1 .. n : k \in S}
      BY <1>1
    <3> QED
      BY <3>1
  <2> HIDE DEF v
  <2>3. IsAscending(v)
    BY <1>1, <2>1, <2>2 DEF IsAscending
  <2>4. {v[i] : i \in DOMAIN v} = {w[i] : i \in DOMAIN w} \cup {n + 1}
    BY <2>1
  <2>5. {k \in 1 .. n + 1 : k \in S} = {k \in 1 .. n : k \in S} \cup {n + 1}
    BY <1>3
  <2> QED
    BY <1>1, <2>1, <2>3, <2>4, <2>5 DEF Listed
<1> QED
  BY <1>2, <1>3

LEMMA AllListed == ASSUME NEW S PROVE \A n \in Nat : Listed(S, n)
<1> DEFINE T == {n \in Nat : ~Listed(S, n)}
<1>1. ASSUME T # {} PROVE FALSE
  <2>1. PICK m \in T : \A k \in T : m <= k
    <3>1. T \in SUBSET Nat
      OBVIOUS
    <3> HIDE DEF T
    <3> QED
      BY <1>1, <3>1, LeastNumber
  <2>2. Listed(S, 0)
    <3>1. <<>> \in Seq(Nat) /\ IsAscending(<<>>) /\ DOMAIN <<>> = {}
      BY DEF IsAscending
    <3>2. {k \in 1 .. 0 : k \in S} = {}
      OBVIOUS
    <3> QED
      BY <3>1, <3>2 DEF Listed
  <2>3. m # 0
    BY <2>1, <2>2
  <2>4. m - 1 \in Nat /\ Listed(S, m - 1)
    BY <2>1, <2>3
  <2>5. Listed(S, (m - 1) + 1)
    BY <2>4, ListOneMore
  <2>6. (m - 1) + 1 = m
    BY <2>4
  <2> QED
    BY <2>1, <2>5, <2>6
<1> QED
  BY <1>1

(* So the reference's points are those of the metrics of the series. *)
LEMMA AscendingOf ==
  ASSUME NEW n \in Nat, NEW S \in SUBSET (1 .. n)
  PROVE  ToSet(Ascending(S)) = S
<1>1. PICK w \in Seq(Nat) : IsAscending(w) /\ {w[i] : i \in DOMAIN w} = {k \in 1 .. n : k \in S}
  BY AllListed DEF Listed
<1>2. S = {w[i] : i \in DOMAIN w}
  BY <1>1
<1>3. w = Ascending(S)
  BY <1>1, <1>2, AscendingIs
<1> QED
  BY <1>2, <1>3 DEF ToSet

(* Two metrics collide if they share a key without being of one series.    *)
LEMMA CollidingKeys ==
  ASSUME NEW d, NEW e
  PROVE  Colliding(d, e) <=> getStringKey(d) = getStringKey(e) /\ ~SameSeries(d, e)
<1>1. CASE d.host = NoHost <=> e.host = NoHost
  BY <1>1 DEF getStringKey, getTagKey, SameSeries, Colliding
<1>2. CASE ~(d.host = NoHost <=> e.host = NoHost)
  <2>1. \A a, b, x, y, z : <<a, b>> # <<x, y, z>> /\ <<x, y, z>> # <<a, b>>
    OBVIOUS
  <2>2. d.host # e.host
    BY <1>2
  <2> QED
    BY <1>2, <2>1, <2>2 DEF getStringKey, Colliding
<1> QED
  BY <1>1, <1>2

(* Without a collision the batch is grouped as the reference says. *)
LEMMA GroupedWithoutCollision == ASSUME IInv, ~Collision PROVE BatchIsGrouped
<1>1. HistoryInv /\ MapInv /\ PointsInv
  BY DEF IInv
<1>2. Waiting \subseteq Nat
  BY <1>1 DEF HistoryInv, Waiting
<1>3. \A n \in Waiting : Series(n) = {m \in Waiting : Key(m) = Key(n)}
  BY SameKey, CollidingKeys DEF Series, Key, Collision
<1> DEFINE First == {m \in Waiting : \A k \in Series(m) : m <= k}
           Rec(n) == [metric |-> arrivals[n].name, tags |-> arrivals[n].tags,
                      host |-> arrivals[n].host, points |-> Ascending(Series(n))]
<1>4. Grouped = {Rec(n) : n \in First}
  BY DEF Grouped
<1>5. ASSUME NEW k \in DOMAIN metrics
      PROVE  metrics[k] \in First /\ ToAPIMetric(metrics[k]) = Rec(metrics[k])
  <2>1. metrics[k] \in Waiting /\ Key(metrics[k]) = k
    BY <1>1 DEF MapInv
  <2>2. Series(metrics[k]) = {n \in Waiting : Key(n) = k}
    BY <1>3, <2>1
  <2>3. metrics[k] \in First
    BY <1>1, <2>1, <2>2 DEF MapInv
  <2>4. values[metrics[k]] \in Seq(Nat)
    BY <1>1, <2>1 DEF HistoryInv, Waiting
  <2>5. /\ IsAscending(values[metrics[k]])
        /\ Series(metrics[k]) = {values[metrics[k]][i] : i \in DOMAIN values[metrics[k]]}
    BY <1>1, <2>2 DEF PointsInv, ToSet
  <2>6. values[metrics[k]] = Ascending(Series(metrics[k]))
    BY <2>4, <2>5, AscendingIs
  <2> QED
    BY <2>3, <2>6 DEF ToAPIMetric
<1>6. ASSUME NEW n \in First
      PROVE  Key(n) \in DOMAIN metrics /\ metrics[Key(n)] = n
  <2>1. n \in Waiting
    OBVIOUS
  <2>2. Key(n) \in DOMAIN metrics /\ metrics[Key(n)] <= n /\ metrics[Key(n)] \in Waiting
    BY <1>1, <2>1 DEF MapInv
  <2>3. metrics[Key(n)] \in Series(n)
    BY <1>1, <1>3, <2>1, <2>2 DEF MapInv
  <2>4. n <= metrics[Key(n)]
    BY <2>3
  <2>5. n \in Nat /\ metrics[Key(n)] \in Nat
    BY <1>2, <2>1, <2>2
  <2> QED
    BY <2>2, <2>4, <2>5
<1> HIDE DEF First, Rec
<1>7. ToAPIMetrics = {Rec(n) : n \in First}
  BY <1>5, <1>6 DEF ToAPIMetrics
<1> QED
  BY <1>4, <1>7 DEF BatchIsGrouped

(* With one it is not: the points of both metrics are sent as one series.  *)
LEMMA CollisionMisgroups == ASSUME IInv, Collision PROVE ~BatchIsGrouped
<1> SUFFICES ASSUME BatchIsGrouped PROVE FALSE
  OBVIOUS
<1>1. HistoryInv /\ MapInv /\ PointsInv
  BY DEF IInv
<1>2. PICK m \in Waiting, n \in Waiting :
        Key(m) = Key(n) /\ ~SameSeries(arrivals[m], arrivals[n])
  BY CollidingKeys DEF Collision, Key
<1>3. Key(m) \in DOMAIN metrics
  BY <1>1 DEF MapInv
<1> DEFINE series == ToAPIMetric(metrics[Key(m)])
<1>4. series \in ToAPIMetrics
  BY <1>3 DEF ToAPIMetrics
<1>5. m \in ToSet(series.points) /\ n \in ToSet(series.points)
  BY <1>1, <1>2, <1>3 DEF PointsInv, ToAPIMetric
<1> HIDE DEF series
<1>6. PICK k \in Waiting : series.points = Ascending(Series(k))
  BY <1>4 DEF BatchIsGrouped, Grouped
<1>7. ToSet(Ascending(Series(k))) = Series(k)
  <2>1. PICK N \in Nat : N = Len(arrivals)
    BY <1>1 DEF HistoryInv
  <2>2. Series(k) \in SUBSET (1 .. N)
    BY <1>1, <2>1 DEF HistoryInv, Waiting, Series
  <2> QED
    BY <2>2, AscendingOf
<1>8. SameSeries(arrivals[m], arrivals[k]) /\ SameSeries(arrivals[n], arrivals[k])
  BY <1>5, <1>6, <1>7 DEF Series
<1> QED
  BY <1>2, <1>8 DEF SameSeries

(* Whatever the tags: the batch is what grouping the waiting metrics by    *)
(* series gives as long as no two of them have other tags that read the    *)
(* same when joined with colons, and it is not from the first such pair on *)
(* until they are sent (batcher.go, AddMetric, getStringKey, ToAPIMetrics).*)
THEOREM BatchAlwaysGrouped == Spec => []GroupedUnlessCollision
<1>1. IInv => GroupedUnlessCollision
  BY GroupedWithoutCollision, CollisionMisgroups DEF GroupedUnlessCollision
<1> QED
  BY <1>1, BatcherInvariant, PTL

(* Whatever the tags, and so also when the keys of different lists are the *)
(* same: a batch has the point of each waiting metric in one of its series *)
(* and nothing else, and each series has its points in order of arrival    *)
(* (batcher.go, AddMetric).  Only what a series is depends on the keys.    *)
PointsKept ==
  /\ UNION {ToSet(series.points) : series \in ToAPIMetrics} = Waiting
  /\ \A s, t \in ToAPIMetrics : ToSet(s.points) \cap ToSet(t.points) # {} => s = t
  /\ \A series \in ToAPIMetrics : IsAscending(series.points)

(* No point is lost, sent in two series, or out of order in its series.    *)
THEOREM PointsAlwaysKept == Spec => []PointsKept
<1>1. IInv => PointsKept
  <2> SUFFICES ASSUME IInv PROVE PointsKept
    OBVIOUS
  <2>1. HistoryInv /\ MapInv /\ PointsInv
    BY DEF IInv
  <2>2. \A series \in ToAPIMetrics : \E k \in DOMAIN metrics :
          series = ToAPIMetric(metrics[k]) /\ series.points = values[metrics[k]]
    BY DEF ToAPIMetrics, ToAPIMetric
  <2>3. \A k \in DOMAIN metrics :
          /\ IsAscending(values[metrics[k]])
          /\ ToSet(values[metrics[k]]) = {n \in Waiting : Key(n) = k}
    BY <2>1 DEF PointsInv
  <2>4. UNION {ToSet(series.points) : series \in ToAPIMetrics} = Waiting
    BY <2>1, PointsOfBatch
  <2>5. ASSUME NEW s \in ToAPIMetrics, NEW t \in ToAPIMetrics,
               ToSet(s.points) \cap ToSet(t.points) # {}
        PROVE  s = t
    <3>1. PICK j \in DOMAIN metrics : s = ToAPIMetric(metrics[j]) /\ s.points = values[metrics[j]]
      BY <2>2
    <3>2. PICK k \in DOMAIN metrics : t = ToAPIMetric(metrics[k]) /\ t.points = values[metrics[k]]
      BY <2>2
    <3>3. PICK n \in Waiting : Key(n) = j /\ Key(n) = k
      BY <2>3, <2>5, <3>1, <3>2
    <3> QED
      BY <3>1, <3>2, <3>3
  <2>6. \A series \in ToAPIMetrics : IsAscending(series.points)
    BY <2>2, <2>3
  <2> QED
    BY <2>4, <2>5, <2>6 DEF PointsKept
<1> QED
  BY <1>1, BatcherInvariant, PTL

(* Metrics whose tags are all of the form key:value are always grouped as  *)
(* they should be: their keys do not collide (batcher.go, getTagKey).      *)
THEOREM KeyValueBatchGrouped ==
  TagLists \subseteq Seq(KeyValue) => (Spec => []BatchIsGrouped)
<1> SUFFICES ASSUME TagLists \subseteq Seq(KeyValue) PROVE Spec => []BatchIsGrouped
  OBVIOUS
<1>1. ASSUME IInv PROVE ~Collision
  <2>1. \A n \in Waiting : arrivals[n].tags \in TagLists
    <3>1. arrivals \in Seq(Distribution)
      BY <1>1 DEF IInv, HistoryInv
    <3>2. \A n \in Waiting : arrivals[n] \in Distribution
      BY <3>1 DEF Waiting
    <3> QED
      BY <3>2 DEF Distribution
  <2> QED
    BY <2>1, KeyValueTagsDiffer DEF Collision, Colliding, getTagKey, TagKeysDiffer
<1>2. IInv => BatchIsGrouped
  BY <1>1, GroupedWithoutCollision
<1> QED
  BY <1>2, BatcherInvariant, PTL

=============================================================================
