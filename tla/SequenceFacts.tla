---------------------------- MODULE SequenceFacts ----------------------------
(***************************************************************************)
(* What the operators on sequences that the modules are built from return: *)
(* the position of an element, a sequence with an element removed,         *)
(* replaced or appended, and folds.                                        *)
(***************************************************************************)
EXTENDS Naturals, Sequences, SequencesExt, SequenceTheorems, WellFoundedInduction, TLAPS

Less == OpToRel(<, Nat)

\* The smallest of some numbers is one of them.
LEMMA MinFact ==
    ASSUME NEW T \in SUBSET Nat, T # {}
    PROVE  Min(T) \in T /\ \A n \in T : Min(T) <= n
<1>1. IsWellFoundedOn(Less, Nat)
  BY NatLessThanWellFounded DEF Less
<1>2. Less = {p \in Nat \X Nat : p[1] < p[2]}
  BY DEF Less, OpToRel
<1>3. \A x, y \in Nat : <<x, y>> \in Less <=> x < y
  BY <1>2
<1>4. PICK x \in T : \A y \in T : ~(<<y, x>> \in Less)
  <2> T \subseteq Nat
    OBVIOUS
  <2> QED BY <1>1, WFMin
<1>5. ASSUME NEW y \in T PROVE x <= y
  <2>1. x \in Nat /\ y \in Nat
    OBVIOUS
  <2>2. ~(y < x)
    BY <1>3, <1>4, <2>1
  <2> QED BY <2>1, <2>2
<1> QED BY <1>5 DEF Min

\* What is left when an element is removed keeps its order.
LEMMA RemoveAtFact ==
    ASSUME NEW S, NEW s \in Seq(S), NEW i \in 1 .. Len(s)
    PROVE  /\ RemoveAt(s, i) \in Seq(S)
           /\ Len(RemoveAt(s, i)) = Len(s) - 1
           /\ \A j \in 1 .. Len(s) - 1 :
                  RemoveAt(s, i)[j] = IF j < i THEN s[j] ELSE s[j + 1]
<1> DEFINE a == SubSeq(s, 1, i - 1)
           b == SubSeq(s, i + 1, Len(s))
<1>1. a \in Seq(S) /\ Len(a) = i - 1 /\ \A j \in 1 .. i - 1 : a[j] = s[j]
  OBVIOUS
<1>2. b \in Seq(S) /\ Len(b) = Len(s) - i /\ \A j \in 1 .. Len(s) - i : b[j] = s[i + j]
  OBVIOUS
<1> HIDE DEF a, b
<1>3. a \o b \in Seq(S) /\ Len(a \o b) = Len(s) - 1
  <2>1. a \o b \in Seq(S) /\ Len(a \o b) = Len(a) + Len(b)
    BY <1>1, <1>2, ConcatProperties
  <2>2. Len(s) \in Nat
    OBVIOUS
  <2> QED BY <1>1, <1>2, <2>1, <2>2
<1>4. ASSUME NEW j \in 1 .. Len(s) - 1
      PROVE  (a \o b)[j] = IF j < i THEN s[j] ELSE s[j + 1]
  <2>1. CASE j < i
    BY <1>1, <1>2, <2>1
  <2>2. CASE ~(j < i)
    <3>1. j - (i - 1) \in 1 .. Len(s) - i /\ j \in 1 .. Len(a) + Len(b) /\ j > Len(a)
      BY <1>1, <1>2, <2>2
    <3>2. (a \o b)[j] = b[j - (i - 1)]
      BY <1>1, <1>2, <3>1
    <3>3. b[j - (i - 1)] = s[i + (j - (i - 1))]
      BY <1>2, <3>1
    <3>4. i + (j - (i - 1)) = j + 1
      BY <3>1
    <3> QED BY <2>2, <3>2, <3>3, <3>4
  <2> QED BY <2>1, <2>2
<1> QED BY <1>3, <1>4 DEF RemoveAt, a, b

LEMMA ReplaceAtFact ==
    ASSUME NEW S, NEW s \in Seq(S), NEW i \in 1 .. Len(s), NEW e \in S
    PROVE  /\ ReplaceAt(s, i, e) \in Seq(S)
           /\ Len(ReplaceAt(s, i, e)) = Len(s)
           /\ \A j \in 1 .. Len(s) :
                  ReplaceAt(s, i, e)[j] = IF j = i THEN e ELSE s[j]
BY DEF ReplaceAt

IsReplaced(res, s, i, e, S) ==
    /\ res \in Seq(S) /\ Len(res) = Len(s)
    /\ \A j \in 1 .. Len(s) : res[j] = IF j = i THEN e ELSE s[j]

\* The same, of a name for the result.
LEMMA ReplacedFact ==
    ASSUME NEW S, NEW s \in Seq(S), NEW i \in 1 .. Len(s), NEW e \in S
    PROVE  IsReplaced(ReplaceAt(s, i, e), s, i, e, S)
BY ReplaceAtFact DEF IsReplaced

-----------------------------------------------------------------------------
(* Sequences of records that have an id.                                   *)

\* The position of the first with an id, or 0.
LEMMA PositionFact ==
    ASSUME NEW n \in Nat, NEW I \in SUBSET (1 .. n), NEW i, i = IF I # {} THEN Min(I) ELSE 0
    PROVE  \/ i = 0 /\ I = {}
           \/ i \in I /\ i \in 1 .. n
<1>1. I \in SUBSET Nat
  OBVIOUS
<1> QED BY <1>1, MinFact

\* k is where the id is, or 0
IsPosition(cs, id, k) ==
    \/ k = 0 /\ \A i \in 1 .. Len(cs) : cs[i].id # id
    \/ k # 0 /\ k \in 1 .. Len(cs) /\ cs[k].id = id

LEMMA IdPositionFact ==
    ASSUME NEW S, NEW cs \in Seq(S), NEW id, NEW I, I = {i \in 1 .. Len(cs) : cs[i].id = id},
           NEW k, k = IF I # {} THEN Min(I) ELSE 0
    PROVE  IsPosition(cs, id, k)
<1>1. I \in SUBSET (1 .. Len(cs)) /\ Len(cs) \in Nat
  OBVIOUS
<1>2. \/ k = 0 /\ I = {}
      \/ k \in I /\ k \in 1 .. Len(cs)
  BY <1>1, PositionFact
<1>3. CASE k = 0 /\ I = {}
  BY <1>3 DEF IsPosition
<1>4. CASE k \in I /\ k \in 1 .. Len(cs)
  <2>1. cs[k].id = id
    BY <1>4
  <2>2. k # 0
    BY <1>4, <1>1
  <2> QED BY <1>4, <2>1, <2>2 DEF IsPosition
<1> QED BY <1>2, <1>3, <1>4

IdsOnce(cs) == \A i, j \in 1 .. Len(cs) : cs[i].id = cs[j].id => i = j

\* res is cs with new in it
IsSetId(res, cs, new, S) ==
    /\ res \in Seq(S) /\ IdsOnce(res)
    /\ \E i \in 1 .. Len(res) : res[i] = new
    /\ \A i \in 1 .. Len(res) : res[i] = new \/ \E j \in 1 .. Len(cs) : res[i] = cs[j]
    /\ \A j \in 1 .. Len(cs) : \E i \in 1 .. Len(res) : res[i].id = cs[j].id

\* A record put in its place, or at the end if it has none: ids stay apart.
LEMMA SetIdFact ==
    ASSUME NEW S, NEW cs \in Seq(S), NEW new \in S, IdsOnce(cs),
           NEW k, IsPosition(cs, new.id, k),
           NEW res, res = IF k = 0 THEN Append(cs, new) ELSE ReplaceAt(cs, k, new)
    PROVE  IsSetId(res, cs, new, S)
<1>1. \/ k = 0 /\ \A i \in 1 .. Len(cs) : cs[i].id # new.id
      \/ k # 0 /\ k \in 1 .. Len(cs) /\ cs[k].id = new.id
  BY DEF IsPosition
<1>2. Len(cs) \in Nat
  OBVIOUS
<1>3. CASE k = 0
  <2>1. /\ res \in Seq(S) /\ Len(res) = Len(cs) + 1
        /\ \A i \in 1 .. Len(cs) : res[i] = cs[i]
        /\ res[Len(cs) + 1] = new
    BY <1>3
  <2>2. \A i \in 1 .. Len(res) : i \in 1 .. Len(cs) \/ i = Len(cs) + 1
    BY <1>2, <2>1
  <2>3. \A i \in 1 .. Len(cs) : i \in 1 .. Len(res) /\ cs[i].id # new.id
    BY <1>1, <1>2, <1>3, <2>1
  <2>4. Len(cs) + 1 \in 1 .. Len(res)
    BY <1>2, <2>1
  <2>5. IdsOnce(res)
    BY <2>1, <2>2, <2>3 DEF IdsOnce
  <2> QED BY <2>1, <2>2, <2>3, <2>4, <2>5 DEF IsSetId
<1>4. CASE k # 0
  <2>1. k \in 1 .. Len(cs) /\ cs[k].id = new.id
    BY <1>1, <1>4
  <2>2. /\ res \in Seq(S) /\ Len(res) = Len(cs)
        /\ \A i \in 1 .. Len(cs) : res[i] = IF i = k THEN new ELSE cs[i]
    <3>1. res = ReplaceAt(cs, k, new)
      BY <1>4
    <3>2. IsReplaced(ReplaceAt(cs, k, new), cs, k, new, S)
      BY <2>1, ReplacedFact
    <3> QED BY ONLY <3>1, <3>2 DEF IsReplaced
  <2>3. \A i \in 1 .. Len(cs) : res[i].id = cs[i].id
    BY <2>1, <2>2
  <2>4. IdsOnce(res)
    BY <2>2, <2>3 DEF IdsOnce
  <2> QED BY <2>1, <2>2, <2>3, <2>4 DEF IsSetId
<1> QED BY <1>3, <1>4

\* What is left when one of the elements is removed: each of the others, from
\* the place it had.
IsWithout(r, s, k, at) ==
    /\ at \in [1 .. Len(r) -> 1 .. Len(s)]
    /\ \A i \in 1 .. Len(r) : at[i] # k /\ r[i] = s[at[i]]
    /\ \A i, j \in 1 .. Len(r) : at[i] = at[j] => i = j
    /\ \A j \in 1 .. Len(s) : j = k \/ \E i \in 1 .. Len(r) : at[i] = j

LEMMA WithoutFact ==
    ASSUME NEW S, NEW s \in Seq(S), NEW k \in 1 .. Len(s)
    PROVE  RemoveAt(s, k) \in Seq(S) /\ \E at : IsWithout(RemoveAt(s, k), s, k, at)
<1> DEFINE r == RemoveAt(s, k)
           at == [i \in 1 .. Len(r) |-> IF i < k THEN i ELSE i + 1]
<1>1. /\ r \in Seq(S) /\ Len(r) = Len(s) - 1
      /\ \A j \in 1 .. Len(s) - 1 : r[j] = IF j < k THEN s[j] ELSE s[j + 1]
  BY RemoveAtFact
<1>2. Len(s) \in Nat
  OBVIOUS
<1> HIDE DEF r
<1>3. \A i \in 1 .. Len(r) : at[i] = IF i < k THEN i ELSE i + 1
  OBVIOUS
<1>4. at \in [1 .. Len(r) -> 1 .. Len(s)]
  BY <1>1, <1>2
<1> HIDE DEF at
<1>5. \A i \in 1 .. Len(r) : at[i] # k /\ r[i] = s[at[i]]
  BY <1>1, <1>2, <1>3
<1>6. \A i, j \in 1 .. Len(r) : at[i] = at[j] => i = j
  BY <1>1, <1>2, <1>3
<1>7. ASSUME NEW j \in 1 .. Len(s), j # k
      PROVE  \E i \in 1 .. Len(r) : at[i] = j
  <2>1. CASE j < k
    <3>1. j \in 1 .. Len(r) /\ at[j] = j
      BY <1>1, <1>2, <1>3, <2>1
    <3> QED BY <3>1
  <2>2. CASE j > k
    <3>1. j - 1 \in 1 .. Len(r) /\ at[j - 1] = j
      BY <1>1, <1>2, <1>3, <2>2
    <3> QED BY <3>1
  <2> QED BY <1>2, <1>7, <2>1, <2>2
<1>8. IsWithout(r, s, k, at)
  BY <1>4, <1>5, <1>6, <1>7 DEF IsWithout
<1> QED BY <1>1, <1>8 DEF r

\* res is cs without that which has the id
IsDropId(res, cs, id, S) ==
    /\ res \in Seq(S) /\ IdsOnce(res)
    /\ \A i \in 1 .. Len(res) :
           res[i].id # id /\ \E j \in 1 .. Len(cs) : res[i] = cs[j]
    /\ \A j \in 1 .. Len(cs) : cs[j].id # id => \E i \in 1 .. Len(res) : res[i] = cs[j]

\* A record taken out by its id: the others stay, and no other has it.
LEMMA DropIdFact ==
    ASSUME NEW S, NEW cs \in Seq(S), NEW id, IdsOnce(cs),
           NEW k, IsPosition(cs, id, k),
           NEW res, res = IF k = 0 THEN cs ELSE RemoveAt(cs, k)
    PROVE  IsDropId(res, cs, id, S)
<1>1. CASE k = 0
  BY <1>1 DEF IsPosition, IdsOnce, IsDropId
<1>2. CASE k # 0
  <2>1. k \in 1 .. Len(cs) /\ cs[k].id = id
    BY <1>2 DEF IsPosition
  <2>2. res = RemoveAt(cs, k)
    BY <1>2
  <2>3. res \in Seq(S) /\ \E at : IsWithout(res, cs, k, at)
    BY <2>1, <2>2, WithoutFact
  <2>4. PICK at : IsWithout(res, cs, k, at)
    BY <2>3
  <2>5. /\ \A i \in 1 .. Len(res) :
               at[i] \in 1 .. Len(cs) /\ at[i] # k /\ res[i] = cs[at[i]]
        /\ \A i, j \in 1 .. Len(res) : at[i] = at[j] => i = j
        /\ \A j \in 1 .. Len(cs) : j = k \/ \E i \in 1 .. Len(res) : at[i] = j
    BY <2>4 DEF IsWithout
  <2>6. IdsOnce(res)
    <3>1. ASSUME NEW i \in 1 .. Len(res), NEW j \in 1 .. Len(res), res[i].id = res[j].id
          PROVE  i = j
      <4>1. /\ at[i] \in 1 .. Len(cs) /\ at[j] \in 1 .. Len(cs)
            /\ res[i] = cs[at[i]] /\ res[j] = cs[at[j]]
        BY <2>5
      <4>2. at[i] = at[j]
        BY <3>1, <4>1 DEF IdsOnce
      <4> QED BY <2>5, <4>2
    <3> QED BY <3>1 DEF IdsOnce
  <2>7. \A i \in 1 .. Len(res) :
                  res[i].id # id /\ \E j \in 1 .. Len(cs) : res[i] = cs[j]
    <3>1. ASSUME NEW i \in 1 .. Len(res)
          PROVE  res[i].id # id /\ \E j \in 1 .. Len(cs) : res[i] = cs[j]
      <4>1. at[i] \in 1 .. Len(cs) /\ at[i] # k /\ res[i] = cs[at[i]]
        BY <2>5
      <4>2. cs[at[i]].id # cs[k].id
        BY <2>1, <4>1 DEF IdsOnce
      <4> QED BY <2>1, <4>1, <4>2
    <3> QED BY <3>1
  <2>8. \A j \in 1 .. Len(cs) :
                  cs[j].id # id => \E i \in 1 .. Len(res) : res[i] = cs[j]
    BY <2>1, <2>5
  <2> QED BY <2>3, <2>6, <2>7, <2>8 DEF IsDropId
<1> QED BY <1>1, <1>2

\* res is s without e
IsDrop(res, s, e, S) ==
    /\ res \in Seq(S)
    /\ \A i, j \in 1 .. Len(res) : res[i] = res[j] => i = j
    /\ \A v : (\E i \in 1 .. Len(res) : res[i] = v)
                 <=> v # e /\ \E i \in 1 .. Len(s) : s[i] = v

\* The same of an element that is there once.
LEMMA DropFact ==
    ASSUME NEW S, NEW s \in Seq(S), \A i, j \in 1 .. Len(s) : s[i] = s[j] => i = j,
           NEW k \in 1 .. Len(s), NEW res, res = RemoveAt(s, k)
    PROVE  IsDrop(res, s, s[k], S)
<1>1. res \in Seq(S) /\ \E at : IsWithout(res, s, k, at)
  BY WithoutFact
<1>2. PICK at : IsWithout(res, s, k, at)
  BY <1>1
<1>3. /\ \A i \in 1 .. Len(res) :
             at[i] \in 1 .. Len(s) /\ at[i] # k /\ res[i] = s[at[i]]
      /\ \A i, j \in 1 .. Len(res) : at[i] = at[j] => i = j
      /\ \A j \in 1 .. Len(s) : j = k \/ \E i \in 1 .. Len(res) : at[i] = j
  BY <1>2 DEF IsWithout
<1>4. ASSUME NEW i \in 1 .. Len(res), NEW j \in 1 .. Len(res), res[i] = res[j]
      PROVE  i = j
  <2>1. /\ at[i] \in 1 .. Len(s) /\ at[j] \in 1 .. Len(s)
        /\ res[i] = s[at[i]] /\ res[j] = s[at[j]]
    BY <1>3
  <2>2. at[i] = at[j]
    BY <1>4, <2>1
  <2> QED BY <1>3, <2>2
<1>5. ASSUME NEW i \in 1 .. Len(res)
      PROVE  res[i] # s[k] /\ \E j \in 1 .. Len(s) : s[j] = res[i]
  <2>1. at[i] \in 1 .. Len(s) /\ at[i] # k /\ res[i] = s[at[i]]
    BY <1>3
  <2> QED BY <2>1
<1>6. ASSUME NEW j \in 1 .. Len(s), s[j] # s[k]
      PROVE  \E i \in 1 .. Len(res) : res[i] = s[j]
  <2>1. PICK i \in 1 .. Len(res) : at[i] = j
    BY <1>3, <1>6
  <2>2. res[i] = s[j]
    BY <1>3, <2>1
  <2> QED BY <2>2
<1>7. ASSUME NEW v
      PROVE  (\E i \in 1 .. Len(res) : res[i] = v)
                <=> v # s[k] /\ \E i \in 1 .. Len(s) : s[i] = v
  BY <1>5, <1>6
<1> QED BY <1>1, <1>4, <1>7 DEF IsDrop

-----------------------------------------------------------------------------
(* Folds.  FoldLeft is defined by a recursive function on the sets of      *)
(* positions, which exists, and folds the prefixes one after the other.    *)

\* What holds at 0 and from each number to the next holds up to n.
LEMMA StepsReach ==
    ASSUME NEW n \in Nat, NEW A, 0 \in A, \A i \in 1 .. n : i - 1 \in A => i \in A
    PROVE  0 .. n \subseteq A
<1> DEFINE T == {i \in 0 .. n : i \notin A}
<1> SUFFICES ASSUME T # {} PROVE FALSE
  OBVIOUS
<1>1. T \in SUBSET Nat
  OBVIOUS
<1>2. Min(T) \in T /\ \A i \in T : Min(T) <= i
  BY <1>1, MinFact
<1> DEFINE m == Min(T)
<1>3. m \in 0 .. n /\ m \notin A /\ \A i \in T : m <= i
  BY <1>2
<1> HIDE DEF m
<1>4. m \in 1 .. n
  BY <1>3
<1>5. m - 1 \in 0 .. n /\ ~(m <= m - 1)
  BY <1>4
<1>6. m - 1 \in A
  BY <1>3, <1>5
<1> QED BY <1>3, <1>4, <1>6

\* f is the run of F from b.
IsRun(f, F, b, n, S) ==
    /\ f \in [0 .. n -> S]
    /\ f[0] = b
    /\ \A i \in 1 .. n : f[i] = F[<<f[i - 1], i>>]

\* Such a run exists, over every number of steps.
LEMMA RunExists ==
    ASSUME NEW n \in Nat, NEW S, NEW b \in S, NEW F \in [S \X (1 .. n) -> S]
    PROVE  \E f : IsRun(f, F, b, n, S)
<1> DEFINE A == {k \in 0 .. n : \E f : IsRun(f, F, b, k, S)}
<1>1. 0 \in A
  <2> DEFINE f == [i \in 0 .. 0 |-> b]
  <2>1. IsRun(f, F, b, 0, S)
    BY DEF IsRun
  <2> QED BY <2>1
<1>2. ASSUME NEW k \in 1 .. n, k - 1 \in A
      PROVE  k \in A
  <2>1. PICK f : IsRun(f, F, b, k - 1, S)
    BY <1>2
  <2> DEFINE v == F[<<f[k - 1], k>>]
             g == [i \in 0 .. k |-> IF i = k THEN v ELSE f[i]]
  <2>2. f[k - 1] \in S
    BY <2>1 DEF IsRun
  <2>3. v \in S
    BY <2>2
  <2>4. \A i \in 0 .. k - 1 : g[i] = f[i] /\ f[i] \in S
    BY <2>1 DEF IsRun
  <2>5. g[k] = v
    OBVIOUS
  <2>6. g \in [0 .. k -> S]
    <3>1. ASSUME NEW i \in 0 .. k PROVE g[i] \in S
      <4>1. i = k \/ i \in 0 .. k - 1
        OBVIOUS
      <4> HIDE DEF g
      <4> QED BY <2>3, <2>4, <2>5, <4>1
    <3>2. g = [i \in 0 .. k |-> g[i]]
      OBVIOUS
    <3> HIDE DEF g
    <3> QED BY <3>1, <3>2
  <2>7. g[0] = b
    BY <2>1, <2>4 DEF IsRun
  <2>8. ASSUME NEW i \in 1 .. k PROVE g[i] = F[<<g[i - 1], i>>]
    <3>1. g[i - 1] = f[i - 1]
      BY <2>4
    <3>2. CASE i = k
      BY <2>5, <3>1, <3>2
    <3>3. CASE i # k
      <4>1. i \in 1 .. k - 1
        BY <3>3
      <4> QED BY <2>1, <2>4, <3>1, <4>1 DEF IsRun
    <3> QED BY <3>2, <3>3
  <2> HIDE DEF g
  <2>9. IsRun(g, F, b, k, S)
    BY <2>6, <2>7, <2>8 DEF IsRun
  <2> QED BY <2>9
<1> HIDE DEF A
<1>3. 0 .. n \subseteq A
  BY <1>1, <1>2, StepsReach
<1> QED BY <1>3 DEF A

\* The largest of some numbers up to n is one of them.
LEMMA MaxFact ==
    ASSUME NEW n \in Nat, NEW T \in SUBSET (1 .. n), T # {}
    PROVE  Max(T) \in T /\ \A i \in T : i <= Max(T)
<1> DEFINE U == {n - i : i \in T}
<1>1. U \in SUBSET Nat /\ U # {}
  <2>1. PICK t : t \in T
    OBVIOUS
  <2>2. n - t \in U
    BY <2>1
  <2>3. \A i \in T : n - i \in Nat
    OBVIOUS
  <2> QED BY <2>2, <2>3
<1>2. Min(U) \in U /\ \A i \in U : Min(U) <= i
  BY <1>1, MinFact
<1>3. PICK x \in T : Min(U) = n - x
  BY <1>2
<1>4. \A y \in T : x >= y
  <2> SUFFICES ASSUME NEW y \in T PROVE x >= y
    OBVIOUS
  <2>1. n - y \in U
    OBVIOUS
  <2>2. n - x <= n - y
    BY <1>2, <1>3, <2>1
  <2>3. x \in Nat /\ y \in Nat
    OBVIOUS
  <2> QED BY <2>2, <2>3
<1>5. Max(T) \in T /\ \A y \in T : Max(T) >= y
  BY <1>4, Zenon DEF Max
<1> QED BY <1>5

\* g folds the sets of positions up to n by F, the largest last.
IsIter(g, F, b, n, S) ==
    /\ g \in [SUBSET (1 .. n) -> S]
    /\ g[{}] = b
    /\ \A s \in SUBSET (1 .. n) : s # {} => g[s] = F[<<g[s \ {Max(s)}], Max(s)>>]

\* Such a fold exists: the sets are taken with the run that skips the rest.
LEMMA IterExists ==
    ASSUME NEW n \in Nat, NEW S, NEW b \in S, NEW F \in [S \X (1 .. n) -> S]
    PROVE  \E g : IsIter(g, F, b, n, S)
<1> DEFINE P == SUBSET (1 .. n)
           FF(s) == [p \in S \X (1 .. n) |-> IF p[2] \in s THEN F[p] ELSE p[1]]
           run == [s \in P |-> CHOOSE f : IsRun(f, FF(s), b, n, S)]
           g == [s \in P |-> run[s][n]]
<1>1. ASSUME NEW s \in P PROVE IsRun(run[s], FF(s), b, n, S)
  <2>1. FF(s) \in [S \X (1 .. n) -> S]
    OBVIOUS
  <2>2. \E f : IsRun(f, FF(s), b, n, S)
    <3> HIDE DEF FF
    <3> QED BY <2>1, RunExists
  <2> HIDE DEF FF
  <2> QED BY <2>2, Zenon
<1> HIDE DEF run
<1>2. ASSUME NEW s \in P
      PROVE  /\ run[s] \in [0 .. n -> S] /\ run[s][0] = b
             /\ \A i \in 1 .. n : run[s][i] = IF i \in s THEN F[<<run[s][i - 1], i>>] ELSE run[s][i - 1]
  <2>1. run[s] \in [0 .. n -> S] /\ run[s][0] = b
    BY <1>1 DEF IsRun
  <2>2. ASSUME NEW i \in 1 .. n
        PROVE run[s][i] = IF i \in s THEN F[<<run[s][i - 1], i>>] ELSE run[s][i - 1]
    <3>1. run[s][i] = FF(s)[<<run[s][i - 1], i>>]
      <4>1. IsRun(run[s], FF(s), b, n, S)
        BY <1>1
      <4> HIDE DEF FF
      <4> QED BY <4>1 DEF IsRun
    <3>2. run[s][i - 1] \in S
      BY <2>1
    <3>3. \A v \in S : FF(s)[<<v, i>>] = IF i \in s THEN F[<<v, i>>] ELSE v
      OBVIOUS
    <3> HIDE DEF FF
    <3> QED BY <3>1, <3>2, <3>3
  <2> QED BY <2>1, <2>2
<1> HIDE DEF FF
<1>3. ASSUME NEW s \in P
      PROVE  g[s] = run[s][n] /\ g[s] \in S
  BY <1>2
<1>4. g[{}] = b
  <2> DEFINE A == {i \in 0 .. n : run[{}][i] = b}
  <2>1. {} \in P
    OBVIOUS
  <2>2. 0 \in A
    BY <1>2, <2>1
  <2>3. ASSUME NEW i \in 1 .. n, i - 1 \in A PROVE i \in A
    <3>1. run[{}][i] = run[{}][i - 1]
      BY <1>2, <2>1
    <3> QED BY <2>3, <3>1
  <2> HIDE DEF A
  <2>4. 0 .. n \subseteq A
    BY <2>2, <2>3, StepsReach
  <2>5. n \in A
    BY <2>4
  <2> QED BY <1>3, <2>1, <2>5 DEF A
<1>5. ASSUME NEW s \in P, s # {}
      PROVE  g[s] = F[<<g[s \ {Max(s)}], Max(s)>>]
  <2> DEFINE m == Max(s)
             r == s \ {m}
  <2>1. m \in s /\ (\A i \in s : i <= m)
    BY <1>5, MaxFact
  <2> HIDE DEF m
  <2>2. m \in 1 .. n /\ r \in P
    BY <2>1
  <2>3. \A i \in m .. n : run[r][i] = run[r][m - 1] 
    <3> DEFINE A == {i \in 0 .. n : i >= m - 1 => run[r][i] = run[r][m - 1]}
    <3>1. 0 \in A
      BY <2>2
    <3>2. ASSUME NEW i \in 1 .. n, i - 1 \in A PROVE i \in A
      <4>1. CASE i <= m - 1
        BY <2>2, <4>1
      <4>2. CASE i > m - 1
        <5>1. i \notin r
          BY <2>1, <2>2, <4>2
        <5>2. run[r][i] = run[r][i - 1]
          BY <1>2, <2>2, <5>1
        <5> QED BY <2>2, <3>2, <4>2, <5>2
      <4> QED BY <4>1, <4>2, <2>2
    <3> HIDE DEF A
    <3>3. 0 .. n \subseteq A
      BY <3>1, <3>2, StepsReach
    <3>4. \A i \in m .. n : i \in 0 .. n /\ i >= m - 1
      BY <2>2
    <3> QED BY <3>3, <3>4 DEF A
  <2>4. \A i \in m .. n : run[s][i] = run[s][m]
    <3> DEFINE A == {i \in 0 .. n : i >= m => run[s][i] = run[s][m]}
    <3>1. 0 \in A
      BY <2>2
    <3>2. ASSUME NEW i \in 1 .. n, i - 1 \in A PROVE i \in A
      <4>1. CASE i <= m
        BY <2>2, <4>1
      <4>2. CASE i > m
        <5>1. i \notin s
          BY <2>1, <2>2, <4>2
        <5>2. run[s][i] = run[s][i - 1]
          BY <1>2, <5>1
        <5> QED BY <2>2, <3>2, <4>2, <5>2
      <4> QED BY <4>1, <4>2, <2>2
    <3> HIDE DEF A
    <3>3. 0 .. n \subseteq A
      BY <3>1, <3>2, StepsReach
    <3> QED BY <2>2, <3>3 DEF A
  <2>5. run[s][m - 1] = run[r][m - 1]
    <3> DEFINE A == {i \in 0 .. n : i <= m - 1 => run[s][i] = run[r][i]}
    <3>1. 0 \in A
      <4>1. run[s][0] = b /\ run[r][0] = b
        BY <1>2, <2>2
      <4> QED BY <4>1
    <3>2. ASSUME NEW i \in 1 .. n, i - 1 \in A PROVE i \in A
      <4>1. CASE i <= m - 1
        <5>1. i \in s <=> i \in r
          BY <2>2, <4>1
        <5>2. run[s][i - 1] = run[r][i - 1]
          BY <2>2, <3>2, <4>1
        <5>3. run[s][i] = IF i \in s THEN F[<<run[s][i - 1], i>>] ELSE run[s][i - 1]
          BY <1>2
        <5>4. run[r][i] = IF i \in r THEN F[<<run[r][i - 1], i>>] ELSE run[r][i - 1]
          BY <1>2, <2>2
        <5> QED BY <5>1, <5>2, <5>3, <5>4
      <4>2. CASE i > m - 1
        BY <2>2, <4>2
      <4> QED BY <4>1, <4>2, <2>2
    <3> HIDE DEF A
    <3>3. 0 .. n \subseteq A
      BY <3>1, <3>2, StepsReach
    <3>4. m - 1 \in 0 .. n /\ m - 1 <= m - 1
      BY <2>2
    <3> QED BY <3>3, <3>4 DEF A
  <2>6. run[s][m] = F[<<run[s][m - 1], m>>]
    BY <1>2, <2>1, <2>2
  <2>7. g[s] = run[s][m]
    <3>1. n \in m .. n
      BY <2>2
    <3> QED BY <1>3, <2>4, <3>1
  <2>8. g[r] = run[r][m - 1]
    <3>1. n \in m .. n
      BY <2>2
    <3> QED BY <1>3, <2>2, <2>3, <3>1
  <2>9. g[s] = F[<<g[r], m>>]
    BY <2>5, <2>6, <2>7, <2>8
  <2> QED BY <2>9 DEF m
<1>6. g \in [P -> S]
  BY <1>3
<1> HIDE DEF g
<1>7. IsIter(g, F, b, n, S)
  BY <1>4, <1>5, <1>6 DEF IsIter
<1> QED BY <1>7

\* g takes the steps of F where it is in S.
Iterates(g, F, b, n, S) ==
    /\ g[{}] = b
    /\ \A s \in SUBSET (1 .. n) : s # {} /\ g[s \ {Max(s)}] \in S =>
           g[s] = F[<<g[s \ {Max(s)}], Max(s)>>]

\* A recursive function on sets that takes these steps runs on the prefixes.
LEMMA PrefixesRun ==
    ASSUME NEW n \in Nat, NEW S, NEW b \in S, NEW F \in [S \X (1 .. n) -> S], NEW g,
           Iterates(g, F, b, n, S)
    PROVE  IsRun([i \in 0 .. n |-> g[1 .. i]], F, b, n, S)
<1> DEFINE f == [i \in 0 .. n |-> g[1 .. i]]
           A == {i \in 0 .. n : g[1 .. i] \in S}
<1>1. g[1 .. 0] = b
  <2>1. 1 .. 0 = {}
    OBVIOUS
  <2> QED BY <2>1 DEF Iterates
<1>2. ASSUME NEW i \in 1 .. n, i - 1 \in A
      PROVE  g[1 .. i] = F[<<g[1 .. i - 1], i>>] /\ i \in A
  <2> DEFINE s == 1 .. i
  <2>1. s \in SUBSET (1 .. n) /\ i \in s /\ i \in Nat
    OBVIOUS
  <2>2. Max(s) \in s /\ \A j \in s : j <= Max(s)
    BY <2>1, MaxFact
  <2>3. Max(s) = i
    <3> DEFINE m == Max(s)
    <3>1. m \in 1 .. i /\ i <= m
      BY <2>1, <2>2
    <3> HIDE DEF m
    <3>2. m = i
      BY <3>1
    <3> QED BY <3>2 DEF m
  <2>4. s \ {i} = 1 .. i - 1
    OBVIOUS
  <2>5. g[1 .. i - 1] \in S
    BY <1>2
  <2>6. g[s] = F[<<g[1 .. i - 1], i>>]
    BY <2>1, <2>3, <2>4, <2>5 DEF Iterates
  <2>7. g[s] \in S
    BY <2>5, <2>6
  <2> QED BY <2>6, <2>7
<1>3. 0 \in A
  BY <1>1
<1> HIDE DEF A
<1>4. 0 .. n \subseteq A
  BY <1>2, <1>3, StepsReach
<1>5. \A i \in 0 .. n : f[i] = g[1 .. i] /\ f[i] \in S
  BY <1>4 DEF A
<1>6. f[0] = b
  BY <1>1, <1>5
<1>7. ASSUME NEW i \in 1 .. n PROVE f[i] = F[<<f[i - 1], i>>]
  <2>1. i - 1 \in 0 .. n /\ i \in 0 .. n
    OBVIOUS
  <2>2. i - 1 \in A
    BY <1>4, <2>1
  <2> HIDE DEF f
  <2> QED BY <1>2, <1>5, <2>1, <2>2
<1>8. f \in [0 .. n -> S]
  BY <1>5
<1> HIDE DEF f
<1>9. IsRun(f, F, b, n, S)
  BY <1>6, <1>7, <1>8 DEF IsRun
<1> QED BY <1>9 DEF f

\* A fold that leaves out the element at k, if there is one, keeps the others in
\* their order.
IsAllBut(res, seq, k, n, S) ==
    /\ res \in Seq(S)
    /\ Len(res) = IF k <= n THEN n - 1 ELSE n
    /\ \A j \in 1 .. Len(res) : res[j] = IF j < k THEN seq[j] ELSE seq[j + 1]

LEMMA AllButOne ==
    ASSUME NEW S, NEW seq \in Seq(S), NEW n, n = Len(seq), NEW k \in 1 .. n + 1,
           NEW F, NEW f, IsRun(f, F, <<>>, n, Seq(S)),
           \A acc \in Seq(S) : \A i \in 1 .. n :
               F[<<acc, i>>] = IF i = k THEN acc ELSE Append(acc, seq[i])
    PROVE  IsAllBut(f[n], seq, k, n, S)
<1> DEFINE A == {i \in 0 .. n : IsAllBut(f[i], seq, k, i, S)}
<1>1. n \in Nat /\ k \in Nat /\ 1 <= k
  OBVIOUS
<1>2. 0 \in A
  <2>1. f[0] = <<>>
    BY DEF IsRun
  <2>2. <<>> \in Seq(S) /\ Len(<<>>) = 0
    OBVIOUS
  <2>3. IsAllBut(<<>>, seq, k, 0, S)
    BY <1>1, <2>2 DEF IsAllBut
  <2> QED BY <1>1, <2>1, <2>3
<1>3. ASSUME NEW i \in 1 .. n, i - 1 \in A
      PROVE  i \in A
  <2> DEFINE old == f[i - 1]
             new == f[i]
  <2>1. IsAllBut(old, seq, k, i - 1, S)
    BY <1>3
  <2>2. new = IF i = k THEN old ELSE Append(old, seq[i])
    BY <2>1 DEF IsRun, IsAllBut
  <2>3. seq[i] \in S
    BY <1>1
  <2> HIDE DEF old, new
  <2>4. ASSUME i = k PROVE IsAllBut(new, seq, k, i, S)
    BY <1>1, <2>1, <2>2, <2>4 DEF IsAllBut
  <2>5. ASSUME i < k PROVE IsAllBut(new, seq, k, i, S)
    <3>1. old \in Seq(S) /\ Len(old) = i - 1 /\ \A j \in 1 .. i - 1 : old[j] = seq[j]
      BY <1>1, <2>1, <2>5 DEF IsAllBut
    <3>2. /\ new \in Seq(S) /\ Len(new) = i /\ new[i] = seq[i]
          /\ \A j \in 1 .. i - 1 : new[j] = old[j]
      BY <1>1, <2>2, <2>3, <2>5, <3>1
    <3>3. \A j \in 1 .. i : new[j] = seq[j]
      BY <3>1, <3>2
    <3> QED BY <1>1, <2>5, <3>2, <3>3 DEF IsAllBut
  <2>6. ASSUME i > k PROVE IsAllBut(new, seq, k, i, S)
    <3>1. /\ old \in Seq(S) /\ Len(old) = i - 2
          /\ \A j \in 1 .. i - 2 : old[j] = IF j < k THEN seq[j] ELSE seq[j + 1]
      BY <1>1, <2>1, <2>6 DEF IsAllBut
    <3>2. /\ new \in Seq(S) /\ Len(new) = i - 1 /\ new[i - 1] = seq[i]
          /\ \A j \in 1 .. i - 2 : new[j] = old[j]
      BY <1>1, <2>2, <2>3, <2>6, <3>1
    <3>3. \A j \in 1 .. i - 1 : new[j] = IF j < k THEN seq[j] ELSE seq[j + 1]
      BY <1>1, <2>6, <3>1, <3>2
    <3> QED BY <1>1, <2>6, <3>2, <3>3 DEF IsAllBut
  <2>7. IsAllBut(new, seq, k, i, S)
    BY <1>1, <2>4, <2>5, <2>6
  <2> QED BY <2>7 DEF new
<1> HIDE DEF A
<1>4. 0 .. n \subseteq A
  BY <1>1, <1>2, <1>3, StepsReach
<1>5. n \in A
  BY <1>1, <1>4
<1> QED BY <1>5 DEF A
=============================================================================
