---------------------------- MODULE PlanningProofs ----------------------------
(***************************************************************************)
(* What it takes for a run to pass (Planning), for any extractions,        *)
(* manifests and path templates.                                           *)
(*                                                                         *)
(* The invariant follows the draft from the inventory to the plan: the     *)
(* entries of an operation have what the files merged into it state, an    *)
(* entry has responses only from a file written for it, and while no item  *)
(* is unverified everything that was merged is attributed.  The report of  *)
(* the plan then leaves only what PassedMeansSupported says.               *)
(***************************************************************************)
EXTENDS Planning, SequenceTheorems, FiniteSetTheorems, WellFoundedInduction, TLAPS

\* A set that has 0 and with every number its successor has all of them.
LEMMA SetInduction ==
  ASSUME NEW S, 0 \in S, \A n \in Nat : n \in S => n + 1 \in S
  PROVE  Nat \subseteq S
<1> SUFFICES ASSUME Nat \ S # {} PROVE FALSE
  OBVIOUS
<1>1. IsWellFoundedOn(OpToRel(<, Nat), Nat)
  BY NatLessThanWellFounded
<1>2. PICK x \in Nat \ S : \A y \in Nat \ S : ~(<<y, x>> \in OpToRel(<, Nat))
  <2> DEFINE R == OpToRel(<, Nat)
             T == Nat \ S
  <2>1. IsWellFoundedOn(R, Nat) /\ T \subseteq Nat /\ T # {}
    BY <1>1
  <2> HIDE DEF R, T
  <2>2. \E x \in T : \A y \in T : ~(<<y, x>> \in R)
    BY <2>1, WFMin
  <2> QED
    BY <2>2 DEF R, T
<1>3. x - 1 \in Nat \ S
  BY DEF OpToRel
<1>4. <<x - 1, x>> \in OpToRel(<, Nat)
  BY DEF OpToRel
<1> QED
  BY <1>2, <1>3, <1>4

\* The same up to a number.
LEMMA UpTo ==
  ASSUME NEW L \in Nat, NEW S, 0 \in S, \A n \in Nat : n < L /\ n \in S => n + 1 \in S
  PROVE  L \in S
<1> DEFINE T == {n \in Nat : n =< L => n \in S}
<1>1. 0 \in T /\ \A n \in Nat : n \in T => n + 1 \in T
  OBVIOUS
<1>2. Nat \subseteq T
  <2> HIDE DEF T
  <2> QED
    BY <1>1, SetInduction
<1> QED
  BY <1>2

\* The least and the greatest of some numbers up to n.
LEMMA LeastExists ==
  ASSUME NEW L \in Nat, NEW S, S \subseteq 1..L, S # {}
  PROVE  Min(S) \in S /\ Max(S) \in S
<1> DEFINE Below == {n \in Nat : \A T \in SUBSET (1..n) : T # {} =>
                       \E x, z \in T : \A y \in T : x =< y /\ y =< z}
<1>1. 0 \in Below
  <2>1. \A T \in SUBSET (1..0) : T = {}
    <3>1. 1..0 = {}
      OBVIOUS
    <3> QED
      BY <3>1
  <2> QED
    BY <2>1
<1>2. ASSUME NEW n \in Nat, n \in Below PROVE n + 1 \in Below
  <2> SUFFICES ASSUME NEW T \in SUBSET (1..(n + 1)), T # {}
               PROVE  \E x, z \in T : \A y \in T : x =< y /\ y =< z
    OBVIOUS
  <2>1. CASE n + 1 \notin T
    <3>1. T \in SUBSET (1..n)
      BY <2>1
    <3> QED
      BY <1>2, <3>1
  <2>2. CASE n + 1 \in T /\ T \ {n + 1} = {}
    <3>1. T = {n + 1}
      BY <2>2
    <3> QED
      BY <3>1
  <2>3. CASE n + 1 \in T /\ T \ {n + 1} # {}
    <3>1. T \ {n + 1} \in SUBSET (1..n)
      OBVIOUS
    <3>2. PICK x \in T \ {n + 1} : \A y \in T \ {n + 1} : x =< y
      BY <1>2, <2>3, <3>1
    <3>3. \A y \in T : x =< y /\ y =< n + 1
      BY <3>1, <3>2
    <3> QED
      BY <2>3, <3>3
  <2> QED
    BY <2>1, <2>2, <2>3
<1>3. L \in Below
  <2> HIDE DEF Below
  <2> QED
    BY <1>1, <1>2, UpTo
<1> QED
  BY <1>3 DEF Min, Max

\* A recursion from x: what the steps in G, one after the other, make of it.
Steppers(G, V, L) == G \in [1..L -> [V -> V]]

\* What the first steps of a recursion yield, one after the other, exists.
LEMMA RecursionExists ==
  ASSUME NEW V, NEW x \in V, NEW L \in Nat, NEW G, Steppers(G, V, L)
  PROVE  \E r : r \in [0..L -> V] /\ r[0] = x /\ \A i \in 1..L : r[i] = G[i][r[i - 1]]
<1> DEFINE Good(r, n) == r[0] = x /\ \A i \in 1..L : i =< n => r[i] = G[i][r[i - 1]]
           S == {n \in Nat : \E r \in [0..L -> V] : Good(r, n)}
<1>1. 0 \in S
  <2> DEFINE r == [i \in 0..L |-> x]
  <2>1. r \in [0..L -> V] /\ Good(r, 0)
    OBVIOUS
  <2> QED
    BY <2>1
<1>2. ASSUME NEW n \in Nat, n < L, n \in S PROVE n + 1 \in S
  <2>1. PICK r \in [0..L -> V] : Good(r, n)
    BY <1>2
  <2> DEFINE q == [r EXCEPT ![n + 1] = G[n + 1][r[n]]]
  <2>2. G[n + 1] \in [V -> V] /\ r[n] \in V /\ G[n + 1][r[n]] \in V
    BY <1>2 DEF Steppers
  <2>3. q \in [0..L -> V] /\ q[0] = x
    BY <1>2, <2>1, <2>2
  <2>4. ASSUME NEW i \in 1..L, i =< n + 1 PROVE q[i] = G[i][q[i - 1]]
    <3>1. q[i - 1] = r[i - 1]
      BY <1>2, <2>4
    <3>2. CASE i = n + 1
      BY <1>2, <3>1, <3>2
    <3>3. CASE i =< n
      BY <1>2, <2>1, <3>1, <3>3
    <3> QED
      BY <2>4, <3>2, <3>3
  <2>5. Good(q, n + 1)
    BY <2>3, <2>4
  <2> HIDE DEF q, Good
  <2> QED
    BY <2>3, <2>5
<1>3. L \in S
  <2> HIDE DEF S
  <2> QED
    BY <1>1, <1>2, UpTo
<1> QED
  BY <1>3

-----------------------------------------------------------------------------
(* Lists.                                                                  *)

\* A list is what it has at each of its numbers.
LEMMA ListHas ==
  ASSUME NEW s, Listed(s)
  PROVE  /\ Len(s) \in Nat /\ DOMAIN s = 1..Len(s) /\ s = [i \in 1..Len(s) |-> s[i]]
         /\ \A i \in 1..Len(s) : s[i] \in ToSet(s)
         /\ \A x \in ToSet(s) : \E i \in 1..Len(s) : s[i] = x
         /\ (s = <<>> <=> Len(s) = 0) /\ (s = <<>> <=> ToSet(s) = {})
BY DEF Listed, ToSet

\* A sequence is a list.
LEMMA ListsOf == ASSUME NEW S, NEW s \in Seq(S) PROVE Listed(s) /\ ToSet(s) \subseteq S
<1>1. DOMAIN s = 1..Len(s) /\ Len(s) \in Nat /\ \A i \in 1..Len(s) : s[i] \in ToSet(s)
  BY DEF ToSet
<1>2. s \in Seq(ToSet(s))
  BY <1>1
<1> QED
  BY <1>1, <1>2 DEF Listed, ToSet

\* A function on 1..L is a list of its values.
LEMMA ListOf ==
  ASSUME NEW L \in Nat, NEW f
  PROVE  Listed([i \in 1..L |-> f[i]]) /\ ToSet([i \in 1..L |-> f[i]]) = {f[i] : i \in 1..L}
<1> DEFINE s == [i \in 1..L |-> f[i]]
<1>1. s \in Seq({f[i] : i \in 1..L}) /\ DOMAIN s = 1..L
  OBVIOUS
<1>2. ToSet(s) = {f[i] : i \in 1..L}
  BY <1>1 DEF ToSet
<1> QED
  BY <1>1, <1>2 DEF Listed

\* A function on 1..n that is a list has n items.
LEMMA ListLength == ASSUME NEW s, Listed(s), NEW n \in Nat, DOMAIN s = 1..n PROVE Len(s) = n
<1>1. DOMAIN s = 1..Len(s) /\ Len(s) \in Nat
  BY ListHas
<1> QED
  BY <1>1

\* What appending adds.
LEMMA ListAppend ==
  ASSUME NEW s, Listed(s), NEW x
  PROVE  Listed(Append(s, x)) /\ ToSet(Append(s, x)) = ToSet(s) \cup {x}
         /\ Len(Append(s, x)) = Len(s) + 1 /\ Append(s, x)[Len(s) + 1] = x
         /\ \A i \in 1..Len(s) : Append(s, x)[i] = s[i]
<1> DEFINE S == ToSet(s) \cup {x}
           t == Append(s, x)
<1>1. s \in Seq(S) /\ x \in S
  BY DEF Listed
<1>2. t \in Seq(S) /\ Len(t) = Len(s) + 1 /\ t[Len(s) + 1] = x /\ \A i \in 1..Len(s) : t[i] = s[i]
  BY <1>1
<1>3. DOMAIN t = 1..(Len(s) + 1) /\ Len(s) \in Nat /\ DOMAIN s = 1..Len(s)
  BY <1>1, <1>2
<1> HIDE DEF t
<1>4. ToSet(t) = S
  BY <1>2, <1>3 DEF ToSet
<1> QED
  BY <1>2, <1>4 DEF t, Listed

\* What one list after another has.
LEMMA ListConcat ==
  ASSUME NEW s, Listed(s), NEW t, Listed(t)
  PROVE  Listed(s \o t) /\ ToSet(s \o t) = ToSet(s) \cup ToSet(t)
<1> DEFINE S == ToSet(s) \cup ToSet(t)
           u == s \o t
<1>1. s \in Seq(S) /\ t \in Seq(S)
  BY DEF Listed
<1>2. /\ u \in Seq(S) /\ Len(u) = Len(s) + Len(t) /\ Len(s) \in Nat /\ Len(t) \in Nat
      /\ \A i \in 1..Len(s) : u[i] = s[i]
      /\ \A i \in 1..Len(t) : u[Len(s) + i] = t[i]
  BY <1>1, ConcatProperties
<1>3. DOMAIN u = 1..(Len(s) + Len(t)) /\ DOMAIN s = 1..Len(s) /\ DOMAIN t = 1..Len(t)
  BY <1>1, <1>2
<1> HIDE DEF u
<1>4. \A i \in 1..(Len(s) + Len(t)) : i \in 1..Len(s) \/ (i - Len(s) \in 1..Len(t) /\ i = Len(s) + (i - Len(s)))
  BY <1>2
<1>5. ToSet(u) \subseteq S
  BY <1>2, <1>3, <1>4 DEF ToSet
<1>6. ToSet(s) \subseteq ToSet(u)
  BY <1>2, <1>3 DEF ToSet
<1>7. ToSet(t) \subseteq ToSet(u)
  <2> SUFFICES ASSUME NEW i \in 1..Len(t) PROVE t[i] \in ToSet(u)
    BY <1>3 DEF ToSet
  <2>1. Len(s) + i \in 1..(Len(s) + Len(t))
    BY <1>2
  <2> QED
    BY <1>2, <1>3, <2>1 DEF ToSet
<1> QED
  BY <1>2, <1>5, <1>6, <1>7 DEF u, Listed

\* What is kept of a list are those of its items that are in T.
LEMMA KeptItems ==
  ASSUME NEW s, Listed(s), NEW T
  PROVE  Listed(Kept(s, T)) /\ ToSet(Kept(s, T)) = ToSet(s) \cap T
<1> DEFINE L == Len(s)
           V == Seq(ToSet(s))
           Step(v, i) == IF s[i] \in T THEN Append(v, s[i]) ELSE v
           Def(k) == k = [n \in 0..L |-> IF n = 0 THEN <<>> ELSE Step(k[n - 1], n)]
           kept == CHOOSE k : Def(k)
           G == [i \in 1..L |-> [v \in V |-> Step(v, i)]]
           nothing == <<>>
<1>1. Kept(s, T) = kept[L]
  BY DEF Kept
<1>2. L \in Nat /\ \A i \in 1..L : s[i] \in ToSet(s)
  BY ListHas
<1>3. nothing \in V /\ \A i \in 1..L : \A v \in V : Step(v, i) \in V
  BY <1>2
<1>4. Steppers(G, V, L)
  BY <1>3 DEF Steppers
<1>5. \A i \in 1..L : \A v \in V : G[i][v] = Step(v, i)
  OBVIOUS
<1> HIDE DEF V, G, Step
<1>6. PICK r : r \in [0..L -> V] /\ r[0] = nothing /\ \A i \in 1..L : r[i] = G[i][r[i - 1]]
  BY <1>2, <1>3, <1>4, RecursionExists
<1>7. Def(r)
  <2>1. \A i \in 0..L : r[i] = IF i = 0 THEN <<>> ELSE Step(r[i - 1], i)
    <3> SUFFICES ASSUME NEW i \in 0..L PROVE r[i] = IF i = 0 THEN <<>> ELSE Step(r[i - 1], i)
      OBVIOUS
    <3>1. CASE i = 0
      BY <1>6, <3>1
    <3>2. CASE i # 0
      <4>1. i \in 1..L /\ i - 1 \in 0..L
        BY <1>2, <3>2
      <4>2. r[i - 1] \in V
        BY <1>6, <4>1
      <4> QED
        BY <1>5, <1>6, <3>2, <4>1, <4>2
    <3> QED
      BY <3>1, <3>2
  <2> QED
    BY <1>6, <2>1
<1>8. Def(kept)
  BY <1>7
<1> HIDE DEF kept
<1>9. kept[0] = <<>> /\ \A i \in 1..L : kept[i] = Step(kept[i - 1], i)
  <2>1. \A i \in 0..L : kept[i] = IF i = 0 THEN <<>> ELSE Step(kept[i - 1], i)
    BY <1>8
  <2>2. 0 \in 0..L /\ \A i \in 1..L : i \in 0..L /\ i # 0
    BY <1>2
  <2> QED
    BY <2>1, <2>2
<1> DEFINE S == {n \in 0..L : Listed(kept[n]) /\ ToSet(kept[n]) = {s[i] : i \in 1..n} \cap T}
<1>10. L \in S
  <2>1. 0 \in S
    <3>1. Listed(<<>>) /\ ToSet(<<>>) = {}
      BY DEF Listed, ToSet
    <3>2. {s[i] : i \in 1..0} = {}
      <4>1. 1..0 = {}
        OBVIOUS
      <4> QED
        BY <4>1
    <3> QED
      BY <1>2, <1>9, <3>1, <3>2
  <2>2. ASSUME NEW n \in Nat, n < L, n \in S PROVE n + 1 \in S
    <3>1. n + 1 \in 1..L /\ n + 1 - 1 = n
      BY <1>2, <2>2
    <3>2. kept[n + 1] = Step(kept[n], n + 1)
      BY <1>9, <3>1
    <3>3. {s[i] : i \in 1..(n + 1)} = {s[i] : i \in 1..n} \cup {s[n + 1]}
      <4>1. 1..(n + 1) = (1..n) \cup {n + 1}
        BY <2>2
      <4> QED
        BY <4>1
    <3>4. CASE s[n + 1] \in T
      <4>1. kept[n + 1] = Append(kept[n], s[n + 1])
        BY <3>2, <3>4 DEF Step
      <4>2. Listed(kept[n + 1]) /\ ToSet(kept[n + 1]) = ToSet(kept[n]) \cup {s[n + 1]}
        BY <2>2, <4>1, ListAppend
      <4> QED
        BY <2>2, <3>1, <3>3, <3>4, <4>2
    <3>5. CASE s[n + 1] \notin T
      <4>1. kept[n + 1] = kept[n]
        BY <3>2, <3>5 DEF Step
      <4> QED
        BY <2>2, <3>1, <3>3, <3>5, <4>1
    <3> QED
      BY <3>4, <3>5
  <2> HIDE DEF S
  <2> QED
    BY <1>2, <2>1, <2>2, UpTo
<1>11. {s[i] : i \in 1..L} = ToSet(s)
  BY ListHas
<1> QED
  BY <1>1, <1>10, <1>11

\* Lists one after the other have the items of all.
LEMMA FlattenItems ==
  ASSUME NEW q, Listed(q), \A l \in ToSet(q) : Listed(l)
  PROVE  Listed(FlattenSeq(q)) /\ ToSet(FlattenSeq(q)) = UNION {ToSet(l) : l \in ToSet(q)}
<1> DEFINE L == Len(q)
           V == Seq(UNION {ToSet(l) : l \in ToSet(q)})
           Step(v, i) == IF i = 1 THEN q[i] ELSE v \o q[i]
           Def(k) == k = [n \in 1..L |-> IF n = 1 THEN q[n] ELSE k[n - 1] \o q[n]]
           flat == CHOOSE k : Def(k)
           G == [i \in 1..L |-> [v \in V |-> Step(v, i)]]
           nothing == <<>>
<1>1. FlattenSeq(q) = IF L = 0 THEN q ELSE flat[L]
  BY DEF FlattenSeq
<1>2. L \in Nat /\ (\A i \in 1..L : q[i] \in ToSet(q)) /\ (L = 0 <=> q = <<>>)
  BY ListHas
<1>3. nothing \in V /\ \A i \in 1..L : \A v \in V : Step(v, i) \in V
  <2>1. \A l \in ToSet(q) : l \in V
    BY DEF Listed
  <2> QED
    BY <1>2, <2>1
<1>4. Steppers(G, V, L)
  BY <1>3 DEF Steppers
<1>5. \A i \in 1..L : \A v \in V : G[i][v] = Step(v, i)
  OBVIOUS
<1> HIDE DEF V, G, Step
<1>6. PICK r : r \in [0..L -> V] /\ r[0] = nothing /\ \A i \in 1..L : r[i] = G[i][r[i - 1]]
  BY <1>2, <1>3, <1>4, RecursionExists
<1> DEFINE f == [i \in 1..L |-> r[i]]
<1>7. Def(f)
  <2>1. \A i \in 1..L : r[i] = IF i = 1 THEN q[i] ELSE f[i - 1] \o q[i]
    <3> SUFFICES ASSUME NEW i \in 1..L PROVE r[i] = IF i = 1 THEN q[i] ELSE f[i - 1] \o q[i]
      OBVIOUS
    <3>1. i - 1 \in 0..L /\ (i # 1 => i - 1 \in 1..L)
      BY <1>2
    <3>2. r[i] = Step(r[i - 1], i)
      BY <1>5, <1>6, <3>1
    <3> QED
      BY <3>1, <3>2 DEF Step
  <2> QED
    BY <2>1
<1>8. Def(flat)
  BY <1>7
<1> HIDE DEF flat
<1>9. \A i \in 1..L : flat[i] = IF i = 1 THEN q[i] ELSE Step(flat[i - 1], i)
  <2>1. \A i \in 1..L : flat[i] = IF i = 1 THEN q[i] ELSE flat[i - 1] \o q[i]
    BY <1>8
  <2>2. \A i \in 1..L : i # 1 => Step(flat[i - 1], i) = flat[i - 1] \o q[i]
    BY DEF Step
  <2> QED
    BY <2>1, <2>2
<1> DEFINE All(n) == UNION {ToSet(q[i]) : i \in 1..n}
           S == {n \in 0..L : n # 0 => Listed(flat[n]) /\ ToSet(flat[n]) = All(n)}
<1>10. L \in S
  <2>1. 0 \in S
    BY <1>2
  <2>2. ASSUME NEW n \in Nat, n < L, n \in S PROVE n + 1 \in S
    <3>1. n + 1 \in 1..L /\ n + 1 - 1 = n
      BY <1>2, <2>2
    <3>2. All(n + 1) = All(n) \cup ToSet(q[n + 1])
      <4>1. 1..(n + 1) = (1..n) \cup {n + 1}
        BY <2>2
      <4> QED
        BY <4>1
    <3>3. Listed(q[n + 1])
      BY <1>2, <3>1
    <3>4. CASE n = 0
      <4>1. flat[n + 1] = q[n + 1]
        BY <1>9, <3>1, <3>4
      <4>2. All(n) = {}
        <5>1. 1..n = {}
          BY <3>4
        <5> QED
          BY <5>1
      <4>3. Listed(flat[n + 1]) /\ ToSet(flat[n + 1]) = All(n + 1)
        BY <3>2, <3>3, <4>1, <4>2
      <4> HIDE DEF All
      <4> QED
        BY <3>1, <4>3
    <3>5. CASE n # 0
      <4>1. flat[n + 1] = Step(flat[n], n + 1)
        BY <1>9, <2>2, <3>1, <3>5
      <4>2. Listed(flat[n]) /\ ToSet(flat[n]) = All(n)
        BY <2>2, <3>5
      <4>3. Step(flat[n], n + 1) = flat[n] \o q[n + 1]
        <5>1. n + 1 # 1
          BY <2>2, <3>5
        <5> HIDE DEF S, All
        <5> QED
          BY <5>1 DEF Step
      <4>4. Listed(flat[n + 1]) /\ ToSet(flat[n + 1]) = ToSet(flat[n]) \cup ToSet(q[n + 1])
        <5> HIDE DEF S, All
        <5> QED
          BY <3>3, <4>1, <4>2, <4>3, ListConcat
      <4>5. ToSet(flat[n + 1]) = All(n + 1)
        BY <3>2, <4>2, <4>4
      <4> HIDE DEF All
      <4> QED
        BY <3>1, <4>4, <4>5
    <3> QED
      BY <3>4, <3>5
  <2> HIDE DEF S
  <2> QED
    BY <1>2, <2>1, <2>2, UpTo
<1>11. All(L) = UNION {ToSet(l) : l \in ToSet(q)}
  BY ListHas
<1>12. CASE L = 0
  <2>1. q = <<>> /\ FlattenSeq(q) = <<>>
    BY <1>1, <1>2, <1>12
  <2>2. Listed(<<>>) /\ ToSet(<<>>) = {}
    BY DEF Listed, ToSet
  <2> QED
    BY <2>1, <2>2
<1>13. CASE L # 0
  BY <1>1, <1>10, <1>11, <1>13
<1> QED
  BY <1>12, <1>13

\* What tells the items of a joined list apart.
Mark(item, fields) == IF fields = {} THEN item ELSE [f \in fields |-> item[f]]

\* A joined list has what was there, nothing but what was there and what is added, and of
\* everything added an item that is not told apart from it.
LEMMA JoinedItems ==
  ASSUME NEW base, Listed(base), NEW extra, Listed(extra), NEW fields
  PROVE  LET J == Joined(base, extra, fields) IN
         /\ Listed(J) /\ ToSet(base) \subseteq ToSet(J) /\ ToSet(J) \subseteq ToSet(base) \cup ToSet(extra)
         /\ \A x \in ToSet(extra) : \E y \in ToSet(J) : Mark(y, fields) = Mark(x, fields)
<1> DEFINE L == Len(extra)
           V == Seq(ToSet(base) \cup ToSet(extra))
           Has(v, i) == \E b \in ToSet(v) : Mark(b, fields) = Mark(extra[i], fields)
           Step(v, i) == IF Has(v, i) THEN v ELSE Append(v, extra[i])
           Def(k) == k = [n \in 0..L |-> IF n = 0 THEN base ELSE Step(k[n - 1], n)]
           joined == CHOOSE k : Def(k)
           G == [i \in 1..L |-> [v \in V |-> Step(v, i)]]
<1>1. Joined(base, extra, fields) = joined[L]
  BY DEF Joined, Mark
<1>2. L \in Nat /\ \A i \in 1..L : extra[i] \in ToSet(extra)
  BY ListHas
<1>3. base \in V /\ \A i \in 1..L : \A v \in V : Step(v, i) \in V
  <2>1. base \in V
    BY DEF Listed
  <2> HIDE DEF Has
  <2> QED
    BY <1>2, <2>1
<1>4. Steppers(G, V, L)
  <2> HIDE DEF Step
  <2> QED
    BY <1>3 DEF Steppers
<1>5. \A i \in 1..L : \A v \in V : G[i][v] = Step(v, i)
  <2> HIDE DEF Step
  <2> QED
    OBVIOUS
<1> HIDE DEF V, G, Step
<1>6. PICK r : r \in [0..L -> V] /\ r[0] = base /\ \A i \in 1..L : r[i] = G[i][r[i - 1]]
  BY <1>2, <1>3, <1>4, RecursionExists
<1>7. Def(r)
  <2>1. \A i \in 0..L : r[i] = IF i = 0 THEN base ELSE Step(r[i - 1], i)
    <3> SUFFICES ASSUME NEW i \in 0..L PROVE r[i] = IF i = 0 THEN base ELSE Step(r[i - 1], i)
      OBVIOUS
    <3>1. CASE i = 0
      BY <1>6, <3>1
    <3>2. CASE i # 0
      <4>1. i \in 1..L /\ i - 1 \in 0..L
        BY <1>2, <3>2
      <4>2. r[i - 1] \in V
        BY <1>6, <4>1
      <4> QED
        BY <1>5, <1>6, <3>2, <4>1, <4>2
    <3> QED
      BY <3>1, <3>2
  <2> QED
    BY <1>6, <2>1
<1>8. Def(joined)
  BY <1>7
<1> HIDE DEF joined
<1>9. joined[0] = base /\ \A i \in 1..L : joined[i] = Step(joined[i - 1], i)
  <2>1. \A i \in 0..L : joined[i] = IF i = 0 THEN base ELSE Step(joined[i - 1], i)
    BY <1>8
  <2>2. 0 \in 0..L /\ \A i \in 1..L : i \in 0..L /\ i # 0
    BY <1>2
  <2> QED
    BY <2>1, <2>2
<1> DEFINE Added1(n) == {extra[i] : i \in 1..n}
           Fits(v, n) == /\ Listed(v) /\ ToSet(base) \subseteq ToSet(v)
                         /\ ToSet(v) \subseteq ToSet(base) \cup Added1(n)
                         /\ \A x \in Added1(n) : \E y \in ToSet(v) : Mark(y, fields) = Mark(x, fields)
           S == {n \in 0..L : Fits(joined[n], n)}
<1>10. L \in S
  <2>1. 0 \in S
    <3>1. Added1(0) = {}
      <4>1. 1..0 = {}
        OBVIOUS
      <4> QED
        BY <4>1
    <3> QED
      BY <1>2, <1>9, <3>1
  <2>2. ASSUME NEW n \in Nat, n < L, n \in S PROVE n + 1 \in S
    <3>1. n + 1 \in 1..L /\ n + 1 - 1 = n
      BY <1>2, <2>2
    <3>2. joined[n + 1] = Step(joined[n], n + 1)
      BY <1>9, <3>1
    <3>3. Added1(n + 1) = Added1(n) \cup {extra[n + 1]}
      <4>1. 1..(n + 1) = (1..n) \cup {n + 1}
        BY <2>2
      <4> QED
        BY <4>1
    <3>4. Fits(joined[n], n)
      BY <2>2
    <3> HIDE DEF Added1
    <3>5. CASE Has(joined[n], n + 1)
      <4>1. joined[n + 1] = joined[n]
        BY <3>2, <3>5 DEF Step
      <4>2. Fits(joined[n + 1], n + 1)
        BY <3>3, <3>4, <3>5, <4>1
      <4> QED
        BY <3>1, <4>2
    <3>6. CASE ~Has(joined[n], n + 1)
      <4>1. joined[n + 1] = Append(joined[n], extra[n + 1])
        BY <3>2, <3>6 DEF Step
      <4>2. Listed(joined[n + 1]) /\ ToSet(joined[n + 1]) = ToSet(joined[n]) \cup {extra[n + 1]}
        <5>1. Listed(joined[n])
          BY <3>4
        <5> HIDE DEF Fits, S, Has
        <5> QED
          BY <4>1, <5>1, ListAppend
      <4>3. Fits(joined[n + 1], n + 1)
        BY <3>3, <3>4, <4>2
      <4> QED
        BY <3>1, <4>3
    <3> QED
      BY <3>5, <3>6
  <2> HIDE DEF S
  <2> QED
    BY <1>2, <2>1, <2>2, UpTo
<1>11. Added1(L) = ToSet(extra)
  BY ListHas
<1>12. Fits(joined[L], L)
  BY <1>10
<1> HIDE DEF Added1
<1> QED
  BY <1>1, <1>11, <1>12

-----------------------------------------------------------------------------
(* Entries.                                                                *)

\* What the merging of entries needs of them.
EntryOk(e) ==
  {"path", "method", "status", "params", "responses"} \subseteq DOMAIN e /\ Listed(e.params) /\ Listed(e.responses)

Same(a, b) == a.path = b.path /\ a.method = b.method

\* An entry has the statuses and the parameters of another, or of a file.
Carries(a, b) ==
  /\ \A r \in ToSet(b.responses) : \E s \in ToSet(a.responses) : s.status = r.status
  /\ \A q \in ToSet(b.params) : \E s \in ToSet(a.params) : s.name = q.name /\ s.in = q.in

\* What an entry carries, whatever carries it does too.
LEMMA CarriesAlong ==
  ASSUME NEW a, NEW b, NEW c, Carries(a, b), Carries(b, c) PROVE Carries(a, c)
BY DEF Carries

\* An entry with the fields of another is the same operation and has what either has.
LEMMA WithFieldsCarries ==
  ASSUME NEW e, EntryOk(e), NEW d, Listed(d.params), Listed(d.responses)
  PROVE  LET w == WithFields(e, d) IN
         /\ EntryOk(w) /\ DOMAIN w = DOMAIN e /\ w.status = e.status /\ Same(w, e)
         /\ Carries(w, e) /\ Carries(w, d)
         /\ (w.responses # <<>> => e.responses # <<>> \/ d.responses # <<>>)
<1> DEFINE w == WithFields(e, d)
           R == Joined(e.responses, d.responses, {"status"})
           P == Joined(e.params, d.params, {"name", "in"})
<1>1. /\ DOMAIN w = DOMAIN e /\ w.path = e.path /\ w.method = e.method /\ w.status = e.status
      /\ w.params = P /\ w.responses = R
  BY DEF WithFields, EntryOk
<1>2. /\ Listed(R) /\ ToSet(e.responses) \subseteq ToSet(R) /\ ToSet(R) \subseteq ToSet(e.responses) \cup ToSet(d.responses)
      /\ \A x \in ToSet(d.responses) : \E y \in ToSet(R) : Mark(y, {"status"}) = Mark(x, {"status"})
  BY JoinedItems DEF EntryOk
<1>3. /\ Listed(P) /\ ToSet(e.params) \subseteq ToSet(P)
      /\ \A x \in ToSet(d.params) : \E y \in ToSet(P) : Mark(y, {"name", "in"}) = Mark(x, {"name", "in"})
  BY JoinedItems DEF EntryOk
<1>4. ASSUME NEW x, NEW y, Mark(y, {"status"}) = Mark(x, {"status"}) PROVE y.status = x.status
  <2>1. [f \in {"status"} |-> y[f]] = [f \in {"status"} |-> x[f]]
    BY <1>4 DEF Mark
  <2>2. [f \in {"status"} |-> y[f]]["status"] = y["status"] /\ [f \in {"status"} |-> x[f]]["status"] = x["status"]
    OBVIOUS
  <2> QED
    BY <2>1, <2>2
<1>5. ASSUME NEW x, NEW y, Mark(y, {"name", "in"}) = Mark(x, {"name", "in"}) PROVE y.name = x.name /\ y.in = x.in
  <2>1. [f \in {"name", "in"} |-> y[f]] = [f \in {"name", "in"} |-> x[f]]
    BY <1>5 DEF Mark
  <2>2. /\ [f \in {"name", "in"} |-> y[f]]["name"] = y["name"] /\ [f \in {"name", "in"} |-> x[f]]["name"] = x["name"]
        /\ [f \in {"name", "in"} |-> y[f]]["in"] = y["in"] /\ [f \in {"name", "in"} |-> x[f]]["in"] = x["in"]
    OBVIOUS
  <2> QED
    BY <2>1, <2>2
<1> HIDE DEF w, R, P
<1>6. EntryOk(w) /\ Same(w, e)
  BY <1>1, <1>2, <1>3 DEF EntryOk, Same
<1>7. Carries(w, e)
  BY <1>1, <1>2, <1>3 DEF Carries
<1>8. Carries(w, d)
  BY <1>1, <1>2, <1>3, <1>4, <1>5 DEF Carries
<1>9. w.responses # <<>> => e.responses # <<>> \/ d.responses # <<>>
  <2>1. (R = <<>> <=> ToSet(R) = {}) /\ (e.responses = <<>> <=> ToSet(e.responses) = {})
        /\ (d.responses = <<>> <=> ToSet(d.responses) = {})
    BY <1>2, ListHas DEF EntryOk
  <2> QED
    BY <1>1, <1>2, <2>1
<1> QED
  BY <1>1, <1>6, <1>7, <1>8, <1>9 DEF w

\* The same of two entries that collapse.
LEMMA CombinedCarries ==
  ASSUME NEW a, EntryOk(a), NEW b, EntryOk(b)
  PROVE  LET w == Combined(a, b) IN
         /\ EntryOk(w) /\ Same(w, a) /\ Carries(w, a) /\ Carries(w, b)
         /\ (w.responses # <<>> => a.responses # <<>> \/ b.responses # <<>>)
<1> DEFINE w == Combined(a, b)
           v == WithFields(a, b)
<1>1. /\ EntryOk(v) /\ Same(v, a) /\ Carries(v, a) /\ Carries(v, b)
      /\ (v.responses # <<>> => a.responses # <<>> \/ b.responses # <<>>)
  BY WithFieldsCarries DEF EntryOk
<1> HIDE DEF v
<1>2. /\ DOMAIN w = DOMAIN v /\ w.path = v.path /\ w.method = v.method
      /\ w.params = v.params /\ w.responses = v.responses
  BY <1>1 DEF Combined, EntryOk, v
<1> HIDE DEF w
<1>3. EntryOk(w) /\ Same(w, a)
  BY <1>1, <1>2 DEF EntryOk, Same
<1>4. Carries(w, a) /\ Carries(w, b)
  BY <1>1, <1>2 DEF Carries
<1> QED
  BY <1>1, <1>2, <1>3, <1>4 DEF w

-----------------------------------------------------------------------------
(* The collapse.                                                           *)

\* What collapsing goes through.
LEMMA CollapsedSteps ==
  ASSUME NEW E, Listed(E)
  PROVE  \E r : /\ Collapsed(E) = r[Len(E)] /\ r[0] = <<>>
                /\ \A i \in 1..Len(E) : r[i] = Added(r[i - 1], E[i])
<1> DEFINE L == Len(E)
           Def(k) == k = [n \in 0..L |-> IF n = 0 THEN <<>> ELSE Added(k[n - 1], E[n])]
           collapsed == CHOOSE k : Def(k)
           Good(r, n) == r[0] = <<>> /\ \A i \in 1..L : i =< n => r[i] = Added(r[i - 1], E[i])
           S == {n \in Nat : \E r : Good(r, n)}
<1>1. Collapsed(E) = collapsed[L]
  BY DEF Collapsed
<1>2. L \in Nat
  BY ListHas
<1>3. 0 \in S
  <2> DEFINE r == [i \in 0..L |-> <<>>]
  <2>1. r[0] = <<>>
    BY <1>2
  <2>2. Good(r, 0)
    BY <2>1
  <2> HIDE DEF r, Good
  <2> QED
    BY <2>2
<1>4. ASSUME NEW n \in Nat, n < L, n \in S PROVE n + 1 \in S
  <2>1. PICK r : Good(r, n)
    BY <1>4
  <2> DEFINE q == [i \in 0..L |-> IF i = n + 1 THEN Added(r[n], E[n + 1]) ELSE r[i]]
  <2>2. \A i \in 0..L : q[i] = IF i = n + 1 THEN Added(r[n], E[n + 1]) ELSE r[i]
    OBVIOUS
  <2> HIDE DEF q
  <2>3. q[0] = <<>>
    BY <1>2, <2>1, <2>2
  <2>4. ASSUME NEW i \in 1..L, i =< n + 1 PROVE q[i] = Added(q[i - 1], E[i])
    <3>1. i \in 0..L /\ i - 1 \in 0..L /\ i - 1 # n + 1
      BY <1>2, <1>4, <2>4
    <3>2. q[i - 1] = r[i - 1]
      BY <2>2, <3>1
    <3>3. CASE i = n + 1
      BY <1>4, <2>2, <3>1, <3>2, <3>3
    <3>4. CASE i # n + 1
      <4>1. i =< n
        BY <1>4, <2>4, <3>4
      <4>2. r[i] = Added(r[i - 1], E[i])
        BY <2>1, <4>1
      <4> QED
        BY <2>2, <3>1, <3>2, <3>4, <4>2
    <3> QED
      BY <3>3, <3>4
  <2>5. Good(q, n + 1)
    BY <2>3, <2>4
  <2> HIDE DEF Good
  <2> QED
    BY <2>5
<1>5. PICK r : Good(r, L)
  <2>1. L \in S
    <3> HIDE DEF S
    <3> QED
      BY <1>2, <1>3, <1>4, UpTo
  <2> QED
    BY <2>1
<1> DEFINE k == [i \in 0..L |-> r[i]]
<1>6. Def(k)
  <2>1. \A i \in 0..L : r[i] = IF i = 0 THEN <<>> ELSE Added(k[i - 1], E[i])
    <3> SUFFICES ASSUME NEW i \in 0..L PROVE r[i] = IF i = 0 THEN <<>> ELSE Added(k[i - 1], E[i])
      OBVIOUS
    <3>1. CASE i = 0
      BY <1>5, <3>1
    <3>2. CASE i # 0
      <4>1. i \in 1..L /\ i - 1 \in 0..L /\ i =< L
        BY <1>2, <3>2
      <4>2. k[i - 1] = r[i - 1]
        BY <4>1
      <4>3. r[i] = Added(r[i - 1], E[i])
        BY <1>5, <4>1
      <4> QED
        BY <3>2, <4>2, <4>3
    <3> QED
      BY <3>1, <3>2
  <2> QED
    BY <2>1
<1>7. Def(collapsed)
  <2> HIDE DEF k
  <2> QED
    BY <1>6
<1> HIDE DEF collapsed
<1>8. collapsed[0] = <<>> /\ \A i \in 1..L : collapsed[i] = Added(collapsed[i - 1], E[i])
  <2>1. \A i \in 0..L : collapsed[i] = IF i = 0 THEN <<>> ELSE Added(collapsed[i - 1], E[i])
    BY <1>7
  <2>2. 0 \in 0..L /\ \A i \in 1..L : i \in 0..L /\ i # 0
    BY <1>2
  <2> QED
    BY <2>1, <2>2
<1> QED
  BY <1>1, <1>8

\* What is made of the first n of some entries by collapsing them: operations are apart, each entry
\* is carried by the one of its operation, and no responses come from elsewhere.
Collapses(c, E, n) ==
  /\ Listed(c) /\ \A i \in 1..Len(c) : EntryOk(c[i])
  /\ \A i, j \in 1..Len(c) : c[i].path # None /\ Same(c[i], c[j]) => i = j
  /\ \A i \in 1..n : E[i].path # None => \E k \in 1..Len(c) : Same(c[k], E[i]) /\ Carries(c[k], E[i])
  /\ \A k \in 1..Len(c) : c[k].path # None /\ c[k].responses # <<>> =>
       \E i \in 1..n : Same(E[i], c[k]) /\ E[i].responses # <<>>

\* An entry carries itself.
LEMMA CarriesItself == ASSUME NEW a PROVE Carries(a, a)
BY DEF Carries

\* So does collapsing with one entry more.
LEMMA AddedCollapses ==
  ASSUME NEW E, NEW n \in Nat, NEW c, Collapses(c, E, n), EntryOk(E[n + 1])
  PROVE  Collapses(Added(c, E[n + 1]), E, n + 1)
<1> DEFINE e == E[n + 1]
           L == Len(c)
           same == {i \in 1..L : e.path # None /\ Same(c[i], e)}
           d == Added(c, e)
<1>1. Listed(c) /\ L \in Nat /\ DOMAIN c = 1..L /\ c = [i \in 1..L |-> c[i]]
  BY ListHas DEF Collapses
<1>2. d = IF same = {} THEN Append(c, e) ELSE [c EXCEPT ![Min(same)] = Combined(@, e)]
  BY <1>1 DEF Added, Same
<1>3. \A i \in 1..(n + 1) : i \in 1..n \/ i = n + 1
  OBVIOUS
<1> HIDE DEF d
<1>4. CASE same = {}
  <2>1. d = Append(c, e)
    BY <1>2, <1>4
  <2>2. Listed(d) /\ Len(d) = L + 1 /\ d[L + 1] = e /\ \A i \in 1..L : d[i] = c[i]
    <3> HIDE DEF same, e
    <3> QED
      BY <1>1, <2>1, ListAppend
  <2>3. \A i \in 1..(L + 1) : i \in 1..L \/ i = L + 1
    BY <1>1
  <2>4. \A i \in 1..L : i \in 1..(L + 1)
    BY <1>1
  <2>5. L + 1 \in 1..(L + 1) /\ n + 1 \in 1..(n + 1) /\ \A i \in 1..n : i \in 1..(n + 1)
    BY <1>1
  <2>6. \A i \in 1..L : ~(e.path # None /\ Same(c[i], e))
    BY <1>4
  <2> HIDE DEF same
  <2>7. \A i \in 1..Len(d) : EntryOk(d[i])
    BY <2>2, <2>3 DEF Collapses
  <2>8. \A i, j \in 1..Len(d) : d[i].path # None /\ Same(d[i], d[j]) => i = j
    <3> SUFFICES ASSUME NEW i \in 1..(L + 1), NEW j \in 1..(L + 1), d[i].path # None, Same(d[i], d[j]) PROVE i = j
      BY <2>2
    <3>1. CASE i \in 1..L /\ j \in 1..L
      BY <2>2, <3>1 DEF Collapses
    <3>2. CASE i \in 1..L /\ j = L + 1
      <4>1. Same(c[i], e) /\ e.path # None
        BY <2>2, <3>2 DEF Same
      <4> QED
        BY <2>6, <3>2, <4>1
    <3>3. CASE i = L + 1 /\ j \in 1..L
      <4>1. Same(c[j], e) /\ e.path # None
        BY <2>2, <3>3 DEF Same
      <4> QED
        BY <2>6, <3>3, <4>1
    <3> QED
      BY <2>3, <3>1, <3>2, <3>3
  <2>9. \A i \in 1..(n + 1) : E[i].path # None => \E k \in 1..Len(d) : Same(d[k], E[i]) /\ Carries(d[k], E[i])
    <3> SUFFICES ASSUME NEW i \in 1..(n + 1), E[i].path # None
                 PROVE  \E k \in 1..(L + 1) : Same(d[k], E[i]) /\ Carries(d[k], E[i])
      BY <2>2
    <3>1. CASE i \in 1..n
      <4>1. PICK k \in 1..L : Same(c[k], E[i]) /\ Carries(c[k], E[i])
        BY <3>1 DEF Collapses
      <4> QED
        BY <2>2, <2>4, <4>1
    <3>2. CASE i = n + 1
      BY <2>2, <2>5, <3>2, CarriesItself DEF Same
    <3> QED
      BY <1>3, <3>1, <3>2
  <2>10. \A k \in 1..Len(d) : d[k].path # None /\ d[k].responses # <<>> =>
           \E i \in 1..(n + 1) : Same(E[i], d[k]) /\ E[i].responses # <<>>
    <3> SUFFICES ASSUME NEW k \in 1..(L + 1), d[k].path # None, d[k].responses # <<>>
                 PROVE  \E i \in 1..(n + 1) : Same(E[i], d[k]) /\ E[i].responses # <<>>
      BY <2>2
    <3>1. CASE k \in 1..L
      <4>1. PICK i \in 1..n : Same(E[i], c[k]) /\ E[i].responses # <<>>
        BY <2>2, <3>1 DEF Collapses
      <4> QED
        BY <2>2, <2>5, <3>1, <4>1
    <3>2. CASE k = L + 1
      BY <2>2, <2>5, <3>2 DEF Same
    <3> QED
      BY <2>3, <3>1, <3>2
  <2> QED
    BY <2>2, <2>7, <2>8, <2>9, <2>10 DEF Collapses, d
<1>5. CASE same # {}
  <2> DEFINE m == Min(same)
             w == Combined(c[m], e)
  <2>1. m \in 1..L /\ e.path # None /\ Same(c[m], e)
    <3>1. m \in same
      <4> HIDE DEF same
      <4>1. same \subseteq 1..L
        BY DEF same
      <4> QED
        BY <1>1, <1>5, <4>1, LeastExists
    <3> QED
      BY <3>1
  <2>2. EntryOk(w) /\ Same(w, c[m]) /\ Carries(w, c[m]) /\ Carries(w, e)
        /\ (w.responses # <<>> => c[m].responses # <<>> \/ e.responses # <<>>)
    BY <2>1, CombinedCarries DEF Collapses
  <2>3. d = [c EXCEPT ![m] = w]
    BY <1>2, <1>5
  <2> HIDE DEF same, m, w
  <2>4. d = [i \in 1..L |-> IF i = m THEN w ELSE c[i]]
    BY <1>1, <2>1, <2>3
  <2>5. \A i \in 1..L : d[i] = IF i = m THEN w ELSE c[i]
    BY <2>4
  <2>6. Listed(d) /\ Len(d) = L
    <3>1. d = [i \in 1..L |-> d[i]]
      BY <2>4
    <3>2. Listed(d)
      BY <1>1, <3>1, ListOf
    <3>3. DOMAIN d = 1..Len(d) /\ Len(d) \in Nat /\ DOMAIN d = 1..L
      BY <2>4, <3>2, ListHas
    <3> HIDE DEF L
    <3> QED
      BY <1>1, <3>2, <3>3
  <2>7. \A i \in 1..L : EntryOk(d[i])
    BY <2>2, <2>5 DEF Collapses
  <2>8. \A i \in 1..L : Same(d[i], c[i])
    BY <2>2, <2>5 DEF Same
  <2>9. \A i, j \in 1..L : d[i].path # None /\ Same(d[i], d[j]) => i = j
    <3> SUFFICES ASSUME NEW i \in 1..L, NEW j \in 1..L, d[i].path # None, Same(d[i], d[j]) PROVE i = j
      OBVIOUS
    <3>1. c[i].path # None /\ Same(c[i], c[j])
      BY <2>8 DEF Same
    <3> QED
      BY <3>1 DEF Collapses
  <2>10. \A k \in 1..L : Carries(d[k], c[k])
    BY <2>2, <2>5, CarriesItself
  <2>11. \A i \in 1..(n + 1) : E[i].path # None => \E k \in 1..L : Same(d[k], E[i]) /\ Carries(d[k], E[i])
    <3> SUFFICES ASSUME NEW i \in 1..(n + 1), E[i].path # None
                 PROVE  \E k \in 1..L : Same(d[k], E[i]) /\ Carries(d[k], E[i])
      OBVIOUS
    <3>1. CASE i \in 1..n
      <4>1. PICK k \in 1..L : Same(c[k], E[i]) /\ Carries(c[k], E[i])
        BY <3>1 DEF Collapses
      <4>2. Same(d[k], E[i])
        BY <2>8, <4>1 DEF Same
      <4>3. Carries(d[k], E[i])
        BY <2>10, <4>1, CarriesAlong
      <4> QED
        BY <4>2, <4>3
    <3>2. CASE i = n + 1
      <4>1. d[m] = w
        BY <2>1, <2>5
      <4>2. Same(d[m], E[i])
        BY <2>1, <2>8, <3>2 DEF Same
      <4> QED
        BY <2>1, <2>2, <3>2, <4>1, <4>2
    <3> QED
      BY <1>3, <3>1, <3>2
  <2>12. \A k \in 1..L : d[k].path # None /\ d[k].responses # <<>> =>
           \E i \in 1..(n + 1) : Same(E[i], d[k]) /\ E[i].responses # <<>>
    <3> SUFFICES ASSUME NEW k \in 1..L, d[k].path # None, d[k].responses # <<>>
                 PROVE  \E i \in 1..(n + 1) : Same(E[i], d[k]) /\ E[i].responses # <<>>
      OBVIOUS
    <3>1. c[k].path # None /\ Same(c[k], d[k])
      BY <2>8 DEF Same
    <3>2. CASE c[k].responses # <<>>
      <4>1. PICK i \in 1..n : Same(E[i], c[k]) /\ E[i].responses # <<>>
        BY <3>1, <3>2 DEF Collapses
      <4>2. Same(E[i], d[k]) /\ i \in 1..(n + 1)
        BY <3>1, <4>1 DEF Same
      <4> QED
        BY <4>1, <4>2
    <3>3. CASE c[k].responses = <<>>
      <4>1. k = m /\ d[k] = w
        BY <2>5, <3>3
      <4>2. e.responses # <<>>
        BY <2>2, <3>3, <4>1
      <4>3. Same(E[n + 1], d[k]) /\ n + 1 \in 1..(n + 1)
        BY <2>1, <3>1, <4>1 DEF Same
      <4> QED
        BY <4>2, <4>3
    <3> QED
      BY <3>2, <3>3
  <2> QED
    BY <2>6, <2>7, <2>9, <2>11, <2>12 DEF Collapses, d
<1> QED
  BY <1>4, <1>5

\* Collapsing some entries does so.
LEMMA CollapsedCollapses ==
  ASSUME NEW E, Listed(E), \A i \in 1..Len(E) : EntryOk(E[i])
  PROVE  Collapses(Collapsed(E), E, Len(E))
<1> DEFINE L == Len(E)
<1>1. PICK r : /\ Collapsed(E) = r[L] /\ r[0] = <<>>
               /\ \A i \in 1..L : r[i] = Added(r[i - 1], E[i])
  BY CollapsedSteps
<1>2. L \in Nat
  BY ListHas
<1> DEFINE S == {n \in 0..L : Collapses(r[n], E, n)}
<1>3. 0 \in S
  <2>1. Listed(<<>>) /\ Len(<<>>) = 0
    BY DEF Listed, ToSet
  <2>2. 1..0 = {}
    OBVIOUS
  <2>3. Collapses(<<>>, E, 0)
    BY <2>1, <2>2 DEF Collapses
  <2> QED
    BY <1>1, <1>2, <2>3
<1>4. ASSUME NEW n \in Nat, n < L, n \in S PROVE n + 1 \in S
  <2>1. n + 1 \in 1..L /\ n + 1 - 1 = n /\ n + 1 \in 0..L
    BY <1>2, <1>4
  <2>2. r[n + 1] = Added(r[n], E[n + 1]) /\ EntryOk(E[n + 1])
    BY <1>1, <2>1
  <2>3. Collapses(r[n + 1], E, n + 1)
    BY <1>4, <2>2, AddedCollapses
  <2> QED
    BY <2>1, <2>3
<1>5. L \in S
  <2> HIDE DEF S
  <2> QED
    BY <1>2, <1>3, <1>4, UpTo
<1> QED
  BY <1>1, <1>5

-----------------------------------------------------------------------------
(* Attribution.                                                            *)

\* The instance of the gate has the operators of the library anew.
LEMMA GateOperators ==
  /\ \A S : Gate!Cardinality(S) = Cardinality(S)
  /\ \A S : Gate!Min(S) = Min(S)
  /\ \A s : Gate!ToSet(s) = ToSet(s)
  /\ \A s : Gate!FlattenSeq(s) = FlattenSeq(s)
<1>1. \A S : Gate!Cardinality(S) = Cardinality(S)
  BY DEF Gate!Cardinality, Cardinality
<1>2. \A S : Gate!Min(S) = Min(S)
  BY DEF Gate!Min, Min
<1>3. \A s : Gate!ToSet(s) = ToSet(s)
  BY DEF Gate!ToSet, ToSet
<1>4. \A s : Gate!FlattenSeq(s) = FlattenSeq(s)
  BY DEF Gate!FlattenSeq, FlattenSeq
<1> QED
  BY <1>1, <1>2, <1>3, <1>4

Attributed(source, m) == Gate!Classify(source, m).status = "supported"

\* What classification yields.
LEMMA ClassifyShape ==
  ASSUME NEW s, NEW m
  PROVE  LET c == Gate!Classify(s, m) IN
         DOMAIN c = {"status", "cites"} /\ c.status \in {"supported", "unverified"}
BY DEF Gate!Classify

Values(f, S) == {f[i] : i \in S}

\* What one number or none stands for is as many.
LEMMA FewCounted ==
  ASSUME NEW L \in Nat, NEW S, S \subseteq 1..L, NEW f
  PROVE  Cardinality(S) \in Nat /\ (Cardinality(S) \in {0, 1} => Cardinality(Values(f, S)) = Cardinality(S))
<1> DEFINE F == Values(f, S)
<1>1. IsFiniteSet(S)
  <2>1. IsFiniteSet(1..L)
    BY FS_Interval
  <2> QED
    BY <2>1, FS_Subset
<1>2. Cardinality(S) \in Nat
  BY <1>1, FS_CardinalityType
<1>3. ASSUME Cardinality(S) = 0 PROVE Cardinality(F) = 0
  <2>1. S = {}
    BY <1>1, <1>3, FS_EmptySet
  <2>2. F = {}
    BY <2>1 DEF Values
  <2> QED
    BY <2>2, FS_EmptySet
<1>4. ASSUME Cardinality(S) = 1 PROVE Cardinality(F) = 1
  <2>1. PICK x : S = {x}
    BY <1>1, <1>4, FS_Singleton
  <2>2. F = {f[x]}
    BY <2>1 DEF Values
  <2> QED
    BY <2>2, FS_Singleton
<1> QED
  BY <1>2, <1>3, <1>4

\* A text that classification supports is attributable.
LEMMA SupportedIsAttributable ==
  ASSUME ManifestsStated, manifest \in Manifests, NEW source, Attributed(source, manifest)
  PROVE  Attributable(source)
<1> DEFINE local == manifest.local
           links == manifest.urls
           A == Len(local)
           B == Len(links)
           files == {f \in ToSet(local) : f.status = "pending"}
           urls == {u \in ToSet(links) : u.snapshot \notin {f.path : f \in files}}
           names == (UNION {{f.path, f.base} : f \in ToSet(local)}) \cup UNION {{u.id, u.fetched} : u \in ToSet(links)}
           I == Gate!Usable(manifest)
           J == {i \in 1..B : links[i].snapshot \notin {local[j].path : j \in I}}
<1>1. /\ A \in Nat /\ DOMAIN local = 1..A /\ ToSet(local) = {local[i] : i \in 1..A}
      /\ B \in Nat /\ DOMAIN links = 1..B /\ ToSet(links) = {links[i] : i \in 1..B}
  <2>1. Listed(local) /\ Listed(links)
    BY DEF ManifestsStated
  <2> HIDE DEF local, links
  <2> QED
    BY <2>1, ListHas
<1>2. Attributable(source) <=> \/ Cardinality(files) + Cardinality(urls) = 1
                               \/ source # None /\ source.names \cap names # {}
  BY DEF Attributable
<1>3. CASE Gate!Match(source, manifest) # None
  <2> DEFINE locals == {i \in 1..A : source # None /\ {local[i].path, local[i].base} \cap source.names # {}}
             found == {i \in 1..B : source # None /\ {links[i].fetched, links[i].id} \cap source.names # {}}
  <2>1. Gate!Match(source, manifest) = IF locals # {} THEN local[Min(locals)].path
                                       ELSE IF found # {} THEN links[Min(found)].id ELSE None
    BY <1>1, GateOperators DEF Gate!Match
  <2>2. locals # {} \/ found # {}
    BY <1>3, <2>1
  <2>3. source # None /\ source.names \cap names # {}
    <3>1. CASE locals # {}
      <4>1. PICK i \in 1..A : source # None /\ {local[i].path, local[i].base} \cap source.names # {}
        BY <3>1
      <4>2. {local[i].path, local[i].base} \subseteq names
        <5>1. local[i] \in ToSet(local)
          BY <1>1
        <5> QED
          BY <5>1
      <4> HIDE DEF names
      <4> QED
        BY <4>1, <4>2
    <3>2. CASE found # {}
      <4>1. PICK i \in 1..B : source # None /\ {links[i].fetched, links[i].id} \cap source.names # {}
        BY <3>2
      <4>2. {links[i].fetched, links[i].id} \subseteq names
        <5>1. links[i] \in ToSet(links)
          BY <1>1
        <5>2. {links[i].id, links[i].fetched} \in {{u.id, u.fetched} : u \in ToSet(links)}
          BY <5>1
        <5>3. {links[i].id, links[i].fetched} \subseteq UNION {{u.id, u.fetched} : u \in ToSet(links)}
          BY <5>2
        <5> QED
          BY <5>3
      <4> HIDE DEF names
      <4> QED
        BY <4>1, <4>2
    <3> QED
      BY <2>2, <3>1, <3>2
  <2> QED
    BY <1>2, <2>3
<1>4. CASE Gate!Match(source, manifest) = None
  <2>1. Gate!SoleSource(manifest) # None
    BY <1>4 DEF Attributed, Gate!Classify
  <2>2. Gate!Only(I, manifest) # None
    BY <2>1 DEF Gate!SoleSource
  <2>3. Cardinality(I) + Cardinality(J) = 1
    BY <1>1, <2>2, GateOperators DEF Gate!Only
  <2>4. I = {i \in 1..A : local[i].status = "pending"}
    BY <1>1 DEF Gate!Usable
  <2>5. files = Values(local, I)
    BY <1>1, <2>4 DEF Values
  <2>6. {f.path : f \in files} = {local[j].path : j \in I}
    BY <2>5 DEF Values
  <2>7. urls = Values(links, J)
    <3> DEFINE P == {f.path : f \in files}
    <3>1. J = {i \in 1..B : links[i].snapshot \notin P}
      BY <2>6
    <3>2. urls = {u \in ToSet(links) : u.snapshot \notin P}
      OBVIOUS
    <3> HIDE DEF P, J, urls
    <3> QED
      BY <1>1, <3>1, <3>2 DEF Values
  <2>8. I \subseteq 1..A /\ J \subseteq 1..B
    BY <2>4
  <2> HIDE DEF I, J, files, urls, A, B, local, links
  <2>9. Cardinality(I) \in Nat /\ Cardinality(J) \in Nat
    BY <1>1, <2>5, <2>7, <2>8, FewCounted
  <2>10. Cardinality(I) \in {0, 1} /\ Cardinality(J) \in {0, 1}
    BY <2>3, <2>9
  <2>11. Cardinality(files) = Cardinality(I)
    BY <1>1, <2>5, <2>8, <2>10, FewCounted
  <2>12. Cardinality(urls) = Cardinality(J)
    BY <1>1, <2>7, <2>8, <2>10, FewCounted
  <2> QED
    BY <1>2, <2>3, <2>11, <2>12
<1> QED
  BY <1>3, <1>4

-----------------------------------------------------------------------------
(* The document.                                                           *)

\* A dictionary has the keys that were written, each with the value of one writing of it.
LEMMA DictHas ==
  ASSUME NEW pairs, Listed(pairs)
  PROVE  /\ \A k : k \in DOMAIN Dict(pairs) <=> \E i \in 1..Len(pairs) : pairs[i][1] = k
         /\ \A k \in DOMAIN Dict(pairs) :
              \E i \in 1..Len(pairs) : pairs[i][1] = k /\ Dict(pairs)[k] = pairs[i][2]
<1>1. /\ Len(pairs) \in Nat /\ DOMAIN pairs = 1..Len(pairs)
      /\ \A i \in 1..Len(pairs) : pairs[i] \in ToSet(pairs)
      /\ \A p \in ToSet(pairs) : \E i \in 1..Len(pairs) : pairs[i] = p
  BY ListHas
<1>2. \A k : k \in DOMAIN Dict(pairs) <=> \E i \in 1..Len(pairs) : pairs[i][1] = k
  <2>1. DOMAIN Dict(pairs) = {p[1] : p \in ToSet(pairs)}
    BY DEF Dict
  <2> QED
    BY <1>1, <2>1
<1>3. ASSUME NEW k \in DOMAIN Dict(pairs)
      PROVE  \E i \in 1..Len(pairs) : pairs[i][1] = k /\ Dict(pairs)[k] = pairs[i][2]
  <2> DEFINE S == {i \in DOMAIN pairs : pairs[i][1] = k}
  <2>1. Dict(pairs)[k] = pairs[Max(S)][2]
    BY DEF Dict
  <2>2. S \subseteq 1..Len(pairs) /\ S # {}
    BY <1>1, <1>2
  <2>3. Max(S) \in S
    <3> HIDE DEF S
    <3> QED
      BY <1>1, <2>2, LeastExists
  <2>4. Max(S) \in 1..Len(pairs) /\ pairs[Max(S)][1] = k
    BY <2>2, <2>3
  <2> HIDE DEF S
  <2> QED
    BY <2>1, <2>4
<1> QED
  BY <1>2, <1>3

\* The entries of one operation are one.
Apart(E) == \A i, j \in 1..Len(E) : E[i].path # None /\ Same(E[i], E[j]) => i = j

\* The document has an operation for each entry with a path, made of it.
LEMMA DocumentPaths ==
  ASSUME NEW plan, Listed(plan.endpoints), Apart(plan.endpoints)
  PROVE  /\ \A e \in ToSet(plan.endpoints) : e.path # None =>
              <<e.path, e.method>> \in DOMAIN OpenApi(plan).paths
         /\ \A p \in DOMAIN OpenApi(plan).paths : \E e \in ToSet(plan.endpoints) :
              /\ e.path # None /\ p = <<e.path, e.method>>
              /\ OpenApi(plan).paths[p] = Operation(e, plan)
              /\ \A f \in ToSet(plan.endpoints) : Same(f, e) => f = e
<1> DEFINE E == plan.endpoints
           paths == Kept(E, {e \in ToSet(E) : e.path # None})
           pairs == [i \in DOMAIN paths |-> <<<<paths[i].path, paths[i].method>>, Operation(paths[i], plan)>>]
<1>1. OpenApi(plan).paths = Dict(pairs)
  BY DEF OpenApi
<1>2. Listed(paths) /\ ToSet(paths) = {e \in ToSet(E) : e.path # None}
  <2> DEFINE T == {e \in ToSet(E) : e.path # None}
  <2>1. T \subseteq ToSet(E) /\ paths = Kept(E, T)
    OBVIOUS
  <2> HIDE DEF T, paths, E
  <2>2. Listed(E)
    BY DEF E
  <2>3. Listed(paths) /\ ToSet(paths) = ToSet(E) \cap T
    BY <2>1, <2>2, KeptItems
  <2> QED
    BY <2>1, <2>3 DEF T
<1> HIDE DEF paths
<1> DEFINE L == Len(paths)
<1>3. /\ L \in Nat /\ DOMAIN paths = 1..L
      /\ \A i \in 1..L : paths[i] \in ToSet(paths)
      /\ \A e \in ToSet(paths) : \E i \in 1..L : paths[i] = e
  BY <1>2, ListHas
<1>4. \A i \in 1..L : pairs[i] = <<<<paths[i].path, paths[i].method>>, Operation(paths[i], plan)>>
  BY <1>3
<1>5. Listed(pairs) /\ Len(pairs) = L
  <2>1. pairs = [i \in 1..L |-> pairs[i]]
    BY <1>3
  <2> HIDE DEF pairs
  <2>2. Listed(pairs)
    BY <1>3, <2>1, ListOf
  <2>3. DOMAIN pairs = 1..L
    BY <2>1
  <2> QED
    BY <1>3, <2>2, <2>3, ListLength
<1> HIDE DEF pairs
<1>6. /\ \A k : k \in DOMAIN Dict(pairs) <=> \E i \in 1..L : pairs[i][1] = k
      /\ \A k \in DOMAIN Dict(pairs) : \E i \in 1..L : pairs[i][1] = k /\ Dict(pairs)[k] = pairs[i][2]
  BY <1>5, DictHas
<1>7. ASSUME NEW e \in ToSet(E), e.path # None PROVE <<e.path, e.method>> \in DOMAIN OpenApi(plan).paths
  <2>1. PICK i \in 1..L : paths[i] = e
    BY <1>2, <1>3, <1>7
  <2>2. pairs[i][1] = <<e.path, e.method>>
    BY <1>4, <2>1
  <2> QED
    BY <1>1, <1>6, <2>2
<1>8. ASSUME NEW e \in ToSet(E), NEW f \in ToSet(E), e.path # None, Same(f, e) PROVE f = e
  <2>1. PICK i \in 1..Len(E) : E[i] = e
    BY ListHas
  <2>2. PICK j \in 1..Len(E) : E[j] = f
    BY ListHas
  <2>3. E[i].path # None /\ Same(E[i], E[j])
    BY <1>8, <2>1, <2>2 DEF Same
  <2> QED
    BY <2>1, <2>2, <2>3 DEF Apart
<1>9. ASSUME NEW p \in DOMAIN OpenApi(plan).paths
      PROVE  \E e \in ToSet(E) :
               /\ e.path # None /\ p = <<e.path, e.method>>
               /\ OpenApi(plan).paths[p] = Operation(e, plan)
               /\ \A f \in ToSet(E) : Same(f, e) => f = e
  <2>1. PICK i \in 1..L : pairs[i][1] = p /\ Dict(pairs)[p] = pairs[i][2]
    BY <1>1, <1>6
  <2> DEFINE e == paths[i]
  <2>2. e \in ToSet(E) /\ e.path # None
    BY <1>2, <1>3
  <2>3. p = <<e.path, e.method>> /\ OpenApi(plan).paths[p] = Operation(e, plan)
    BY <1>1, <1>4, <2>1
  <2>4. \A f \in ToSet(E) : Same(f, e) => f = e
    BY <1>8, <2>2
  <2> HIDE DEF e
  <2> QED
    BY <2>2, <2>3, <2>4
<1> QED
  BY <1>7, <1>9

\* An operation has the parameters of its entry and the variables of its path.
LEMMA OperationParams ==
  ASSUME NEW e, NEW plan
  PROVE  /\ \A q \in ToSet(e.params) : q.in # "body" => [name |-> q.name, in |-> q.in] \in Operation(e, plan).params
         /\ e.path # None => Tokens[e.path] \subseteq
              {q.name : q \in {r \in Operation(e, plan).params : r.in = "path"}}
<1> DEFINE declared == {[name |-> p.name, in |-> p.in] : p \in {q \in ToSet(e.params) : q.in # "body"}}
           inPath == {p.name : p \in {q \in declared : q.in = "path"}}
           tokens == IF e.path = None THEN {} ELSE Tokens[e.path]
           params == declared \cup {[name |-> t, in |-> "path"] : t \in tokens \ inPath}
<1>1. Operation(e, plan).params = params
  BY DEF Operation
<1>2. \A q \in ToSet(e.params) : q.in # "body" => [name |-> q.name, in |-> q.in] \in params
  OBVIOUS
<1>3. ASSUME e.path # None, NEW t \in Tokens[e.path] PROVE \E r \in params : r.in = "path" /\ r.name = t
  <2>1. t \in tokens
    BY <1>3
  <2>2. CASE t \in inPath
    <3>1. PICK p \in declared : p.in = "path" /\ p.name = t
      BY <2>2
    <3> QED
      BY <3>1
  <2>3. CASE t \notin inPath
    <3>1. [name |-> t, in |-> "path"] \in params
      BY <2>1, <2>3
    <3> HIDE DEF params
    <3> QED
      BY <3>1
  <2> QED
    BY <2>2, <2>3
<1> HIDE DEF params
<1> QED
  BY <1>1, <1>2, <1>3

\* The statuses of HTTP that its entry states are those of the operation.
LEMMA ResponseStatuses ==
  ASSUME NEW rs, Listed(rs), NEW keys
  PROVE  {r.status : r \in ToSet(rs)} \cap Statuses \subseteq DOMAIN Responses(rs, keys)
<1> DEFINE T == {r \in ToSet(rs) : r.status \in Statuses}
           http == Kept(rs, T)
           pairs == [i \in DOMAIN http |-> <<http[i].status, ResponseSchema(http[i], keys)>>]
           out == Dict(pairs)
<1>1. DOMAIN out \subseteq DOMAIN Responses(rs, keys)
  BY DEF Responses
<1>2. Listed(http) /\ ToSet(http) = T
  <2> HIDE DEF T
  <2>1. ToSet(http) = ToSet(rs) \cap T /\ Listed(http)
    BY KeptItems
  <2> QED
    BY <2>1 DEF T
<1> HIDE DEF http
<1> DEFINE L == Len(http)
<1>3. /\ L \in Nat /\ DOMAIN http = 1..L /\ \A e \in ToSet(http) : \E i \in 1..L : http[i] = e
  BY <1>2, ListHas
<1>4. \A i \in 1..L : pairs[i][1] = http[i].status
  BY <1>3
<1>5. Listed(pairs) /\ Len(pairs) = L
  <2>1. pairs = [i \in 1..L |-> pairs[i]]
    BY <1>3
  <2> HIDE DEF pairs
  <2>2. Listed(pairs)
    BY <1>3, <2>1, ListOf
  <2>3. DOMAIN pairs = 1..L
    BY <2>1
  <2> QED
    BY <1>3, <2>2, <2>3, ListLength
<1> HIDE DEF pairs
<1>6. \A k : k \in DOMAIN out <=> \E i \in 1..L : pairs[i][1] = k
  BY <1>5, DictHas
<1>7. ASSUME NEW r \in ToSet(rs), r.status \in Statuses PROVE r.status \in DOMAIN out
  <2>1. PICK i \in 1..L : http[i] = r
    BY <1>2, <1>3, <1>7
  <2> HIDE DEF out
  <2> QED
    BY <1>4, <1>6, <2>1
<1> HIDE DEF out
<1> QED
  BY <1>1, <1>7

-----------------------------------------------------------------------------
(* The inventory.                                                          *)

\* The entry of a method.
Of(e, m) == [e EXCEPT !.method = m]

SoundItems(items) == {i \in ToSet(items) : i.ok}

\* A list with one item for each of another's.
LEMMA ListOver ==
  ASSUME NEW s, Listed(s), NEW t, DOMAIN t = DOMAIN s, t = [i \in DOMAIN s |-> t[i]]
  PROVE  Listed(t) /\ Len(t) = Len(s)
<1>1. Len(s) \in Nat /\ DOMAIN s = 1..Len(s)
  BY ListHas
<1>2. t = [i \in 1..Len(s) |-> t[i]]
  BY <1>1
<1>3. Listed(t)
  BY <1>1, <1>2, ListOf
<1> QED
  BY <1>1, <1>3, ListLength

\* Expanding lists each of an entry's methods.
LEMMA ExpandItems ==
  ASSUME NEW entries, Listed(entries), \A e \in ToSet(entries) : Listed(e.methods)
  PROVE  /\ Listed(Gate!Expand(entries))
         /\ \A x \in ToSet(Gate!Expand(entries)) :
              \E e \in ToSet(entries) : \E m \in ToSet(e.methods) : x = Of(e, m)
         /\ \A e \in ToSet(entries) : \A m \in ToSet(e.methods) : Of(e, m) \in ToSet(Gate!Expand(entries))
<1> DEFINE Row(e) == [j \in DOMAIN e.methods |-> Of(e, e.methods[j])]
           rows == [i \in DOMAIN entries |-> Row(entries[i])]
           L == Len(entries)
<1>1. Gate!Expand(entries) = FlattenSeq(rows)
  BY GateOperators DEF Gate!Expand, Of
<1>2. /\ L \in Nat /\ DOMAIN entries = 1..L /\ (\A i \in 1..L : entries[i] \in ToSet(entries))
      /\ \A e \in ToSet(entries) : \E i \in 1..L : entries[i] = e
  BY ListHas
<1>3. ASSUME NEW e \in ToSet(entries)
      PROVE  /\ Listed(Row(e))
             /\ \A x \in ToSet(Row(e)) : \E m \in ToSet(e.methods) : x = Of(e, m)
             /\ \A m \in ToSet(e.methods) : Of(e, m) \in ToSet(Row(e))
  <2> DEFINE M == e.methods
             r == Row(e)
  <2>1. Listed(M)
    OBVIOUS
  <2>2. DOMAIN r = DOMAIN M /\ r = [j \in DOMAIN M |-> r[j]] /\ \A j \in DOMAIN M : r[j] = Of(e, M[j])
    OBVIOUS
  <2> HIDE DEF r, M
  <2>3. Listed(r) /\ Len(r) = Len(M)
    BY <2>1, <2>2, ListOver
  <2>4. /\ DOMAIN M = 1..Len(M) /\ (\A j \in 1..Len(M) : M[j] \in ToSet(M))
        /\ \A m \in ToSet(M) : \E j \in 1..Len(M) : M[j] = m
    BY <2>1, ListHas
  <2>5. /\ (\A j \in 1..Len(M) : r[j] \in ToSet(r))
        /\ \A x \in ToSet(r) : \E j \in 1..Len(M) : r[j] = x
    BY <2>3, ListHas
  <2>6. Listed(r) /\ (\A x \in ToSet(r) : \E m \in ToSet(M) : x = Of(e, m))
        /\ \A m \in ToSet(M) : Of(e, m) \in ToSet(r)
    BY <2>2, <2>3, <2>4, <2>5
  <2> QED
    BY <2>6 DEF r, M
<1>4. DOMAIN rows = DOMAIN entries /\ rows = [i \in DOMAIN entries |-> rows[i]] /\ \A i \in 1..L : rows[i] = Row(entries[i])
  BY <1>2
<1> HIDE DEF rows, Row
<1>5. Listed(rows) /\ Len(rows) = L
  BY <1>4, ListOver
<1>6. (\A i \in 1..L : rows[i] \in ToSet(rows)) /\ \A r \in ToSet(rows) : \E i \in 1..L : rows[i] = r
  BY <1>5, ListHas
<1>7. (\A r \in ToSet(rows) : \E e \in ToSet(entries) : r = Row(e))
      /\ \A e \in ToSet(entries) : Row(e) \in ToSet(rows)
  BY <1>2, <1>4, <1>6
<1>8. \A r \in ToSet(rows) : Listed(r)
  BY <1>3, <1>7
<1>9. Listed(FlattenSeq(rows)) /\ ToSet(FlattenSeq(rows)) = UNION {ToSet(r) : r \in ToSet(rows)}
  BY <1>5, <1>8, FlattenItems
<1>10. ASSUME NEW x \in ToSet(FlattenSeq(rows))
       PROVE  \E e \in ToSet(entries) : \E m \in ToSet(e.methods) : x = Of(e, m)
  <2>1. PICK r \in ToSet(rows) : x \in ToSet(r)
    BY <1>9
  <2>2. PICK e \in ToSet(entries) : r = Row(e)
    BY <1>7
  <2> QED
    BY <1>3, <2>1, <2>2
<1>11. ASSUME NEW e \in ToSet(entries), NEW m \in ToSet(e.methods)
       PROVE  Of(e, m) \in ToSet(FlattenSeq(rows))
  <2>1. Of(e, m) \in ToSet(Row(e)) /\ Row(e) \in ToSet(rows)
    BY <1>3, <1>7
  <2> QED
    BY <1>9, <2>1
<1> QED
  BY <1>1, <1>9, <1>10, <1>11

\* What classification adds to an item and what it leaves.
LEMMA ClassifiedItem ==
  ASSUME NEW item
  PROVE  /\ DOMAIN Classified(item) = {"status", "cites"} \cup DOMAIN item
         /\ Classified(item).status = Gate!Classify(item.source, manifest).status
         /\ Classified(item).status \in {"supported", "unverified"}
         /\ \A f \in DOMAIN item \ {"status", "cites"} : Classified(item)[f] = item[f]
<1> DEFINE c == Gate!Classify(item.source, manifest)
<1>1. DOMAIN c = {"status", "cites"} /\ c.status \in {"supported", "unverified"}
  BY ClassifyShape
<1> HIDE DEF c
<1>2. Classified(item) = [f \in DOMAIN c \cup DOMAIN item |-> IF f \in DOMAIN c THEN c[f] ELSE item[f]]
  BY DEF Classified, Filled, c
<1> QED
  BY <1>1, <1>2 DEF c

\* The entry of an endpoint of the inventory.
LEMMA EndpointEntryHas ==
  ASSUME NEW e
  PROVE  LET n == EndpointEntry(e) IN
         /\ EntryOk(n) /\ n.path = e.path /\ n.method = e.method /\ n.responses = <<>>
         /\ n.status = Gate!Classify(e.source, manifest).status /\ n.status \in {"supported", "unverified"}
         /\ {"examples", "server", "summary", "request", "security", "cites"} \subseteq DOMAIN n
<1> DEFINE i == [method |-> e.method, path |-> e.path, summary |-> e.summary, server |-> e.server,
                 source |-> e.source, params |-> <<>>, request |-> None, responses |-> <<>>,
                 examples |-> FALSE, security |-> <<>>]
           n == EndpointEntry(e)
<1>1. n = Classified(i)
  BY DEF EndpointEntry
<1>2. /\ i.source = e.source /\ i.path = e.path /\ i.method = e.method /\ i.responses = <<>> /\ i.params = <<>>
      /\ DOMAIN i = {"method", "path", "summary", "server", "source", "params", "request", "responses",
                     "examples", "security"}
  OBVIOUS
<1> HIDE DEF i, n
<1>3. /\ DOMAIN n = {"status", "cites"} \cup DOMAIN i /\ n.status = Gate!Classify(i.source, manifest).status
      /\ n.status \in {"supported", "unverified"}
      /\ \A f \in DOMAIN i \ {"status", "cites"} : n[f] = i[f]
  BY <1>1, ClassifiedItem
<1>4. n.path = i.path /\ n.method = i.method /\ n.responses = i.responses /\ n.params = i.params
  BY <1>2, <1>3
<1>5. Listed(<<>>)
  BY DEF Listed, ToSet
<1> QED
  BY <1>2, <1>3, <1>4, <1>5 DEF EntryOk, n

\* The sections of an inventory.
LEMMA SectionNames ==
  ToSet(Gate!Sections) = {"environments", "security_schemes", "endpoints", "schemas", "errors", "operational"}
BY DEF Gate!Sections, ToSet

\* The sound items of a list are one.
LEMMA SoundList ==
  ASSUME NEW items, Listed(items)
  PROVE  Listed(Sound(items)) /\ ToSet(Sound(items)) = SoundItems(items)
<1> DEFINE T == SoundItems(items)
<1>1. Sound(items) = Kept(items, T) /\ T \subseteq ToSet(items)
  BY DEF Sound, SoundItems
<1> HIDE DEF T
<1>2. Listed(Kept(items, T)) /\ ToSet(Kept(items, T)) = ToSet(items) \cap T
  BY KeptItems
<1> QED
  BY <1>1, <1>2 DEF T

\* The entries of a section: one for each sound item, in their order.
EntriesOf(items) == [i \in DOMAIN Sound(items) |-> Classified(Sound(items)[i])]
SchemaEntriesOf(items) == [i \in DOMAIN Sound(items) |-> SchemaEntry(Sound(items)[i])]
EndpointEntriesOf(items) == [i \in DOMAIN Sound(items) |-> EndpointEntry(Sound(items)[i])]
CitedEntries(x) ==
  FlattenSeq(<<EntriesOf(x.environments), EntriesOf(x.security_schemes), EndpointEntriesOf(Gate!Expand(x.endpoints)),
               SchemaEntriesOf(x.schemas), EntriesOf(x.errors), EntriesOf(x.operational),
               FlattenSeq([i \in DOMAIN SchemaEntriesOf(x.schemas) |-> SchemaEntriesOf(x.schemas)[i].evidence])>>)

\* The plan of the inventory, its lists by their names.
LEMMA InventoryPlanIs ==
  /\ InventoryPlan.endpoints = EndpointEntriesOf(Gate!Expand(extraction.inventory.endpoints))
  /\ InventoryPlan.unverified = Unverified(CitedEntries(extraction.inventory))
  /\ {"endpoints", "unverified", "missing", "conflicts", "integration"} \subseteq DOMAIN InventoryPlan
<1>1. InventoryPlan.endpoints = EndpointEntriesOf(Gate!Expand(extraction.inventory.endpoints))
  BY DEF InventoryPlan, EndpointEntriesOf
<1>2. InventoryPlan.unverified = Unverified(CitedEntries(extraction.inventory))
  BY DEF InventoryPlan, CitedEntries, EntriesOf, SchemaEntriesOf, EndpointEntriesOf
<1>3. {"endpoints", "unverified", "missing", "conflicts", "integration"} \subseteq DOMAIN InventoryPlan
  BY DEF InventoryPlan
<1> QED
  BY <1>1, <1>2, <1>3

\* When no item is listed as unverified none is.
LEMMA NoneUnverified ==
  ASSUME NEW items, Listed(items)
  PROVE  Listed(Unverified(items)) /\ (Unverified(items) = <<>> => \A i \in ToSet(items) : i.status # "unverified")
<1> DEFINE T == {i \in ToSet(items) : i.status = "unverified"}
           k == Kept(items, T)
<1>1. Unverified(items) = k
  BY DEF Unverified
<1>2. Listed(k) /\ ToSet(k) = ToSet(items) \cap T
  <2> HIDE DEF T
  <2> QED
    BY KeptItems
<1>3. k = <<>> <=> ToSet(k) = {}
  <2> HIDE DEF k
  <2> QED
    BY <1>2, ListHas
<1> HIDE DEF k
<1> QED
  BY <1>1, <1>2, <1>3

\* A schema's entry and its evidence.
LEMMA SchemaEntryHas ==
  ASSUME NEW s, Listed(s.fields)
  PROVE  /\ SchemaEntry(s).status = Gate!Classify(s.source, manifest).status
         /\ Listed(SchemaEntry(s).evidence)
         /\ \A f \in ToSet(s.fields) : f.source # None => Classified(f) \in ToSet(SchemaEntry(s).evidence)
<1> DEFINE T == {f \in ToSet(s.fields) : f.source # None}
           cited == Kept(s.fields, T)
           evidence == FieldEvidence(s)
           item == Classified(s)
           n == [item EXCEPT !.cites = @ \cup UNION {e.cites : e \in ToSet(evidence)}]
<1>1. SchemaEntry(s) = Filled([evidence |-> evidence], n)
  BY DEF SchemaEntry
<1>2. DOMAIN n = DOMAIN item /\ n.status = item.status /\ "status" \in DOMAIN item
      /\ item.status = Gate!Classify(s.source, manifest).status
  <2>1. DOMAIN item = {"status", "cites"} \cup DOMAIN s /\ item.status = Gate!Classify(s.source, manifest).status
    BY ClassifiedItem
  <2> HIDE DEF item, evidence
  <2> QED
    BY <2>1
<1>3. SchemaEntry(s).status = item.status /\ SchemaEntry(s).evidence = evidence
  <2> HIDE DEF n, evidence, item
  <2> QED
    BY <1>1, <1>2 DEF Filled
<1>4. evidence = [i \in DOMAIN cited |-> Classified(cited[i])]
  BY DEF FieldEvidence
<1>5. Listed(cited) /\ ToSet(cited) = T
  <2>1. T \subseteq ToSet(s.fields)
    OBVIOUS
  <2> HIDE DEF T
  <2>2. Listed(cited) /\ ToSet(cited) = ToSet(s.fields) \cap T
    BY KeptItems
  <2> QED
    BY <2>1, <2>2
<1> HIDE DEF evidence, cited
<1>6. DOMAIN evidence = DOMAIN cited /\ evidence = [i \in DOMAIN cited |-> evidence[i]]
  BY <1>4
<1>7. Listed(evidence) /\ Len(evidence) = Len(cited)
  BY <1>5, <1>6, ListOver
<1>8. /\ DOMAIN cited = 1..Len(cited) /\ (\A f \in ToSet(cited) : \E i \in 1..Len(cited) : cited[i] = f)
      /\ \A i \in 1..Len(cited) : evidence[i] \in ToSet(evidence)
  BY <1>5, <1>7, ListHas
<1>9. ASSUME NEW f \in ToSet(s.fields), f.source # None PROVE Classified(f) \in ToSet(evidence)
  <2>1. PICK i \in 1..Len(cited) : cited[i] = f
    BY <1>5, <1>8, <1>9
  <2>2. evidence[i] = Classified(f)
    BY <1>4, <1>8, <2>1
  <2> QED
    BY <1>8, <2>2
<1> HIDE DEF item
<1> QED
  BY <1>2, <1>3, <1>7, <1>9 DEF item

\* A section has an entry for each sound item.
LEMMA EntriesOfHas ==
  ASSUME NEW items, Listed(items)
  PROVE  Listed(EntriesOf(items)) /\ \A i \in SoundItems(items) : Classified(i) \in ToSet(EntriesOf(items))
<1> DEFINE s == Sound(items)
           t == EntriesOf(items)
<1>1. Listed(s) /\ ToSet(s) = SoundItems(items)
  BY SoundList
<1>2. DOMAIN t = DOMAIN s /\ t = [i \in DOMAIN s |-> t[i]] /\ \A i \in DOMAIN s : t[i] = Classified(s[i])
  BY DEF EntriesOf
<1> HIDE DEF s, t
<1>3. Listed(t) /\ Len(t) = Len(s)
  BY <1>1, <1>2, ListOver
<1>4. /\ DOMAIN s = 1..Len(s) /\ (\A f \in ToSet(s) : \E i \in 1..Len(s) : s[i] = f)
      /\ \A i \in 1..Len(s) : t[i] \in ToSet(t)
  BY <1>1, <1>3, ListHas
<1>5. ASSUME NEW f \in ToSet(s) PROVE Classified(f) \in ToSet(t)
  <2>1. PICK i \in 1..Len(s) : s[i] = f
    BY <1>4
  <2> QED
    BY <1>2, <1>4, <2>1
<1> QED
  BY <1>1, <1>3, <1>5 DEF t

\* So have the schemas.
LEMMA SchemaEntriesHas ==
  ASSUME NEW items, Listed(items)
  PROVE  /\ Listed(SchemaEntriesOf(items))
         /\ \A i \in SoundItems(items) : SchemaEntry(i) \in ToSet(SchemaEntriesOf(items))
         /\ \A n \in ToSet(SchemaEntriesOf(items)) : \E i \in SoundItems(items) : n = SchemaEntry(i)
<1> DEFINE s == Sound(items)
           t == SchemaEntriesOf(items)
<1>1. Listed(s) /\ ToSet(s) = SoundItems(items)
  BY SoundList
<1>2. DOMAIN t = DOMAIN s /\ t = [i \in DOMAIN s |-> t[i]] /\ \A i \in DOMAIN s : t[i] = SchemaEntry(s[i])
  BY DEF SchemaEntriesOf
<1> HIDE DEF s, t
<1>3. Listed(t) /\ Len(t) = Len(s)
  BY <1>1, <1>2, ListOver
<1>4. /\ DOMAIN s = 1..Len(s) /\ (\A f \in ToSet(s) : \E i \in 1..Len(s) : s[i] = f)
      /\ (\A i \in 1..Len(s) : t[i] \in ToSet(t)) /\ (\A i \in 1..Len(s) : s[i] \in ToSet(s))
      /\ \A n \in ToSet(t) : \E i \in 1..Len(s) : t[i] = n
  BY <1>1, <1>3, ListHas
<1>5. ASSUME NEW f \in ToSet(s) PROVE SchemaEntry(f) \in ToSet(t)
  <2>1. PICK i \in 1..Len(s) : s[i] = f
    BY <1>4
  <2> QED
    BY <1>2, <1>4, <2>1
<1>6. ASSUME NEW n \in ToSet(t) PROVE \E f \in ToSet(s) : n = SchemaEntry(f)
  BY <1>2, <1>4
<1> QED
  BY <1>1, <1>3, <1>5, <1>6 DEF t

\* So have the operations.
LEMMA EndpointEntriesHas ==
  ASSUME NEW items, Listed(items)
  PROVE  /\ Listed(EndpointEntriesOf(items))
         /\ \A i \in SoundItems(items) : EndpointEntry(i) \in ToSet(EndpointEntriesOf(items))
         /\ \A n \in ToSet(EndpointEntriesOf(items)) : \E i \in SoundItems(items) : n = EndpointEntry(i)
<1> DEFINE s == Sound(items)
           t == EndpointEntriesOf(items)
<1>1. Listed(s) /\ ToSet(s) = SoundItems(items)
  BY SoundList
<1>2. DOMAIN t = DOMAIN s /\ t = [i \in DOMAIN s |-> t[i]] /\ \A i \in DOMAIN s : t[i] = EndpointEntry(s[i])
  BY DEF EndpointEntriesOf
<1> HIDE DEF s, t
<1>3. Listed(t) /\ Len(t) = Len(s)
  BY <1>1, <1>2, ListOver
<1>4. /\ DOMAIN s = 1..Len(s) /\ (\A f \in ToSet(s) : \E i \in 1..Len(s) : s[i] = f)
      /\ (\A i \in 1..Len(s) : t[i] \in ToSet(t)) /\ (\A i \in 1..Len(s) : s[i] \in ToSet(s))
      /\ \A n \in ToSet(t) : \E i \in 1..Len(s) : t[i] = n
  BY <1>1, <1>3, ListHas
<1>5. ASSUME NEW f \in ToSet(s) PROVE EndpointEntry(f) \in ToSet(t)
  <2>1. PICK i \in 1..Len(s) : s[i] = f
    BY <1>4
  <2> QED
    BY <1>2, <1>4, <2>1
<1>6. ASSUME NEW n \in ToSet(t) PROVE \E f \in ToSet(s) : n = EndpointEntry(f)
  BY <1>2, <1>4
<1> QED
  BY <1>1, <1>3, <1>5, <1>6 DEF t

\* Seven lists, one after the other.
LEMMA SevenLists ==
  ASSUME NEW a, Listed(a), NEW b, Listed(b), NEW c, Listed(c), NEW d, Listed(d), NEW e, Listed(e),
         NEW f, Listed(f), NEW g, Listed(g)
  PROVE  LET all == FlattenSeq(<<a, b, c, d, e, f, g>>) IN
         /\ Listed(all)
         /\ ToSet(a) \cup ToSet(b) \cup ToSet(c) \cup ToSet(d) \cup ToSet(e) \cup ToSet(f) \cup ToSet(g) \subseteq ToSet(all)
<1> DEFINE q == <<a, b, c, d, e, f, g>>
<1>1. Listed(q) /\ ToSet(q) = {a, b, c, d, e, f, g}
  <2>1. ToSet(q) = {a, b, c, d, e, f, g}
    BY DEF ToSet
  <2>2. q \in Seq({a, b, c, d, e, f, g})
    OBVIOUS
  <2> HIDE DEF q
  <2> QED
    BY <2>1, <2>2 DEF Listed
<1> HIDE DEF q
<1>2. \A l \in ToSet(q) : Listed(l)
  BY <1>1
<1>3. Listed(FlattenSeq(q)) /\ ToSet(FlattenSeq(q)) = UNION {ToSet(l) : l \in ToSet(q)}
  BY <1>1, <1>2, FlattenItems
<1>4. \A l \in ToSet(q) : ToSet(l) \subseteq ToSet(FlattenSeq(q))
  BY <1>3
<1>5. a \in ToSet(q) /\ b \in ToSet(q) /\ c \in ToSet(q) /\ d \in ToSet(q) /\ e \in ToSet(q) /\ f \in ToSet(q) /\ g \in ToSet(q)
  BY <1>1
<1>6. ToSet(a) \subseteq ToSet(FlattenSeq(q)) /\ ToSet(b) \subseteq ToSet(FlattenSeq(q))
  BY <1>4, <1>5
<1>7. ToSet(c) \subseteq ToSet(FlattenSeq(q)) /\ ToSet(d) \subseteq ToSet(FlattenSeq(q))
  BY <1>4, <1>5
<1>8. ToSet(e) \subseteq ToSet(FlattenSeq(q)) /\ ToSet(f) \subseteq ToSet(FlattenSeq(q)) /\ ToSet(g) \subseteq ToSet(FlattenSeq(q))
  BY <1>4, <1>5
<1>9. ToSet(a) \cup ToSet(b) \cup ToSet(c) \cup ToSet(d) \cup ToSet(e) \cup ToSet(f) \cup ToSet(g) \subseteq ToSet(FlattenSeq(q))
  BY <1>6, <1>7, <1>8
<1> QED
  BY <1>3, <1>9 DEF q

\* What the evidence of some schemas is, one after the other.
LEMMA EvidenceHas ==
  ASSUME NEW items, Listed(items), \A s \in ToSet(items) : Listed(s.fields)
  PROVE  LET t == SchemaEntriesOf(items)
             all == FlattenSeq([i \in DOMAIN t |-> t[i].evidence]) IN
         /\ Listed(all)
         /\ \A s \in SoundItems(items) : \A f \in ToSet(s.fields) : f.source # None => Classified(f) \in ToSet(all)
<1> DEFINE t == SchemaEntriesOf(items)
           rows == [i \in DOMAIN t |-> t[i].evidence]
<1>1. /\ Listed(t) /\ \A i \in SoundItems(items) : SchemaEntry(i) \in ToSet(t)
      /\ \A n \in ToSet(t) : \E i \in SoundItems(items) : n = SchemaEntry(i)
  BY SchemaEntriesHas
<1>2. \A s \in SoundItems(items) : /\ Listed(SchemaEntry(s).evidence)
                                   /\ \A f \in ToSet(s.fields) : f.source # None => Classified(f) \in ToSet(SchemaEntry(s).evidence)
  BY SchemaEntryHas DEF SoundItems
<1> HIDE DEF t
<1>3. DOMAIN rows = DOMAIN t /\ rows = [i \in DOMAIN t |-> rows[i]] /\ \A i \in DOMAIN t : rows[i] = t[i].evidence
  OBVIOUS
<1> HIDE DEF rows
<1>4. Listed(rows) /\ Len(rows) = Len(t)
  BY <1>1, <1>3, ListOver
<1>5. /\ DOMAIN t = 1..Len(t) /\ (\A n \in ToSet(t) : \E i \in 1..Len(t) : t[i] = n)
      /\ (\A i \in 1..Len(t) : rows[i] \in ToSet(rows)) /\ (\A i \in 1..Len(t) : t[i] \in ToSet(t))
      /\ \A r \in ToSet(rows) : \E i \in 1..Len(t) : rows[i] = r
  BY <1>1, <1>4, ListHas
<1>6. \A r \in ToSet(rows) : \E n \in ToSet(t) : r = n.evidence
  BY <1>3, <1>5
<1>7. \A n \in ToSet(t) : n.evidence \in ToSet(rows)
  BY <1>3, <1>5
<1>8. \A r \in ToSet(rows) : Listed(r)
  BY <1>1, <1>2, <1>6
<1>9. Listed(FlattenSeq(rows)) /\ ToSet(FlattenSeq(rows)) = UNION {ToSet(r) : r \in ToSet(rows)}
  BY <1>4, <1>8, FlattenItems
<1>10. ASSUME NEW s \in SoundItems(items), NEW f \in ToSet(s.fields), f.source # None
       PROVE  Classified(f) \in ToSet(FlattenSeq(rows))
  <2>1. SchemaEntry(s).evidence \in ToSet(rows) /\ Classified(f) \in ToSet(SchemaEntry(s).evidence)
    BY <1>1, <1>2, <1>7, <1>10
  <2> QED
    BY <1>9, <2>1
<1> QED
  BY <1>9, <1>10 DEF rows, t

\* Lists of an inventory.
InventoryLists(x) ==
  /\ Listed(x.environments) /\ Listed(x.security_schemes) /\ Listed(x.endpoints) /\ Listed(x.schemas)
  /\ Listed(x.errors) /\ Listed(x.operational)
  /\ \A s \in ToSet(x.schemas) : Listed(s.fields)
  /\ \A e \in ToSet(x.endpoints) : /\ {"ok", "path", "source", "method"} \subseteq DOMAIN e
                                   /\ Listed(e.methods)

\* Everything that the plan of an inventory classifies is among the entries it looks through.
LEMMA CitedHas ==
  ASSUME NEW x, InventoryLists(x)
  PROVE  LET all == ToSet(CitedEntries(x)) IN
         /\ Listed(CitedEntries(x))
         /\ \A i \in SoundItems(x.environments) \cup SoundItems(x.security_schemes) \cup SoundItems(x.errors)
                     \cup SoundItems(x.operational) : Classified(i) \in all
         /\ \A i \in SoundItems(x.schemas) : /\ SchemaEntry(i) \in all
                                             /\ \A f \in ToSet(i.fields) : f.source # None => Classified(f) \in all
         /\ \A i \in SoundItems(Gate!Expand(x.endpoints)) : EndpointEntry(i) \in all
         /\ Listed(EndpointEntriesOf(Gate!Expand(x.endpoints)))
<1> DEFINE a == EntriesOf(x.environments)
           b == EntriesOf(x.security_schemes)
           c == EndpointEntriesOf(Gate!Expand(x.endpoints))
           d == SchemaEntriesOf(x.schemas)
           e == EntriesOf(x.errors)
           f == EntriesOf(x.operational)
           g == FlattenSeq([i \in DOMAIN SchemaEntriesOf(x.schemas) |-> SchemaEntriesOf(x.schemas)[i].evidence])
           all == CitedEntries(x)
<1>1. all = FlattenSeq(<<a, b, c, d, e, f, g>>)
  BY DEF CitedEntries
<1>2. Listed(Gate!Expand(x.endpoints))
  BY ExpandItems DEF InventoryLists
<1>3. Listed(a) /\ \A i \in SoundItems(x.environments) : Classified(i) \in ToSet(a)
  BY EntriesOfHas DEF InventoryLists
<1>4. Listed(b) /\ \A i \in SoundItems(x.security_schemes) : Classified(i) \in ToSet(b)
  BY EntriesOfHas DEF InventoryLists
<1>5. Listed(c) /\ \A i \in SoundItems(Gate!Expand(x.endpoints)) : EndpointEntry(i) \in ToSet(c)
  BY <1>2, EndpointEntriesHas
<1>6. Listed(d) /\ \A i \in SoundItems(x.schemas) : SchemaEntry(i) \in ToSet(d)
  BY SchemaEntriesHas DEF InventoryLists
<1>7. Listed(e) /\ \A i \in SoundItems(x.errors) : Classified(i) \in ToSet(e)
  BY EntriesOfHas DEF InventoryLists
<1>8. Listed(f) /\ \A i \in SoundItems(x.operational) : Classified(i) \in ToSet(f)
  BY EntriesOfHas DEF InventoryLists
<1>9. Listed(g) /\ \A i \in SoundItems(x.schemas) : \A h \in ToSet(i.fields) : h.source # None => Classified(h) \in ToSet(g)
  BY EvidenceHas DEF InventoryLists
<1> HIDE DEF a, b, c, d, e, f, g, all
<1>10. /\ Listed(all)
       /\ ToSet(a) \cup ToSet(b) \cup ToSet(c) \cup ToSet(d) \cup ToSet(e) \cup ToSet(f) \cup ToSet(g) \subseteq ToSet(all)
  BY <1>1, <1>3, <1>4, <1>5, <1>6, <1>7, <1>8, <1>9, SevenLists
<1>11. \A i \in SoundItems(x.environments) \cup SoundItems(x.security_schemes) \cup SoundItems(x.errors)
                \cup SoundItems(x.operational) : Classified(i) \in ToSet(all)
  BY <1>3, <1>4, <1>7, <1>8, <1>10
<1>12. \A i \in SoundItems(x.schemas) : SchemaEntry(i) \in ToSet(all)
  BY <1>6, <1>10
<1>13. \A i \in SoundItems(x.schemas) : \A h \in ToSet(i.fields) : h.source # None => Classified(h) \in ToSet(all)
  BY <1>9, <1>10
<1>14. \A i \in SoundItems(Gate!Expand(x.endpoints)) : EndpointEntry(i) \in ToSet(all)
  BY <1>5, <1>10
<1> QED
  BY <1>5, <1>10, <1>11, <1>12, <1>13, <1>14 DEF all, c

FileOk(f) ==
  /\ {"ok", "path", "source", "method", "url", "params", "responses"} \subseteq DOMAIN f
  /\ f.method = None /\ Listed(f.methods) /\ None \notin ToSet(f.methods)
  /\ Listed(f.params) /\ Listed(f.responses)

Written(x) ==
  /\ InventoryLists(x.inventory) /\ Listed(x.files) /\ Listed(x.integration)
  /\ \A f \in ToSet(x.files) : FileOk(f)

\* An extraction that is stated as ExtractionsStated says is written so.
LEMMA ExtractionWritten == ASSUME ExtractionsStated, extraction \in Extractions PROVE Written(extraction)
<1> DEFINE x == extraction
           v == x.inventory
<1>1. /\ Listed(x.files) /\ Listed(x.integration)
      /\ \A s \in ToSet(Gate!Sections) : Listed(v[s])
      /\ \A s \in ToSet(v.schemas) : Listed(s.fields)
      /\ \A e \in ToSet(v.endpoints) \cup ToSet(x.files) :
           /\ {"ok", "path", "source", "method"} \subseteq DOMAIN e /\ e.method = None
           /\ Listed(e.methods) /\ None \notin ToSet(e.methods)
      /\ \A f \in ToSet(x.files) :
           {"url", "params", "responses"} \subseteq DOMAIN f /\ Listed(f.params) /\ Listed(f.responses)
  BY DEF ExtractionsStated
<1>2. /\ Listed(v.environments) /\ Listed(v.security_schemes) /\ Listed(v.endpoints) /\ Listed(v.schemas)
      /\ Listed(v.errors) /\ Listed(v.operational)
  BY <1>1, SectionNames
<1>3. InventoryLists(v)
  BY <1>1, <1>2 DEF InventoryLists
<1>4. \A f \in ToSet(x.files) : FileOk(f)
  BY <1>1 DEF FileOk
<1> QED
  BY <1>1, <1>3, <1>4 DEF Written

\* The entry of a method is the entry but for it.
LEMMA OfHas ==
  ASSUME NEW e, "method" \in DOMAIN e, NEW m
  PROVE  /\ DOMAIN Of(e, m) = DOMAIN e /\ Of(e, m).method = m
         /\ \A f \in DOMAIN e \ {"method"} : Of(e, m)[f] = e[f]
BY DEF Of

\* Every item of the inventory that the plan takes is attributed.
InventoryAttributed(x, m) ==
  /\ \A i \in SoundItems(x.environments) \cup SoundItems(x.security_schemes) \cup SoundItems(x.schemas)
              \cup SoundItems(x.errors) \cup SoundItems(x.operational) : Attributed(i.source, m)
  /\ \A s \in SoundItems(x.schemas) : \A f \in ToSet(s.fields) : f.source # None => Attributed(f.source, m)
  /\ \A e \in SoundItems(x.endpoints) : e.methods # <<>> => Attributed(e.source, m)

\* The plan of the inventory: its entries, what they are of, and what is attributed when
\* nothing is unverified.
LEMMA InventoryHolds ==
  ASSUME ExtractionsStated, extraction \in Extractions
  PROVE  LET x == extraction.inventory
             E == InventoryPlan.endpoints
             U == InventoryPlan.unverified IN
         /\ Listed(E) /\ Listed(U)
         /\ \A n \in ToSet(E) : /\ EntryOk(n) /\ n.responses = <<>> /\ n.status \in {"supported", "unverified"}
                                /\ U = <<>> => n.status = "supported"
                                /\ {"server", "summary", "request", "examples", "security", "cites"} \subseteq DOMAIN n
         /\ \A e \in SoundItems(x.endpoints) : \A k \in ToSet(e.methods) :
              \E n \in ToSet(E) : n.path = e.path /\ n.method = k
         /\ U = <<>> => InventoryAttributed(x, manifest)
<1> DEFINE x == extraction.inventory
           E == InventoryPlan.endpoints
           U == InventoryPlan.unverified
           all == CitedEntries(x)
           items == Gate!Expand(x.endpoints)
<1>1. InventoryLists(x)
  BY ExtractionWritten DEF Written
<1>2. E = EndpointEntriesOf(items) /\ U = Unverified(all)
  BY InventoryPlanIs
<1>3. /\ Listed(items) /\ \A i \in ToSet(items) : \E e \in ToSet(x.endpoints) : \E k \in ToSet(e.methods) : i = Of(e, k)
      /\ \A e \in ToSet(x.endpoints) : \A k \in ToSet(e.methods) : Of(e, k) \in ToSet(items)
  <2> HIDE DEF x
  <2> QED
    BY <1>1, ExpandItems DEF InventoryLists
<1> HIDE DEF x, E, U, all, items
<1>4. /\ Listed(all)
      /\ \A i \in SoundItems(x.environments) \cup SoundItems(x.security_schemes) \cup SoundItems(x.errors)
                  \cup SoundItems(x.operational) : Classified(i) \in ToSet(all)
      /\ \A i \in SoundItems(x.schemas) : /\ SchemaEntry(i) \in ToSet(all)
                                          /\ \A f \in ToSet(i.fields) : f.source # None => Classified(f) \in ToSet(all)
      /\ \A i \in SoundItems(items) : EndpointEntry(i) \in ToSet(all)
  BY <1>1, CitedHas DEF all, items
<1>5. /\ Listed(E) /\ (\A i \in SoundItems(items) : EndpointEntry(i) \in ToSet(E))
      /\ \A n \in ToSet(E) : \E i \in SoundItems(items) : n = EndpointEntry(i)
  BY <1>2, <1>3, EndpointEntriesHas
<1>6. Listed(U) /\ (U = <<>> => \A i \in ToSet(all) : i.status # "unverified")
  BY <1>2, <1>4, NoneUnverified
<1>7. ASSUME NEW n \in ToSet(E)
      PROVE  /\ EntryOk(n) /\ n.responses = <<>> /\ n.status \in {"supported", "unverified"}
             /\ U = <<>> => n.status = "supported"
             /\ {"server", "summary", "request", "examples", "security", "cites"} \subseteq DOMAIN n
  <2>1. PICK i \in SoundItems(items) : n = EndpointEntry(i)
    BY <1>5
  <2>2. n \in ToSet(all)
    BY <1>4, <2>1
  <2>3. /\ EntryOk(n) /\ n.responses = <<>> /\ n.status \in {"supported", "unverified"}
        /\ {"examples", "server", "summary", "request", "security", "cites"} \subseteq DOMAIN n
    <3> DEFINE j == EndpointEntry(i)
    <3>1. EntryOk(j) /\ j.responses = <<>> /\ j.status \in {"supported", "unverified"}
      BY EndpointEntryHas
    <3>2. {"examples", "server", "summary", "request", "security", "cites"} \subseteq DOMAIN j
      BY EndpointEntryHas
    <3> HIDE DEF j
    <3> QED
      BY <2>1, <3>1, <3>2 DEF j
  <2>4. U = <<>> => n.status # "unverified"
    BY <1>6, <2>2
  <2> QED
    BY <2>3, <2>4
<1>8. ASSUME NEW e \in SoundItems(x.endpoints), NEW k \in ToSet(e.methods)
      PROVE  /\ Of(e, k) \in SoundItems(items) /\ Of(e, k).path = e.path /\ Of(e, k).method = k
             /\ Of(e, k).source = e.source
  <2>1. e \in ToSet(x.endpoints) /\ e.ok /\ {"ok", "path", "source", "method"} \subseteq DOMAIN e
    BY <1>1 DEF SoundItems, InventoryLists
  <2> DEFINE o == Of(e, k)
  <2>4. o.method = k /\ \A f \in DOMAIN e \ {"method"} : o[f] = e[f]
    BY <2>1, OfHas
  <2> HIDE DEF o
  <2>2. o.ok = e.ok /\ o.path = e.path /\ o.source = e.source /\ o.method = k
    BY <2>1, <2>4
  <2>3. Of(e, k) \in ToSet(items)
    BY <1>3, <2>1
  <2> QED
    BY <2>1, <2>2, <2>3 DEF SoundItems, o
<1>9. ASSUME NEW e \in SoundItems(x.endpoints), NEW k \in ToSet(e.methods)
      PROVE  \E n \in ToSet(E) : n.path = e.path /\ n.method = k
  <2> DEFINE n == EndpointEntry(Of(e, k))
  <2>1. n \in ToSet(E)
    BY <1>5, <1>8
  <2>2. n.path = Of(e, k).path /\ n.method = Of(e, k).method
    BY EndpointEntryHas
  <2>3. n.path = e.path /\ n.method = k
    BY <1>8, <2>2
  <2> HIDE DEF n
  <2> QED
    BY <2>1, <2>3
<1>10. ASSUME U = <<>> PROVE InventoryAttributed(x, manifest)
  <2>1. ASSUME NEW i, Classified(i) \in ToSet(all) PROVE Attributed(i.source, manifest)
    <3>1. Classified(i).status # "unverified"
      BY <1>6, <1>10, <2>1
    <3> QED
      BY <3>1, ClassifiedItem DEF Attributed
  <2>2. \A i \in SoundItems(x.environments) \cup SoundItems(x.security_schemes) \cup SoundItems(x.errors)
                 \cup SoundItems(x.operational) : Attributed(i.source, manifest)
    BY <1>4, <2>1
  <2>3. ASSUME NEW s \in SoundItems(x.schemas) PROVE Attributed(s.source, manifest)
    <3>1. SchemaEntry(s).status # "unverified"
      BY <1>4, <1>6, <1>10
    <3>2. Listed(s.fields)
      BY <1>1 DEF SoundItems, InventoryLists
    <3>3. SchemaEntry(s).status = Gate!Classify(s.source, manifest).status
      BY <3>2, SchemaEntryHas
    <3> QED
      BY <3>1, <3>3, ClassifyShape DEF Attributed
  <2>4. \A s \in SoundItems(x.schemas) : \A f \in ToSet(s.fields) : f.source # None => Attributed(f.source, manifest)
    BY <1>4, <2>1
  <2>5. ASSUME NEW e \in SoundItems(x.endpoints), e.methods # <<>> PROVE Attributed(e.source, manifest)
    <3>1. Listed(e.methods)
      BY <1>1 DEF SoundItems, InventoryLists
    <3>2. PICK k : k \in ToSet(e.methods)
      BY <2>5, <3>1, ListHas
    <3>3. EndpointEntry(Of(e, k)) \in ToSet(all)
      BY <1>4, <1>8, <3>2
    <3>4. EndpointEntry(Of(e, k)).status = Gate!Classify(e.source, manifest).status
      <4>1. EndpointEntry(Of(e, k)).status = Gate!Classify(Of(e, k).source, manifest).status
        BY EndpointEntryHas
      <4> QED
        BY <1>8, <3>2, <4>1
    <3>5. EndpointEntry(Of(e, k)).status # "unverified"
      BY <1>6, <1>10, <3>3
    <3> QED
      BY <3>4, <3>5, ClassifyShape DEF Attributed
  <2> QED
    BY <2>2, <2>3, <2>4, <2>5 DEF InventoryAttributed
<1> QED
  BY <1>5, <1>6, <1>7, <1>9, <1>10 DEF x, E, U

\* The details of some files.
DetailOf(x, d) ==
  \E f \in ToSet(x.files) :
    \/ d = f /\ f.methods = <<>>
    \/ \E k \in ToSet(f.methods) : d = Of(f, k)

\* The details are those of the files, and each method of a file has one.
LEMMA DetailsHold ==
  ASSUME ExtractionsStated, extraction \in Extractions
  PROVE  /\ Listed(Details) /\ \A d \in ToSet(Details) : DetailOf(extraction, d)
         /\ \A f \in ToSet(extraction.files) : \A k \in ToSet(f.methods) : Of(f, k) \in ToSet(Details)
<1> DEFINE files == extraction.files
           Row(f) == IF Gate!Expand(<<f>>) = <<>> THEN <<f>> ELSE Gate!Expand(<<f>>)
           rows == [i \in DOMAIN files |-> Row(files[i])]
           L == Len(files)
<1>1. Details = FlattenSeq(rows)
  BY DEF Details
<1>2. Listed(files) /\ \A f \in ToSet(files) : FileOk(f)
  BY ExtractionWritten DEF Written
<1>3. ASSUME NEW f \in ToSet(files)
      PROVE  /\ Listed(Row(f))
             /\ \A d \in ToSet(Row(f)) : (d = f /\ f.methods = <<>>) \/ \E k \in ToSet(f.methods) : d = Of(f, k)
             /\ \A k \in ToSet(f.methods) : Of(f, k) \in ToSet(Row(f))
  <2> DEFINE one == <<f>>
             g == Gate!Expand(one)
  <2>1. Listed(one) /\ ToSet(one) = {f}
    BY DEF Listed, ToSet
  <2>2. Listed(f.methods)
    BY <1>2 DEF FileOk
  <2> HIDE DEF one, files
  <2>3. /\ Listed(g) /\ \A d \in ToSet(g) : \E k \in ToSet(f.methods) : d = Of(f, k)
        /\ \A k \in ToSet(f.methods) : Of(f, k) \in ToSet(g)
    BY <2>1, <2>2, ExpandItems
  <2>4. Row(f) = IF g = <<>> THEN one ELSE g
    BY DEF one
  <2> HIDE DEF g, Row
  <2>5. CASE g = <<>>
    <3>1. ToSet(f.methods) = {}
      BY <2>3, <2>5, ListHas
    <3>2. f.methods = <<>>
      BY <2>2, <3>1, ListHas
    <3> QED
      BY <2>1, <2>4, <2>5, <3>1, <3>2
  <2>6. CASE g # <<>>
    BY <2>3, <2>4, <2>6
  <2> QED
    BY <2>5, <2>6
<1>4. DOMAIN rows = DOMAIN files /\ rows = [i \in DOMAIN files |-> rows[i]] /\ \A i \in DOMAIN files : rows[i] = Row(files[i])
  OBVIOUS
<1> HIDE DEF rows, Row, files
<1>5. Listed(rows) /\ Len(rows) = L
  BY <1>2, <1>4, ListOver
<1>6. /\ DOMAIN files = 1..L /\ (\A i \in 1..L : files[i] \in ToSet(files))
      /\ \A f \in ToSet(files) : \E i \in 1..L : files[i] = f
  BY <1>2, ListHas
<1>7. (\A i \in 1..L : rows[i] \in ToSet(rows)) /\ \A r \in ToSet(rows) : \E i \in 1..L : rows[i] = r
  BY <1>5, ListHas
<1>8. (\A r \in ToSet(rows) : \E f \in ToSet(files) : r = Row(f)) /\ \A f \in ToSet(files) : Row(f) \in ToSet(rows)
  BY <1>4, <1>6, <1>7
<1>9. \A r \in ToSet(rows) : Listed(r)
  BY <1>3, <1>8
<1>10. Listed(FlattenSeq(rows)) /\ ToSet(FlattenSeq(rows)) = UNION {ToSet(r) : r \in ToSet(rows)}
  BY <1>5, <1>9, FlattenItems
<1>11. ASSUME NEW d \in ToSet(FlattenSeq(rows)) PROVE DetailOf(extraction, d)
  <2>1. PICK r \in ToSet(rows) : d \in ToSet(r)
    BY <1>10
  <2>2. PICK f \in ToSet(files) : r = Row(f)
    BY <1>8
  <2>3. (d = f /\ f.methods = <<>>) \/ \E k \in ToSet(f.methods) : d = Of(f, k)
    BY <1>3, <2>1, <2>2
  <2> QED
    BY <2>3 DEF DetailOf, files
<1>12. ASSUME NEW f \in ToSet(files), NEW k \in ToSet(f.methods) PROVE Of(f, k) \in ToSet(FlattenSeq(rows))
  <2>1. Of(f, k) \in ToSet(Row(f)) /\ Row(f) \in ToSet(rows)
    BY <1>3, <1>8
  <2> QED
    BY <1>10, <2>1
<1> QED
  BY <1>1, <1>10, <1>11, <1>12 DEF files

-----------------------------------------------------------------------------
(* The merging of the files.                                               *)

\* The rest of a list has everything but its first.
LEMMA ListTail ==
  ASSUME NEW s, Listed(s), s # <<>>
  PROVE  /\ Listed(Tail(s)) /\ Head(s) \in ToSet(s) /\ ToSet(Tail(s)) \subseteq ToSet(s)
         /\ ToSet(s) \subseteq {Head(s)} \cup ToSet(Tail(s))
<1> DEFINE S == ToSet(s)
           t == Tail(s)
<1>1. s \in Seq(S) /\ Len(s) \in Nat /\ DOMAIN s = 1..Len(s)
  BY ListHas DEF Listed
<1>2. Head(s) = s[1] /\ t \in Seq(S) /\ Len(t) = Len(s) - 1 /\ \A i \in 1..Len(t) : t[i] = s[i + 1]
  BY <1>1, HeadTailProperties
<1>3. Len(s) # 0
  BY ListHas
<1>4. Head(s) \in S
  BY <1>1, <1>2, <1>3, ListHas
<1>5. Listed(t) /\ ToSet(t) \subseteq S
  BY <1>2, ListsOf
<1>6. ASSUME NEW x \in S PROVE x = Head(s) \/ x \in ToSet(t)
  <2>1. PICK i \in 1..Len(s) : s[i] = x
    BY ListHas
  <2>2. CASE i = 1
    BY <1>2, <2>1, <2>2
  <2>3. CASE i # 1
    <3>1. i - 1 \in 1..Len(t) /\ (i - 1) + 1 = i
      BY <1>1, <1>2, <2>3
    <3>2. t[i - 1] = x
      BY <1>2, <2>1, <3>1
    <3> QED
      BY <1>5, <3>1, <3>2, ListHas
  <2> QED
    BY <2>2, <2>3
<1> QED
  BY <1>4, <1>5, <1>6

\* A list with another item in the place of one.
LEMMA ListPut ==
  ASSUME NEW s, Listed(s), NEW i \in 1..Len(s), NEW x
  PROVE  LET t == [s EXCEPT ![i] = x] IN
         /\ Listed(t) /\ ToSet(t) \subseteq ToSet(s) \cup {x} /\ x \in ToSet(t)
         /\ \A y \in ToSet(s) : y = s[i] \/ y \in ToSet(t)
<1> DEFINE t == [s EXCEPT ![i] = x]
           T == ToSet(s) \cup {x}
           f == [j \in 1..Len(s) |-> t[j]]
<1>1. Len(s) \in Nat /\ DOMAIN s = 1..Len(s) /\ \A j \in 1..Len(s) : s[j] \in ToSet(s)
  BY ListHas
<1>2. t = f /\ DOMAIN t = 1..Len(s) /\ t[i] = x /\ \A j \in 1..Len(s) : j # i => t[j] = s[j]
  BY <1>1
<1>3. Listed(f) /\ ToSet(f) = {t[j] : j \in 1..Len(s)}
  <2> HIDE DEF t
  <2> QED
    BY <1>1, ListOf
<1> HIDE DEF t, f
<1>4. Listed(t) /\ ToSet(t) = {t[j] : j \in 1..Len(s)}
  BY <1>2, <1>3
<1>5. ToSet(t) \subseteq T /\ x \in ToSet(t)
  BY <1>1, <1>2, <1>4
<1>6. ASSUME NEW y \in ToSet(s) PROVE y = s[i] \/ y \in ToSet(t)
  <2>1. PICK j \in 1..Len(s) : s[j] = y
    BY ListHas
  <2> QED
    BY <1>2, <1>4, <2>1
<1> QED
  BY <1>4, <1>5, <1>6 DEF t

\* The entry that a file is merged into is of its operation, or a webhook as it is.
LEMMA MatchIndexHas ==
  ASSUME NEW d, NEW item, Listed(draft.endpoints), MatchIndex(d, item) # 0
  PROVE  LET e == draft.endpoints[MatchIndex(d, item)] IN
         /\ MatchIndex(d, item) \in 1..Len(draft.endpoints) /\ e.method = d.method /\ e.path = PathOf(d)
<1> DEFINE all == draft.endpoints
           first(indices) == IF indices = {} THEN 0 ELSE Min(indices)
           hooks == {i \in DOMAIN all \ consumed : all[i].method = d.method /\ all[i].path = None}
           located == {i \in hooks : item.source # None /\ item.source \in {c.locator : c \in all[i].cites}}
           sourced == {i \in hooks : \E c \in all[i].cites : c.source # None
                                       /\ c.source \in {k.source : k \in item.cites}}
           P == {i \in DOMAIN all : all[i].method = d.method /\ all[i].path = PathOf(d)}
           n == MatchIndex(d, item)
<1>1. n = IF PathOf(d) # None THEN first(P) ELSE IF located # {} THEN first(located) ELSE first(sourced)
  BY DEF MatchIndex
<1>2. Len(all) \in Nat /\ DOMAIN all = 1..Len(all)
  BY ListHas
<1>3. \A i \in P : i \in 1..Len(all) /\ all[i].method = d.method /\ all[i].path = PathOf(d)
  BY <1>2
<1>4. PathOf(d) = None => located \subseteq P /\ sourced \subseteq P
  OBVIOUS
<1>5. P \subseteq 1..Len(all)
  BY <1>2
<1> HIDE DEF all, P, n, hooks, located, sourced
<1>6. ASSUME NEW S, S \subseteq P, first(S) # 0 PROVE first(S) \in P
  <2>1. S # {} /\ first(S) = Min(S)
    BY <1>6
  <2>2. Min(S) \in S
    BY <1>2, <1>5, <1>6, <2>1, LeastExists
  <2> QED
    BY <1>6, <2>1, <2>2
<1>7. n \in P
  <2> DEFINE fP == first(P)
             fL == first(located)
             fS == first(sourced)
  <2>1. n \in {fP, fL, fS} /\ (PathOf(d) # None => n = fP)
    BY <1>1
  <2>2. n # 0
    BY DEF n
  <2>3. fP # 0 => fP \in P
    BY <1>6
  <2>4. PathOf(d) = None /\ fL # 0 => fL \in P
    BY <1>4, <1>6
  <2>5. PathOf(d) = None /\ fS # 0 => fS \in P
    BY <1>4, <1>6
  <2> HIDE DEF fP, fL, fS
  <2> QED
    BY <2>1, <2>2, <2>3, <2>4, <2>5
<1> QED
  BY <1>3, <1>7 DEF n, all

\* A file's method is merged: it is attributed unless something is unverified, and the entry of its
\* operation has what it states.
Merged(m, E, U, f, k) ==
  /\ U = <<>> => Attributed(f.source, m)
  /\ PathOf(f) # None => \E e \in ToSet(E) : e.path = PathOf(f) /\ e.method = k /\ Carries(e, f)

\* The responses of an operation come from a file that was written for it.
Founded(x, E) ==
  \A e \in ToSet(E) : e.path # None /\ e.responses # <<>> =>
    \E f \in SoundItems(x.files) : PathOf(f) = e.path /\ e.method \in ToSet(f.methods) /\ f.responses # <<>>

\* The operations of the inventory have their entries.
Present(x, E) ==
  \A e \in SoundItems(x.inventory.endpoints) : e.path # None =>
    \A k \in ToSet(e.methods) : \E n \in ToSet(E) : n.path = e.path /\ n.method = k

\* Some entries are of the operations of others, with what these have.
Grown(F, E) == \A e \in ToSet(E) : e.path # None => \E n \in ToSet(F) : Same(n, e) /\ Carries(n, e)

\* Entries of which none is in doubt while nothing is unverified.
Entries(E, U) ==
  /\ Listed(E) /\ Listed(U)
  /\ \A e \in ToSet(E) : EntryOk(e) /\ e.status \in {"supported", "unverified"}
                         /\ (U = <<>> => e.status = "supported")

\* Entries E and unverified items U while the details that are left are still to be merged.
Merging(x, m, E, U, left) ==
  /\ Entries(E, U) /\ Listed(left) /\ Founded(x, E) /\ Present(x, E)
  /\ U = <<>> => InventoryAttributed(x.inventory, m)
  /\ \A d \in ToSet(left) : DetailOf(x, d)
  /\ \A f \in SoundItems(x.files) : \A k \in ToSet(f.methods) : Of(f, k) \in ToSet(left) \/ Merged(m, E, U, f, k)

\* What is merged stays so in entries that have grown.
LEMMA MergedStays ==
  ASSUME NEW m, NEW E, NEW U, NEW F, NEW V, NEW f, NEW k, Merged(m, E, U, f, k), Grown(F, E), V = <<>> => U = <<>>
  PROVE  Merged(m, F, V, f, k)
<1>1. ASSUME PathOf(f) # None PROVE \E e \in ToSet(F) : e.path = PathOf(f) /\ e.method = k /\ Carries(e, f)
  <2>1. PICK e \in ToSet(E) : e.path = PathOf(f) /\ e.method = k /\ Carries(e, f)
    BY <1>1 DEF Merged
  <2>2. PICK n \in ToSet(F) : Same(n, e) /\ Carries(n, e)
    BY <1>1, <2>1 DEF Grown
  <2>3. n.path = PathOf(f) /\ n.method = k
    BY <2>1, <2>2 DEF Same
  <2>4. Carries(n, f)
    BY <2>1, <2>2, CarriesAlong
  <2> QED
    BY <2>3, <2>4
<1> QED
  BY <1>1 DEF Merged

\* So do the operations of the inventory.
LEMMA PresentStays ==
  ASSUME NEW x, NEW E, NEW F, Present(x, E), Grown(F, E)
  PROVE  Present(x, F)
<1> SUFFICES ASSUME NEW e \in SoundItems(x.inventory.endpoints), e.path # None, NEW k \in ToSet(e.methods)
             PROVE  \E n \in ToSet(F) : n.path = e.path /\ n.method = k
  BY DEF Present
<1>1. PICK n \in ToSet(E) : n.path = e.path /\ n.method = k
  BY DEF Present
<1>2. PICK o \in ToSet(F) : Same(o, n)
  BY <1>1 DEF Grown
<1> QED
  BY <1>1, <1>2 DEF Same

\* One step of the merging: the entries grow, and the first detail that was left is merged.
LEMMA MergingStep ==
  ASSUME NEW x, NEW m, NEW E, NEW U, NEW left, Merging(x, m, E, U, left), left # <<>>,
         NEW F, NEW V, Entries(F, V), Grown(F, E), V = <<>> => U = <<>>, Founded(x, F),
         \A f \in SoundItems(x.files) : \A k \in ToSet(f.methods) : Of(f, k) = Head(left) => Merged(m, F, V, f, k)
  PROVE  Merging(x, m, F, V, Tail(left))
<1>1. /\ Listed(left) /\ Present(x, E) /\ (U = <<>> => InventoryAttributed(x.inventory, m))
      /\ \A d \in ToSet(left) : DetailOf(x, d)
      /\ \A f \in SoundItems(x.files) : \A k \in ToSet(f.methods) : Of(f, k) \in ToSet(left) \/ Merged(m, E, U, f, k)
  BY DEF Merging
<1>2. /\ Listed(Tail(left)) /\ ToSet(Tail(left)) \subseteq ToSet(left)
      /\ ToSet(left) \subseteq {Head(left)} \cup ToSet(Tail(left))
  BY <1>1, ListTail
<1>3. Present(x, F)
  BY <1>1, PresentStays
<1>4. ASSUME NEW f \in SoundItems(x.files), NEW k \in ToSet(f.methods)
      PROVE  Of(f, k) \in ToSet(Tail(left)) \/ Merged(m, F, V, f, k)
  <2>1. CASE Of(f, k) \in ToSet(left)
    <3>1. Of(f, k) = Head(left) \/ Of(f, k) \in ToSet(Tail(left))
      BY <1>2, <2>1
    <3> QED
      BY <3>1
  <2>2. CASE Merged(m, E, U, f, k)
    BY <2>2, MergedStays
  <2> QED
    BY <1>1, <2>1, <2>2
<1> QED
  BY <1>1, <1>2, <1>3, <1>4 DEF Merging

\* A file's entry for a method is of the file.
LEMMA OfFile ==
  ASSUME NEW f, FileOk(f), NEW k
  PROVE  /\ Of(f, k).ok = f.ok /\ Of(f, k).source = f.source /\ PathOf(Of(f, k)) = PathOf(f) /\ Of(f, k).method = k
         /\ Of(f, k).params = f.params /\ Of(f, k).responses = f.responses
<1> DEFINE o == Of(f, k)
<1>1. {"ok", "path", "source", "method", "url", "params", "responses"} \subseteq DOMAIN f
  BY DEF FileOk
<1>2. o.method = k /\ \A n \in DOMAIN f \ {"method"} : o[n] = f[n]
  BY <1>1, OfHas
<1> HIDE DEF o
<1>3. o.ok = f.ok /\ o.source = f.source /\ o.method = k /\ o.params = f.params /\ o.responses = f.responses
  BY <1>1, <1>2
<1>4. o.path = f.path /\ o.url = f.url
  BY <1>1, <1>2
<1>5. PathOf(o) = PathOf(f)
  BY <1>4 DEF PathOf
<1> QED
  BY <1>3, <1>5 DEF o

\* A detail that has a method is a file's.
LEMMA DetailHas ==
  ASSUME NEW x, Written(x), NEW d, DetailOf(x, d), d.method # None
  PROVE  \E f \in ToSet(x.files) : \E k \in ToSet(f.methods) : FileOk(f) /\ d = Of(f, k)
<1>1. \A f \in ToSet(x.files) : FileOk(f) /\ f.method = None
  BY DEF Written, FileOk
<1> QED
  BY <1>1 DEF DetailOf

\* A detail is taken: an entry w of its operation has what it states.
LEMMA DetailTaken ==
  ASSUME NEW x, Written(x), NEW E, NEW U, NEW left, Merging(x, manifest, E, U, left), left # <<>>,
         NEW d, d = Head(left), d.method # None, d.ok,
         NEW F, Listed(F), NEW w, w \in ToSet(F), ToSet(F) \subseteq ToSet(E) \cup {w}, Grown(F, E),
         EntryOk(w), w.path = PathOf(d), w.method = d.method, Carries(w, d),
         w.status \in {"supported", "unverified"}, w.status = "supported" => Classified(d).status = "supported",
         w.responses # <<>> => d.responses # <<>> \/ \E e \in ToSet(E) : Same(e, w) /\ e.responses # <<>>,
         NEW V, Listed(V), V = <<>> => U = <<>> /\ w.status = "supported"
  PROVE  Merging(x, manifest, F, V, Tail(left))
<1>1. /\ Entries(E, U) /\ Listed(left) /\ Founded(x, E) /\ \A c \in ToSet(left) : DetailOf(x, c)
  BY DEF Merging
<1>2. d \in ToSet(left)
  BY <1>1, ListTail
<1>3. PICK g \in ToSet(x.files) : \E k \in ToSet(g.methods) : FileOk(g) /\ d = Of(g, k)
  BY <1>1, <1>2, DetailHas
<1>4. FileOk(g) /\ d.method \in ToSet(g.methods) /\ PathOf(d) = PathOf(g) /\ d.responses = g.responses /\ d.ok = g.ok
  BY <1>3, OfFile
<1>5. g \in SoundItems(x.files)
  BY <1>3, <1>4 DEF SoundItems
<1>6. Entries(F, V)
  BY <1>1 DEF Entries
<1>7. Founded(x, F)
  <2> SUFFICES ASSUME NEW e \in ToSet(F), e.path # None, e.responses # <<>>
               PROVE  \E f \in SoundItems(x.files) :
                        PathOf(f) = e.path /\ e.method \in ToSet(f.methods) /\ f.responses # <<>>
    BY DEF Founded
  <2>1. CASE e \in ToSet(E)
    BY <1>1, <2>1 DEF Founded
  <2>2. CASE e = w
    <3>1. CASE d.responses # <<>>
      BY <1>4, <1>5, <2>2, <3>1
    <3>2. CASE \E c \in ToSet(E) : Same(c, w) /\ c.responses # <<>>
      <4>1. PICK c \in ToSet(E) : Same(c, w) /\ c.responses # <<>>
        BY <3>2
      <4>2. c.path = e.path /\ c.method = e.method
        BY <2>2, <4>1 DEF Same
      <4> QED
        BY <1>1, <4>1, <4>2 DEF Founded
    <3> QED
      BY <2>2, <3>1, <3>2
  <2> QED
    BY <2>1, <2>2
<1>8. ASSUME NEW f \in SoundItems(x.files), NEW k \in ToSet(f.methods), Of(f, k) = d
      PROVE  Merged(manifest, F, V, f, k)
  <2>1. FileOk(f)
    BY DEF SoundItems, Written
  <2>2. f.source = d.source /\ PathOf(f) = PathOf(d) /\ k = d.method /\ f.params = d.params /\ f.responses = d.responses
    BY <1>8, <2>1, OfFile
  <2>3. V = <<>> => Attributed(f.source, manifest)
    BY <2>2, ClassifiedItem DEF Attributed
  <2>4. Carries(w, f)
    BY <2>2 DEF Carries
  <2> QED
    BY <2>2, <2>3, <2>4 DEF Merged
<1> QED
  BY <1>6, <1>7, <1>8, MergingStep

\* The stricter of two statuses.
LEMMA StricterHas ==
  ASSUME NEW a \in {"supported", "unverified"}, NEW b \in {"supported", "unverified"}
  PROVE  Stricter(a, b) \in {"supported", "unverified"} /\ (Stricter(a, b) = "supported" => a = "supported" /\ b = "supported")
BY DEF Stricter, Rank

-----------------------------------------------------------------------------
(* The draft.                                                              *)

\* The draft while the files are merged into it.
DraftHas(dr) == {"endpoints", "unverified", "missing", "conflicts", "integration"} \subseteq DOMAIN dr
Building == DraftHas(draft) /\ Merging(extraction, manifest, draft.endpoints, draft.unverified, pending)

\* Entries are their own growth.
LEMMA GrownItself == ASSUME NEW E PROVE Grown(E, E)
BY CarriesItself DEF Grown, Same

\* A step that merges nothing is of a file without a method, or of one that the plan's models refuse.
LEMMA NothingMerged ==
  ASSUME Written(extraction), Building, pending # <<>>, Next1.method = None \/ ~Next1.ok
  PROVE  Merging(extraction, manifest, draft.endpoints, draft.unverified, Tail(pending))
<1>1. Merging(extraction, manifest, draft.endpoints, draft.unverified, pending)
  BY DEF Building
<1>2. Entries(draft.endpoints, draft.unverified) /\ Founded(extraction, draft.endpoints)
  BY <1>1 DEF Merging
<1>3. ASSUME NEW f \in SoundItems(extraction.files), NEW k \in ToSet(f.methods) PROVE Of(f, k) # Head(pending)
  <2>1. FileOk(f) /\ f.ok
    BY DEF SoundItems, Written
  <2>2. k # None
    BY <2>1 DEF FileOk
  <2>3. Of(f, k).method = k /\ Of(f, k).ok = f.ok
    BY <2>1, OfFile
  <2> QED
    BY <2>1, <2>2, <2>3 DEF Next1
<1> QED
  BY <1>1, <1>2, <1>3, GrownItself, MergingStep

\* A file without a method changes nothing but the gaps.
LEMMA SkipKeeps == ASSUME Written(extraction), Building, SkipDetail PROVE Building'
<1>1. /\ pending # <<>> /\ Next1.method = None /\ draft' = [draft EXCEPT !.missing = Append(@, Gap)]
      /\ pending' = Tail(pending) /\ extraction' = extraction /\ manifest' = manifest
  BY DEF SkipDetail, Taken, inputs
<1>2. DraftHas(draft') /\ draft'.endpoints = draft.endpoints /\ draft'.unverified = draft.unverified
  BY <1>1 DEF Building, DraftHas
<1>3. Merging(extraction, manifest, draft.endpoints, draft.unverified, Tail(pending))
  BY <1>1, NothingMerged
<1> QED
  BY <1>1, <1>2, <1>3 DEF Building

\* What a detail of the draft's files has.
LEMMA NextDetail ==
  ASSUME Written(extraction), Building, pending # <<>>, Next1.method # None
  PROVE  Listed(Next1.params) /\ Listed(Next1.responses)
<1>1. Listed(pending) /\ \A d \in ToSet(pending) : DetailOf(extraction, d)
  BY DEF Building, Merging
<1>2. Next1 \in ToSet(pending)
  BY <1>1, ListTail DEF Next1
<1>3. PICK f \in ToSet(extraction.files) : \E k \in ToSet(f.methods) : FileOk(f) /\ Next1 = Of(f, k)
  BY <1>1, <1>2, DetailHas
<1>4. FileOk(f) /\ Next1.params = f.params /\ Next1.responses = f.responses
  BY <1>3, OfFile
<1> QED
  BY <1>4 DEF FileOk

\* A detail that is merged into its entry.
LEMMA MergeKeeps == ASSUME Written(extraction), Building, MergeDetail PROVE Building'
<1> DEFINE d == Next1
           item == Classified(d)
           i == MatchIndex(d, item)
           E == draft.endpoints
           U == draft.unverified
           e == E[i]
           status == Stricter(e.status, item.status)
           v == WithFields(e, d)
           w == [v EXCEPT !.status = status, !.cites = @ \cup item.cites]
           flagged == status # e.status /\ status \in {"unverified", "conflicting"}
           F == [E EXCEPT ![i] = w]
           V == IF flagged THEN Append(U, item) ELSE U
           gaps == draft.missing \o MissingOf(d)
           refused == Append(draft.missing, Gap) \o MissingOf(d)
           put == [draft EXCEPT !.endpoints[i] = w, !.unverified = IF flagged THEN Append(@, item) ELSE @,
                                !.missing = @ \o MissingOf(d), !.conflicts = @ \o d.conflicts]
           noted == [draft EXCEPT !.missing = Append(@, Gap) \o MissingOf(d), !.conflicts = @ \o d.conflicts]
<1>1. /\ pending # <<>> /\ d.method # None /\ i # 0
      /\ (IF d.ok THEN draft' = put ELSE draft' = noted)
      /\ pending' = Tail(pending) /\ extraction' = extraction /\ manifest' = manifest
  BY DEF MergeDetail, Taken, inputs
<1>2. CASE ~d.ok
  <2>1. draft' = noted
    BY <1>1, <1>2
  <2>2. DraftHas(draft') /\ draft'.endpoints = E /\ draft'.unverified = U
    BY <2>1 DEF Building, DraftHas
  <2>3. Merging(extraction, manifest, E, U, Tail(pending))
    BY <1>1, <1>2, NothingMerged
  <2> QED
    BY <1>1, <2>2, <2>3 DEF Building
<1>3. CASE d.ok
  <2>1. draft' = put
    BY <1>1, <1>3
  <2>2. DraftHas(draft') /\ draft'.endpoints = F /\ draft'.unverified = V
    <3>1. {"endpoints", "unverified", "missing"} \subseteq DOMAIN draft
      BY DEF Building, DraftHas
    <3>2. DOMAIN draft' = DOMAIN draft
      BY <2>1
    <3>3. put.endpoints = F
      BY <3>1
    <3>4. put.unverified = V
      BY <3>1
    <3> QED
      BY <2>1, <3>2, <3>3, <3>4 DEF Building, DraftHas
  <2>3. Merging(extraction, manifest, E, U, pending) /\ Entries(E, U)
    BY DEF Building, Merging
  <2>4. i \in 1..Len(E) /\ e.method = d.method /\ e.path = PathOf(d) /\ Listed(E) /\ Listed(U)
    BY <1>1, <2>3, MatchIndexHas DEF Entries
  <2>5. e \in ToSet(E) /\ EntryOk(e) /\ e.status \in {"supported", "unverified"} /\ (U = <<>> => e.status = "supported")
    BY <2>3, <2>4, ListHas DEF Entries
  <2>6. Listed(d.params) /\ Listed(d.responses)
    BY <1>1, NextDetail
  <2>7. item.status \in {"supported", "unverified"}
    BY ClassifiedItem
  <2>8. status \in {"supported", "unverified"} /\ (status = "supported" => e.status = "supported" /\ item.status = "supported")
    BY <2>5, <2>7, StricterHas
  <2>9. /\ EntryOk(v) /\ Same(v, e) /\ Carries(v, e) /\ Carries(v, d)
        /\ (v.responses # <<>> => e.responses # <<>> \/ d.responses # <<>>)
    <3> HIDE DEF d, e
    <3> QED
      BY <2>5, <2>6, WithFieldsCarries
  <2>10. /\ EntryOk(w) /\ w.path = v.path /\ w.method = v.method /\ w.params = v.params /\ w.responses = v.responses
         /\ w.status = status
    <3> HIDE DEF v, status, item
    <3>1. {"path", "method", "status", "params", "responses"} \subseteq DOMAIN v
      BY <2>9 DEF EntryOk
    <3>2. DOMAIN w = DOMAIN v
      OBVIOUS
    <3>3. w.path = v.path /\ w.method = v.method /\ w.params = v.params /\ w.responses = v.responses /\ w.status = status
      BY <3>1
    <3> HIDE DEF w
    <3> QED
      BY <2>9, <3>1, <3>2, <3>3 DEF EntryOk
  <2> HIDE DEF w
  <2>11. Same(w, e) /\ Carries(w, e) /\ Carries(w, d) /\ w.path = PathOf(d) /\ w.method = d.method
    BY <2>4, <2>9, <2>10 DEF Same, Carries
  <2>12. /\ Listed(F) /\ ToSet(F) \subseteq ToSet(E) \cup {w} /\ w \in ToSet(F)
         /\ \A y \in ToSet(E) : y = e \/ y \in ToSet(F)
    <3> HIDE DEF i, E
    <3> QED
      BY <2>4, ListPut
  <2>13. Grown(F, E)
    <3> SUFFICES ASSUME NEW y \in ToSet(E) PROVE \E n \in ToSet(F) : Same(n, y) /\ Carries(n, y)
      BY DEF Grown
    <3> QED
      BY <2>11, <2>12, CarriesItself DEF Same
  <2>14. Listed(V)
    BY <2>4, ListAppend
  <2>15. V = <<>> => U = <<>> /\ w.status = "supported"
    <3> DEFINE a == Append(U, item)
    <3>2. Listed(a) /\ item \in ToSet(a)
      BY <2>4, ListAppend
    <3> HIDE DEF a
    <3>3. a # <<>>
      BY <3>2, ListHas
    <3>1. flagged => V # <<>>
      BY <3>3 DEF a
    <3> HIDE DEF status, e, U
    <3> QED
      BY <2>5, <2>8, <2>10, <3>1
  <2>16. w.responses # <<>> => d.responses # <<>> \/ \E c \in ToSet(E) : Same(c, w) /\ c.responses # <<>>
    BY <2>5, <2>9, <2>10, <2>11 DEF Same
  <2>17. d = Head(pending)
    BY DEF Next1
  <2>18. w.status \in {"supported", "unverified"} /\ (w.status = "supported" => Classified(d).status = "supported")
    BY <2>8, <2>10
  <2>19. d.method # None /\ pending # <<>>
    BY <1>1
  <2>20. EntryOk(w)
    BY <2>10
  <2> HIDE DEF d, item, i, E, U, e, status, v, flagged, F, V, gaps, refused, put, noted
  <2>21. Merging(extraction, manifest, F, V, Tail(pending))
    BY <1>3, <2>3, <2>11, <2>12, <2>13, <2>14, <2>15, <2>16, <2>17, <2>18, <2>19, <2>20, DetailTaken
  <2> QED
    BY <1>1, <2>2, <2>21 DEF Building
<1> QED
  BY <1>2, <1>3

\* A detail that becomes an entry of its own.
LEMMA AddKeeps == ASSUME Written(extraction), Building, AddDetail PROVE Building'
<1> DEFINE d == Next1
           item == Classified(d)
           E == draft.endpoints
           U == draft.unverified
           n == EndpointEntry(d)
           w == [n EXCEPT
                  !.path = PathOf(d), !.summary = None, !.server = None, !.params = d.params,
                  !.request = d.request, !.responses = d.responses, !.examples = d.examples, !.security = d.security]
           F == Append(E, w)
           V == U \o Unverified(<<item>>)
           put == [draft EXCEPT !.endpoints = Append(@, w), !.unverified = @ \o Unverified(<<item>>),
                                !.missing = @ \o MissingOf(d), !.conflicts = @ \o d.conflicts]
           noted == [draft EXCEPT !.missing = Append(@, Gap) \o MissingOf(d), !.conflicts = @ \o d.conflicts]
<1>1. /\ pending # <<>> /\ d.method # None
      /\ draft' = (IF d.ok THEN put ELSE noted)
      /\ pending' = Tail(pending) /\ extraction' = extraction /\ manifest' = manifest
  BY DEF AddDetail, Taken, inputs
<1>2. CASE ~d.ok
  <2>1. draft' = noted
    BY <1>1, <1>2
  <2>2. DraftHas(draft') /\ draft'.endpoints = E /\ draft'.unverified = U
    BY <2>1 DEF Building, DraftHas
  <2>3. Merging(extraction, manifest, E, U, Tail(pending))
    BY <1>1, <1>2, NothingMerged
  <2> QED
    BY <1>1, <2>2, <2>3 DEF Building
<1>3. CASE d.ok
  <2>1. draft' = put
    BY <1>1, <1>3
  <2>2. DraftHas(draft') /\ draft'.endpoints = F /\ draft'.unverified = V
    <3>1. {"endpoints", "unverified", "missing"} \subseteq DOMAIN draft
      BY DEF Building, DraftHas
    <3>2. DOMAIN draft' = DOMAIN draft
      BY <2>1
    <3>3. put.endpoints = F
      BY <3>1
    <3>4. put.unverified = V
      BY <3>1
    <3> QED
      BY <2>1, <3>2, <3>3, <3>4 DEF Building, DraftHas
  <2>3. Merging(extraction, manifest, E, U, pending) /\ Entries(E, U)
    BY DEF Building, Merging
  <2>4. Listed(E) /\ Listed(U)
    BY <2>3 DEF Entries
  <2>5. Listed(d.params) /\ Listed(d.responses)
    BY <1>1, NextDetail
  <2>6. item.status \in {"supported", "unverified"} /\ item.status = Gate!Classify(d.source, manifest).status
    BY ClassifiedItem
  <2>7. EntryOk(n) /\ n.method = d.method /\ n.status = Gate!Classify(d.source, manifest).status
    BY EndpointEntryHas
  <2>8. /\ EntryOk(w) /\ w.path = PathOf(d) /\ w.method = d.method /\ w.params = d.params
        /\ w.responses = d.responses /\ w.status = item.status
    <3> HIDE DEF n, d, item
    <3>1. {"path", "method", "status", "params", "responses"} \subseteq DOMAIN n
      BY <2>7 DEF EntryOk
    <3>2. DOMAIN w = DOMAIN n
      OBVIOUS
    <3>3. w.path = PathOf(d) /\ w.method = n.method /\ w.params = d.params /\ w.responses = d.responses /\ w.status = n.status
      BY <3>1
    <3> HIDE DEF w
    <3> QED
      BY <2>5, <2>6, <2>7, <3>1, <3>2, <3>3 DEF EntryOk
  <2> HIDE DEF w
  <2>9. Listed(F) /\ ToSet(F) = ToSet(E) \cup {w}
    BY <2>4, ListAppend
  <2>10. Grown(F, E)
    BY <2>9, CarriesItself DEF Grown, Same
  <2>11. Carries(w, d)
    BY <2>8 DEF Carries
  <2>12. Listed(V) /\ (V = <<>> => U = <<>> /\ w.status = "supported")
    <3> DEFINE one == <<item>>
               more == Unverified(one)
    <3>1. Listed(one) /\ ToSet(one) = {item}
      BY DEF Listed, ToSet
    <3> HIDE DEF one, item
    <3>2. Listed(more) /\ (more = <<>> => item.status # "unverified")
      BY <3>1, NoneUnverified
    <3> HIDE DEF more, U
    <3>3. Listed(V) /\ ToSet(V) = ToSet(U) \cup ToSet(more)
      BY <2>4, <3>2, ListConcat DEF more, one
    <3>4. V = <<>> => U = <<>> /\ more = <<>>
      <4> HIDE DEF V
      <4> QED
        BY <2>4, <3>2, <3>3, ListHas
    <3> HIDE DEF V
    <3> QED
      BY <2>6, <2>8, <3>2, <3>3, <3>4 DEF item
  <2>13. d = Head(pending)
    BY DEF Next1
  <2>14. w.status \in {"supported", "unverified"} /\ (w.status = "supported" => Classified(d).status = "supported")
    BY <2>6, <2>8
  <2>15. d.method # None /\ pending # <<>>
    BY <1>1
  <2>16. /\ EntryOk(w) /\ w.path = PathOf(d) /\ w.method = d.method /\ w \in ToSet(F)
         /\ ToSet(F) \subseteq ToSet(E) \cup {w} /\ w.responses = d.responses
    BY <2>8, <2>9
  <2> HIDE DEF d, item, E, U, n, F, V, put, noted
  <2>17. Merging(extraction, manifest, F, V, Tail(pending))
    BY <1>3, <2>3, <2>9, <2>10, <2>11, <2>12, <2>13, <2>14, <2>15, <2>16, DetailTaken
  <2> QED
    BY <1>1, <2>2, <2>17 DEF Building
<1> QED
  BY <1>2, <1>3

\* The inventory begins the draft.
LEMMA InventoryBuilds ==
  ASSUME ExtractionsStated, extraction \in Extractions, BuildInventory PROVE Building'
<1> DEFINE x == extraction
           E == InventoryPlan.endpoints
           U == InventoryPlan.unverified
<1>1. draft' = InventoryPlan /\ pending' = Details /\ extraction' = extraction /\ manifest' = manifest
  BY DEF BuildInventory, inputs
<1>2. /\ Listed(E) /\ Listed(U)
      /\ \A n \in ToSet(E) : /\ EntryOk(n) /\ n.responses = <<>> /\ n.status \in {"supported", "unverified"}
                             /\ U = <<>> => n.status = "supported"
      /\ \A e \in SoundItems(x.inventory.endpoints) : \A k \in ToSet(e.methods) :
           \E n \in ToSet(E) : n.path = e.path /\ n.method = k
      /\ U = <<>> => InventoryAttributed(x.inventory, manifest)
  BY InventoryHolds
<1>3. /\ Listed(Details) /\ \A d \in ToSet(Details) : DetailOf(x, d)
      /\ \A f \in ToSet(x.files) : \A k \in ToSet(f.methods) : Of(f, k) \in ToSet(Details)
  BY DetailsHold
<1>4. DraftHas(InventoryPlan)
  BY InventoryPlanIs DEF DraftHas
<1>5. Entries(E, U) /\ Founded(x, E) /\ Present(x, E)
  BY <1>2 DEF Entries, Founded, Present
<1>6. \A f \in SoundItems(x.files) : \A k \in ToSet(f.methods) : Of(f, k) \in ToSet(Details)
  BY <1>3 DEF SoundItems
<1>7. Merging(x, manifest, E, U, Details)
  BY <1>2, <1>3, <1>5, <1>6 DEF Merging
<1> QED
  BY <1>1, <1>4, <1>7 DEF Building

-----------------------------------------------------------------------------
(* The plan.                                                               *)

\* What the plan of an extraction says of it.
PlanOf(x, m, dr) ==
  /\ Listed(dr.endpoints) /\ Apart(dr.endpoints) /\ Founded(x, dr.endpoints) /\ Present(x, dr.endpoints)
  /\ \A e \in ToSet(dr.endpoints) : EntryOk(e)
  /\ dr.unverified = <<>> => InventoryAttributed(x.inventory, m)
  /\ \A f \in SoundItems(x.files) : \A k \in ToSet(f.methods) : Merged(m, dr.endpoints, dr.unverified, f, k)
  /\ Listed(dr.unverified) /\ DOMAIN dr.integration = DOMAIN x.integration
  /\ \A i \in DOMAIN x.integration :
       dr.integration[i].status = Gate!Classify(x.integration[i].source, m).status

\* Collapsing what the merging has left makes the plan.
LEMMA CollapseMakes ==
  ASSUME Building, Collapse PROVE PlanOf(extraction, manifest, draft)'
<1> DEFINE x == extraction
           E == draft.endpoints
           U == draft.unverified
           C == Collapsed(E)
           I == [i \in DOMAIN x.integration |-> Classified(x.integration[i])]
           put == [draft EXCEPT !.endpoints = Collapsed(@), !.conflicts = @ \o Clashes(draft.endpoints), !.integration = I]
<1>1. draft' = put /\ pending = <<>> /\ extraction' = extraction /\ manifest' = manifest
  BY DEF Collapse, inputs
<1>2. draft'.endpoints = C /\ draft'.unverified = U /\ draft'.integration = I
  <2>1. {"endpoints", "unverified", "conflicts", "integration"} \subseteq DOMAIN draft
    BY DEF Building, DraftHas
  <2>2. put.endpoints = C
    BY <2>1
  <2>3. put.unverified = U
    BY <2>1
  <2>4. put.integration = I
    BY <2>1
  <2> QED
    BY <1>1, <2>2, <2>3, <2>4
<1>3. /\ Entries(E, U) /\ Listed(pending) /\ Founded(x, E) /\ Present(x, E)
      /\ U = <<>> => InventoryAttributed(x.inventory, manifest)
      /\ \A f \in SoundItems(x.files) : \A k \in ToSet(f.methods) :
           Of(f, k) \in ToSet(pending) \/ Merged(manifest, E, U, f, k)
  BY DEF Building, Merging
<1>4. ToSet(pending) = {}
  BY <1>1, <1>3, ListHas
<1>5. Listed(E) /\ Listed(U) /\ \A i \in 1..Len(E) : EntryOk(E[i])
  BY <1>3, ListHas DEF Entries
<1>6. Collapses(C, E, Len(E))
  <2> HIDE DEF E
  <2> QED
    BY <1>5, CollapsedCollapses
<1> HIDE DEF C, E, U, x, I
<1>7. Listed(C) /\ Apart(C) /\ (\A e \in ToSet(C) : EntryOk(e))
  <2>1. Listed(C) /\ \A i \in 1..Len(C) : EntryOk(C[i])
    BY <1>6 DEF Collapses
  <2>2. \A e \in ToSet(C) : \E i \in 1..Len(C) : C[i] = e
    BY <2>1, ListHas
  <2> QED
    BY <1>6, <2>1, <2>2 DEF Collapses, Apart
<1>8. Grown(C, E)
  <2> SUFFICES ASSUME NEW e \in ToSet(E), e.path # None PROVE \E n \in ToSet(C) : Same(n, e) /\ Carries(n, e)
    BY DEF Grown
  <2>1. PICK i \in 1..Len(E) : E[i] = e
    BY <1>5, ListHas
  <2>2. PICK k \in 1..Len(C) : Same(C[k], e) /\ Carries(C[k], e)
    BY <1>6, <2>1 DEF Collapses
  <2> QED
    BY <1>7, <2>2, ListHas
<1>9. Founded(x, C)
  <2> SUFFICES ASSUME NEW e \in ToSet(C), e.path # None, e.responses # <<>>
               PROVE  \E f \in SoundItems(x.files) :
                        PathOf(f) = e.path /\ e.method \in ToSet(f.methods) /\ f.responses # <<>>
    BY DEF Founded
  <2>1. PICK k \in 1..Len(C) : C[k] = e
    BY <1>7, ListHas
  <2>2. PICK i \in 1..Len(E) : Same(E[i], e) /\ E[i].responses # <<>>
    BY <1>6, <2>1 DEF Collapses
  <2>3. E[i] \in ToSet(E) /\ E[i].path = e.path /\ E[i].method = e.method
    BY <1>5, <2>2, ListHas DEF Same
  <2> QED
    BY <1>3, <2>2, <2>3 DEF Founded
<1>10. Present(x, C)
  BY <1>3, <1>8, PresentStays
<1>11. \A f \in SoundItems(x.files) : \A k \in ToSet(f.methods) : Merged(manifest, C, U, f, k)
  BY <1>3, <1>4, <1>8, MergedStays
<1>12. DOMAIN I = DOMAIN x.integration /\ \A i \in DOMAIN x.integration :
         I[i].status = Gate!Classify(x.integration[i].source, manifest).status
  BY ClassifiedItem DEF I
<1> QED
  BY <1>1, <1>2, <1>3, <1>5, <1>7, <1>9, <1>10, <1>11, <1>12 DEF PlanOf, x

-----------------------------------------------------------------------------
(* The judgement.                                                          *)

\* Issues of a kind that no passing run has.
Clean(found) == \A i \in found : i.severity = "error" => i.code \in Unscored

\* A run that passed has no error but what the caller asked for.
LEMMA PassedIsClean ==
  ASSUME Passed, score = Score(issues, draft, manifest, profile)
  PROVE  Clean(issues)
<1>1. CASE Ok(issues)
  BY <1>1 DEF Ok, Clean
<1>2. CASE profile = "ci" /\ score.status # "fail"
  <2> DEFINE findings == Findings(issues, manifest)
             scores == CategoryScores(findings, draft)
             total == Total(scores)
             failed == (\E i \in findings : Blocking(i, profile)) \/ total < MinScore(profile)
             attention == (\E c \in DOMAIN scores : scores[c] < CategoryGate(profile)) \/ findings # {}
  <2>1. Score(issues, draft, manifest, profile) =
          [status |-> IF failed THEN "fail" ELSE IF attention THEN "needs_attention" ELSE "pass", score |-> total]
    BY DEF Score
  <2> HIDE DEF failed, attention, total
  <2>2. score.status = IF failed THEN "fail" ELSE IF attention THEN "needs_attention" ELSE "pass"
    BY <2>1
  <2>3. ~failed
    BY <1>2, <2>2
  <2>4. \A i \in findings : ~Blocking(i, profile)
    BY <2>3 DEF failed
  <2>5. \A i \in issues : i.code \notin Unscored => i \in findings
    BY DEF Findings
  <2> HIDE DEF findings
  <2>6. \A i \in issues : i.severity = "error" /\ i.code \notin Unscored => Blocking(i, profile)
    BY <1>2 DEF Blocking
  <2> QED
    BY <2>4, <2>5, <2>6 DEF Clean
<1> QED
  BY <1>1, <1>2 DEF Passed

\* The report has what each of its checks finds.
LEMMA IssuesHave ==
  ASSUME NEW plan, NEW m, NEW f
  PROVE  /\ CompletenessIssues(plan) \subseteq Issues(plan, m, f)
         /\ ConsistencyIssues(OpenApi(plan), plan) \subseteq Issues(plan, m, f)
         /\ IntegrationIssues(plan, OpenApi(plan)) \subseteq Issues(plan, m, f)
BY DEF Issues

\* An error that a condition reports is the condition's absence from a clean report.
LEMMA ErrorHas ==
  ASSUME NEW code, NEW at
  PROVE  Error(code, at).code = code /\ Error(code, at).severity = "error"
BY DEF Error, Issue

\* Nothing that is clean has an error of a scored kind.
LEMMA CleanHasNo ==
  ASSUME NEW found, Clean(found), NEW code, code \notin Unscored, NEW at
  PROVE  Error(code, at) \notin found
BY ErrorHas DEF Clean

\* The kinds of the errors that matter here are scored.
LEMMA ErrorCodes ==
  \A code \in {"SOURCE_UNVERIFIED", "REQUIRED_INFO_MISSING", "SOURCE_CONFLICT"} : code \notin Unscored
BY DEF Unscored

\* A plan whose completeness is clean has nothing unverified and a response in each operation.
LEMMA CompletenessHolds ==
  ASSUME NEW plan, Clean(CompletenessIssues(plan)), Listed(plan.unverified), Listed(plan.endpoints)
  PROVE  plan.unverified = <<>> /\ \A e \in ToSet(plan.endpoints) : e.path # None => e.responses # <<>>
<1> DEFINE found == CompletenessIssues(plan)
<1>1. \A i \in DOMAIN plan.unverified : Error("SOURCE_UNVERIFIED", <<"unverified", i>>) \in found
  BY DEF CompletenessIssues
<1>2. \A i \in DOMAIN plan.endpoints : EndpointIssues(plan.endpoints[i], i) \subseteq found
  BY DEF CompletenessIssues
<1> HIDE DEF found
<1>3. DOMAIN plan.unverified = {}
  BY <1>1, CleanHasNo, ErrorCodes DEF found
<1>4. plan.unverified = <<>>
  <2>1. Len(plan.unverified) \in Nat /\ DOMAIN plan.unverified = 1..Len(plan.unverified)
        /\ (plan.unverified = <<>> <=> Len(plan.unverified) = 0)
    BY ListHas
  <2>2. Len(plan.unverified) = 0
    <3> DEFINE L == Len(plan.unverified)
    <3>1. L \in Nat /\ 1..L = {}
      BY <1>3, <2>1
    <3> HIDE DEF L
    <3>2. L = 0
      BY <3>1
    <3> QED
      BY <3>2 DEF L
  <2> QED
    BY <2>1, <2>2
<1>5. ASSUME NEW e \in ToSet(plan.endpoints), e.path # None, e.responses = <<>> PROVE FALSE
  <2>1. PICK i \in 1..Len(plan.endpoints) : plan.endpoints[i] = e
    BY ListHas
  <2>2. i \in DOMAIN plan.endpoints
    BY ListHas
  <2> DEFINE error == Error("REQUIRED_INFO_MISSING", <<"responses", At(e, i)>>)
             one == Issue("REQUIRED_INFO_MISSING", IF e.path # None THEN "error" ELSE "warning", <<"responses", At(e, i)>>)
  <2>3. one \in EndpointIssues(e, i)
    BY <1>5 DEF EndpointIssues, When
  <2>4. one = error
    BY <1>5 DEF Error
  <2>5. error \in found
    BY <1>2, <2>1, <2>2, <2>3, <2>4
  <2> HIDE DEF one
  <2>6. error \notin found
    BY CleanHasNo, ErrorCodes DEF found
  <2> QED
    BY <2>5, <2>6
<1> QED
  BY <1>4, <1>5

\* A clean document states no variable of a path that the path does not have.
LEMMA ConsistencyHolds ==
  ASSUME NEW doc, NEW plan, Clean(ConsistencyIssues(doc, plan)),
         NEW p \in DOMAIN doc.paths, NEW q \in doc.paths[p].params, q.in = "path"
  PROVE  q.name \in Tokens[p[1]]
<1> DEFINE found == ConsistencyIssues(doc, plan)
           orphans(o) == {r \in doc.paths[o].params : r.in = "path" /\ r.name \notin Tokens[o[1]]}
           error == Error("SOURCE_CONFLICT", <<"parameter", <<p, q.name>>>>)
<1>1. UNION {{Error("SOURCE_CONFLICT", <<"parameter", <<o, r.name>>>>) : r \in orphans(o)} : o \in DOMAIN doc.paths}
      \subseteq found
  BY DEF ConsistencyIssues
<1>2. q \in orphans(p) => error \in found
  <2> DEFINE errors(o) == {Error("SOURCE_CONFLICT", <<"parameter", <<o, r.name>>>>) : r \in orphans(o)}
  <2>1. q \in orphans(p) => error \in errors(p)
    OBVIOUS
  <2> HIDE DEF errors, found
  <2>2. errors(p) \subseteq found
    BY <1>1 DEF errors
  <2> QED
    BY <2>1, <2>2
<1> HIDE DEF found
<1>3. error \notin found
  BY CleanHasNo, ErrorCodes DEF found
<1> HIDE DEF error
<1> QED
  BY <1>2, <1>3

\* Clean contracts have no item in doubt.
LEMMA IntegrationHolds ==
  ASSUME NEW doc, NEW plan, Clean(IntegrationIssues(plan, doc)), NEW i \in DOMAIN plan.integration
  PROVE  plan.integration[i].status # "unverified"
<1> DEFINE found == IntegrationIssues(plan, doc)
           c == plan.integration[i]
           error == Error("SOURCE_UNVERIFIED", <<"integration", i>>)
<1>1. When(c.status = "unverified", error) \subseteq found
  <2> DEFINE dangling(d) ==
               \/ d.section = "callbacks" /\ d.payload # None
                  /\ {d.payload, ComponentKey(d.payload, 1, "schema")} \cap DOMAIN doc.schemas = {}
               \/ d.section = "test_cases" /\ d.operation \notin DOMAIN doc.paths \cup {None}
             of(j, d) ==
               When(d.status = "conflicting", Error("SOURCE_CONFLICT", <<"integration", j>>))
               \cup When(d.status = "unverified", Error("SOURCE_UNVERIFIED", <<"integration", j>>))
               \cup When(dangling(d), Error("OUTPUT_MISMATCH", <<"integration", j>>))
             all == UNION {of(j, plan.integration[j]) : j \in DOMAIN plan.integration}
             crypto == When((\E o \in ToSet(plan.operational) : o.signs)
                              /\ ~\E d \in ToSet(plan.integration) : d.section = "crypto",
                            Error("REQUIRED_INFO_MISSING", <<"plan", "crypto">>))
  <2>1. found = all \cup crypto
    BY DEF IntegrationIssues
  <2>2. When(c.status = "unverified", error) \subseteq of(i, c)
    OBVIOUS
  <2> HIDE DEF of, crypto, found
  <2>3. of(i, c) \subseteq all
    OBVIOUS
  <2> HIDE DEF all
  <2> QED
    BY <2>1, <2>2, <2>3
<1> HIDE DEF found
<1>2. error \notin found
  BY CleanHasNo, ErrorCodes DEF found
<1> HIDE DEF error
<1> QED
  BY <1>1, <1>2 DEF When

\* What the report of a plan that passes is free of.
LEMMA PassingPlan ==
  ASSUME Passed, issues = Issues(draft, manifest, focus), score = Score(issues, draft, manifest, profile),
         PlanOf(extraction, manifest, draft)
  PROVE  /\ draft.unverified = <<>>
         /\ \A e \in ToSet(draft.endpoints) : e.path # None => e.responses # <<>>
         /\ \A p \in DOMAIN OpenApi(draft).paths : \A q \in OpenApi(draft).paths[p].params :
              q.in = "path" => q.name \in Tokens[p[1]]
         /\ \A i \in DOMAIN draft.integration : draft.integration[i].status # "unverified"
<1> DEFINE doc == OpenApi(draft)
<1>1. Clean(issues)
  BY PassedIsClean
<1>2. Clean(CompletenessIssues(draft)) /\ Clean(ConsistencyIssues(doc, draft)) /\ Clean(IntegrationIssues(draft, doc))
  BY <1>1, IssuesHave DEF Clean
<1>3. Listed(draft.unverified) /\ Listed(draft.endpoints)
  BY DEF PlanOf
<1>4. draft.unverified = <<>> /\ \A e \in ToSet(draft.endpoints) : e.path # None => e.responses # <<>>
  BY <1>2, <1>3, CompletenessHolds
<1> HIDE DEF doc
<1>5. \A p \in DOMAIN doc.paths : \A q \in doc.paths[p].params : q.in = "path" => q.name \in Tokens[p[1]]
  BY <1>2, ConsistencyHolds
<1>6. \A i \in DOMAIN draft.integration : draft.integration[i].status # "unverified"
  BY <1>2, IntegrationHolds
<1> QED
  BY <1>4, <1>5, <1>6 DEF doc

\* Then every item behind it can be attributed.
LEMMA PassingItems ==
  ASSUME ExtractionsStated, ManifestsStated, extraction \in Extractions, manifest \in Manifests,
         PlanOf(extraction, manifest, draft), draft.unverified = <<>>,
         \A i \in DOMAIN draft.integration : draft.integration[i].status # "unverified"
  PROVE  LET x == extraction.inventory IN
         /\ \A s \in ToSet(Gate!Sections) \ {"endpoints"} : \A i \in SoundItems(x[s]) : Attributable(i.source)
         /\ \A s \in SoundItems(x.schemas) : \A f \in ToSet(s.fields) : f.source # None => Attributable(f.source)
         /\ \A i \in SoundItems(x.endpoints) \cup SoundItems(extraction.files) :
              i.methods # <<>> => Attributable(i.source)
         /\ \A i \in ToSet(extraction.integration) : Attributable(i.source)
<1> DEFINE x == extraction.inventory
<1>1. \A t : Attributed(t, manifest) => Attributable(t)
  BY SupportedIsAttributable
<1>2. /\ InventoryAttributed(x, manifest)
      /\ \A f \in SoundItems(extraction.files) : \A k \in ToSet(f.methods) :
           Merged(manifest, draft.endpoints, draft.unverified, f, k)
      /\ DOMAIN draft.integration = DOMAIN extraction.integration
      /\ \A i \in DOMAIN extraction.integration :
           draft.integration[i].status = Gate!Classify(extraction.integration[i].source, manifest).status
  BY DEF PlanOf
<1>3. Written(extraction)
  BY ExtractionWritten
<1>4. ASSUME NEW s \in ToSet(Gate!Sections) \ {"endpoints"}, NEW i \in SoundItems(x[s])
      PROVE  Attributable(i.source)
  <2>1. s \in {"environments", "security_schemes", "schemas", "errors", "operational"}
    BY SectionNames
  <2>2. i \in SoundItems(x.environments) \cup SoundItems(x.security_schemes) \cup SoundItems(x.schemas)
              \cup SoundItems(x.errors) \cup SoundItems(x.operational)
    BY <2>1
  <2> HIDE DEF x
  <2>3. Attributed(i.source, manifest)
    BY <1>2, <2>2 DEF InventoryAttributed
  <2> QED
    BY <1>1, <2>3
<1> HIDE DEF x
<1>5. \A s \in SoundItems(x.schemas) : \A f \in ToSet(s.fields) : f.source # None => Attributable(f.source)
  BY <1>1, <1>2 DEF InventoryAttributed
<1>6. \A i \in SoundItems(x.endpoints) : i.methods # <<>> => Attributable(i.source)
  BY <1>1, <1>2 DEF InventoryAttributed
<1>7. ASSUME NEW i \in SoundItems(extraction.files), i.methods # <<>> PROVE Attributable(i.source)
  <2>1. Listed(i.methods)
    BY <1>3 DEF Written, FileOk, SoundItems
  <2>2. PICK k : k \in ToSet(i.methods)
    BY <1>7, <2>1, ListHas
  <2>3. Merged(manifest, draft.endpoints, draft.unverified, i, k)
    BY <1>2, <2>2
  <2> QED
    BY <1>1, <2>3 DEF Merged
<1>8. ASSUME NEW i \in ToSet(extraction.integration) PROVE Attributable(i.source)
  <2>1. PICK j \in DOMAIN extraction.integration : extraction.integration[j] = i
    BY <1>3, ListHas DEF Written
  <2>2. draft.integration[j].status = Gate!Classify(i.source, manifest).status /\ draft.integration[j].status # "unverified"
    BY <1>2, <2>1
  <2>3. Attributed(i.source, manifest)
    BY <2>2, ClassifyShape DEF Attributed
  <2> QED
    BY <1>1, <2>3
<1> QED
  BY <1>4, <1>5, <1>6, <1>7, <1>8 DEF x

\* And every operation is what the files written for it make of it.
LEMMA PassingOperations ==
  ASSUME PlanOf(extraction, manifest, draft), Written(extraction),
         \A e \in ToSet(draft.endpoints) : e.path # None => e.responses # <<>>,
         NEW p \in DOMAIN OpenApi(draft).paths,
         \A q \in OpenApi(draft).paths[p].params : q.in = "path" => q.name \in Tokens[p[1]]
  PROVE  LET doc == OpenApi(draft)
             of == {f \in SoundItems(extraction.files) : PathOf(f) = p[1] /\ p[2] \in ToSet(f.methods)}
             stated(f) ==
               /\ {r.status : r \in ToSet(f.responses)} \cap Statuses \subseteq DOMAIN doc.paths[p].responses
               /\ \A q \in ToSet(f.params) : q.in # "body" => [name |-> q.name, in |-> q.in] \in doc.paths[p].params
         IN  /\ \E f \in of : f.responses # <<>>
             /\ \A f \in of : stated(f)
             /\ {q.name : q \in {r \in doc.paths[p].params : r.in = "path"}} = Tokens[p[1]]
<1> DEFINE doc == OpenApi(draft)
           E == draft.endpoints
           of == {f \in SoundItems(extraction.files) : PathOf(f) = p[1] /\ p[2] \in ToSet(f.methods)}
<1>1. /\ Listed(E) /\ Apart(E) /\ Founded(extraction, E) /\ (\A e \in ToSet(E) : EntryOk(e))
      /\ \A f \in SoundItems(extraction.files) : \A k \in ToSet(f.methods) :
           Merged(manifest, E, draft.unverified, f, k)
  BY DEF PlanOf
<1>2. PICK e \in ToSet(E) :
        /\ e.path # None /\ p = <<e.path, e.method>> /\ doc.paths[p] = Operation(e, draft)
        /\ \A f \in ToSet(E) : Same(f, e) => f = e
  BY <1>1, DocumentPaths
<1>3. p[1] = e.path /\ p[2] = e.method /\ EntryOk(e) /\ e.responses # <<>>
  BY <1>1, <1>2
<1> HIDE DEF doc, of, E
<1>4. \E f \in of : f.responses # <<>>
  <2>1. PICK f \in SoundItems(extraction.files) :
          PathOf(f) = e.path /\ e.method \in ToSet(f.methods) /\ f.responses # <<>>
    BY <1>1, <1>2, <1>3 DEF Founded
  <2> QED
    BY <1>3, <2>1 DEF of
<1>5. ASSUME NEW f \in of
      PROVE  /\ {r.status : r \in ToSet(f.responses)} \cap Statuses \subseteq DOMAIN doc.paths[p].responses
             /\ \A q \in ToSet(f.params) : q.in # "body" => [name |-> q.name, in |-> q.in] \in doc.paths[p].params
  <2>1. f \in SoundItems(extraction.files) /\ PathOf(f) = e.path /\ e.method \in ToSet(f.methods)
    BY <1>3 DEF of
  <2>2. Merged(manifest, E, draft.unverified, f, e.method)
    BY <1>1, <2>1
  <2>3. PICK c \in ToSet(E) : c.path = e.path /\ c.method = e.method /\ Carries(c, f)
    BY <1>2, <2>1, <2>2 DEF Merged
  <2>4. c = e
    BY <1>2, <2>3 DEF Same
  <2>5. Carries(e, f)
    BY <2>3, <2>4
  <2>6. Listed(e.responses)
    BY <1>3 DEF EntryOk
  <2>7. doc.paths[p].responses = Responses(e.responses, KeysByName(draft))
    BY <1>2 DEF Operation
  <2>8. {r.status : r \in ToSet(e.responses)} \cap Statuses \subseteq DOMAIN doc.paths[p].responses
    BY <2>6, <2>7, ResponseStatuses
  <2>9. ASSUME NEW r \in ToSet(f.responses), r.status \in Statuses PROVE r.status \in DOMAIN doc.paths[p].responses
    <3>1. PICK s \in ToSet(e.responses) : s.status = r.status
      BY <2>5 DEF Carries
    <3> QED
      BY <2>8, <2>9, <3>1
  <2>10. ASSUME NEW q \in ToSet(f.params), q.in # "body"
         PROVE  [name |-> q.name, in |-> q.in] \in doc.paths[p].params
    <3>1. PICK s \in ToSet(e.params) : s.name = q.name /\ s.in = q.in
      BY <2>5 DEF Carries
    <3>2. [name |-> s.name, in |-> s.in] \in Operation(e, draft).params
      BY <2>10, <3>1, OperationParams
    <3> QED
      BY <1>2, <3>1, <3>2
  <2> QED
    BY <2>9, <2>10
<1>6. {q.name : q \in {r \in doc.paths[p].params : r.in = "path"}} = Tokens[p[1]]
  <2> DEFINE names == {q.name : q \in {r \in doc.paths[p].params : r.in = "path"}}
  <2>1. Tokens[p[1]] \subseteq names
    BY <1>2, <1>3, OperationParams
  <2>2. names \subseteq Tokens[p[1]]
    BY DEF doc
  <2> QED
    BY <2>1, <2>2
<1> QED
  BY <1>4, <1>5, <1>6 DEF doc, of

\* When the run of a plan, its report and its score passes, it is supported.
LEMMA PassingIsSupported ==
  ASSUME ExtractionsStated, ManifestsStated, extraction \in Extractions, manifest \in Manifests,
         PlanOf(extraction, manifest, draft), issues = Issues(draft, manifest, focus),
         score = Score(issues, draft, manifest, profile)
  PROVE  PassedMeansSupported
<1> SUFFICES ASSUME Passed PROVE PassedMeansSupported
  BY DEF PassedMeansSupported
<1> DEFINE x == extraction.inventory
           doc == OpenApi(draft)
           sound(items) == {i \in ToSet(items) : i.ok}
           of(p) == {f \in sound(extraction.files) : PathOf(f) = p[1] /\ p[2] \in ToSet(f.methods)}
           stated(p, f) ==
             /\ {r.status : r \in ToSet(f.responses)} \cap Statuses \subseteq DOMAIN doc.paths[p].responses
             /\ \A q \in ToSet(f.params) : q.in # "body" => [name |-> q.name, in |-> q.in] \in doc.paths[p].params
           operation(p) ==
             /\ \E f \in of(p) : f.responses # <<>>
             /\ \A f \in of(p) : stated(p, f)
             /\ {q.name : q \in {r \in doc.paths[p].params : r.in = "path"}} = Tokens[p[1]]
<1>1. /\ draft.unverified = <<>>
      /\ \A e \in ToSet(draft.endpoints) : e.path # None => e.responses # <<>>
      /\ \A p \in DOMAIN doc.paths : \A q \in doc.paths[p].params : q.in = "path" => q.name \in Tokens[p[1]]
      /\ \A i \in DOMAIN draft.integration : draft.integration[i].status # "unverified"
  BY PassingPlan
<1>2. Written(extraction)
  BY ExtractionWritten
<1>3. /\ \A s \in ToSet(Gate!Sections) \ {"endpoints"} : \A i \in sound(x[s]) : Attributable(i.source)
      /\ \A s \in sound(x.schemas) : \A f \in ToSet(s.fields) : f.source # None => Attributable(f.source)
      /\ \A i \in sound(x.endpoints) \cup sound(extraction.files) : i.methods # <<>> => Attributable(i.source)
      /\ \A i \in ToSet(extraction.integration) : Attributable(i.source)
  BY <1>1, PassingItems DEF SoundItems
<1>4. ASSUME NEW e \in sound(x.endpoints), e.path # None, NEW m \in ToSet(e.methods)
      PROVE  <<e.path, m>> \in DOMAIN doc.paths
  <2>1. Present(extraction, draft.endpoints) /\ Listed(draft.endpoints) /\ Apart(draft.endpoints)
    BY DEF PlanOf
  <2>2. PICK n \in ToSet(draft.endpoints) : n.path = e.path /\ n.method = m
    BY <1>4, <2>1 DEF Present, SoundItems
  <2>3. <<n.path, n.method>> \in DOMAIN doc.paths
    BY <1>4, <2>1, <2>2, DocumentPaths
  <2> QED
    BY <2>2, <2>3
<1>5. ASSUME NEW p \in DOMAIN doc.paths PROVE operation(p)
  BY <1>1, <1>2, PassingOperations DEF SoundItems
<1> HIDE DEF operation
<1>6. \A p \in DOMAIN doc.paths : operation(p)
  BY <1>5
<1> USE DEF operation
<1> QED
  BY <1>3, <1>4, <1>6 DEF PassedMeansSupported

-----------------------------------------------------------------------------
(* The invariant.                                                          *)

\* What holds of a run at each of its stages.
PlanningInv ==
  /\ extraction \in Extractions /\ manifest \in Manifests
  /\ stage \in {"given", "refused", "merging", "planned", "judged", "scored"}
  /\ stage = "merging" => Building
  /\ stage \in {"planned", "judged", "scored"} => PlanOf(extraction, manifest, draft)
  /\ stage \in {"judged", "scored"} => issues = Issues(draft, manifest, focus)
  /\ stage = "scored" => score = Score(issues, draft, manifest, profile)

\* The invariant holds at the start,
LEMMA PlanningStarts == Init => PlanningInv
BY DEF Init, PlanningInv

\* every step keeps it,
LEMMA PlanningStep ==
  ASSUME ExtractionsStated, PlanningInv, [Next]_vars PROVE PlanningInv'
<1>1. /\ extraction \in Extractions /\ manifest \in Manifests
      /\ stage \in {"given", "refused", "merging", "planned", "judged", "scored"}
      /\ stage = "merging" => Building
      /\ stage \in {"planned", "judged", "scored"} => PlanOf(extraction, manifest, draft)
      /\ stage \in {"judged", "scored"} => issues = Issues(draft, manifest, focus)
      /\ stage = "scored" => score = Score(issues, draft, manifest, profile)
  BY DEF PlanningInv
<1>2. Written(extraction)
  BY <1>1, ExtractionWritten
<1>3. CASE Refuse
  <2>1. stage' = "refused" /\ extraction' = extraction /\ manifest' = manifest
    BY <1>3 DEF Refuse, inputs
  <2> QED
    BY <1>1, <2>1 DEF PlanningInv
<1>4. CASE BuildInventory
  <2>1. stage' = "merging" /\ extraction' = extraction /\ manifest' = manifest
    BY <1>4 DEF BuildInventory, inputs
  <2>2. Building'
    BY <1>1, <1>4, InventoryBuilds
  <2> QED
    BY <1>1, <2>1, <2>2 DEF PlanningInv
<1>5. CASE SkipDetail \/ MergeDetail \/ AddDetail
  <2>1. stage = "merging" /\ stage' = stage /\ extraction' = extraction /\ manifest' = manifest
    BY <1>5 DEF SkipDetail, MergeDetail, AddDetail, Taken, inputs
  <2>2. Building'
    BY <1>1, <1>2, <1>5, <2>1, SkipKeeps, MergeKeeps, AddKeeps
  <2> QED
    BY <1>1, <2>1, <2>2 DEF PlanningInv
<1>6. CASE Collapse
  <2>1. stage = "merging" /\ stage' = "planned" /\ extraction' = extraction /\ manifest' = manifest
    BY <1>6 DEF Collapse, inputs
  <2>2. PlanOf(extraction, manifest, draft)'
    BY <1>1, <1>6, <2>1, CollapseMakes
  <2> QED
    BY <1>1, <2>1, <2>2 DEF PlanningInv
<1>7. CASE Validate
  <2>1. /\ stage = "planned" /\ stage' = "judged" /\ issues' = Issues(draft, manifest, focus)
        /\ extraction' = extraction /\ manifest' = manifest /\ focus' = focus /\ draft' = draft
    BY <1>7 DEF Validate, inputs
  <2>2. PlanOf(extraction', manifest', draft') /\ issues' = Issues(draft', manifest', focus')
    BY <1>1, <2>1
  <2> QED
    BY <1>1, <2>1, <2>2 DEF PlanningInv
<1>8. CASE ScoreRun
  <2>1. /\ stage = "judged" /\ stage' = "scored" /\ score' = Score(issues, draft, manifest, profile)
        /\ extraction' = extraction /\ manifest' = manifest /\ focus' = focus /\ profile' = profile
        /\ draft' = draft /\ issues' = issues
    BY <1>8 DEF ScoreRun, inputs
  <2>2. /\ PlanOf(extraction', manifest', draft') /\ issues' = Issues(draft', manifest', focus')
        /\ score' = Score(issues', draft', manifest', profile')
    BY <1>1, <2>1
  <2> QED
    BY <1>1, <2>1, <2>2 DEF PlanningInv
<1>9. CASE UNCHANGED vars
  <2>1. /\ stage' = stage /\ extraction' = extraction /\ manifest' = manifest /\ focus' = focus
        /\ profile' = profile /\ draft' = draft /\ pending' = pending /\ issues' = issues /\ score' = score
    BY <1>9 DEF vars
  <2> QED
    BY <1>1, <2>1 DEF PlanningInv, Building
<1> QED
  BY <1>3, <1>4, <1>5, <1>6, <1>7, <1>8, <1>9 DEF Next

\* and it has what a passing run is to say.
LEMMA PlanningSupports ==
  ASSUME ExtractionsStated, ManifestsStated, PlanningInv PROVE PassedMeansSupported
<1>1. CASE stage = "scored"
  BY <1>1, PassingIsSupported DEF PlanningInv
<1>2. CASE stage # "scored"
  BY <1>2 DEF PassedMeansSupported, Passed
<1> QED
  BY <1>1, <1>2

\* A run passes only when everything its contract is made of can be attributed to a document and
\* each operation has the responses and parameters of the files written for it, for any
\* extractions, manifests, path templates and score profiles.
THEOREM RunsSupported ==
  ASSUME ExtractionsStated, ManifestsStated PROVE Spec => []PassedMeansSupported
<1>1. PlanningInv /\ [Next]_vars => PlanningInv'
  BY PlanningStep
<1>2. PlanningInv => PassedMeansSupported
  BY PlanningSupports
<1> QED
  BY <1>1, <1>2, PlanningStarts, PTL DEF Spec
=============================================================================
