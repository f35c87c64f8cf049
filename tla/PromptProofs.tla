---------------------------- MODULE PromptProofs ----------------------------
(***************************************************************************)
(* Proofs about Prompt: that every request pairs its tool calls with their *)
(* results, that it carries something to answer, and that in the database  *)
(* compaction loses and repeats nothing, for conversations of any length,  *)
(* with any number of tool calls and any bounds of compaction.             *)
(*                                                                         *)
(* The operators that build a prompt put sequences together piece by piece.*)
(* Induction on their length is by the least natural number for which a    *)
(* claim fails (NatLeast), on sets of numbers rather than predicates.      *)
(***************************************************************************)
EXTENDS PromptStores, FiniteSetTheorems, SequenceTheorems, TLAPS

-----------------------------------------------------------------------------
(* Numbers. *)

LEMMA NatLeast ==
  ASSUME NEW T, T \subseteq Nat, T # {}
  PROVE  \E m \in T : \A n \in T : m <= n
<1> DEFINE R == OpToRel(<, Nat)
<1>1. IsWellFoundedOn(R, Nat)
  BY NatLessThanWellFounded
<1>2. \A x, y \in Nat : y < x => <<y, x>> \in R
  BY Zenon DEF OpToRel
<1> HIDE DEF R
<1>3. PICK m \in T : \A y \in T : <<y, m>> \notin R
  BY <1>1, WFMin
<1>4. ASSUME NEW n \in T
      PROVE  m <= n
  <2>1. ~(n < m)
    BY <1>2, <1>3
  <2>. QED BY <2>1
<1>. QED BY <1>4

LEMMA NatSets ==
  ASSUME NEW S, 0 \in S, \A n \in Nat : n \in S => n + 1 \in S
  PROVE  Nat \subseteq S
<1> SUFFICES ASSUME Nat \ S # {}
             PROVE  FALSE
  OBVIOUS
<1>1. PICK m \in Nat \ S : \A n \in Nat \ S : m <= n
  BY NatLeast
<1>2. m # 0 /\ m - 1 \in Nat /\ m - 1 \in S
  BY <1>1
<1>. QED BY <1>1, <1>2

LEMMA MinIs ==
  ASSUME NEW T, T \subseteq Nat, T # {}
  PROVE  Min(T) \in T /\ \A n \in T : Min(T) <= n
BY NatLeast DEF Min

LEMMA MaxIs ==
  ASSUME NEW n \in Nat, NEW T, T \subseteq 0..n, T # {}
  PROVE  Max(T) \in T /\ \A m \in T : m <= Max(T)
<1> DEFINE U == {n - m : m \in T}
<1>1. U \subseteq Nat /\ U # {}
  <2>1. \A m \in T : n - m \in Nat
    OBVIOUS
  <2>. QED BY <2>1
<1>2. PICK u \in U : \A v \in U : u <= v
  BY <1>1, NatLeast
<1>3. PICK x \in T : u = n - x
  BY <1>2
<1>4. \A m \in T : x >= m
  BY <1>2, <1>3
<1>. QED BY <1>4 DEF Max

(* Induction on the numbers from a to b.                                    *)
LEMMA UpTo ==
  ASSUME NEW a \in Nat, NEW b \in Nat, NEW T,
         \A i \in a..b : (\A k \in a..(i - 1) : k \in T) => i \in T
  PROVE  \A i \in a..b : i \in T
<1> DEFINE U == {i \in a..b : i \notin T}
<1> SUFFICES ASSUME U # {}
             PROVE  FALSE
  OBVIOUS
<1>1. U \subseteq Nat
  OBVIOUS
<1>2. PICK i \in U : \A k \in U : i <= k
  BY <1>1, NatLeast
<1>3. \A k \in a..(i - 1) : k \in T
  BY <1>2
<1>. QED BY <1>2, <1>3

LEMMA UpFrom ==
  ASSUME NEW a \in Nat, NEW b \in Nat, NEW T, a \in T,
         \A i \in (a + 1)..b : i - 1 \in T => i \in T
  PROVE  \A i \in a..b : i \in T
<1>1. ASSUME NEW i \in a..b, \A k \in a..(i - 1) : k \in T
      PROVE  i \in T
  <2>1. CASE i = a
    BY <2>1
  <2>2. CASE i # a
    <3>1. i \in (a + 1)..b /\ i - 1 \in a..(i - 1)
      BY <2>2
    <3>. QED BY <1>1, <3>1
  <2>. QED BY <2>1, <2>2
<1>. QED BY <1>1, UpTo

-----------------------------------------------------------------------------
(* Sequences. *)

(* F holds the sequences of the first pieces of ss put together.            *)
Joins(S, ss, F, m) ==
    /\ F \in [0..m -> Seq(S)]
    /\ F[0] = <<>>
    /\ \A i \in 1..m : F[i] = F[i - 1] \o ss[i]

LEMMA JoinsFirst ==
  ASSUME NEW S, NEW ss
  PROVE  \E F : Joins(S, ss, F, 0)
<1> DEFINE F == [i \in 0..0 |-> <<>>]
<1>1. F \in [0..0 -> Seq(S)] /\ F[0] = <<>>
  OBVIOUS
<1>2. \A i \in 1..0 : F[i] = F[i - 1] \o ss[i]
  OBVIOUS
<1> HIDE DEF F
<1>. QED BY <1>1, <1>2 DEF Joins

LEMMA JoinsNext ==
  ASSUME NEW S, NEW ss, NEW F, NEW m \in Nat, Joins(S, ss, F, m), ss[m + 1] \in Seq(S)
  PROVE  \E G : Joins(S, ss, G, m + 1)
<1> DEFINE last == F[m] \o ss[m + 1]
           G == [i \in 0..(m + 1) |-> IF i <= m THEN F[i] ELSE last]
<1>1. F \in [0..m -> Seq(S)]
  BY DEF Joins
<1>2. last \in Seq(S)
  BY <1>1
<1> HIDE DEF last
<1>3. G \in [0..(m + 1) -> Seq(S)]
  BY <1>1, <1>2
<1>4. /\ \A i \in 0..m : G[i] = F[i]
      /\ G[m + 1] = last
  OBVIOUS
<1> HIDE DEF G
<1>5. G[0] = <<>>
  BY <1>4 DEF Joins
<1>6. ASSUME NEW i \in 1..(m + 1)
      PROVE  G[i] = G[i - 1] \o ss[i]
  <2>1. CASE i <= m
    <3>1. i \in 1..m /\ i \in 0..m /\ i - 1 \in 0..m
      BY <2>1
    <3>2. F[i] = F[i - 1] \o ss[i]
      BY <3>1 DEF Joins
    <3>. QED BY <1>4, <3>1, <3>2
  <2>2. CASE i = m + 1
    <3>1. G[i] = last /\ i - 1 = m /\ G[m] = F[m]
      BY <1>4, <2>2
    <3>2. last = F[m] \o ss[m + 1]
      BY DEF last
    <3>3. G[i - 1] = F[m] /\ ss[i] = ss[m + 1]
      BY <2>2, <3>1
    <3>. QED BY <3>1, <3>2, <3>3
  <2>3. i <= m \/ i = m + 1
    OBVIOUS
  <2>. QED BY <2>1, <2>2, <2>3, Zenon
<1>. QED BY <1>3, <1>5, <1>6 DEF Joins

LEMMA JoinsExist ==
  ASSUME NEW S, NEW n \in Nat, NEW ss \in [1..n -> Seq(S)]
  PROVE  \E F : Joins(S, ss, F, n)
<1> DEFINE Can == {m \in Nat : m <= n => \E F : Joins(S, ss, F, m)}
<1>1. 0 \in Can
  BY JoinsFirst
<1>2. ASSUME NEW m \in Nat, m \in Can
      PROVE  m + 1 \in Can
  BY <1>2, JoinsNext
<1> HIDE DEF Can
<1>3. n \in Can
  BY <1>1, <1>2, NatSets
<1>. QED BY <1>3 DEF Can

(* FlattenSeq goes from piece to piece. *)
LEMMA FlattenIs ==
  ASSUME NEW S, NEW n \in Nat, NEW ss \in [1..n -> Seq(S)]
  PROVE  \E F : Joins(S, ss, F, n) /\ FlattenSeq(ss) = F[n]
<1>1. PICK F : Joins(S, ss, F, n)
  BY JoinsExist
<1>0. Len(ss) = n /\ DOMAIN ss = 1..n
  OBVIOUS
<1>2. CASE n = 0
  <2>1. ss = <<>>
    BY <1>0, <1>2
  <2>2. FlattenSeq(ss) = <<>>
    BY <2>1, <1>0, <1>2 DEF FlattenSeq
  <2>. QED BY <1>1, <1>2, <2>2 DEF Joins
<1>3. CASE n # 0
  <2> DEFINE f == CHOOSE g : g = [i \in 1..n |-> IF i = 1 THEN ss[i] ELSE g[i - 1] \o ss[i]]
             h == [i \in 1..n |-> F[i]]
  <2>1. FlattenSeq(ss) = f[n]
    BY <1>0, <1>3 DEF FlattenSeq
  <2>2. ASSUME NEW i \in 1..n
        PROVE  h[i] = IF i = 1 THEN ss[i] ELSE h[i - 1] \o ss[i]
    <3>1. h[i] = F[i - 1] \o ss[i]
      BY <1>1 DEF Joins
    <3>2. CASE i = 1
      <4>1. F[i - 1] = <<>> /\ ss[i] \in Seq(S)
        BY <1>1, <3>2 DEF Joins
      <4>. QED BY <3>1, <3>2, <4>1, ConcatEmptySeq
    <3>3. CASE i # 1
      <4>1. h[i - 1] = F[i - 1]
        BY <3>3
      <4>. QED BY <3>1, <3>3, <4>1
    <3>. QED BY <3>2, <3>3
  <2>3. h = [i \in 1..n |-> IF i = 1 THEN ss[i] ELSE h[i - 1] \o ss[i]]
    BY <2>2
  <2>4. f = [i \in 1..n |-> IF i = 1 THEN ss[i] ELSE f[i - 1] \o ss[i]]
    <3> HIDE DEF h
    <3>. QED BY <2>3
  <2>5. \A i \in 1..n : f[i] = IF i = 1 THEN ss[i] ELSE f[i - 1] \o ss[i]
    <3> HIDE DEF f
    <3>. QED BY <2>4
  <2> HIDE DEF f, h
  <2> DEFINE Same == {m \in Nat : \A i \in 1..n : i <= m => f[i] = F[i]}
  <2>6. 0 \in Same
    OBVIOUS
  <2>7. ASSUME NEW m \in Nat, m \in Same
        PROVE  m + 1 \in Same
    <3>0. \A i \in 1..n : i <= m => f[i] = F[i]
      BY <2>7
    <3> SUFFICES ASSUME NEW i \in 1..n, i = m + 1
                 PROVE  f[i] = F[i]
      <4>1. \A i \in 1..n : i <= m + 1 => i <= m \/ i = m + 1
        OBVIOUS
      <4>2. \A i \in 1..n : i <= m + 1 => f[i] = F[i]
        BY <3>0, <4>1
      <4>3. m + 1 \in Nat
        OBVIOUS
      <4>. QED BY <4>2, <4>3
    <3> HIDE DEF Same
    <3>1. PICK k : k = i - 1
      OBVIOUS
    <3>2. k \in 0..n /\ F[k] \in Seq(S) /\ F[i] = F[k] \o ss[i]
      <4>1. k \in 0..n
        BY <3>1
      <4>2. F[i] = F[i - 1] \o ss[i]
        BY <1>1 DEF Joins
      <4>3. F[k] \in Seq(S)
        BY <1>1, <4>1 DEF Joins
      <4>. QED BY <3>1, <4>1, <4>2, <4>3
    <3>3. CASE i = 1
      <4>1. f[i] = ss[i] /\ ss[i] \in Seq(S)
        BY <2>5, <3>3
      <4>2. F[k] = <<>>
        BY <1>1, <3>1, <3>3 DEF Joins
      <4>3. F[i] = <<>> \o ss[i]
        BY <3>2, <4>2
      <4>. QED BY <4>1, <4>3, ConcatEmptySeq
    <3>4. CASE i # 1
      <4>1. k \in 1..n /\ k <= m
        BY <3>1, <3>4
      <4>2. f[i] = f[k] \o ss[i]
        BY <2>5, <3>1, <3>4
      <4>3. f[k] = F[k]
        BY <3>0, <4>1
      <4>. QED BY <3>2, <4>2, <4>3
    <3>. QED BY <3>3, <3>4
  <2>8. f[n] = F[n]
    <3>1. \A i \in 1..n : i <= n => f[i] = F[i]
      <4> HIDE DEF Same
      <4>1. n \in Same
        BY <2>6, <2>7, NatSets
      <4>. QED BY <4>1 DEF Same
    <3>. QED BY <1>3, <3>1
  <2>. QED BY <1>1, <2>1, <2>8
<1>. QED BY <1>2, <1>3

(* Behind a and up to e, the pieces are the elements of s, or are empty.    *)
Singles(s, ss, a, e) == \A j \in (a + 1)..e : ss[j] = <<s[j]>>
Empties(ss, a, e) == \A j \in (a + 1)..e : ss[j] = <<>>

(* q is p with t behind it.                                                 *)
Extended(p, t, q) == q = p \o t

LEMMA ExtendedIs ==
  ASSUME NEW S, NEW p \in Seq(S), NEW t \in Seq(S), NEW q, Extended(p, t, q)
  PROVE  q \in Seq(S) /\ Len(q) = Len(p) + Len(t)
BY ConcatProperties DEF Extended

Associative(x, y, z) == (x \o y) \o z = x \o (y \o z)

LEMMA ConcatAssociates ==
  ASSUME NEW S, NEW x \in Seq(S), NEW y \in Seq(S), NEW z \in Seq(S)
  PROVE  Associative(x, y, z)
BY ConcatAssociative DEF Associative

(* Pieces of one element each put back together what they are pieces of.    *)
LEMMA JoinsRun ==
  ASSUME NEW S, NEW s \in Seq(S), NEW ss, NEW F, Joins(S, ss, F, Len(s)),
         NEW a \in 0..Len(s), NEW e \in a..Len(s), Singles(s, ss, a, e)
  PROVE  Extended(F[a], SubSeq(s, a + 1, e), F[e])
<1> DEFINE T == {j \in Nat : F[j] = F[a] \o SubSeq(s, a + 1, j)}
<1> HIDE DEF T
<1>0. a \in Nat /\ e \in Nat /\ e \in a..e /\ \A j \in (a + 1)..e : j \in 1..Len(s)
  OBVIOUS
<1>1. F[a] \in Seq(S)
  BY DEF Joins
<1>2. a \in T
  <2>1. SubSeq(s, a + 1, a) = <<>>
    BY SubSeqEmpty
  <2>2. F[a] = F[a] \o <<>>
    BY <1>1, ConcatEmptySeq
  <2>. QED BY <1>0, <2>1, <2>2 DEF T
<1>3. ASSUME NEW j \in (a + 1)..e, j - 1 \in T
      PROVE  j \in T
  <2>1. F[j] = F[j - 1] \o <<s[j]>>
    BY <1>0 DEF Joins, Singles
  <2>2. F[j - 1] = F[a] \o SubSeq(s, a + 1, j - 1)
    BY <1>3 DEF T
  <2>3. SubSeq(s, a + 1, j) = SubSeq(s, a + 1, j - 1) \o <<s[j]>>
    <3>1. j \in 1..Len(s) /\ a + 1 \in 1..Len(s) /\ j \in (a + 1)..Len(s)
      BY <1>0
    <3>. QED BY <3>1, SubSeqRecursiveSecond
  <2>4. SubSeq(s, a + 1, j - 1) \in Seq(S) /\ <<s[j]>> \in Seq(S)
    <3>1. \A k \in (a + 1)..(j - 1) : s[k] \in S
      OBVIOUS
    <3>. QED BY <3>1, SubSeqProperties
  <2>5. (F[a] \o SubSeq(s, a + 1, j - 1)) \o <<s[j]>> = F[a] \o (SubSeq(s, a + 1, j - 1) \o <<s[j]>>)
    <3> DEFINE v == SubSeq(s, a + 1, j - 1)
               u == <<s[j]>>
    <3>1. F[a] \in Seq(S) /\ v \in Seq(S) /\ u \in Seq(S)
      BY <1>1, <2>4
    <3> HIDE DEF u, v
    <3>2. Associative(F[a], v, u)
      BY <3>1, ConcatAssociates
    <3>. QED BY <3>2 DEF Associative, u, v
  <2>6. F[j] = F[a] \o SubSeq(s, a + 1, j)
    BY <2>1, <2>2, <2>3, <2>5
  <2>7. j \in Nat
    OBVIOUS
  <2>. QED BY <2>6, <2>7 DEF T
<1>4. e \in T
  BY <1>0, <1>2, <1>3, UpFrom
<1>. QED BY <1>4 DEF T, Extended

(* Empty pieces add nothing.                                                *)
LEMMA JoinsNone ==
  ASSUME NEW S, NEW ss, NEW n \in Nat, NEW F, Joins(S, ss, F, n),
         NEW a \in 0..n, NEW e \in a..n, Empties(ss, a, e)
  PROVE  F[e] = F[a]
<1> DEFINE T == {j \in Nat : F[j] = F[a]}
<1> HIDE DEF T
<1>0. a \in Nat /\ e \in Nat /\ e \in a..e /\ \A j \in (a + 1)..e : j \in 1..n
  OBVIOUS
<1>1. F[a] \in Seq(S)
  BY DEF Joins
<1>2. a \in T
  BY DEF T
<1>3. ASSUME NEW j \in (a + 1)..e, j - 1 \in T
      PROVE  j \in T
  <2>1. F[j] = F[j - 1] \o <<>>
    BY <1>0 DEF Joins, Empties
  <2>2. F[j - 1] = F[a]
    BY <1>3 DEF T
  <2>3. F[j] = F[a]
    BY <1>1, <2>1, <2>2, ConcatEmptySeq
  <2>. QED BY <2>3 DEF T
<1>4. e \in T
  BY <1>0, <1>2, <1>3, UpFrom
<1>. QED BY <1>4 DEF T

Holds(q, m) == \E x \in 1..Len(q) : q[x] = m

(* Every element of a piece is in the whole.                                *)
LEMMA JoinsHas ==
  ASSUME NEW S, NEW n \in Nat, NEW ss \in [1..n -> Seq(S)], NEW F, Joins(S, ss, F, n),
         NEW i \in 1..n, NEW k \in 1..Len(ss[i])
  PROVE  Holds(F[n], ss[i][k])
<1> DEFINE T == {j \in Nat : \E x \in 1..Len(F[j]) : F[j][x] = ss[i][k]}
<1> HIDE DEF T
<1>0. i \in Nat /\ n \in i..n /\ \A j \in (i + 1)..n : j \in 1..n /\ j - 1 \in 0..n
  OBVIOUS
<1>1. ASSUME NEW j \in 1..n
      PROVE  /\ F[j] = F[j - 1] \o ss[j]
             /\ F[j - 1] \in Seq(S) /\ ss[j] \in Seq(S) /\ F[j] \in Seq(S)
             /\ Len(F[j - 1]) \in Nat /\ Len(ss[j]) \in Nat
  <2>1. F[j] = F[j - 1] \o ss[j]
    BY DEF Joins
  <2>2. j - 1 \in 0..n /\ j \in 0..n
    OBVIOUS
  <2>3. F[j - 1] \in Seq(S) /\ F[j] \in Seq(S)
    BY <2>2 DEF Joins
  <2>4. ss[j] \in Seq(S)
    OBVIOUS
  <2>. QED BY <2>1, <2>3, <2>4, LenProperties
<1>2. i \in T
  <2> DEFINE x == Len(F[i - 1]) + k
  <2>1. x \in 1..(Len(F[i - 1]) + Len(ss[i]))
    <3>1. Len(F[i - 1]) \in Nat /\ Len(ss[i]) \in Nat
      BY <1>1
    <3>. QED BY <3>1
  <2>2. Len(F[i]) = Len(F[i - 1]) + Len(ss[i])
    <3>1. F[i - 1] \in Seq(S) /\ ss[i] \in Seq(S) /\ Extended(F[i - 1], ss[i], F[i])
      BY <1>1 DEF Extended
    <3> DEFINE p == F[i - 1]
               t == ss[i]
               q == F[i]
    <3>2. p \in Seq(S) /\ t \in Seq(S) /\ Extended(p, t, q)
      BY <3>1
    <3> HIDE DEF p, t, q
    <3>3. Len(q) = Len(p) + Len(t)
      BY <3>2, ExtendedIs
    <3>. QED BY <3>3 DEF p, t, q
  <2>3. F[i][x] = ss[i][k]
    <3>1. F[i][x] = IF x <= Len(F[i - 1]) THEN F[i - 1][x] ELSE ss[i][x - Len(F[i - 1])]
      <4> HIDE DEF x
      <4>1. (F[i - 1] \o ss[i])[x] = IF x <= Len(F[i - 1]) THEN F[i - 1][x]
                                     ELSE ss[i][x - Len(F[i - 1])]
        BY <1>1, <2>1, ConcatProperties
      <4>. QED BY <1>1, <4>1
    <3>2. ~(x <= Len(F[i - 1])) /\ x - Len(F[i - 1]) = k
      BY <1>1
    <3>. QED BY <3>1, <3>2
  <2> HIDE DEF x
  <2>. QED BY <1>0, <2>1, <2>2, <2>3 DEF T
<1>3. ASSUME NEW j \in (i + 1)..n, j - 1 \in T
      PROVE  j \in T
  <2>0. j \in 1..n
    BY <1>0
  <2>1. PICK x \in 1..Len(F[j - 1]) : F[j - 1][x] = ss[i][k]
    BY <1>3 DEF T
  <2>2. Len(F[j]) = Len(F[j - 1]) + Len(ss[j])
    <3>1. F[j - 1] \in Seq(S) /\ ss[j] \in Seq(S) /\ Extended(F[j - 1], ss[j], F[j])
      BY <1>1, <2>0 DEF Extended
    <3> DEFINE p == F[j - 1]
               t == ss[j]
               q == F[j]
    <3>2. p \in Seq(S) /\ t \in Seq(S) /\ Extended(p, t, q)
      BY <3>1
    <3> HIDE DEF p, t, q
    <3>3. Len(q) = Len(p) + Len(t)
      BY <3>2, ExtendedIs
    <3>. QED BY <3>3 DEF p, t, q
  <2>3. x \in 1..(Len(F[j - 1]) + Len(ss[j])) /\ x <= Len(F[j - 1])
    BY <1>1, <2>0
  <2>4. (F[j - 1] \o ss[j])[x] = F[j - 1][x]
    BY <1>1, <2>0, <2>3, ConcatProperties
  <2>5. F[j][x] = ss[i][k]
    BY <1>1, <2>0, <2>1, <2>4
  <2>. QED BY <2>0, <2>2, <2>3, <2>5 DEF T
<1>4. n \in T
  BY <1>0, <1>2, <1>3, UpFrom
<1>. QED BY <1>4 DEF T, Holds
-----------------------------------------------------------------------------
(* Kept: the elements at some indices.                                      *)

LEMMA KeptPieces ==
  ASSUME NEW S, NEW s \in Seq(S), NEW K
  PROVE  \E ss, F :
            /\ ss \in [1..Len(s) -> Seq(S)]
            /\ \A j \in 1..Len(s) : ss[j] = IF j \in K THEN <<s[j]>> ELSE <<>>
            /\ Joins(S, ss, F, Len(s))
            /\ Kept(s, K) = F[Len(s)]
<1> DEFINE ss == [j \in 1..Len(s) |-> IF j \in K THEN <<s[j]>> ELSE <<>>]
<1>1. Len(s) \in Nat /\ DOMAIN s = 1..Len(s)
  BY LenProperties
<1>2. Kept(s, K) = FlattenSeq(ss)
  BY <1>1 DEF Kept
<1>3. ss \in [1..Len(s) -> Seq(S)]
  <2>1. ASSUME NEW j \in 1..Len(s)
        PROVE  (IF j \in K THEN <<s[j]>> ELSE <<>>) \in Seq(S)
    OBVIOUS
  <2>. QED BY <2>1
<1>4. \A j \in 1..Len(s) : ss[j] = IF j \in K THEN <<s[j]>> ELSE <<>>
  OBVIOUS
<1> HIDE DEF ss
<1>5. PICK F : Joins(S, ss, F, Len(s)) /\ FlattenSeq(ss) = F[Len(s)]
  BY <1>1, <1>3, FlattenIs
<1>. QED BY <1>2, <1>3, <1>4, <1>5

(* All but the elements from a + 1 to b.                                    *)
LEMMA KeptCut ==
  ASSUME NEW S, NEW s \in Seq(S), NEW K, NEW a \in 0..Len(s), NEW b \in a..Len(s),
         \A j \in 1..Len(s) : j \in K <=> (j <= a \/ j > b)
  PROVE  Kept(s, K) = SubSeq(s, 1, a) \o SubSeq(s, b + 1, Len(s))
<1> DEFINE n == Len(s)
<1>1. n \in Nat /\ 0 \in 0..n /\ a \in 0..n /\ b \in 0..n /\ n \in b..n /\ n <= n /\ 0 + 1 = 1
  OBVIOUS
<1>2. PICK ss, F :
         /\ ss \in [1..n -> Seq(S)]
         /\ \A j \in 1..n : ss[j] = IF j \in K THEN <<s[j]>> ELSE <<>>
         /\ Joins(S, ss, F, n)
         /\ Kept(s, K) = F[n]
  BY KeptPieces
<1>3. F[a] = SubSeq(s, 1, a)
  <2>1. Singles(s, ss, 0, a)
    BY <1>1, <1>2 DEF Singles
  <2>2. F[a] = F[0] \o SubSeq(s, 0 + 1, a)
    <3>1. Extended(F[0], SubSeq(s, 0 + 1, a), F[a])
      BY <1>1, <1>2, <2>1, JoinsRun
    <3>. QED BY <3>1 DEF Extended
  <2>3. F[0] = <<>>
    BY <1>2 DEF Joins
  <2>4. SubSeq(s, 1, a) \in Seq(S)
    <3>1. \A i \in 1..a : s[i] \in S
      OBVIOUS
    <3>. QED BY <3>1, SubSeqProperties
  <2>. QED BY <1>1, <2>2, <2>3, <2>4, ConcatEmptySeq
<1>4. F[b] = F[a]
  <2>1. Empties(ss, a, b)
    <3>1. \A j \in (a + 1)..b : j \in 1..n /\ j \notin K
      BY <1>1
    <3>. QED BY <1>2, <3>1 DEF Empties
  <2>. QED BY <1>1, <1>2, <2>1, JoinsNone
<1>5. F[n] = F[b] \o SubSeq(s, b + 1, n)
  <2>1. Singles(s, ss, b, n)
    <3>1. \A j \in (b + 1)..n : j \in 1..n /\ j \in K
      BY <1>1
    <3>. QED BY <1>2, <3>1 DEF Singles
  <2>2. Extended(F[b], SubSeq(s, b + 1, n), F[n])
    BY <1>1, <1>2, <2>1, JoinsRun
  <2>. QED BY <2>2 DEF Extended
<1>. QED BY <1>2, <1>3, <1>4, <1>5

(* r is what s has at the indices of K up to j, at the indices phi gives.   *)
Picks(s, K, j, r, phi) ==
    /\ phi \in [1..Len(r) -> 1..j]
    /\ \A x \in 1..Len(r) : phi[x] \in K /\ r[x] = s[phi[x]]
    /\ \A x, y \in 1..Len(r) : x < y => phi[x] < phi[y]
    /\ \A k \in 1..j : k \in K => \E x \in 1..Len(r) : phi[x] = k

LEMMA PicksNext ==
  ASSUME NEW S, NEW s \in Seq(S), NEW K, NEW j \in 1..Len(s), j \in K,
         NEW r \in Seq(S), NEW phi, Picks(s, K, j - 1, r, phi)
  PROVE  \E psi : Picks(s, K, j, r \o <<s[j]>>, psi)
<1> DEFINE q == r \o <<s[j]>>
           psi == [x \in 1..Len(r) + 1 |-> IF x <= Len(r) THEN phi[x] ELSE j]
<1>1. phi \in [1..Len(r) -> 1..(j - 1)]
  BY DEF Picks
<1>2. Len(r) \in Nat /\ Len(q) = Len(r) + 1
  BY LenProperties, ConcatProperties
<1>3. q[Len(r) + 1] = s[j] /\ \A x \in 1..Len(r) : q[x] = r[x]
  BY <1>2, ConcatProperties
<1>4. psi \in [1..Len(q) -> 1..j]
  BY <1>1, <1>2
<1>5. psi[Len(r) + 1] = j /\ \A x \in 1..Len(r) : psi[x] = phi[x]
  BY <1>2
<1>6. \A x \in 1..Len(q) : x \in 1..Len(r) \/ x = Len(r) + 1
  BY <1>2
<1> HIDE DEF q, psi
<1>7. \A x \in 1..Len(q) : psi[x] \in K /\ q[x] = s[psi[x]]
  BY <1>3, <1>5, <1>6 DEF Picks
<1>8. ASSUME NEW x \in 1..Len(q), NEW y \in 1..Len(q), x < y
      PROVE  psi[x] < psi[y]
  <2>1. x \in 1..Len(r) /\ phi[x] < j
    BY <1>1, <1>2, <1>8
  <2>2. CASE y \in 1..Len(r)
    BY <1>5, <1>8, <2>1, <2>2 DEF Picks
  <2>3. CASE y = Len(r) + 1
    BY <1>5, <2>1, <2>3
  <2>. QED BY <1>6, <2>2, <2>3
<1>9. ASSUME NEW k \in 1..j, k \in K
      PROVE  \E x \in 1..Len(q) : psi[x] = k
  <2>1. CASE k = j
    <3>1. Len(r) + 1 \in 1..Len(q)
      BY <1>2
    <3>. QED BY <1>5, <2>1, <3>1
  <2>2. CASE k # j
    <3>1. k \in 1..(j - 1)
      BY <2>2
    <3>2. PICK x \in 1..Len(r) : phi[x] = k
      BY <1>9, <3>1 DEF Picks
    <3>3. x \in 1..Len(q)
      BY <1>2
    <3>. QED BY <1>5, <3>2, <3>3
  <2>. QED BY <2>1, <2>2
<1>10. Picks(s, K, j, q, psi)
  BY <1>4, <1>7, <1>8, <1>9 DEF Picks
<1>. QED BY <1>10 DEF q

LEMMA KeptMap ==
  ASSUME NEW S, NEW s \in Seq(S), NEW K
  PROVE  Kept(s, K) \in Seq(S) /\ \E phi : Picks(s, K, Len(s), Kept(s, K), phi)
<1> DEFINE n == Len(s)
<1>1. n \in Nat /\ 0 \in 0..n /\ n \in 0..n /\ 0 \in Nat
  OBVIOUS
<1>2. PICK ss, F :
         /\ ss \in [1..n -> Seq(S)]
         /\ \A j \in 1..n : ss[j] = IF j \in K THEN <<s[j]>> ELSE <<>>
         /\ Joins(S, ss, F, n)
         /\ Kept(s, K) = F[n]
  BY KeptPieces
<1> DEFINE T == {j \in Nat : \E phi : Picks(s, K, j, F[j], phi)}
<1> HIDE DEF T
<1>3. 0 \in T
  <2>1. F[0] = <<>>
    BY <1>2 DEF Joins
  <2>2. Picks(s, K, 0, F[0], <<>>)
    BY <2>1 DEF Picks
  <2>. QED BY <2>2 DEF T
<1>4. ASSUME NEW j \in (0 + 1)..n, j - 1 \in T
      PROVE  j \in T
  <2>0. j \in 1..n /\ j \in Nat /\ j - 1 \in 0..n
    OBVIOUS
  <2>1. PICK phi : Picks(s, K, j - 1, F[j - 1], phi)
    BY <1>4 DEF T
  <2>2. F[j] = F[j - 1] \o ss[j] /\ F[j - 1] \in Seq(S)
    BY <1>2, <2>0 DEF Joins
  <2>3. CASE j \in K
    <3>1. ss[j] = <<s[j]>>
      BY <1>2, <2>0, <2>3
    <3>2. \E psi : Picks(s, K, j, F[j - 1] \o <<s[j]>>, psi)
      BY <2>0, <2>1, <2>2, <2>3, PicksNext
    <3>. QED BY <2>0, <2>2, <3>1, <3>2 DEF T
  <2>4. CASE j \notin K
    <3>1. ss[j] = <<>>
      BY <1>2, <2>0, <2>4
    <3>2. F[j] = F[j - 1]
      BY <2>2, <3>1, ConcatEmptySeq
    <3>3. phi \in [1..Len(F[j - 1]) -> 1..(j - 1)]
      BY <2>1 DEF Picks
    <3>4. phi \in [1..Len(F[j - 1]) -> 1..j]
      BY <3>3
    <3>5. \A k \in 1..j : k \in K => k \in 1..(j - 1)
      BY <2>4
    <3>6. Picks(s, K, j, F[j - 1], phi)
      BY <2>1, <3>4, <3>5 DEF Picks
    <3>. QED BY <2>0, <3>2, <3>6 DEF T
  <2>. QED BY <2>3, <2>4
<1>5. n \in T
  BY <1>1, <1>3, <1>4, UpFrom
<1>6. F[n] \in Seq(S)
  BY <1>1, <1>2 DEF Joins
<1>. QED BY <1>2, <1>5, <1>6 DEF T
-----------------------------------------------------------------------------
(* Paired sequences of messages: what PromptPaired says, with the end of    *)
(* every block of results named and without counting.                       *)

ToolsOnly(p, i, j) == \A k \in i..j : p[k].role = "tool"
OneEach(p, i, j) == \A x, y \in i..j : p[x].call = p[y].call => x = y

(* The messages from i + 1 to e are the results of assistant message i.     *)
Answered(p, i, e) ==
    /\ e \in i..Len(p)
    /\ ToolsOnly(p, i + 1, e)
    /\ e < Len(p) => p[e + 1].role # "tool"
    /\ {p[k].call : k \in (i + 1)..e} = CallIds(p[i])
    /\ OneEach(p, i + 1, e)

(* Behind the first a messages of p, calls and results are paired.          *)
CallsPaired(p, a) ==
    \A i \in (a + 1)..Len(p) : p[i].role = "assistant" => \E e \in i..Len(p) : Answered(p, i, e)

ResultsPaired(p, a) ==
    \A j \in (a + 1)..Len(p) : p[j].role = "tool" =>
        \E i \in (a + 1)..(j - 1) : p[i].role = "assistant" /\ ToolsOnly(p, i + 1, j)

PairedFrom(p, a) == CallsPaired(p, a) /\ ResultsPaired(p, a)
Paired(p) == PairedFrom(p, 0)

LEMMA MessageFields ==
  ASSUME NEW m \in MessageType
  PROVE  /\ m.role \in {"user", "assistant", "tool", "system"}
         /\ m.calls \in Nat /\ m.calls \in 0..MaxCalls
         /\ m.row \in Nat /\ m.row \in 0..MaxRows
         /\ m.id \in -MaxRows..MaxRows
         /\ m.call \in (0..MaxRows) \X (0..MaxCalls)
<1>1. /\ m.role \in {"user", "assistant", "tool", "system"}
      /\ m.calls \in 0..MaxCalls /\ m.row \in 0..MaxRows
  BY DEF MessageType
<1>2. m.id \in -MaxRows..MaxRows /\ m.call \in (0..MaxRows) \X (0..MaxCalls)
  BY DEF MessageType
<1>3. MaxCalls \in Nat /\ MaxRows \in Nat
  BY PromptAssumption
<1>4. m.calls \in Nat /\ m.row \in Nat
  BY <1>1, <1>3
<1>. QED BY <1>1, <1>2, <1>4

LEMMA CallsCounted ==
  ASSUME NEW m, m.calls \in Nat
  PROVE  IsFiniteSet(CallIds(m)) /\ Cardinality(CallIds(m)) = m.calls
<1> DEFINE n == m.calls
           g == [k \in 1..n |-> <<m.row, k>>]
<1>1. g \in Bijection(1..n, CallIds(m))
  <2>1. g \in [1..n -> CallIds(m)]
    BY DEF CallIds
  <2>2. \A x, y \in 1..n : g[x] = g[y] => x = y
    OBVIOUS
  <2>3. \A c \in CallIds(m) : \E k \in 1..n : g[k] = c
    BY DEF CallIds
  <2> HIDE DEF g
  <2>. QED BY <2>1, <2>2, <2>3 DEF Bijection, Injection, IsInjective, Surjection
<1>2. ExistsBijection(1..n, CallIds(m))
  BY <1>1 DEF ExistsBijection
<1>3. IsFiniteSet(1..n) /\ Cardinality(1..n) = n
  BY FS_Interval
<1>. QED BY <1>2, <1>3, FS_Bijection

LEMMA AnsweredCounted ==
  ASSUME NEW p, NEW i, NEW e, p[i].calls \in Nat, Answered(p, i, e)
  PROVE  Cardinality((i + 1)..e) = p[i].calls
<1> DEFINE f == [k \in (i + 1)..e |-> p[k].call]
<1>1. f \in Injection((i + 1)..e, CallIds(p[i]))
  <2>1. f \in [(i + 1)..e -> CallIds(p[i])]
    BY DEF Answered
  <2>2. \A x, y \in (i + 1)..e : f[x] = f[y] => x = y
    BY DEF Answered, OneEach
  <2> HIDE DEF f
  <2>. QED BY <2>1, <2>2 DEF Injection, IsInjective
<1>2. f \in Surjection((i + 1)..e, CallIds(p[i]))
  BY <1>1 DEF Injection, Surjection, Answered
<1> HIDE DEF f
<1>. QED BY <1>1, <1>2, FS_Injection, CallsCounted

LEMMA PairedPrompt ==
  ASSUME prompt \in Seq(MessageType), Paired(prompt)
  PROVE  PromptPaired
<1> DEFINE Block(i) == {j \in i+1..Len(prompt) : \A k \in i+1..j : prompt[k].role = "tool"}
<1>0. DOMAIN prompt = 1..Len(prompt) /\ Len(prompt) \in Nat
  BY LenProperties
<1>1. ASSUME NEW i \in DOMAIN prompt, prompt[i].role = "assistant"
      PROVE  /\ {prompt[j].call : j \in Block(i)} = CallIds(prompt[i])
             /\ Cardinality(Block(i)) = prompt[i].calls
  <2>1. PICK e : Answered(prompt, i, e)
    BY <1>0, <1>1 DEF Paired, PairedFrom, CallsPaired
  <2>2. Block(i) = (i + 1)..e
    <3>1. e \in i..Len(prompt) /\ e \in Int /\ i \in Int
      BY <1>0, <2>1 DEF Answered
    <3>2. ASSUME NEW j \in Block(i), ~(j <= e)
          PROVE  FALSE
      <4>1. e + 1 \in (i + 1)..j /\ e < Len(prompt)
        BY <1>0, <3>1, <3>2
      <4>. QED BY <2>1, <3>2, <4>1 DEF Answered
    <3>3. ASSUME NEW j \in (i + 1)..e
          PROVE  j \in Block(i)
      BY <1>0, <2>1, <3>1 DEF Answered, ToolsOnly
    <3>4. \A j \in Block(i) : j \in (i + 1)..e
      BY <1>0, <3>1, <3>2
    <3>. QED BY <3>3, <3>4
  <2>3. prompt[i].calls \in Nat
    BY <1>0, ElementOfSeq, MessageFields
  <2> HIDE DEF Block
  <2>. QED BY <2>1, <2>2, <2>3, AnsweredCounted DEF Answered
<1>2. ASSUME NEW j \in DOMAIN prompt, prompt[j].role = "tool"
      PROVE  \E i \in 1..j-1 : prompt[i].role = "assistant" /\ j \in Block(i)
  <2>1. PICK i \in 1..(j - 1) : prompt[i].role = "assistant" /\ ToolsOnly(prompt, i + 1, j)
    BY <1>0, <1>2 DEF Paired, PairedFrom, ResultsPaired
  <2>2. j \in Block(i)
    BY <1>0, <2>1 DEF ToolsOnly
  <2>. QED BY <2>1, <2>2
<1>. QED BY <1>1, <1>2 DEF PromptPaired
(* q has at i + d to e + d what p has at i to e, and no further result.     *)
Shifted(p, q, i, e, d) ==
    /\ \A k \in i..e : q[k + d] = p[k]
    /\ e + d <= Len(q)
    /\ e + d < Len(q) => q[e + d + 1].role # "tool"

(* A block of results keeps its place in a sequence that has it.            *)
LEMMA AnsweredMoved ==
  ASSUME NEW p, NEW q, NEW i \in Int, NEW e \in Int, NEW d \in Int,
         Answered(p, i, e), Len(q) \in Int, Shifted(p, q, i, e, d)
  PROVE  Answered(q, i + d, e + d)
<1>0. /\ \A k \in i..e : q[k + d] = p[k]
      /\ e + d <= Len(q)
      /\ e + d < Len(q) => q[e + d + 1].role # "tool"
  BY DEF Shifted
<1>1. i <= e
  BY DEF Answered
<1>2. \A k \in (i + d)..(e + d) : k - d \in i..e /\ q[k] = p[k - d]
  <2>1. ASSUME NEW k \in (i + d)..(e + d)
        PROVE  k - d \in i..e /\ (k - d) + d = k
    OBVIOUS
  <2>. QED BY <1>0, <2>1
<1>3. e + d \in (i + d)..Len(q)
  BY <1>0, <1>1
<1>4. ToolsOnly(q, (i + d) + 1, e + d)
  <2>1. \A k \in ((i + d) + 1)..(e + d) : k \in (i + d)..(e + d) /\ k - d \in (i + 1)..e
    OBVIOUS
  <2>. QED BY <1>2, <2>1 DEF Answered, ToolsOnly
<1>5. {q[k].call : k \in ((i + d) + 1)..(e + d)} = {p[k].call : k \in (i + 1)..e}
  <2>1. ASSUME NEW k \in ((i + d) + 1)..(e + d)
        PROVE  q[k].call \in {p[x].call : x \in (i + 1)..e}
    <3>1. k \in (i + d)..(e + d) /\ k - d \in (i + 1)..e
      OBVIOUS
    <3>. QED BY <1>2, <3>1
  <2>2. ASSUME NEW x \in (i + 1)..e
        PROVE  p[x].call \in {q[k].call : k \in ((i + d) + 1)..(e + d)}
    <3>1. x \in i..e /\ x + d \in ((i + d) + 1)..(e + d)
      OBVIOUS
    <3>2. q[x + d] = p[x]
      BY <1>0, <3>1
    <3>. QED BY <3>1, <3>2
  <2>. QED BY <2>1, <2>2
<1>6. CallIds(q[i + d]) = CallIds(p[i])
  <2>1. i \in i..e
    BY <1>1
  <2>. QED BY <1>0, <2>1
<1>7. OneEach(q, (i + d) + 1, e + d)
  <2>1. ASSUME NEW x \in ((i + d) + 1)..(e + d), NEW y \in ((i + d) + 1)..(e + d),
               q[x].call = q[y].call
        PROVE  x = y
    <3>1. x - d \in (i + 1)..e /\ y - d \in (i + 1)..e
      OBVIOUS
    <3>2. x \in (i + d)..(e + d) /\ y \in (i + d)..(e + d)
      OBVIOUS
    <3>3. p[x - d].call = p[y - d].call
      BY <1>2, <2>1, <3>2
    <3>4. x - d = y - d
      BY <3>1, <3>3 DEF Answered, OneEach
    <3>. QED BY <3>4
  <2>. QED BY <2>1 DEF OneEach
<1>8. {p[k].call : k \in (i + 1)..e} = CallIds(p[i])
  BY DEF Answered
<1>. QED BY <1>0, <1>3, <1>4, <1>5, <1>6, <1>7, <1>8 DEF Answered

(* The results of a paired sequence start behind a call.                    *)
LEMMA PairedFirst ==
  ASSUME NEW p, NEW a \in Nat, Len(p) \in Nat, PairedFrom(p, a), a < Len(p)
  PROVE  p[a + 1].role # "tool"
<1>1. a + 1 \in (a + 1)..Len(p) /\ (a + 1)..((a + 1) - 1) = {}
  OBVIOUS
<1>. QED BY <1>1 DEF PairedFrom, ResultsPaired

LEMMA PairedConcat ==
  ASSUME NEW S, NEW p \in Seq(S), NEW q \in Seq(S), NEW a \in 0..Len(p),
         PairedFrom(p, a), Paired(q)
  PROVE  PairedFrom(p \o q, a)
<1> DEFINE r == p \o q
           d == Len(p)
<1>1. d \in Nat /\ Len(q) \in Nat /\ Len(r) = d + Len(q) /\ a \in Nat /\ a <= d
  BY LenProperties, ConcatProperties
<1>2. \A k \in 1..d : r[k] = p[k]
  BY <1>1, ConcatProperties
<1>3. \A k \in 1..Len(q) : r[k + d] = q[k]
  BY <1>1, ConcatProperties
<1> HIDE DEF r, d
<1>4. d < Len(r) => r[d + 1].role # "tool"
  <2>1. SUFFICES ASSUME d < Len(r)
                 PROVE  r[d + 1].role # "tool"
    OBVIOUS
  <2>2. 0 < Len(q) /\ 1 \in 1..Len(q)
    BY <1>1, <2>1
  <2>3. q[0 + 1].role # "tool"
    BY <1>1, <2>2, PairedFirst DEF Paired
  <2>4. r[1 + d] = q[1]
    BY <1>3, <2>2
  <2>5. 1 + d = d + 1 /\ 0 + 1 = 1
    BY <1>1
  <2>. QED BY <2>3, <2>4, <2>5
<1>5. ASSUME NEW i \in (a + 1)..Len(r), r[i].role = "assistant"
      PROVE  \E e \in i..Len(r) : Answered(r, i, e)
  <2>1. CASE i <= d
    <3>1. i \in (a + 1)..d /\ i \in 1..d
      BY <1>1, <2>1
    <3>2. PICK e \in i..d : Answered(p, i, e)
      BY <1>2, <1>5, <3>1 DEF PairedFrom, CallsPaired, d
    <3>3. e \in Int /\ i \in Int /\ e + 0 <= Len(r) /\ \A k \in i..e : k + 0 = k /\ k \in 1..d
      BY <1>1, <3>1
    <3>4. \A k \in i..e : r[k + 0] = p[k]
      BY <1>2, <3>3
    <3>5. e < d => p[e + 1].role # "tool"
      BY <3>2 DEF Answered, d
    <3>6. e + 0 < Len(r) => r[e + 0 + 1].role # "tool"
      <4>1. CASE e < d
        <5>1. e + 1 \in 1..d /\ e + 0 + 1 = e + 1
          BY <1>1, <3>1, <4>1
        <5>. QED BY <1>2, <3>5, <4>1, <5>1
      <4>2. CASE e = d
        <5>1. e + 0 + 1 = d + 1 /\ e + 0 = d
          BY <1>1, <4>2
        <5>. QED BY <1>4, <5>1
      <4>3. e < d \/ e = d
        BY <1>1
      <4>. QED BY <4>1, <4>2, <4>3
    <3>7. Answered(r, i + 0, e + 0)
      <4>1. Shifted(p, r, i, e, 0)
        BY <3>3, <3>4, <3>6 DEF Shifted
      <4>. QED BY <1>1, <3>2, <3>3, <4>1, AnsweredMoved
    <3>8. i + 0 = i /\ e + 0 = e /\ e \in i..Len(r)
      BY <1>1, <3>1
    <3>. QED BY <3>7, <3>8
  <2>2. CASE ~(i <= d)
    <3>1. i - d \in (0 + 1)..Len(q) /\ (i - d) + d = i /\ i - d \in 1..Len(q)
      BY <1>1, <2>2
    <3>2. q[i - d].role = "assistant"
      BY <1>3, <1>5, <3>1
    <3>3. PICK e \in (i - d)..Len(q) : Answered(q, i - d, e)
      BY <3>1, <3>2 DEF Paired, PairedFrom, CallsPaired
    <3>4. e \in Int /\ i - d \in Int /\ e + d <= Len(r) /\ \A k \in (i - d)..e : k \in 1..Len(q)
      BY <1>1, <3>1
    <3>5. \A k \in (i - d)..e : r[k + d] = q[k]
      BY <1>3, <3>4
    <3>6. e + d < Len(r) => r[e + d + 1].role # "tool"
      <4>1. SUFFICES ASSUME e + d < Len(r)
                     PROVE  r[e + d + 1].role # "tool"
        OBVIOUS
      <4>2. e < Len(q) /\ e + 1 \in 1..Len(q) /\ (e + 1) + d = e + d + 1
        BY <1>1, <3>1, <4>1
      <4>3. q[e + 1].role # "tool"
        BY <3>3, <4>2 DEF Answered
      <4>. QED BY <1>3, <4>2, <4>3
    <3>7. Answered(r, (i - d) + d, e + d)
      <4>1. Shifted(q, r, i - d, e, d)
        BY <3>4, <3>5, <3>6 DEF Shifted
      <4>. QED BY <1>1, <3>3, <3>4, <4>1, AnsweredMoved
    <3>8. e + d \in i..Len(r)
      BY <1>1, <3>1
    <3>. QED BY <3>1, <3>7, <3>8
  <2>. QED BY <2>1, <2>2
<1>6. ASSUME NEW j \in (a + 1)..Len(r), r[j].role = "tool"
      PROVE  \E i \in (a + 1)..(j - 1) : r[i].role = "assistant" /\ ToolsOnly(r, i + 1, j)
  <2>1. CASE j <= d
    <3>1. j \in (a + 1)..d /\ j \in 1..d
      BY <1>1, <2>1
    <3>2. PICK i \in (a + 1)..(j - 1) : p[i].role = "assistant" /\ ToolsOnly(p, i + 1, j)
      BY <1>2, <1>6, <3>1 DEF PairedFrom, ResultsPaired, d
    <3>3. i \in 1..d /\ \A k \in (i + 1)..j : k \in 1..d
      BY <1>1, <3>1
    <3>4. r[i].role = "assistant" /\ ToolsOnly(r, i + 1, j)
      BY <1>2, <3>2, <3>3 DEF ToolsOnly
    <3>. QED BY <3>4
  <2>2. CASE ~(j <= d)
    <3>1. j - d \in (0 + 1)..Len(q) /\ (j - d) + d = j /\ j - d \in 1..Len(q)
      BY <1>1, <2>2
    <3>2. q[j - d].role = "tool"
      BY <1>3, <1>6, <3>1
    <3>3. PICK i \in (0 + 1)..((j - d) - 1) : q[i].role = "assistant" /\ ToolsOnly(q, i + 1, j - d)
      BY <3>1, <3>2 DEF Paired, PairedFrom, ResultsPaired
    <3>4. i \in 1..Len(q) /\ i + d \in (a + 1)..(j - 1)
      BY <1>1, <3>1
    <3>5. r[i + d].role = "assistant"
      BY <1>3, <3>3, <3>4
    <3>6. ASSUME NEW k \in ((i + d) + 1)..j
          PROVE  r[k].role = "tool"
      <4>1. k - d \in (i + 1)..(j - d) /\ k - d \in 1..Len(q) /\ (k - d) + d = k
        BY <1>1, <3>1, <3>4
      <4>. QED BY <1>3, <3>3, <4>1 DEF ToolsOnly
    <3>. QED BY <3>4, <3>5, <3>6 DEF ToolsOnly
  <2>. QED BY <2>1, <2>2
<1>7. PairedFrom(r, a)
  BY <1>5, <1>6 DEF PairedFrom, CallsPaired, ResultsPaired
<1>. QED BY <1>7 DEF r
LEMMA PairedTail ==
  ASSUME NEW S, NEW p \in Seq(S), NEW a \in 0..Len(p), PairedFrom(p, a)
  PROVE  Paired(SubSeq(p, a + 1, Len(p)))
<1> DEFINE q == SubSeq(p, a + 1, Len(p))
<1>1. Len(p) \in Nat /\ a \in Nat
  BY LenProperties
<1>2. \A k \in (a + 1)..Len(p) : p[k] \in S
  BY <1>1
<1>3. Len(q) = Len(p) - a /\ \A k \in 1..(Len(p) - (a + 1) + 1) : q[k] = p[(a + 1) + k - 1]
  BY <1>1, <1>2, SubSeqProperties
<1> HIDE DEF q
<1>4. \A k \in 1..Len(q) : k + a \in (a + 1)..Len(p) /\ q[k] = p[k + a]
  <2>1. \A k \in 1..Len(q) : /\ k \in 1..(Len(p) - (a + 1) + 1)
                             /\ (a + 1) + k - 1 = k + a /\ k + a \in (a + 1)..Len(p)
    BY <1>1, <1>3
  <2>. QED BY <1>3, <2>1
<1>5. Len(q) \in Nat
  BY <1>1, <1>3
<1>6. ASSUME NEW i \in (0 + 1)..Len(q), q[i].role = "assistant"
      PROVE  \E e \in i..Len(q) : Answered(q, i, e)
  <2>1. i \in 1..Len(q) /\ i + a \in (a + 1)..Len(p) /\ p[i + a].role = "assistant"
    BY <1>4, <1>5, <1>6
  <2>2. PICK e \in (i + a)..Len(p) : Answered(p, i + a, e)
    BY <2>1 DEF PairedFrom, CallsPaired
  <2>3. e - a \in i..Len(q) /\ e \in Int /\ i + a \in Int /\ -a \in Int
    BY <1>1, <1>3, <2>1
  <2>4. \A k \in (i + a)..e : q[k + -a] = p[k]
    <3>1. \A k \in (i + a)..e : k + -a \in 1..Len(q) /\ (k + -a) + a = k
      BY <1>1, <1>3, <2>1
    <3>. QED BY <1>4, <3>1
  <2>5. e + -a < Len(q) => q[e + -a + 1].role # "tool"
    <3>1. SUFFICES ASSUME e + -a < Len(q)
                   PROVE  q[e + -a + 1].role # "tool"
      OBVIOUS
    <3>2. e < Len(p) /\ e + -a + 1 \in 1..Len(q) /\ (e + -a + 1) + a = e + 1
      BY <1>1, <1>3, <2>1, <3>1
    <3>3. p[e + 1].role # "tool"
      BY <2>2, <3>2 DEF Answered
    <3>. QED BY <1>4, <3>2, <3>3
  <2>6. Shifted(p, q, i + a, e, -a)
    <3>1. e + -a <= Len(q)
      BY <1>1, <2>3
    <3>. QED BY <2>4, <2>5, <3>1 DEF Shifted
  <2>7. Answered(q, (i + a) + -a, e + -a)
    BY <1>5, <2>2, <2>3, <2>6, AnsweredMoved
  <2>8. (i + a) + -a = i /\ e + -a = e - a
    BY <1>1, <2>1
  <2>. QED BY <2>3, <2>7, <2>8
<1>7. ASSUME NEW j \in (0 + 1)..Len(q), q[j].role = "tool"
      PROVE  \E i \in (0 + 1)..(j - 1) : q[i].role = "assistant" /\ ToolsOnly(q, i + 1, j)
  <2>1. j \in 1..Len(q) /\ j + a \in (a + 1)..Len(p) /\ p[j + a].role = "tool"
    BY <1>4, <1>5, <1>7
  <2>2. PICK i \in (a + 1)..((j + a) - 1) : p[i].role = "assistant" /\ ToolsOnly(p, i + 1, j + a)
    BY <2>1 DEF PairedFrom, ResultsPaired
  <2>3. i - a \in (0 + 1)..(j - 1) /\ i - a \in 1..Len(q) /\ (i - a) + a = i
    BY <1>1, <2>1
  <2>4. q[i - a].role = "assistant"
    BY <1>4, <2>2, <2>3
  <2>5. ASSUME NEW k \in ((i - a) + 1)..j
        PROVE  q[k].role = "tool"
    <3>1. k \in 1..Len(q) /\ k + a \in (i + 1)..(j + a)
      <4>1. a \in Int /\ i \in Int /\ j \in Int /\ i - a \in 1..Len(q)
        BY <1>1, <2>1, <2>3
      <4>2. k \in Int /\ k >= (i - a) + 1 /\ k <= j /\ j <= Len(q) /\ 1 <= i - a
        BY <2>1, <4>1
      <4>3. k + a >= i + 1 /\ k + a <= j + a
        BY <4>1, <4>2
      <4>4. Len(q) \in Int /\ 1 <= k /\ k <= Len(q)
        BY <1>1, <4>1, <4>2
      <4>. QED BY <4>1, <4>2, <4>3, <4>4
    <3>2. p[k + a].role = "tool"
      BY <2>2, <3>1 DEF ToolsOnly
    <3>. QED BY <1>4, <3>1, <3>2
  <2>. QED BY <2>3, <2>4, <2>5 DEF ToolsOnly
<1>8. Paired(q)
  BY <1>6, <1>7 DEF Paired, PairedFrom, CallsPaired, ResultsPaired
<1>. QED BY <1>8 DEF q

(* A cut that is not before a result splits no block.                       *)
LEMMA PairedBehind ==
  ASSUME NEW p, NEW a \in Nat, Len(p) \in Nat, Paired(p), a < Len(p) => p[a + 1].role # "tool"
  PROVE  PairedFrom(p, a)
<1>1. ASSUME NEW j \in (a + 1)..Len(p), p[j].role = "tool"
      PROVE  \E i \in (a + 1)..(j - 1) : p[i].role = "assistant" /\ ToolsOnly(p, i + 1, j)
  <2>1. j \in (0 + 1)..Len(p)
    OBVIOUS
  <2>2. PICK i \in (0 + 1)..(j - 1) : p[i].role = "assistant" /\ ToolsOnly(p, i + 1, j)
    BY <1>1, <2>1 DEF Paired, PairedFrom, ResultsPaired
  <2>3. CASE i <= a
    <3>1. a + 1 \in (i + 1)..j /\ a < Len(p)
      BY <2>3
    <3>. QED BY <2>2, <3>1 DEF ToolsOnly
  <2>4. CASE ~(i <= a)
    <3>1. i \in (a + 1)..(j - 1)
      BY <2>4
    <3>. QED BY <2>2, <3>1
  <2>. QED BY <2>3, <2>4
<1>2. ASSUME NEW i \in (a + 1)..Len(p), p[i].role = "assistant"
      PROVE  \E e \in i..Len(p) : Answered(p, i, e)
  <2>1. i \in (0 + 1)..Len(p)
    OBVIOUS
  <2>. QED BY <1>2, <2>1 DEF Paired, PairedFrom, CallsPaired
<1>. QED BY <1>1, <1>2 DEF PairedFrom, CallsPaired, ResultsPaired

(* Messages that neither call nor answer may stand before paired ones.      *)
NoTurns(p, a) == \A k \in 1..a : p[k].role \notin {"assistant", "tool"}

LEMMA PairedAfter ==
  ASSUME NEW p, NEW a \in Nat, Len(p) \in Nat, NoTurns(p, a), PairedFrom(p, a)
  PROVE  Paired(p)
<1>1. ASSUME NEW j \in (0 + 1)..Len(p), p[j].role = "tool"
      PROVE  \E i \in (0 + 1)..(j - 1) : p[i].role = "assistant" /\ ToolsOnly(p, i + 1, j)
  <2>1. j \in (a + 1)..Len(p)
    <3>1. j \in 1..a \/ j \in (a + 1)..Len(p)
      OBVIOUS
    <3>. QED BY <1>1, <3>1 DEF NoTurns
  <2>2. PICK i \in (a + 1)..(j - 1) : p[i].role = "assistant" /\ ToolsOnly(p, i + 1, j)
    BY <1>1, <2>1 DEF PairedFrom, ResultsPaired
  <2>3. i \in (0 + 1)..(j - 1)
    OBVIOUS
  <2>. QED BY <2>2, <2>3
<1>2. ASSUME NEW i \in (0 + 1)..Len(p), p[i].role = "assistant"
      PROVE  \E e \in i..Len(p) : Answered(p, i, e)
  <2>1. i \in 1..a \/ i \in (a + 1)..Len(p)
    OBVIOUS
  <2>. QED BY <1>2, <2>1 DEF NoTurns, PairedFrom, CallsPaired
<1>. QED BY <1>1, <1>2 DEF Paired, PairedFrom, CallsPaired, ResultsPaired

LEMMA PairedNoTurns ==
  ASSUME NEW p, Len(p) \in Nat, NoTurns(p, Len(p))
  PROVE  Paired(p)
<1>1. (Len(p) + 1)..Len(p) = {}
  OBVIOUS
<1>2. PairedFrom(p, Len(p))
  BY <1>1 DEF PairedFrom, CallsPaired, ResultsPaired
<1>. QED BY <1>2, PairedAfter

(* A call with all its results and nothing else.                            *)
LEMMA PairedBlock ==
  ASSUME NEW p, Len(p) \in Nat \ {0}, p[1].role = "assistant", Answered(p, 1, Len(p))
  PROVE  Paired(p)
<1>1. \A k \in 2..Len(p) : p[k].role = "tool"
  <2>1. ToolsOnly(p, 1 + 1, Len(p)) /\ 1 + 1 = 2
    BY DEF Answered
  <2>. QED BY <2>1 DEF ToolsOnly
<1>2. ASSUME NEW i \in (0 + 1)..Len(p), p[i].role = "assistant"
      PROVE  \E e \in i..Len(p) : Answered(p, i, e)
  <2>1. i = 1
    <3>1. i = 1 \/ i \in 2..Len(p)
      OBVIOUS
    <3>. QED BY <1>1, <1>2, <3>1
  <2>2. Len(p) \in i..Len(p)
    OBVIOUS
  <2>. QED BY <2>1, <2>2
<1>3. ASSUME NEW j \in (0 + 1)..Len(p), p[j].role = "tool"
      PROVE  \E i \in (0 + 1)..(j - 1) : p[i].role = "assistant" /\ ToolsOnly(p, i + 1, j)
  <2>1. j # 1
    BY <1>3
  <2>2. 1 \in (0 + 1)..(j - 1) /\ \A k \in (1 + 1)..j : k \in 2..Len(p)
    BY <2>1
  <2>. QED BY <1>1, <2>2 DEF ToolsOnly
<1>. QED BY <1>2, <1>3 DEF Paired, PairedFrom, CallsPaired, ResultsPaired
-----------------------------------------------------------------------------
(* fixInterruptedToolCalls.                                                 *)

(* What goes into the two repairs: a system messages, then a transcript in  *)
(* which a result stands behind its call, or behind a call that was cut off.*)
Turns(ms, a) ==
    /\ ms \in Seq(MessageType)
    /\ a \in 1..Len(ms)
    /\ \A i \in 1..Len(ms) : ms[i].role = "system" <=> i <= a
    /\ \A i \in 1..Len(ms) : ms[i].role # "assistant" => ms[i].calls = 0
    /\ \A j \in 1..Len(ms) : ms[j].role = "tool" =>
          \/ ToolsOnly(ms, a + 1, j)
          \/ \E i \in (a + 1)..(j - 1) : /\ ms[i].role = "assistant"
                                         /\ ms[j].call \in CallIds(ms[i])
                                         /\ ToolsOnly(ms, i + 1, j)
    /\ \A j, k \in 1..Len(ms) :
          ms[j].role = "tool" /\ ms[k].role = "tool" /\ ms[j].call = ms[k].call => j = k

(* The results behind message i end at e.                                   *)
RunEnds(ms, i, e) ==
    /\ e \in i..Len(ms)
    /\ ToolsOnly(ms, i + 1, e)
    /\ e < Len(ms) => ms[e + 1].role # "tool"

LEMMA InsertAtIs ==
  ASSUME NEW ms, Len(ms) \in Nat, NEW i \in 1..Len(ms), NEW e, RunEnds(ms, i, e)
  PROVE  insertAt(ms, i) = e + 1
<1> DEFINE T == {j \in i+1..Len(ms) : ms[j].role # "tool"} \cup {Len(ms) + 1}
<1>1. T \subseteq Nat /\ T # {}
  OBVIOUS
<1>2. Min(T) \in T /\ \A n \in T : Min(T) <= n
  BY <1>1, MinIs
<1>3. e \in i..Len(ms)
  BY DEF RunEnds
<1>4. e + 1 \in T
  <2>1. CASE e < Len(ms)
    <3>1. e + 1 \in i+1..Len(ms) /\ ms[e + 1].role # "tool"
      BY <1>3, <2>1 DEF RunEnds
    <3>. QED BY <3>1
  <2>2. CASE e = Len(ms)
    BY <2>2
  <2>. QED BY <1>3, <2>1, <2>2
<1>5. \A n \in T : n >= e + 1
  <2>1. ASSUME NEW n \in T, ~(n >= e + 1)
        PROVE  FALSE
    <3>1. n \in (i + 1)..e /\ n # Len(ms) + 1
      BY <1>3, <2>1
    <3>2. ms[n].role = "tool"
      BY <3>1 DEF RunEnds, ToolsOnly
    <3>. QED BY <3>1, <3>2
  <2>. QED BY <2>1
<1>6. insertAt(ms, i) = Min(T)
  BY DEF insertAt
<1> HIDE DEF T
<1>7. Min(T) \in Nat /\ Min(T) <= e + 1
  BY <1>1, <1>2, <1>4
<1>8. Min(T) >= e + 1
  BY <1>2, <1>5
<1>9. Min(T) = e + 1
  <2> DEFINE x == Min(T)
  <2> HIDE DEF x
  <2>1. x \in Nat /\ x <= e + 1 /\ x >= e + 1 /\ e \in Int
    BY <1>3, <1>7, <1>8 DEF x
  <2>2. x = e + 1
    BY <2>1
  <2>. QED BY <2>2 DEF x
<1>. QED BY <1>6, <1>9

(* Every run of results ends.                                               *)
LEMMA RunEndsSomewhere ==
  ASSUME NEW ms, Len(ms) \in Nat, NEW i \in 0..Len(ms)
  PROVE  \E e : RunEnds(ms, i, e)
<1> DEFINE T == {j \in i..Len(ms) : j < Len(ms) => ms[j + 1].role # "tool"}
<1>1. T \subseteq Nat /\ Len(ms) \in T
  OBVIOUS
<1>2. PICK e \in T : \A n \in T : e <= n
  BY <1>1, NatLeast
<1>3. ASSUME NEW k \in (i + 1)..e, ms[k].role # "tool"
      PROVE  FALSE
  <2>1. k - 1 \in i..Len(ms) /\ (k - 1) + 1 = k
    BY <1>1
  <2>2. k - 1 \in T
    BY <1>3, <2>1
  <2>3. e <= k - 1
    BY <1>2, <2>2
  <2>4. e \in Int /\ k \in Int /\ k <= e
    BY <1>1
  <2>. QED BY <2>3, <2>4
<1>. QED BY <1>1, <1>2, <1>3 DEF RunEnds, ToolsOnly

CallPairs == (0..MaxRows) \X (0..MaxCalls)

(* u is what is left of the calls of message m without the answered ones.   *)
Outstanding(m, answered, u) ==
    LET calls == [k \in 1..m.calls |-> <<m.row, k>>]
    IN  u = Kept(calls, {k \in DOMAIN calls : calls[k] \notin answered})

(* Each of them is there once.                                              *)
LEMMA UnansweredKept ==
  ASSUME NEW m \in MessageType, NEW answered, NEW u, Outstanding(m, answered, u)
  PROVE  /\ u \in Seq(CallPairs)
         /\ {u[n] : n \in 1..Len(u)} = CallIds(m) \ answered
         /\ \A x, y \in 1..Len(u) : u[x] = u[y] => x = y
<1> DEFINE calls == [k \in 1..m.calls |-> <<m.row, k>>]
           K == {k \in DOMAIN calls : calls[k] \notin answered}
<1>0. u = Kept(calls, K)
  BY DEF Outstanding
<1>1. m.calls \in Nat /\ m.calls \in 0..MaxCalls /\ m.row \in 0..MaxRows
  BY MessageFields
<1>2. calls \in Seq(CallPairs)
  <2>1. \A k \in 1..m.calls : <<m.row, k>> \in CallPairs
    BY <1>1, PromptAssumption DEF CallPairs
  <2>2. calls \in [1..m.calls -> CallPairs]
    BY <2>1
  <2>. QED BY <1>1, <2>2, SeqDef
<1>3. Len(calls) = m.calls /\ DOMAIN calls = 1..m.calls
  BY <1>1, <1>2
<1>4. u \in Seq(CallPairs) /\ \E phi : Picks(calls, K, Len(calls), u, phi)
  BY <1>0, <1>2, KeptMap
<1>5. PICK phi : Picks(calls, K, Len(calls), u, phi)
  BY <1>4
<1>6. Len(u) \in Nat
  BY <1>4, LenProperties
<1>7. \A x \in 1..Len(u) : /\ phi[x] \in 1..m.calls /\ u[x] = <<m.row, phi[x]>>
                           /\ u[x] \notin answered
  BY <1>3, <1>5 DEF Picks
<1>8. \A x \in 1..Len(u) : u[x] \in CallIds(m) \ answered
  BY <1>7 DEF CallIds
<1>9. ASSUME NEW c \in CallIds(m) \ answered
      PROVE  \E x \in 1..Len(u) : u[x] = c
  <2>1. PICK k \in 1..m.calls : c = <<m.row, k>>
    BY DEF CallIds
  <2>2. k \in K /\ k \in 1..Len(calls) /\ calls[k] = c
    BY <1>3, <1>9, <2>1
  <2>3. PICK x \in 1..Len(u) : phi[x] = k
    BY <1>5, <2>2 DEF Picks
  <2>. QED BY <1>7, <2>1, <2>3
<1>10. ASSUME NEW x \in 1..Len(u), NEW y \in 1..Len(u), u[x] = u[y]
       PROVE  x = y
  <2>1. phi[x] = phi[y] /\ phi[x] \in Int /\ phi[y] \in Int
    BY <1>7, <1>10
  <2>2. \A v, w \in 1..Len(u) : v < w => phi[v] < phi[w]
    BY <1>5 DEF Picks
  <2>3. ASSUME x < y
        PROVE  FALSE
    <3>1. phi[x] < phi[y]
      BY <2>2, <2>3
    <3>. QED BY <2>1, <3>1
  <2>4. ASSUME y < x
        PROVE  FALSE
    <3>1. phi[y] < phi[x]
      BY <2>2, <2>4
    <3>. QED BY <2>1, <3>1
  <2>. QED BY <1>6, <2>3, <2>4
<1>11. {u[n] : n \in 1..Len(u)} = CallIds(m) \ answered
  <2> DEFINE A == {u[n] : n \in 1..Len(u)}
             B == CallIds(m) \ answered
  <2>1. \A c \in A : c \in B
    BY <1>8
  <2>2. \A c \in B : c \in A
    BY <1>9
  <2> HIDE DEF A, B
  <2>3. A = B
    BY <2>1, <2>2
  <2>. QED BY <2>3 DEF A, B
<1>. QED BY <1>4, <1>10, <1>11
LEMMA SyntheticMessage ==
  ASSUME NEW c \in CallPairs
  PROVE  /\ [Message("tool") EXCEPT !.call = c] \in MessageType
         /\ [Message("tool") EXCEPT !.call = c].role = "tool"
         /\ [Message("tool") EXCEPT !.call = c].call = c
<1>1. 0 \in 0..MaxCalls /\ 0 \in 0..MaxRows /\ 0 \in -MaxRows..MaxRows
  BY PromptAssumption
<1>2. [Message("tool") EXCEPT !.call = c] \in MessageType
  BY <1>1 DEF Message, NoId, MessageType, CallPairs
<1>3. [Message("tool") EXCEPT !.call = c].role = "tool"
  BY DEF Message
<1>4. [Message("tool") EXCEPT !.call = c].call = c
  BY DEF Message
<1>. QED BY <1>2, <1>3, <1>4

LEMMA SyntheticType ==
  ASSUME NEW ms \in Seq(MessageType), NEW i \in 1..Len(ms)
  PROVE  /\ unanswered(ms, i) \in Seq(CallPairs)
         /\ synthetic(ms, i) \in Seq(MessageType)
         /\ Len(synthetic(ms, i)) = Len(unanswered(ms, i))
         /\ \A n \in 1..Len(synthetic(ms, i)) : /\ synthetic(ms, i)[n].role = "tool"
                                                /\ synthetic(ms, i)[n].call = unanswered(ms, i)[n]
<1> DEFINE turn == i+1..Min({j \in i+1..Len(ms) : ms[j].role \in {"assistant", "user"}}
                            \cup {Len(ms) + 1}) - 1
           answered == {ms[j].call : j \in {k \in turn : ms[k].role = "tool"}}
           u == unanswered(ms, i)
           t == synthetic(ms, i)
<1>1. Outstanding(ms[i], answered, u)
  BY DEF unanswered, Outstanding
<1>2. u \in Seq(CallPairs)
  <2> HIDE DEF answered, u, turn
  <2>1. ms[i] \in MessageType
    BY ElementOfSeq
  <2>. QED BY <1>1, <2>1, UnansweredKept
<1>3. t = [n \in DOMAIN u |-> [Message("tool") EXCEPT !.call = u[n]]]
  BY DEF synthetic
<1> HIDE DEF u, t
<1>4. Len(u) \in Nat /\ DOMAIN u = 1..Len(u) /\ \A n \in 1..Len(u) : u[n] \in CallPairs
  BY <1>2, LenProperties, ElementOfSeq
<1>5. \A n \in 1..Len(u) : /\ t[n] \in MessageType /\ t[n].role = "tool" /\ t[n].call = u[n]
  BY <1>3, <1>4, SyntheticMessage
<1>6. t \in [1..Len(u) -> MessageType]
  BY <1>3, <1>4, <1>5
<1>7. t \in Seq(MessageType) /\ Len(t) = Len(u)
  BY <1>4, <1>6, SeqDef
<1>. QED BY <1>2, <1>5, <1>7 DEF u, t

(* What a message with calls has still to be answered.                      *)
LEMMA UnansweredIs ==
  ASSUME NEW ms, NEW a, Turns(ms, a), NEW i \in (a + 1)..Len(ms), ms[i].role = "assistant",
         NEW e, RunEnds(ms, i, e)
  PROVE  LET answered == {ms[k].call : k \in (i + 1)..e}
             u == unanswered(ms, i)
         IN  /\ answered \subseteq CallIds(ms[i])
             /\ {u[n] : n \in 1..Len(u)} = CallIds(ms[i]) \ answered
             /\ \A x, y \in 1..Len(u) : u[x] = u[y] => x = y
<1> DEFINE T == {j \in i+1..Len(ms) : ms[j].role \in {"assistant", "user"}} \cup {Len(ms) + 1}
           turn == i+1..Min(T) - 1
           ended == {ms[j].call : j \in {k \in turn : ms[k].role = "tool"}}
           answered == {ms[k].call : k \in (i + 1)..e}
           u == unanswered(ms, i)
<1>1. /\ Len(ms) \in Nat /\ a \in Nat /\ i \in 1..Len(ms) /\ i \in Nat
      /\ e \in i..Len(ms) /\ e \in Nat
  <2>1. ms \in Seq(MessageType) /\ a \in 1..Len(ms)
    BY DEF Turns
  <2>. QED BY <2>1, LenProperties DEF RunEnds
<1>2. ms[i] \in MessageType /\ \A j \in 1..Len(ms) : ms[j] \in MessageType
  BY <1>1, ElementOfSeq DEF Turns
<1>3. Min(T) = e + 1
  <2>1. T \subseteq Nat /\ T # {}
    BY <1>1
  <2>2. Min(T) \in T /\ \A n \in T : Min(T) <= n
    BY <2>1, MinIs
  <2>3. e + 1 \in T
    <3>1. CASE e < Len(ms)
      <4>1. e + 1 \in i+1..Len(ms) /\ e + 1 \in 1..Len(ms) /\ ~(e + 1 <= a)
        BY <1>1, <3>1
      <4>2. ms[e + 1].role # "tool" /\ ms[e + 1].role # "system"
        BY <3>1, <4>1 DEF RunEnds, Turns
      <4>3. ms[e + 1].role \in {"user", "assistant", "tool", "system"}
        BY <1>2, <4>1, MessageFields
      <4>. QED BY <4>1, <4>2, <4>3
    <3>2. CASE e = Len(ms)
      BY <3>2
    <3>. QED BY <1>1, <3>1, <3>2
  <2>4. ASSUME NEW n \in T
        PROVE  ~(n <= e)
    <3>1. SUFFICES ASSUME n <= e
                   PROVE  FALSE
      OBVIOUS
    <3>2. n \in (i + 1)..e /\ n # Len(ms) + 1
      BY <1>1, <3>1
    <3>3. ms[n].role = "tool"
      BY <3>2 DEF RunEnds, ToolsOnly
    <3>. QED BY <3>2, <3>3
  <2> DEFINE x == Min(T)
  <2> HIDE DEF T, x
  <2>5. x \in Nat /\ x <= e + 1 /\ ~(x <= e)
    BY <2>1, <2>2, <2>3, <2>4 DEF x
  <2>6. x = e + 1
    BY <1>1, <2>5
  <2>. QED BY <2>6 DEF x
<1>4. ended = answered
  <2>1. turn = (i + 1)..e
    BY <1>1, <1>3
  <2>2. \A k \in (i + 1)..e : ms[k].role = "tool"
    BY DEF RunEnds, ToolsOnly
  <2> HIDE DEF turn
  <2>. QED BY <2>1, <2>2
<1>5. Outstanding(ms[i], ended, u)
  BY DEF unanswered, Outstanding
<1>6. Outstanding(ms[i], answered, u)
  <2> HIDE DEF answered, ended, u
  <2>. QED BY <1>4, <1>5
<1>7. /\ {u[n] : n \in 1..Len(u)} = CallIds(ms[i]) \ answered
      /\ \A x, y \in 1..Len(u) : u[x] = u[y] => x = y
  <2> HIDE DEF answered, u
  <2>. QED BY <1>2, <1>6, UnansweredKept
<1>8. ASSUME NEW k \in (i + 1)..e
      PROVE  ms[k].call \in CallIds(ms[i])
  <2>1. k \in 1..Len(ms) /\ ms[k].role = "tool"
    BY <1>1 DEF RunEnds, ToolsOnly
  <2>2. CASE ToolsOnly(ms, a + 1, k)
    <3>1. i \in (a + 1)..k
      BY <1>1
    <3>. QED BY <2>2, <3>1 DEF ToolsOnly
  <2>3. ASSUME NEW h \in (a + 1)..(k - 1), ms[h].role = "assistant",
               ms[k].call \in CallIds(ms[h]), ToolsOnly(ms, h + 1, k)
        PROVE  ms[k].call \in CallIds(ms[i])
    <3>1. CASE h = i
      BY <2>3, <3>1
    <3>2. CASE h < i
      <4>1. i \in (h + 1)..k
        BY <1>1, <3>2
      <4>. QED BY <2>3, <4>1 DEF ToolsOnly
    <3>3. CASE h > i
      <4>1. h \in (i + 1)..e
        BY <1>1, <3>3
      <4>. QED BY <2>3, <4>1 DEF RunEnds, ToolsOnly
    <3>4. h = i \/ h < i \/ h > i
      BY <1>1
    <3>. QED BY <3>1, <3>2, <3>3, <3>4
  <2>. QED BY <2>1, <2>2, <2>3 DEF Turns
<1>9. answered \subseteq CallIds(ms[i])
  BY <1>8
<1>. QED BY <1>7, <1>9
(* A message with calls, its results and the synthetic ones are a block.    *)
LEMMA BlockPaired ==
  ASSUME NEW ms, NEW a, Turns(ms, a), NEW i \in (a + 1)..Len(ms), ms[i].role = "assistant",
         NEW e, RunEnds(ms, i, e), NEW blk, blk = SubSeq(ms, i, e) \o synthetic(ms, i)
  PROVE  /\ blk \in Seq(MessageType)
         /\ Paired(blk)
         /\ \A k \in 1..Len(blk) : blk[k].role # "system"
<1> DEFINE s == SubSeq(ms, i, e)
           t == synthetic(ms, i)
           u == unanswered(ms, i)
           n == e - i + 1
           answered == {ms[k].call : k \in (i + 1)..e}
<1>1. /\ Len(ms) \in Nat /\ a \in Nat /\ i \in 1..Len(ms) /\ i \in Nat
      /\ e \in i..Len(ms) /\ e \in Nat /\ n \in Nat \ {0} /\ ms \in Seq(MessageType)
  <2>1. ms \in Seq(MessageType) /\ a \in 1..Len(ms)
    BY DEF Turns
  <2>. QED BY <2>1, LenProperties DEF RunEnds
<1>2. /\ s \in Seq(MessageType) /\ Len(s) = n
      /\ \A x \in 1..n : s[x] = ms[i + x - 1] /\ i + x - 1 \in i..e
  <2>1. \A x \in i..e : ms[x] \in MessageType
    BY <1>1, ElementOfSeq
  <2>2. e - i + 1 = n /\ i <= e /\ \A x \in 1..n : i + x - 1 \in i..e
    BY <1>1
  <2>. QED BY <1>1, <2>1, <2>2, SubSeqProperties
<1>3. /\ t \in Seq(MessageType) /\ Len(t) = Len(u) /\ Len(t) \in Nat
      /\ \A x \in 1..Len(t) : t[x].role = "tool" /\ t[x].call = u[x]
  BY <1>1, SyntheticType, LenProperties
<1>4. /\ answered \subseteq CallIds(ms[i])
      /\ {u[x] : x \in 1..Len(u)} = CallIds(ms[i]) \ answered
      /\ \A x, y \in 1..Len(u) : u[x] = u[y] => x = y
  BY UnansweredIs
<1> HIDE DEF s, t, u, n
<1>5. /\ blk \in Seq(MessageType) /\ Len(blk) = n + Len(t)
      /\ \A x \in 1..n : blk[x] = s[x]
      /\ \A x \in 1..Len(t) : blk[n + x] = t[x]
  <2>1. blk = s \o t
    BY DEF s, t
  <2>2. \A x \in 1..(Len(s) + Len(t)) : (s \o t)[x] = IF x <= Len(s) THEN s[x] ELSE t[x - Len(s)]
    BY <1>2, <1>3, ConcatProperties
  <2>3. s \o t \in Seq(MessageType) /\ Len(s \o t) = Len(s) + Len(t)
    BY <1>2, <1>3, ConcatProperties
  <2>4. ASSUME NEW x \in 1..n
        PROVE  blk[x] = s[x]
    <3>1. x \in 1..(Len(s) + Len(t)) /\ x <= Len(s)
      BY <1>1, <1>2, <1>3
    <3>. QED BY <2>1, <2>2, <3>1
  <2>5. ASSUME NEW x \in 1..Len(t)
        PROVE  blk[n + x] = t[x]
    <3>1. n + x \in 1..(Len(s) + Len(t)) /\ ~(n + x <= Len(s)) /\ (n + x) - Len(s) = x
      BY <1>1, <1>2, <1>3
    <3>. QED BY <2>1, <2>2, <3>1
  <2>. QED BY <1>2, <2>1, <2>3, <2>4, <2>5
<1>6. blk[1] = ms[i]
  <2>1. 1 \in 1..n /\ i + 1 - 1 = i
    BY <1>1
  <2>. QED BY <1>2, <1>5, <2>1
<1>7. ASSUME NEW x \in 2..n
      PROVE  /\ i + x - 1 \in (i + 1)..e /\ i + x - 1 \in 1..Len(ms)
             /\ blk[x] = ms[i + x - 1] /\ blk[x].role = "tool"
             /\ blk[x].call \in answered
  <2>1. x \in 1..n /\ i + x - 1 \in (i + 1)..e /\ i + x - 1 \in 1..Len(ms)
    BY <1>1 DEF n
  <2>2. blk[x] = ms[i + x - 1]
    BY <1>2, <1>5, <2>1
  <2>3. ms[i + x - 1].role = "tool"
    BY <2>1 DEF RunEnds, ToolsOnly
  <2>. QED BY <2>1, <2>2, <2>3
<1>8. ASSUME NEW x \in (n + 1)..Len(blk)
      PROVE  /\ x - n \in 1..Len(u) /\ blk[x].role = "tool" /\ blk[x].call = u[x - n]
             /\ blk[x].call \in CallIds(ms[i]) \ answered
  <2>1. x - n \in 1..Len(t) /\ n + (x - n) = x
    BY <1>1, <1>3, <1>5
  <2>2. blk[x] = t[x - n]
    BY <1>5, <2>1
  <2>3. blk[x].role = "tool" /\ blk[x].call = u[x - n] /\ x - n \in 1..Len(u)
    BY <1>3, <2>1, <2>2
  <2>4. u[x - n] \in {u[y] : y \in 1..Len(u)}
    BY <2>3
  <2>5. u[x - n] \in CallIds(ms[i]) \ answered
    <3> HIDE DEF answered
    <3>. QED BY <1>4, <2>4
  <2>. QED BY <2>3, <2>5
<1>9. \A x \in 2..Len(blk) : x \in 2..n \/ x \in (n + 1)..Len(blk)
  BY <1>1, <1>3, <1>5
<1>10. Answered(blk, 1, Len(blk))
  <2>1. Len(blk) \in 1..Len(blk) /\ Len(blk) \in Nat /\ ~(Len(blk) < Len(blk)) /\ 1 + 1 = 2
    BY <1>1, <1>3, <1>5
  <2>2. ToolsOnly(blk, 2, Len(blk))
    BY <1>7, <1>8, <1>9 DEF ToolsOnly
  <2>3. ASSUME NEW x \in 2..Len(blk), NEW y \in 2..Len(blk), blk[x].call = blk[y].call
        PROVE  x = y
    <3>1. CASE x \in 2..n /\ y \in 2..n
      <4>1. ms[i + x - 1].role = "tool" /\ ms[i + y - 1].role = "tool"
            /\ ms[i + x - 1].call = ms[i + y - 1].call
        BY <1>7, <2>3, <3>1
      <4>2. i + x - 1 = i + y - 1
        BY <1>7, <3>1, <4>1 DEF Turns
      <4>. QED BY <1>1, <4>2
    <3>2. CASE x \in (n + 1)..Len(blk) /\ y \in (n + 1)..Len(blk)
      <4>1. u[x - n] = u[y - n]
        BY <1>8, <2>3, <3>2
      <4>2. x - n = y - n
        BY <1>4, <1>8, <3>2, <4>1
      <4>. QED BY <1>1, <4>2
    <3>3. CASE x \in 2..n /\ y \in (n + 1)..Len(blk)
      BY <1>7, <1>8, <2>3, <3>3
    <3>4. CASE y \in 2..n /\ x \in (n + 1)..Len(blk)
      BY <1>7, <1>8, <2>3, <3>4
    <3>. QED BY <1>9, <3>1, <3>2, <3>3, <3>4
  <2>4. ASSUME NEW c \in CallIds(ms[i])
        PROVE  \E x \in 2..Len(blk) : blk[x].call = c
    <3>1. CASE c \in answered
      <4>1. PICK k \in (i + 1)..e : c = ms[k].call
        BY <3>1
      <4>2. k - i + 1 \in 2..n /\ k - i + 1 \in 2..Len(blk) /\ i + (k - i + 1) - 1 = k
        BY <1>1, <1>3, <1>5 DEF n
      <4>3. blk[k - i + 1] = ms[k]
        BY <1>7, <4>2
      <4>. QED BY <4>1, <4>2, <4>3
    <3>2. CASE c \notin answered
      <4>1. PICK x \in 1..Len(u) : u[x] = c
        BY <1>4, <3>2
      <4>2. n + x \in (n + 1)..Len(blk) /\ n + x \in 2..Len(blk) /\ (n + x) - n = x
        BY <1>1, <1>3, <1>5
      <4>3. blk[n + x].call = c
        BY <1>8, <4>1, <4>2
      <4>. QED BY <4>2, <4>3
    <3>. QED BY <3>1, <3>2
  <2>5. ASSUME NEW x \in 2..Len(blk)
        PROVE  blk[x].call \in CallIds(ms[i])
    BY <1>4, <1>7, <1>8, <1>9
  <2>6. {blk[x].call : x \in 2..Len(blk)} = CallIds(ms[i])
    <3> HIDE DEF answered
    <3>1. \A c \in {blk[x].call : x \in 2..Len(blk)} : c \in CallIds(ms[i])
      BY <2>5
    <3>2. \A c \in CallIds(ms[i]) : c \in {blk[x].call : x \in 2..Len(blk)}
      BY <2>4
    <3>. QED BY <3>1, <3>2
  <2>. QED BY <1>6, <2>1, <2>2, <2>3, <2>6 DEF Answered, OneEach
<1>11. Len(blk) \in Nat \ {0}
  BY <1>1, <1>3, <1>5
<1>12. Paired(blk)
  BY <1>6, <1>10, <1>11, PairedBlock
<1>13. \A k \in 1..Len(blk) : blk[k].role # "system"
  <2>1. ASSUME NEW k \in 1..Len(blk), k # 1
        PROVE  k \in 2..Len(blk)
    <3> DEFINE l == Len(blk)
    <3> HIDE DEF l
    <3>1. k \in 1..l /\ l \in Nat /\ k # 1
      BY <1>11, <2>1 DEF l
    <3>2. k \in 2..l
      BY <3>1
    <3>. QED BY <3>2 DEF l
  <2>2. \A k \in 2..Len(blk) : blk[k].role = "tool"
    BY <1>7, <1>8, <1>9
  <2>. QED BY <1>6, <2>1, <2>2
<1>. QED BY <1>5, <1>12, <1>13
(* The messages whose results end at j.                                     *)
EndingAt(ms, j) == {i \in 1..j : ms[i].role = "assistant" /\ insertAt(ms, i) = j + 1}

(* What fixInterruptedToolCalls puts in the place of message j.             *)
Repaired(ms, j) ==
    <<ms[j]>> \o (IF EndingAt(ms, j) = {} THEN <<>> ELSE synthetic(ms, Max(EndingAt(ms, j))))

LEMMA EndingAtIs ==
  ASSUME NEW ms, Len(ms) \in Nat, NEW j \in 1..Len(ms), NEW i
  PROVE  i \in EndingAt(ms, j) <=> i \in 1..j /\ ms[i].role = "assistant" /\ RunEnds(ms, i, j)
<1>1. ASSUME i \in EndingAt(ms, j)
      PROVE  RunEnds(ms, i, j)
  <2>1. i \in 1..j /\ insertAt(ms, i) = j + 1 /\ i \in 1..Len(ms) /\ i \in 0..Len(ms)
    BY <1>1 DEF EndingAt
  <2>2. PICK e : RunEnds(ms, i, e)
    BY <2>1, RunEndsSomewhere
  <2>3. insertAt(ms, i) = e + 1 /\ e \in Int
    BY <2>1, <2>2, InsertAtIs DEF RunEnds
  <2>4. e = j
    BY <2>1, <2>3
  <2>. QED BY <2>2, <2>4
<1>2. ASSUME i \in 1..j, ms[i].role = "assistant", RunEnds(ms, i, j)
      PROVE  i \in EndingAt(ms, j)
  <2>1. i \in 1..Len(ms)
    BY <1>2
  <2>2. insertAt(ms, i) = j + 1
    BY <1>2, <2>1, InsertAtIs
  <2>. QED BY <1>2, <2>2 DEF EndingAt
<1>3. i \in EndingAt(ms, j) => i \in 1..j /\ ms[i].role = "assistant"
  BY DEF EndingAt
<1>. QED BY <1>1, <1>2, <1>3

LEMMA RepairedType ==
  ASSUME NEW ms \in Seq(MessageType), NEW j \in 1..Len(ms)
  PROVE  Repaired(ms, j) \in Seq(MessageType)
<1>1. Len(ms) \in Nat /\ j \in Nat /\ EndingAt(ms, j) \subseteq 0..j
  BY LenProperties DEF EndingAt
<1>2. <<ms[j]>> \in Seq(MessageType)
  <2>1. ms[j] \in MessageType
    BY ElementOfSeq
  <2>. QED BY <2>1
<1>3. CASE EndingAt(ms, j) = {}
  <2>1. <<>> \in Seq(MessageType)
    OBVIOUS
  <2>2. Repaired(ms, j) = <<ms[j]>> \o <<>>
    BY <1>3 DEF Repaired
  <2>. QED BY <1>2, <2>1, <2>2, ConcatProperties
<1>4. CASE EndingAt(ms, j) # {}
  <2>1. Max(EndingAt(ms, j)) \in EndingAt(ms, j)
    BY <1>1, <1>4, MaxIs
  <2>2. Max(EndingAt(ms, j)) \in 1..Len(ms)
    BY <1>1, <2>1 DEF EndingAt
  <2>3. synthetic(ms, Max(EndingAt(ms, j))) \in Seq(MessageType)
    BY <2>2, SyntheticType
  <2>4. Repaired(ms, j) = <<ms[j]>> \o synthetic(ms, Max(EndingAt(ms, j)))
    BY <1>4 DEF Repaired
  <2>. QED BY <1>2, <2>3, <2>4, ConcatProperties
<1>. QED BY <1>3, <1>4

(* Nothing is added where no results of a call end.                         *)
LEMMA RepairedPlain ==
  ASSUME NEW ms \in Seq(MessageType), NEW j \in 1..Len(ms),
         \A i \in 1..j : ~(ms[i].role = "assistant" /\ RunEnds(ms, i, j))
  PROVE  Repaired(ms, j) = <<ms[j]>>
<1>1. Len(ms) \in Nat
  BY LenProperties
<1>2. EndingAt(ms, j) = {}
  BY <1>1, EndingAtIs
<1>3. ms[j] \in MessageType
  BY ElementOfSeq
<1>4. <<ms[j]>> \in Seq(MessageType)
  BY <1>3
<1>5. Repaired(ms, j) = <<ms[j]>> \o <<>>
  BY <1>2 DEF Repaired
<1>. QED BY <1>4, <1>5, ConcatEmptySeq

LEMMA RepairedEnd ==
  ASSUME NEW ms \in Seq(MessageType), NEW i \in 1..Len(ms), ms[i].role = "assistant",
         NEW e, RunEnds(ms, i, e)
  PROVE  Repaired(ms, e) = <<ms[e]>> \o synthetic(ms, i)
<1>1. Len(ms) \in Nat /\ e \in i..Len(ms) /\ e \in 1..Len(ms) /\ e \in Nat
  BY LenProperties DEF RunEnds
<1>2. i \in EndingAt(ms, e)
  BY <1>1, EndingAtIs
<1>3. ASSUME NEW h \in EndingAt(ms, e)
      PROVE  h = i
  <2>1. h \in 1..e /\ ms[h].role = "assistant" /\ RunEnds(ms, h, e)
    BY <1>1, <1>3, EndingAtIs
  <2>2. ASSUME h < i
        PROVE  FALSE
    <3>1. i \in (h + 1)..e
      BY <1>1, <2>1, <2>2
    <3>. QED BY <2>1, <3>1 DEF RunEnds, ToolsOnly
  <2>3. ASSUME i < h
        PROVE  FALSE
    <3>1. h \in (i + 1)..e
      BY <1>1, <2>1, <2>3
    <3>. QED BY <2>1, <3>1 DEF RunEnds, ToolsOnly
  <2>. QED BY <1>1, <2>1, <2>2, <2>3
<1>4. EndingAt(ms, e) \subseteq 0..e
  BY DEF EndingAt
<1>5. Max(EndingAt(ms, e)) = i
  BY <1>1, <1>2, <1>3, <1>4, MaxIs
<1>. QED BY <1>2, <1>5 DEF Repaired

LEMMA FixPieces ==
  ASSUME NEW ms \in Seq(MessageType)
  PROVE  \E F, ss : /\ Joins(MessageType, ss, F, Len(ms))
                    /\ ss \in [1..Len(ms) -> Seq(MessageType)]
                    /\ \A j \in 1..Len(ms) : ss[j] = Repaired(ms, j)
                    /\ fixInterruptedToolCalls(ms) = F[Len(ms)]
<1> DEFINE ss == [j \in 1..Len(ms) |-> Repaired(ms, j)]
<1>1. Len(ms) \in Nat /\ DOMAIN ms = 1..Len(ms)
  BY LenProperties
<1>2. fixInterruptedToolCalls(ms) = FlattenSeq(ss)
  BY <1>1 DEF fixInterruptedToolCalls, Repaired, EndingAt
<1>3. ss \in [1..Len(ms) -> Seq(MessageType)]
  BY RepairedType
<1>4. \A j \in 1..Len(ms) : ss[j] = Repaired(ms, j)
  OBVIOUS
<1> HIDE DEF ss
<1>5. PICK F : Joins(MessageType, ss, F, Len(ms)) /\ FlattenSeq(ss) = F[Len(ms)]
  BY <1>1, <1>3, FlattenIs
<1>. QED BY <1>2, <1>3, <1>4, <1>5
(* p starts with the first b messages of ms, and the rest of it is paired.  *)
FixedTo(ms, b, p) ==
    /\ p \in Seq(MessageType)
    /\ b <= Len(p)
    /\ \A k \in 1..b : p[k] = ms[k]
    /\ PairedFrom(p, b)
    /\ \A k \in (b + 1)..Len(p) : p[k].role # "system"

LEMMA FixedNext ==
  ASSUME NEW ms, NEW b \in Nat, NEW p, FixedTo(ms, b, p),
         NEW blk \in Seq(MessageType), Paired(blk), \A k \in 1..Len(blk) : blk[k].role # "system"
  PROVE  FixedTo(ms, b, p \o blk)
<1> DEFINE q == p \o blk
<1>1. p \in Seq(MessageType) /\ Len(p) \in Nat /\ Len(blk) \in Nat /\ b \in 0..Len(p)
  BY LenProperties DEF FixedTo
<1>2. q \in Seq(MessageType) /\ Len(q) = Len(p) + Len(blk)
  BY <1>1, ConcatProperties
<1>3. PairedFrom(q, b)
  BY <1>1, PairedConcat DEF FixedTo
<1>4. \A k \in 1..(Len(p) + Len(blk)) : q[k] = IF k <= Len(p) THEN p[k] ELSE blk[k - Len(p)]
  BY <1>1, ConcatProperties
<1> HIDE DEF q
<1>5. ASSUME NEW k \in 1..b
      PROVE  q[k] = ms[k]
  <2>1. k \in 1..(Len(p) + Len(blk)) /\ k <= Len(p)
    BY <1>1
  <2>. QED BY <1>4, <2>1 DEF FixedTo
<1>6. ASSUME NEW k \in (b + 1)..Len(q)
      PROVE  q[k].role # "system"
  <2>1. k \in 1..(Len(p) + Len(blk))
    BY <1>1, <1>2
  <2>2. CASE k <= Len(p)
    <3>1. k \in (b + 1)..Len(p) /\ q[k] = p[k]
      BY <1>1, <1>4, <2>1, <2>2
    <3>. QED BY <3>1 DEF FixedTo
  <2>3. CASE ~(k <= Len(p))
    <3>1. k - Len(p) \in 1..Len(blk) /\ q[k] = blk[k - Len(p)]
      BY <1>1, <1>4, <2>1, <2>3
    <3>. QED BY <3>1
  <2>. QED BY <2>2, <2>3
<1>7. b <= Len(q)
  BY <1>1, <1>2
<1>8. FixedTo(ms, b, q)
  BY <1>2, <1>3, <1>5, <1>6, <1>7 DEF FixedTo
<1>. QED BY <1>8 DEF q

(* From one turn of the transcript to the next.                             *)
LEMMA FixStep ==
  ASSUME NEW ms, NEW a, Turns(ms, a), NEW F, NEW ss,
         Joins(MessageType, ss, F, Len(ms)), ss \in [1..Len(ms) -> Seq(MessageType)],
         \A j \in 1..Len(ms) : ss[j] = Repaired(ms, j),
         NEW i \in (a + 1)..Len(ms), ms[i].role # "tool", NEW e, RunEnds(ms, i, e),
         NEW b \in Nat, FixedTo(ms, b, F[i - 1])
  PROVE  FixedTo(ms, b, F[e])
<1>1. /\ Len(ms) \in Nat /\ a \in Nat /\ i \in 1..Len(ms) /\ i \in Nat
      /\ e \in i..Len(ms) /\ e \in 1..Len(ms) /\ e \in Nat /\ ms \in Seq(MessageType)
      /\ i - 1 \in 0..Len(ms) /\ e - 1 \in (i - 1)..Len(ms) /\ e - 1 \in 0..Len(ms)
  <2>1. ms \in Seq(MessageType) /\ a \in 1..Len(ms)
    BY DEF Turns
  <2>2. e \in i..Len(ms)
    BY DEF RunEnds
  <2>. QED BY <2>1, <2>2, LenProperties
<1>2. F[i - 1] \in Seq(MessageType) /\ F[e - 1] \in Seq(MessageType) /\ F[e] = F[e - 1] \o ss[e]
  BY <1>1 DEF Joins
<1>3. Singles(ms, ss, i - 1, e - 1)
  <2>1. ASSUME NEW j \in ((i - 1) + 1)..(e - 1)
        PROVE  ss[j] = <<ms[j]>>
    <3>1. j \in 1..Len(ms) /\ j < Len(ms) /\ j + 1 \in (i + 1)..e
      BY <1>1
    <3>2. ms[j + 1].role = "tool"
      BY <3>1 DEF RunEnds, ToolsOnly
    <3>3. \A h \in 1..j : ~RunEnds(ms, h, j)
      BY <3>1, <3>2 DEF RunEnds
    <3>4. Repaired(ms, j) = <<ms[j]>>
      BY <1>1, <3>1, <3>3, RepairedPlain
    <3>. QED BY <3>1, <3>4
  <2>. QED BY <2>1 DEF Singles
<1>4. F[e - 1] = F[i - 1] \o SubSeq(ms, i, e - 1)
  <2>1. Extended(F[i - 1], SubSeq(ms, (i - 1) + 1, e - 1), F[e - 1])
    BY <1>1, <1>3, JoinsRun
  <2>2. (i - 1) + 1 = i
    BY <1>1
  <2>. QED BY <2>1, <2>2 DEF Extended
<1>5. ms[i] \in MessageType /\ ms[e] \in MessageType
  BY <1>1, ElementOfSeq
<1>6. CASE ms[i].role = "assistant"
  <2> DEFINE u == SubSeq(ms, i, e - 1)
             x == <<ms[e]>>
             t == synthetic(ms, i)
             blk == SubSeq(ms, i, e) \o t
  <2>1. ss[e] = x \o t
    BY <1>1, <1>6, RepairedEnd
  <2>2. SubSeq(ms, i, e) = u \o x
    <3>1. e \in i..Len(ms) /\ i \in 1..Len(ms)
      BY <1>1
    <3>. QED BY <1>1, <3>1, SubSeqRecursiveSecond
  <2>3. u \in Seq(MessageType) /\ x \in Seq(MessageType) /\ t \in Seq(MessageType)
    <3>1. \A k \in i..(e - 1) : ms[k] \in MessageType
      BY <1>1, ElementOfSeq
    <3>2. u \in Seq(MessageType)
      BY <1>1, <3>1, SubSeqProperties
    <3>3. x \in Seq(MessageType)
      BY <1>5
    <3>. QED BY <1>1, <3>2, <3>3, SyntheticType
  <2>4. blk \in Seq(MessageType) /\ Paired(blk) /\ \A k \in 1..Len(blk) : blk[k].role # "system"
    BY <1>6, BlockPaired
  <2>5. FixedTo(ms, b, F[i - 1] \o blk)
    <3> HIDE DEF blk
    <3>. QED BY <2>4, FixedNext
  <2>6. blk = (u \o x) \o t
    <3> HIDE DEF u, x, t
    <3>. QED BY <2>2
  <2> HIDE DEF u, x, t, blk
  <2>7. F[i - 1] \in Seq(MessageType)
    BY <1>2
  <2>8. F[e] = (F[i - 1] \o u) \o (x \o t)
    BY <1>2, <1>4, <2>1 DEF u
  <2>9. (F[i - 1] \o u) \o (x \o t) = F[i - 1] \o (u \o (x \o t)) /\ u \o (x \o t) = (u \o x) \o t
    <3>1. x \o t \in Seq(MessageType)
      BY <2>3, ConcatProperties
    <3>2. (F[i - 1] \o u) \o (x \o t) = F[i - 1] \o (u \o (x \o t))
      <4> DEFINE v == F[i - 1]
                 z == x \o t
      <4> HIDE DEF v, z
      <4>1. v \in Seq(MessageType) /\ u \in Seq(MessageType) /\ z \in Seq(MessageType)
        BY <2>3, <2>7, <3>1 DEF v, z
      <4>2. Associative(v, u, z)
        BY <4>1, ConcatAssociates
      <4>. QED BY <4>2 DEF Associative, v, z
    <3>3. Associative(u, x, t)
      BY <2>3, ConcatAssociates
    <3>. QED BY <3>2, <3>3 DEF Associative
  <2>10. F[e] = F[i - 1] \o blk
    BY <2>6, <2>8, <2>9
  <2>. QED BY <2>5, <2>10
<1>7. CASE ms[i].role # "assistant"
  <2>1. \A h \in 1..i : ~(ms[h].role = "assistant" /\ ToolsOnly(ms, h + 1, i))
    <3>1. ASSUME NEW h \in 1..i, ms[h].role = "assistant", ToolsOnly(ms, h + 1, i)
          PROVE  FALSE
      <4>1. h # i
        BY <1>7, <3>1
      <4>2. i \in (h + 1)..i
        BY <1>1, <4>1
      <4>. QED BY <3>1, <4>2 DEF ToolsOnly
    <3>. QED BY <3>1
  <2>2. e = i
    <3>1. SUFFICES ASSUME e # i
                   PROVE  FALSE
      OBVIOUS
    <3> DEFINE j == i + 1
    <3>2. j \in (i + 1)..e /\ j \in 1..Len(ms) /\ i \in (a + 1)..j /\ j - 1 = i
      BY <1>1, <3>1
    <3> HIDE DEF j
    <3>3. ms[j].role = "tool"
      BY <3>2 DEF RunEnds, ToolsOnly
    <3>4. ~ToolsOnly(ms, a + 1, j)
      BY <3>2 DEF ToolsOnly
    <3>5. PICK h \in (a + 1)..(j - 1) : ms[h].role = "assistant" /\ ToolsOnly(ms, h + 1, j)
      BY <3>2, <3>3, <3>4 DEF Turns
    <3>6. h \in 1..i /\ \A k \in (h + 1)..i : k \in (h + 1)..j
      <4>1. j \in Int /\ j - 1 = i /\ j = i + 1 /\ a \in Nat /\ i \in Nat /\ h \in (a + 1)..(j - 1)
        BY <1>1, <3>2
      <4>2. h \in 1..i
        BY <4>1
      <4>. QED BY <4>1, <4>2
    <3>7. ToolsOnly(ms, h + 1, i)
      BY <3>5, <3>6 DEF ToolsOnly
    <3>. QED BY <2>1, <3>5, <3>6, <3>7
  <2>3. Repaired(ms, i) = <<ms[i]>>
    <3>1. \A h \in 1..i : ~(ms[h].role = "assistant" /\ RunEnds(ms, h, i))
      BY <2>1 DEF RunEnds
    <3>. QED BY <1>1, <3>1, RepairedPlain
  <2> DEFINE blk == <<ms[i]>>
  <2>4. F[i] = F[i - 1] \o blk
    BY <1>1, <1>2, <2>2, <2>3
  <2>5. blk \in Seq(MessageType) /\ Len(blk) = 1 /\ blk[1] = ms[i]
    BY <1>5
  <2>6. ms[i].role # "system"
    <3>1. ~(i <= a)
      BY <1>1
    <3>. QED BY <1>1, <3>1 DEF Turns
  <2> HIDE DEF blk
  <2>7. \A k \in 1..Len(blk) : blk[k].role \notin {"assistant", "tool", "system"}
    BY <1>7, <2>5, <2>6
  <2>8. Paired(blk)
    BY <2>5, <2>7, PairedNoTurns DEF NoTurns
  <2>9. FixedTo(ms, b, F[i - 1] \o blk)
    BY <2>5, <2>7, <2>8, FixedNext
  <2>. QED BY <2>2, <2>4, <2>9
<1>. QED BY <1>6, <1>7
(* The repaired transcript is paired behind the results whose call was cut. *)
LEMMA FixIs ==
  ASSUME NEW ms, NEW a, Turns(ms, a)
  PROVE  \E b : RunEnds(ms, a, b) /\ FixedTo(ms, b, fixInterruptedToolCalls(ms))
<1>1. /\ Len(ms) \in Nat /\ a \in Nat /\ a \in 0..Len(ms) /\ a >= 1
      /\ ms \in Seq(MessageType)
  <2>1. ms \in Seq(MessageType) /\ a \in 1..Len(ms)
    BY DEF Turns
  <2>. QED BY <2>1, LenProperties
<1>2. PICK b : RunEnds(ms, a, b)
  BY <1>1, RunEndsSomewhere
<1>3. b \in a..Len(ms) /\ b \in Nat /\ b \in 0..Len(ms) /\ Len(ms) \in b..Len(ms)
  BY <1>1, <1>2 DEF RunEnds
<1>4. PICK F, ss : /\ Joins(MessageType, ss, F, Len(ms))
                   /\ ss \in [1..Len(ms) -> Seq(MessageType)]
                   /\ \A j \in 1..Len(ms) : ss[j] = Repaired(ms, j)
                   /\ fixInterruptedToolCalls(ms) = F[Len(ms)]
  BY <1>1, FixPieces
<1> DEFINE T == {e \in Nat : (e < Len(ms) => ms[e + 1].role # "tool") => FixedTo(ms, b, F[e])}
<1> HIDE DEF T
<1>5. FixedTo(ms, b, F[b])
  <2>1. \A j \in 1..b : ms[j].role \in {"system", "tool"}
    <3>1. ASSUME NEW j \in 1..b
          PROVE  ms[j].role \in {"system", "tool"}
      <4>1. CASE j <= a
        <5>1. j \in 1..Len(ms)
          BY <1>3
        <5>. QED BY <4>1, <5>1 DEF Turns
      <4>2. CASE ~(j <= a)
        <5>1. j \in (a + 1)..b
          BY <1>1, <1>3, <4>2
        <5>. QED BY <1>2, <5>1 DEF RunEnds, ToolsOnly
      <4>. QED BY <4>1, <4>2
    <3>. QED BY <3>1
  <2>2. Singles(ms, ss, 0, b)
    <3>1. ASSUME NEW j \in (0 + 1)..b
          PROVE  ss[j] = <<ms[j]>>
      <4>1. j \in 1..Len(ms) /\ \A h \in 1..j : h \in 1..b
        BY <1>3
      <4>2. \A h \in 1..j : ms[h].role # "assistant"
        BY <2>1, <4>1
      <4>3. Repaired(ms, j) = <<ms[j]>>
        BY <1>1, <4>1, <4>2, RepairedPlain
      <4>. QED BY <1>4, <4>1, <4>3
    <3>. QED BY <3>1 DEF Singles
  <2>3. Extended(F[0], SubSeq(ms, 0 + 1, b), F[b])
    <3>1. 0 \in 0..Len(ms) /\ b \in 0..Len(ms)
      BY <1>3
    <3>. QED BY <1>1, <1>4, <2>2, <3>1, JoinsRun
  <2>4. /\ SubSeq(ms, 1, b) \in Seq(MessageType) /\ Len(SubSeq(ms, 1, b)) = b
        /\ \A k \in 1..b : SubSeq(ms, 1, b)[k] = ms[k]
    <3>1. \A k \in 1..b : ms[k] \in MessageType
      BY <1>1, <1>3, ElementOfSeq
    <3>2. \A k \in 1..b : k \in 1..(b - 1 + 1) /\ 1 + k - 1 = k
      BY <1>3
    <3>3. Len(SubSeq(ms, 1, b)) = b
      BY <1>1, <1>3, <3>1, SubSeqProperties
    <3>4. SubSeq(ms, 1, b) \in Seq(MessageType)
          /\ \A k \in 1..(b - 1 + 1) : SubSeq(ms, 1, b)[k] = ms[1 + k - 1]
      BY <1>1, <1>3, <3>1, SubSeqProperties
    <3>. QED BY <3>2, <3>3, <3>4
  <2>5. F[b] = SubSeq(ms, 1, b)
    <3>1. F[0] = <<>> /\ 0 + 1 = 1
      BY <1>4 DEF Joins
    <3>2. F[b] = <<>> \o SubSeq(ms, 1, b)
      BY <2>3, <3>1 DEF Extended
    <3>. QED BY <2>4, <3>2, ConcatEmptySeq
  <2>6. (b + 1)..Len(F[b]) = {} /\ Len(F[b]) = b
    BY <1>3, <2>4, <2>5
  <2>7. PairedFrom(F[b], b)
    BY <2>6 DEF PairedFrom, CallsPaired, ResultsPaired
  <2>. QED BY <1>3, <2>4, <2>5, <2>6, <2>7 DEF FixedTo
<1>6. ASSUME NEW e \in b..Len(ms), \A k \in b..(e - 1) : k \in T
      PROVE  e \in T
  <2>1. e \in Nat
    BY <1>3
  <2>2. SUFFICES ASSUME e < Len(ms) => ms[e + 1].role # "tool"
                 PROVE  FixedTo(ms, b, F[e])
    BY <2>1 DEF T
  <2>3. CASE e = b
    BY <1>5, <2>3
  <2>4. CASE e # b
    <3> DEFINE N == {k \in (b + 1)..e : ms[k].role # "tool"}
    <3>1. b + 1 \in N
      <4>1. b < Len(ms) /\ b + 1 \in (b + 1)..e
        BY <1>1, <1>3, <2>4
      <4>. QED BY <1>2, <4>1 DEF RunEnds
    <3>2. N \subseteq 0..e
      BY <1>3
    <3>3. PICK i \in N : \A k \in N : k <= i
      BY <2>1, <3>1, <3>2, MaxIs
    <3>4. i \in (b + 1)..e /\ ms[i].role # "tool" /\ i \in Nat /\ i - 1 \in b..(e - 1)
      BY <1>3, <3>3
    <3>5. ToolsOnly(ms, i + 1, e)
      <4>1. ASSUME NEW k \in (i + 1)..e, ms[k].role # "tool"
            PROVE  FALSE
        <5>1. k \in (b + 1)..e /\ ~(k <= i)
          BY <1>3, <3>4
        <5>2. k \in N
          BY <4>1, <5>1
        <5>. QED BY <3>3, <5>1, <5>2
      <4>. QED BY <4>1 DEF ToolsOnly
    <3> HIDE DEF N
    <3>6. RunEnds(ms, i, e)
      <4>1. e \in i..Len(ms)
        BY <1>1, <1>3, <3>4
      <4>. QED BY <2>2, <3>5, <4>1 DEF RunEnds
    <3>7. FixedTo(ms, b, F[i - 1])
      <4>1. (i - 1) + 1 = i /\ i - 1 \in T
        BY <1>6, <3>4
      <4>. QED BY <3>4, <4>1 DEF T
    <3>8. i \in (a + 1)..Len(ms)
      BY <1>1, <1>3, <3>4
    <3>. QED BY <1>3, <1>4, <3>4, <3>6, <3>7, <3>8, FixStep
  <2>. QED BY <2>3, <2>4
<1>7. Len(ms) \in T
  BY <1>1, <1>3, <1>6, UpTo
<1>8. FixedTo(ms, b, F[Len(ms)])
  BY <1>7 DEF T
<1>. QED BY <1>2, <1>4, <1>8

-----------------------------------------------------------------------------
(* dropUnpairedToolResults.                                                 *)

Announced(p, j) == UNION {CallIds(p[i]) : i \in 1..j}

LEMMA DropIsKept ==
  ASSUME NEW S, NEW p \in Seq(S)
  PROVE  dropUnpairedToolResults(p) =
            Kept(p, {j \in DOMAIN p : p[j].role = "tool" => p[j].call \in Announced(p, j)})
BY DEF dropUnpairedToolResults, Announced

LEMMA PairedAnnounced ==
  ASSUME NEW p, Len(p) \in Nat, NEW b \in Nat, PairedFrom(p, b),
         NEW j \in (b + 1)..Len(p), p[j].role = "tool"
  PROVE  p[j].call \in Announced(p, j)
<1>1. PICK i \in (b + 1)..(j - 1) : p[i].role = "assistant" /\ ToolsOnly(p, i + 1, j)
  BY DEF PairedFrom, ResultsPaired
<1>2. i \in (b + 1)..Len(p) /\ i \in 1..j /\ i \in Int
  OBVIOUS
<1>3. PICK e \in i..Len(p) : Answered(p, i, e)
  BY <1>1, <1>2 DEF PairedFrom, CallsPaired
<1>4. j <= e
  <2>1. SUFFICES ASSUME ~(j <= e)
                 PROVE  FALSE
    OBVIOUS
  <2>2. e + 1 \in (i + 1)..j /\ e < Len(p)
    BY <1>2, <2>1
  <2>. QED BY <1>1, <1>3, <2>2 DEF Answered, ToolsOnly
<1>5. j \in (i + 1)..e
  BY <1>1, <1>2, <1>4
<1>6. p[j].call \in CallIds(p[i])
  BY <1>3, <1>5 DEF Answered
<1>. QED BY <1>2, <1>6 DEF Announced

(* What is paired loses nothing.                                            *)
LEMMA DropPaired ==
  ASSUME NEW S, NEW p \in Seq(S), Paired(p)
  PROVE  dropUnpairedToolResults(p) = p
<1> DEFINE K == {j \in DOMAIN p : p[j].role = "tool" => p[j].call \in Announced(p, j)}
           n == Len(p)
<1>1. n \in Nat /\ DOMAIN p = 1..n /\ n \in 0..n /\ n \in n..n
  BY LenProperties
<1>2. \A j \in 1..n : j \in (0 + 1)..n
  OBVIOUS
<1>3. \A j \in 1..n : j \in K
  BY <1>1, <1>2, PairedAnnounced DEF Paired
<1>4. dropUnpairedToolResults(p) = Kept(p, K)
  BY DropIsKept
<1> HIDE DEF K
<1>5. \A j \in 1..n : j \in K <=> (j <= n \/ j > n)
  BY <1>1, <1>3
<1>6. Kept(p, K) = SubSeq(p, 1, n) \o SubSeq(p, n + 1, n)
  BY <1>1, <1>5, KeptCut
<1>7. SubSeq(p, 1, n) = p /\ SubSeq(p, n + 1, n) = <<>>
  BY <1>1, SubSeqFull, SubSeqEmpty
<1>. QED BY <1>4, <1>6, <1>7, ConcatEmptySeq
(* A prompt without its overlays: system messages, then a paired transcript.*)
Headed(p, a) == \A k \in 1..Len(p) : p[k].role = "system" <=> k <= a
Assembled(p) == p \in Seq(MessageType) /\ Paired(p) /\ \E a \in 1..Len(p) : Headed(p, a)

(* Results whose call was cut off go, and nothing else does.                *)
LEMMA DropIs ==
  ASSUME NEW ms, NEW a, Turns(ms, a), NEW b, RunEnds(ms, a, b), NEW p, FixedTo(ms, b, p)
  PROVE  Assembled(dropUnpairedToolResults(p))
<1> DEFINE K == {j \in DOMAIN p : p[j].role = "tool" => p[j].call \in Announced(p, j)}
           n == Len(p)
           x == SubSeq(p, 1, a)
           y == SubSeq(p, b + 1, n)
           q == dropUnpairedToolResults(p)
<1>1. /\ p \in Seq(MessageType) /\ n \in Nat /\ DOMAIN p = 1..n /\ b \in Nat /\ a \in Nat
      /\ a \in 1..Len(ms) /\ b \in a..Len(ms) /\ Len(ms) \in Nat
      /\ b \in a..n /\ a \in 0..n /\ b \in 0..n /\ a >= 1
  <2>1. a \in 1..Len(ms) /\ ms \in Seq(MessageType) /\ p \in Seq(MessageType) /\ b <= n
    BY DEF Turns, FixedTo
  <2>2. b \in a..Len(ms)
    BY DEF RunEnds
  <2>3. n \in Nat /\ DOMAIN p = 1..n /\ Len(ms) \in Nat
    BY <2>1, LenProperties
  <2>. QED BY <2>1, <2>2, <2>3
<1>2. \A k \in 1..b : k \in 1..Len(ms) /\ p[k] = ms[k]
  BY <1>1 DEF FixedTo
<1>3. ASSUME NEW k \in 1..a
      PROVE  p[k].role = "system"
  <2>1. k \in 1..b /\ k <= a
    BY <1>1
  <2>. QED BY <1>2, <2>1 DEF Turns
<1>4. ASSUME NEW k \in (a + 1)..b
      PROVE  p[k].role = "tool"
  <2>1. k \in 1..b
    BY <1>1
  <2>. QED BY <1>2, <2>1 DEF RunEnds, ToolsOnly
<1>5. ASSUME NEW j \in (a + 1)..b
      PROVE  Announced(p, j) = {}
  <2>1. ASSUME NEW i \in 1..j
        PROVE  CallIds(p[i]) = {}
    <3>1. i \in 1..b /\ i \in 1..Len(ms) /\ p[i] = ms[i]
      BY <1>1, <1>2
    <3>2. i \in 1..a \/ i \in (a + 1)..b
      BY <1>1, <3>1
    <3>3. p[i].role # "assistant"
      BY <1>3, <1>4, <3>2
    <3>4. p[i].calls = 0
      BY <3>1, <3>3 DEF Turns
    <3>. QED BY <3>4 DEF CallIds
  <2>. QED BY <2>1 DEF Announced
<1>6. PairedFrom(p, b)
  BY DEF FixedTo
<1>7. ASSUME NEW j \in 1..n
      PROVE  j \in K <=> (j <= a \/ j > b)
  <2>1. CASE j <= a
    <3>1. j \in 1..a
      BY <2>1
    <3>. QED BY <1>1, <1>3, <2>1, <3>1
  <2>2. CASE j > b
    <3>1. j \in (b + 1)..Len(p)
      BY <1>1, <2>2
    <3>2. p[j].role = "tool" => p[j].call \in Announced(p, j)
      BY <1>1, <1>6, <3>1, PairedAnnounced
    <3>. QED BY <1>1, <2>2, <3>2
  <2>3. CASE ~(j <= a) /\ ~(j > b)
    <3>1. j \in (a + 1)..b
      BY <1>1, <2>3
    <3>. QED BY <1>4, <1>5, <2>3, <3>1
  <2>. QED BY <2>1, <2>2, <2>3
<1>8. q = Kept(p, K)
  BY <1>1, DropIsKept
<1> HIDE DEF K, n
<1>9. q = x \o y
  <2>1. \A j \in 1..Len(p) : j \in K <=> (j <= a \/ j > b)
    BY <1>7 DEF n
  <2>2. a \in 0..Len(p) /\ b \in a..Len(p)
    BY <1>1 DEF n
  <2>3. Kept(p, K) = SubSeq(p, 1, a) \o SubSeq(p, b + 1, Len(p))
    BY <1>1, <2>1, <2>2, KeptCut
  <2>. QED BY <1>8, <2>3 DEF n
<1>10. /\ x \in Seq(MessageType) /\ Len(x) = a
       /\ \A k \in 1..a : x[k] = p[k]
  <2>1. \A k \in 1..a : p[k] \in MessageType
    BY <1>1, ElementOfSeq DEF n
  <2>2. \A k \in 1..a : k \in 1..(a - 1 + 1) /\ 1 + k - 1 = k
    BY <1>1
  <2>3. x \in Seq(MessageType) /\ Len(x) = a
    BY <1>1, <2>1, SubSeqProperties
  <2>4. \A k \in 1..(a - 1 + 1) : x[k] = p[1 + k - 1]
    BY <1>1, <2>1, SubSeqProperties
  <2>. QED BY <2>2, <2>3, <2>4
<1>11. /\ y \in Seq(MessageType) /\ Len(y) = n - b
       /\ \A k \in 1..Len(y) : y[k] = p[k + b] /\ k + b \in (b + 1)..n
  <2>1. \A k \in (b + 1)..n : p[k] \in MessageType
    BY <1>1, ElementOfSeq DEF n
  <2>2. y \in Seq(MessageType) /\ Len(y) = n - b
    BY <1>1, <2>1, SubSeqProperties
  <2>3. \A k \in 1..(n - (b + 1) + 1) : y[k] = p[(b + 1) + k - 1]
    BY <1>1, <2>1, SubSeqProperties
  <2>4. \A k \in 1..Len(y) : /\ k \in 1..(n - (b + 1) + 1)
                             /\ (b + 1) + k - 1 = k + b /\ k + b \in (b + 1)..n
    BY <1>1, <2>2
  <2>. QED BY <2>2, <2>3, <2>4
<1>12. Paired(y)
  BY <1>1, <1>6, PairedTail DEF n
<1> HIDE DEF x, y, q
<1>13. Paired(x)
  <2>1. NoTurns(x, Len(x))
    BY <1>3, <1>10 DEF NoTurns
  <2>. QED BY <1>1, <1>10, <2>1, PairedNoTurns
<1>14. Paired(q)
  <2>1. 0 \in 0..Len(x)
    BY <1>1, <1>10
  <2>. QED BY <1>9, <1>10, <1>11, <1>12, <1>13, <2>1, PairedConcat DEF Paired
<1>15. q \in Seq(MessageType) /\ Len(q) = a + (n - b)
       /\ \A k \in 1..(a + (n - b)) : q[k] = IF k <= a THEN x[k] ELSE y[k - a]
  BY <1>9, <1>10, <1>11, ConcatProperties
<1>16. ASSUME NEW k \in 1..Len(q)
       PROVE  q[k].role = "system" <=> k <= a
  <2>1. k \in 1..(a + (n - b))
    BY <1>15
  <2>2. CASE k <= a
    <3>1. k \in 1..a /\ q[k] = x[k]
      BY <1>15, <2>1, <2>2
    <3>. QED BY <1>3, <1>10, <2>2, <3>1
  <2>3. CASE ~(k <= a)
    <3>1. k - a \in 1..Len(y) /\ q[k] = y[k - a]
      BY <1>1, <1>11, <1>15, <2>1, <2>3
    <3>2. (k - a) + b \in (b + 1)..n /\ q[k] = p[(k - a) + b]
      BY <1>11, <3>1
    <3>3. p[(k - a) + b].role # "system"
      BY <3>2 DEF FixedTo, n
    <3>. QED BY <2>3, <3>2, <3>3
  <2>. QED BY <2>2, <2>3
<1>17. a \in 1..Len(q)
  BY <1>1, <1>15
<1>18. Assembled(q)
  BY <1>14, <1>15, <1>16, <1>17 DEF Assembled, Headed
<1>. QED BY <1>18 DEF q

LEMMA RepairIs ==
  ASSUME NEW ms, NEW a, Turns(ms, a)
  PROVE  Assembled(dropUnpairedToolResults(fixInterruptedToolCalls(ms)))
BY FixIs, DropIs

(* Neither repair loses a message that is not a result.                     *)
LEMMA RepairKeeps ==
  ASSUME NEW ms \in Seq(MessageType), NEW j \in 1..Len(ms), ms[j].role # "tool"
  PROVE  Holds(dropUnpairedToolResults(fixInterruptedToolCalls(ms)), ms[j])
<1> DEFINE p == fixInterruptedToolCalls(ms)
           r == dropUnpairedToolResults(p)
           K == {k \in DOMAIN p : p[k].role = "tool" => p[k].call \in Announced(p, k)}
<1>1. PICK F, ss : /\ Joins(MessageType, ss, F, Len(ms))
                   /\ ss \in [1..Len(ms) -> Seq(MessageType)]
                   /\ \A i \in 1..Len(ms) : ss[i] = Repaired(ms, i)
                   /\ p = F[Len(ms)]
  BY FixPieces
<1> HIDE DEF p
<1>2. Len(ms) \in Nat /\ Len(ms) \in 0..Len(ms)
  BY LenProperties
<1>3. p \in Seq(MessageType)
  BY <1>1, <1>2 DEF Joins
<1>4. 1 \in 1..Len(ss[j]) /\ ss[j][1] = ms[j]
  <2> DEFINE t == IF EndingAt(ms, j) = {} THEN <<>> ELSE synthetic(ms, Max(EndingAt(ms, j)))
  <2>1. ss[j] = <<ms[j]>> \o t
    BY <1>1 DEF Repaired
  <2>2. t \in Seq(MessageType)
    <3>1. j \in Nat /\ EndingAt(ms, j) \subseteq 0..j
      BY <1>2 DEF EndingAt
    <3>2. CASE EndingAt(ms, j) = {}
      BY <3>2
    <3>3. CASE EndingAt(ms, j) # {}
      <4>1. Max(EndingAt(ms, j)) \in EndingAt(ms, j)
        BY <3>1, <3>3, MaxIs
      <4>2. Max(EndingAt(ms, j)) \in 1..Len(ms)
        BY <1>2, <4>1 DEF EndingAt
      <4>3. synthetic(ms, Max(EndingAt(ms, j))) \in Seq(MessageType)
        BY <4>2, SyntheticType
      <4>. QED BY <3>3, <4>3
    <3>. QED BY <3>2, <3>3
  <2>3. <<ms[j]>> \in Seq(MessageType) /\ Len(<<ms[j]>>) = 1 /\ <<ms[j]>>[1] = ms[j]
    <3>1. ms[j] \in MessageType
      BY ElementOfSeq
    <3>. QED BY <3>1
  <2> HIDE DEF t
  <2>4. Len(t) \in Nat
    BY <2>2, LenProperties
  <2>5. Len(ss[j]) = 1 + Len(t) /\ 1 \in 1..(1 + Len(t))
    BY <2>1, <2>2, <2>3, <2>4, ConcatProperties
  <2>6. ss[j][1] = <<ms[j]>>[1]
    BY <2>1, <2>2, <2>3, <2>4, ConcatProperties
  <2>. QED BY <2>3, <2>5, <2>6
<1>5. PICK x \in 1..Len(p) : p[x] = ms[j]
  <2> DEFINE n == Len(ms)
             one == 1
  <2>1. n \in Nat /\ j \in 1..n /\ one \in 1..Len(ss[j])
    BY <1>2, <1>4
  <2>2. ss \in [1..n -> Seq(MessageType)] /\ Joins(MessageType, ss, F, n) /\ p = F[n]
    BY <1>1
  <2>3. ss[j][one] = ms[j]
    BY <1>4
  <2> HIDE DEF n, one
  <2>4. Holds(F[n], ss[j][one])
    BY <2>1, <2>2, JoinsHas
  <2>. QED BY <2>2, <2>3, <2>4 DEF Holds
<1>6. r = Kept(p, K)
  BY <1>3, DropIsKept
<1>7. Len(p) \in Nat /\ DOMAIN p = 1..Len(p)
  BY <1>3, LenProperties
<1>8. x \in K
  BY <1>5, <1>7
<1> HIDE DEF r, K
<1>9. PICK phi : Picks(p, K, Len(p), r, phi)
  BY <1>3, <1>6, KeptMap
<1>10. PICK y \in 1..Len(r) : phi[y] = x
  BY <1>8, <1>9 DEF Picks
<1>11. r[y] = ms[j]
  BY <1>5, <1>9, <1>10 DEF Picks
<1>. QED BY <1>11 DEF p, r, Holds

-----------------------------------------------------------------------------
(* Histories. *)

Aside(h, i, j) == \A k \in i..j : h[k].role \in {"tool", "system"}

(* Result j stands behind its call, summaries and other results between.    *)
Called(h, j) ==
    \E i \in 1..(j - 1) : /\ h[i].role = "assistant"
                          /\ h[j].call \in CallIds(h[i])
                          /\ Aside(h, i + 1, j)

CalledOnce(h) ==
    \A j, k \in 1..Len(h) :
        h[j].role = "tool" /\ h[k].role = "tool" /\ h[j].call = h[k].call => j = k

(* Messages of the first n rows as a run, or several, have saved them.      *)
Hist(h, n) ==
    /\ h \in Seq(MessageType)
    /\ \A i \in 1..Len(h) : /\ h[i].role # "assistant" => h[i].calls = 0
                            /\ h[i].role = "system" => IsSummary(h[i])
                            /\ h[i].role = "tool" => Called(h, i)
                            /\ h[i].row \in 1..n
    /\ CalledOnce(h)
    /\ h # <<>> => h[1].role = "user"

LEMMA LastSummaryIs ==
  ASSUME NEW h, Len(h) \in Nat, DOMAIN h = 1..Len(h)
  PROVE  LET s == findLastSummaryIndex(h)
         IN  s \in 0..Len(h) /\ (s # 0 => IsSummary(h[s]))
<1> DEFINE T == {0} \cup {i \in DOMAIN h : IsSummary(h[i])}
<1>1. T \subseteq 0..Len(h) /\ T # {}
  OBVIOUS
<1> HIDE DEF T
<1>2. Max(T) \in T
  BY <1>1, MaxIs
<1>3. findLastSummaryIndex(h) = Max(T)
  BY DEF findLastSummaryIndex, T
<1>4. Max(T) \in 0..Len(h)
  BY <1>1, <1>2
<1>5. Max(T) # 0 => IsSummary(h[Max(T)])
  BY <1>2 DEF T
<1>. QED BY <1>3, <1>4, <1>5

(* Wherever the transcript resumes, it is in the history or right behind it.*)
LEMMA StartIs ==
  ASSUME NEW h, Len(h) \in Nat, DOMAIN h = 1..Len(h)
  PROVE  summaryStartIndex(h) \in 1..(Len(h) + 1)
<1> DEFINE n == Len(h)
           s == findLastSummaryIndex(h)
           R == recordedResumeIndex(h, s)
           sk == skipOrphanedTurnFragments(h, s + 1)
           la == latestUserMessageIndex(h)
<1>1. s \in 0..n
  BY LastSummaryIs
<1> HIDE DEF s
<1>2. R # {} => Min(R) \in 1..(n + 1)
  <2>1. R \subseteq 1..(n + 1)
    <3>1. s + 1 \in 1..(n + 1) /\ 1..n \subseteq 1..(n + 1)
      BY <1>1
    <3>. QED BY <3>1 DEF recordedResumeIndex
  <2>2. R \subseteq Nat
    BY <2>1
  <2>. QED BY <2>1, <2>2, MinIs
<1>3. sk \in 1..(n + 1)
  <2> DEFINE E == {i \in (s + 1)..Len(h) : \/ h[i].role = "user"
                                           \/ h[i].stop \notin {"", "tool_calls", "context_summary"}}
  <2>1. E \subseteq (s + 1)..n /\ E \subseteq Nat /\ s + 1 \in 1..(n + 1)
    <3>1. s + 1 \in 1..(n + 1) /\ (s + 1)..n \subseteq Nat
      BY <1>1
    <3>2. E \subseteq (s + 1)..n
      OBVIOUS
    <3>. QED BY <3>1, <3>2
  <2>2. sk = IF E = {} THEN s + 1 ELSE IF h[Min(E)].role = "user" THEN Min(E) ELSE Min(E) + 1
    BY DEF skipOrphanedTurnFragments
  <2> HIDE DEF E, sk
  <2>3. CASE E = {}
    BY <2>1, <2>2, <2>3
  <2>4. CASE E # {}
    <3>1. Min(E) \in (s + 1)..n
      BY <2>1, <2>4, MinIs
    <3>2. Min(E) \in 1..(n + 1) /\ Min(E) + 1 \in 1..(n + 1)
      BY <1>1, <3>1
    <3>. QED BY <2>2, <2>4, <3>2
  <2>. QED BY <2>3, <2>4
<1>4. la \in 1..(n + 1)
  <2> DEFINE U == {i \in DOMAIN h : h[i].role = "user"}
  <2>1. U \subseteq 0..n /\ U \subseteq 1..n
    OBVIOUS
  <2>2. la = IF U = {} THEN n + 1 ELSE Max(U)
    BY DEF latestUserMessageIndex
  <2> HIDE DEF U, la
  <2>3. U # {} => Max(U) \in U
    BY <2>1, MaxIs
  <2>. QED BY <2>1, <2>2, <2>3
<1> HIDE DEF R, sk, la
<1>5. Min({sk, la}) \in 1..(n + 1)
  <2>1. {sk, la} \subseteq Nat /\ {sk, la} # {}
    BY <1>3, <1>4
  <2>2. Min({sk, la}) \in {sk, la}
    BY <2>1, MinIs
  <2>. QED BY <1>3, <1>4, <2>2
<1>6. summaryStartIndex(h) = IF s = 0 THEN 1 ELSE IF R # {} THEN Min(R) ELSE Min({sk, la})
  BY DEF summaryStartIndex, s, R, sk, la
<1>. QED BY <1>2, <1>5, <1>6

-----------------------------------------------------------------------------
(* assembleMessages.                                                        *)

(* t is h from start on without its summaries; phi says what came from where.*)
Excerpt(h, start, t, phi) ==
    /\ phi \in [1..Len(t) -> start..Len(h)]
    /\ \A x \in 1..Len(t) : t[x] = h[phi[x]] /\ t[x].role # "system"
    /\ \A x, y \in 1..Len(t) : x < y => phi[x] < phi[y]
    /\ \A k \in start..Len(h) : h[k].role # "system" => \E x \in 1..Len(t) : phi[x] = k

Transcript(h, start) ==
    LET rest == SubSeq(h, start, Len(h))
    IN  Kept(rest, {j \in DOMAIN rest : ~IsSummary(rest[j])})

LEMMA ExcerptIs ==
  ASSUME NEW h, NEW n, Hist(h, n), NEW start \in 1..(Len(h) + 1)
  PROVE  /\ Transcript(h, start) \in Seq(MessageType)
         /\ \E phi : Excerpt(h, start, Transcript(h, start), phi)
<1> DEFINE rest == SubSeq(h, start, Len(h))
           K == {j \in DOMAIN rest : ~IsSummary(rest[j])}
           t == Kept(rest, K)
           l == Len(h) - start + 1
<1>1. h \in Seq(MessageType) /\ Len(h) \in Nat
  BY LenProperties DEF Hist
<1>2. /\ rest \in Seq(MessageType)
      /\ Len(rest) = l /\ l \in Nat
      /\ \A x \in 1..l : rest[x] = h[start + x - 1]
  <2>1. start \in 1..(Len(h) + 1) /\ Len(h) \in (start - 1)..Len(h)
    BY <1>1
  <2>2. \A i \in start..Len(h) : h[i] \in MessageType
    BY <1>1, ElementOfSeq
  <2>. QED BY <1>1, <2>1, <2>2, SubSeqProperties
<1>3. \A j \in 1..l : j \in K <=> ~IsSummary(rest[j])
  BY <1>2
<1> HIDE DEF rest, K, t
<1>4. t \in Seq(MessageType) /\ \E phi : Picks(rest, K, Len(rest), t, phi)
  BY <1>2, KeptMap DEF t
<1>5. PICK phi : Picks(rest, K, l, t, phi)
  BY <1>2, <1>4
<1>6. Len(t) \in Nat
  BY <1>4, LenProperties
<1> DEFINE psi == [x \in 1..Len(t) |-> start - 1 + phi[x]]
<1> HIDE DEF l
<1>7. \A j \in 1..l : start - 1 + j \in start..Len(h) /\ start + j - 1 = start - 1 + j
  BY <1>1 DEF l
<1>8. \A x \in 1..Len(t) : /\ phi[x] \in 1..l /\ phi[x] \in K
                           /\ t[x] = rest[phi[x]]
                           /\ psi[x] = start - 1 + phi[x]
  BY <1>5 DEF Picks
<1>9. psi \in [1..Len(t) -> start..Len(h)]
  BY <1>7, <1>8
<1>10. ASSUME NEW x \in 1..Len(t)
       PROVE  t[x] = h[psi[x]] /\ t[x].role # "system"
  <2>1. t[x] = h[psi[x]]
    BY <1>2, <1>7, <1>8
  <2>2. ~IsSummary(t[x])
    BY <1>3, <1>8
  <2>3. psi[x] \in 1..Len(h)
    BY <1>1, <1>7, <1>8
  <2>. QED BY <2>1, <2>2, <2>3 DEF Hist
<1>11. ASSUME NEW x \in 1..Len(t), NEW y \in 1..Len(t), x < y
       PROVE  psi[x] < psi[y]
  <2>1. phi[x] < phi[y]
    BY <1>5, <1>11 DEF Picks
  <2>2. phi[x] \in Int /\ phi[y] \in Int
    BY <1>8
  <2>3. start - 1 + phi[x] < start - 1 + phi[y]
    BY <2>1, <2>2
  <2>. QED BY <1>8, <2>3
<1>12. ASSUME NEW k \in start..Len(h), h[k].role # "system"
       PROVE  \E x \in 1..Len(t) : psi[x] = k
  <2>1. k - start + 1 \in 1..l /\ start - 1 + (k - start + 1) = k
    BY <1>1 DEF l
  <2>2. rest[k - start + 1] = h[k]
    BY <1>2, <1>7, <2>1
  <2>3. k - start + 1 \in K
    BY <1>3, <1>12, <2>1, <2>2 DEF IsSummary
  <2>4. PICK x \in 1..Len(t) : phi[x] = k - start + 1
    BY <1>5, <2>1, <2>3 DEF Picks
  <2>5. psi[x] = k
    BY <1>8, <2>1, <2>4
  <2>. QED BY <2>5
<1> HIDE DEF psi
<1>13. Excerpt(h, start, t, psi)
  BY <1>9, <1>10, <1>11, <1>12 DEF Excerpt
<1>14. Transcript(h, start) = t
  BY DEF Transcript, t, rest, K
<1>. QED BY <1>4, <1>13, <1>14

(* A result in the excerpt is behind its call, or the call was cut off.     *)
LEMMA ExcerptCalled ==
  ASSUME NEW h, NEW n, Hist(h, n), NEW start \in 1..(Len(h) + 1),
         NEW t, Len(t) \in Nat, NEW phi, Excerpt(h, start, t, phi),
         NEW x \in 1..Len(t), t[x].role = "tool"
  PROVE  \/ ToolsOnly(t, 1, x)
         \/ \E y \in 1..(x - 1) : /\ t[y].role = "assistant"
                                  /\ t[x].call \in CallIds(t[y])
                                  /\ ToolsOnly(t, y + 1, x)
<1>1. Len(h) \in Nat /\ start \in Nat
  BY LenProperties DEF Hist
<1>2. \A y \in 1..Len(t) : phi[y] \in start..Len(h) /\ t[y] = h[phi[y]] /\ t[y].role # "system"
  BY DEF Excerpt
<1>3. phi[x] \in 1..Len(h) /\ h[phi[x]].role = "tool"
  BY <1>1, <1>2
<1>4. PICK i \in 1..(phi[x] - 1) : /\ h[i].role = "assistant"
                                   /\ h[phi[x]].call \in CallIds(h[i])
                                   /\ Aside(h, i + 1, phi[x])
  BY <1>3 DEF Hist, Called
<1>5. ASSUME NEW y \in 1..x
      PROVE  phi[y] <= phi[x] /\ y \in 1..Len(t)
  <2>1. y \in 1..Len(t)
    OBVIOUS
  <2>2. phi[y] \in Int /\ phi[x] \in Int
    BY <1>1, <1>2, <2>1
  <2>3. CASE y = x
    BY <2>1, <2>2, <2>3
  <2>4. CASE y < x
    <3>1. phi[y] < phi[x]
      BY <2>1, <2>4 DEF Excerpt
    <3>. QED BY <2>1, <2>2, <3>1
  <2>. QED BY <2>3, <2>4
<1>6. ASSUME NEW y \in 1..x, phi[y] > i
      PROVE  t[y].role = "tool"
  <2>1. phi[y] \in (i + 1)..phi[x]
    BY <1>1, <1>2, <1>3, <1>5, <1>6
  <2>2. h[phi[y]].role \in {"tool", "system"}
    BY <1>4, <2>1 DEF Aside
  <2>. QED BY <1>2, <1>5, <2>2
<1>7. CASE i < start
  <2>1. \A y \in 1..x : phi[y] > i
    BY <1>1, <1>2, <1>5, <1>7
  <2>2. ToolsOnly(t, 1, x)
    BY <1>6, <2>1 DEF ToolsOnly
  <2>. QED BY <2>2
<1>8. CASE ~(i < start)
  <2>1. i \in start..Len(h) /\ h[i].role # "system"
    BY <1>1, <1>3, <1>4, <1>8
  <2>2. PICK y \in 1..Len(t) : phi[y] = i
    BY <2>1 DEF Excerpt
  <2>3. y < x
    <3>1. phi[y] < phi[x] /\ phi[x] \in Int /\ phi[y] \in Int
      BY <1>3, <1>4, <2>2
    <3>2. x < y => phi[x] < phi[y]
      BY DEF Excerpt
    <3>. QED BY <3>1, <3>2
  <2>4. y \in 1..(x - 1)
    BY <2>3
  <2>5. t[y].role = "assistant" /\ t[x].call \in CallIds(t[y])
    BY <1>2, <1>4, <2>2
  <2>6. ASSUME NEW k \in (y + 1)..x
        PROVE  t[k].role = "tool"
    <3>1. k \in 1..x /\ k \in 1..Len(t) /\ y < k
      OBVIOUS
    <3>2. phi[y] < phi[k]
      BY <3>1 DEF Excerpt
    <3>3. phi[k] > i
      BY <1>1, <1>2, <2>2, <3>1, <3>2
    <3>. QED BY <1>6, <3>1, <3>3
  <2>7. ToolsOnly(t, y + 1, x)
    BY <2>6 DEF ToolsOnly
  <2>. QED BY <2>4, <2>5, <2>7
<1>. QED BY <1>7, <1>8

SystemOnly(p) == \A k \in 1..Len(p) : p[k].role = "system" /\ p[k].calls = 0

LEMMA TurnsIs ==
  ASSUME NEW h, NEW n, Hist(h, n), NEW start \in 1..(Len(h) + 1),
         NEW hd \in Seq(MessageType), hd # <<>>, SystemOnly(hd)
  PROVE  Turns(hd \o Transcript(h, start), Len(hd))
<1> DEFINE t == Transcript(h, start)
           ms == hd \o t
           a == Len(hd)
<1>1. h \in Seq(MessageType) /\ Len(h) \in Nat /\ start \in Nat
  BY LenProperties DEF Hist
<1>2. t \in Seq(MessageType) /\ Len(t) \in Nat
  BY ExcerptIs, LenProperties
<1>3. PICK phi : Excerpt(h, start, t, phi)
  BY ExcerptIs
<1> HIDE DEF t
<1>4. a \in Nat /\ a >= 1
  BY LenProperties, EmptySeq
<1> HIDE DEF a
<1>5. /\ ms \in Seq(MessageType)
      /\ Len(ms) = a + Len(t)
      /\ \A i \in 1..(a + Len(t)) : ms[i] = IF i <= a THEN hd[i] ELSE t[i - a]
  BY <1>2, ConcatProperties DEF a
<1> HIDE DEF ms
<1>6. ASSUME NEW i \in 1..Len(ms), i <= a
      PROVE  ms[i].role = "system" /\ ms[i].calls = 0
  <2>1. i \in 1..Len(hd) /\ ms[i] = hd[i]
    BY <1>4, <1>5, <1>6 DEF a
  <2>. QED BY <2>1 DEF SystemOnly
<1>7. \A x \in 1..Len(t) : phi[x] \in start..Len(h) /\ t[x] = h[phi[x]] /\ t[x].role # "system"
  BY <1>3 DEF Excerpt
<1>8. ASSUME NEW i \in 1..Len(ms), i > a
      PROVE  /\ i - a \in 1..Len(t) /\ ms[i] = t[i - a]
             /\ phi[i - a] \in 1..Len(h) /\ ms[i] = h[phi[i - a]]
             /\ ms[i].role # "system"
             /\ ms[i].role # "assistant" => ms[i].calls = 0
  <2>1. i - a \in 1..Len(t) /\ ~(i <= a) /\ i \in 1..(a + Len(t))
    BY <1>2, <1>4, <1>5, <1>8
  <2>2. ms[i] = t[i - a]
    BY <1>5, <2>1
  <2>3. phi[i - a] \in 1..Len(h) /\ t[i - a] = h[phi[i - a]] /\ t[i - a].role # "system"
    BY <1>1, <1>7, <2>1
  <2>. QED BY <2>1, <2>2, <2>3 DEF Hist
<1>9. \A i \in 1..Len(ms) : i \in Nat /\ (i <= a \/ i > a)
  BY <1>4
<1>10. a \in 1..Len(ms)
  BY <1>2, <1>4, <1>5
<1>11. \A i \in 1..Len(ms) : ms[i].role = "system" <=> i <= a
  BY <1>4, <1>6, <1>8
<1>12. \A i \in 1..Len(ms) : ms[i].role # "assistant" => ms[i].calls = 0
  BY <1>6, <1>8, <1>9
<1>13. ASSUME NEW j \in 1..Len(ms), ms[j].role = "tool"
       PROVE  \/ ToolsOnly(ms, a + 1, j)
              \/ \E i \in (a + 1)..(j - 1) : /\ ms[i].role = "assistant"
                                             /\ ms[j].call \in CallIds(ms[i])
                                             /\ ToolsOnly(ms, i + 1, j)
  <2>1. j > a
    BY <1>6, <1>9, <1>13
  <2>2. j - a \in 1..Len(t) /\ ms[j] = t[j - a]
    BY <1>8, <2>1
  <2>3. ASSUME NEW y \in 0..(j - a), ToolsOnly(t, y + 1, j - a)
        PROVE  ToolsOnly(ms, y + a + 1, j)
    <3>1. ASSUME NEW k \in (y + a + 1)..j
          PROVE  ms[k].role = "tool"
      <4>1. k \in 1..Len(ms) /\ k > a /\ k - a \in (y + 1)..(j - a)
        BY <1>4, <1>5, <1>2
      <4>2. t[k - a].role = "tool"
        BY <2>3, <4>1 DEF ToolsOnly
      <4>. QED BY <1>8, <4>1, <4>2
    <3>. QED BY <3>1 DEF ToolsOnly
  <2>4. CASE ToolsOnly(t, 1, j - a)
    <3>1. 0 \in 0..(j - a) /\ 0 + 1 = 1 /\ 0 + a + 1 = a + 1
      BY <1>4, <2>2
    <3>2. ToolsOnly(ms, a + 1, j)
      BY <2>3, <2>4, <3>1
    <3>. QED BY <3>2
  <2>5. ASSUME NEW y \in 1..((j - a) - 1), t[y].role = "assistant",
               t[j - a].call \in CallIds(t[y]), ToolsOnly(t, y + 1, j - a)
        PROVE  \E i \in (a + 1)..(j - 1) : /\ ms[i].role = "assistant"
                                           /\ ms[j].call \in CallIds(ms[i])
                                           /\ ToolsOnly(ms, i + 1, j)
    <3>1. y \in 0..(j - a) /\ y + a \in (a + 1)..(j - 1) /\ y + a > a /\ (y + a) - a = y
      BY <1>4, <2>2
    <3>2. y + a \in 1..Len(ms)
      BY <1>4, <3>1
    <3>3. ms[y + a] = t[y]
      BY <1>8, <3>1, <3>2
    <3>4. ToolsOnly(ms, y + a + 1, j)
      BY <2>3, <2>5, <3>1
    <3>. QED BY <2>2, <2>5, <3>1, <3>3, <3>4
  <2>6. \/ ToolsOnly(t, 1, j - a)
        \/ \E y \in 1..((j - a) - 1) : /\ t[y].role = "assistant"
                                       /\ t[j - a].call \in CallIds(t[y])
                                       /\ ToolsOnly(t, y + 1, j - a)
    <3> DEFINE x == j - a
    <3>1. x \in 1..Len(t) /\ t[x].role = "tool"
      BY <1>13, <2>2
    <3> HIDE DEF x
    <3>2. \/ ToolsOnly(t, 1, x)
          \/ \E y \in 1..(x - 1) : /\ t[y].role = "assistant"
                                   /\ t[x].call \in CallIds(t[y])
                                   /\ ToolsOnly(t, y + 1, x)
      BY <1>2, <1>3, <3>1, ExcerptCalled
    <3>. QED BY <3>2 DEF x
  <2>. QED BY <2>4, <2>5, <2>6
<1>14. ASSUME NEW j \in 1..Len(ms), NEW k \in 1..Len(ms),
              ms[j].role = "tool", ms[k].role = "tool", ms[j].call = ms[k].call
       PROVE  j = k
  <2>1. j > a /\ k > a
    BY <1>6, <1>9, <1>14
  <2>2. /\ j - a \in 1..Len(t) /\ phi[j - a] \in 1..Len(h) /\ ms[j] = h[phi[j - a]]
        /\ k - a \in 1..Len(t) /\ phi[k - a] \in 1..Len(h) /\ ms[k] = h[phi[k - a]]
    BY <1>8, <2>1
  <2>3. phi[j - a] = phi[k - a]
    BY <1>14, <2>2 DEF Hist, CalledOnce
  <2>4. \A x, y \in 1..Len(t) : x < y => phi[x] < phi[y]
    BY <1>3 DEF Excerpt
  <2>5. ~(phi[j - a] < phi[k - a]) /\ ~(phi[k - a] < phi[j - a])
    BY <2>2, <2>3
  <2>6. ~(j - a < k - a) /\ ~(k - a < j - a)
    BY <2>2, <2>4, <2>5
  <2>. QED BY <1>4, <2>6
<1>15. Turns(ms, a)
  BY <1>5, <1>10, <1>11, <1>12, <1>13, <1>14 DEF Turns
<1>. QED BY <1>15 DEF ms, a, t

Headers(h) ==
    LET s == findLastSummaryIndex(h)
    IN  <<Message("system")>> \o (IF s = 0 THEN <<>> ELSE <<[h[s] EXCEPT !.id = NoId]>>)

LEMMA SystemMessage ==
  /\ Message("system") \in MessageType
  /\ Message("system").role = "system" /\ Message("system").calls = 0
<1>1. /\ MaxRows \in Nat /\ MaxCalls \in Nat
      /\ 0 \in 0..MaxRows /\ 0 \in 0..MaxCalls /\ 0 \in -MaxRows..MaxRows
  BY PromptAssumption
<1>. QED BY <1>1 DEF Message, MessageType, NoCall, NoId

LEMMA HeadersIs ==
  ASSUME NEW h, NEW n, Hist(h, n)
  PROVE  Headers(h) \in Seq(MessageType) /\ Headers(h) # <<>> /\ SystemOnly(Headers(h))
<1> DEFINE s == findLastSummaryIndex(h)
           m == Message("system")
           x == [h[s] EXCEPT !.id = NoId]
<1>1. h \in Seq(MessageType) /\ Len(h) \in Nat /\ DOMAIN h = 1..Len(h)
  BY LenProperties DEF Hist
<1>2. s \in 0..Len(h) /\ (s # 0 => IsSummary(h[s]))
  BY <1>1, LastSummaryIs
<1>3. Headers(h) = <<m>> \o (IF s = 0 THEN <<>> ELSE <<x>>)
  BY DEF Headers
<1>4. m \in MessageType /\ m.role = "system" /\ m.calls = 0
  BY SystemMessage
<1>5. s # 0 => x \in MessageType /\ x.role = "system" /\ x.calls = 0
  <2> SUFFICES ASSUME s # 0
               PROVE  x \in MessageType /\ x.role = "system" /\ x.calls = 0
    OBVIOUS
  <2>1. s \in 1..Len(h)
    BY <1>2
  <2>2. h[s].role = "system" /\ h[s].calls = 0
    BY <1>2, <2>1 DEF Hist, IsSummary
  <2>3. h[s] \in MessageType
    BY <1>1, <2>1, ElementOfSeq
  <2>4. NoId \in -MaxRows..MaxRows
    BY PromptAssumption DEF NoId
  <2> HIDE DEF s
  <2>5. x \in MessageType
    BY <2>3, <2>4 DEF MessageType
  <2>6. x.role = h[s].role /\ x.calls = h[s].calls
    BY <2>3 DEF MessageType
  <2>. QED BY <2>2, <2>5, <2>6
<1> HIDE DEF s, m, x
<1>6. CASE s = 0
  <2>1. Headers(h) = <<m>>
    BY <1>3, <1>4, <1>6
  <2>. QED BY <1>4, <2>1 DEF SystemOnly
<1>7. CASE s # 0
  <2>1. Headers(h) = <<m>> \o <<x>>
    BY <1>3, <1>7
  <2>2. /\ <<m>> \in Seq(MessageType) /\ Len(<<m>>) = 1 /\ <<m>>[1] = m
        /\ <<x>> \in Seq(MessageType) /\ Len(<<x>>) = 1 /\ <<x>>[1] = x
    BY <1>4, <1>5, <1>7
  <2>3. /\ Headers(h) \in Seq(MessageType)
        /\ Len(Headers(h)) = 2
        /\ Headers(h)[1] = m /\ Headers(h)[2] = x
    BY <2>1, <2>2, ConcatProperties
  <2>4. SystemOnly(Headers(h))
    BY <1>4, <1>5, <1>7, <2>3 DEF SystemOnly
  <2>. QED BY <2>3, <2>4
<1>. QED BY <1>6, <1>7

LEMMA AssembleParts ==
  ASSUME NEW h, NEW start
  PROVE  assembleMessages(h, start) =
            dropUnpairedToolResults(fixInterruptedToolCalls(Headers(h) \o Transcript(h, start)))
BY DEF assembleMessages, Headers, Transcript

LEMMA AssembleIs ==
  ASSUME NEW h, NEW n, Hist(h, n), NEW start \in 1..(Len(h) + 1)
  PROVE  Assembled(assembleMessages(h, start))
<1> DEFINE ms == Headers(h) \o Transcript(h, start)
           a == Len(Headers(h))
<1>1. Turns(ms, a)
  BY HeadersIs, TurnsIs
<1> HIDE DEF ms, a
<1>2. Assembled(dropUnpairedToolResults(fixInterruptedToolCalls(ms)))
  BY <1>1, RepairIs
<1>. QED BY <1>2, AssembleParts DEF ms

(* The whole history has something to answer: its first message.            *)
LEMMA AssembleKeeps ==
  ASSUME NEW h, NEW n, Hist(h, n), h # <<>>
  PROVE  hasTranscript(assembleMessages(h, 1))
<1> DEFINE t == Transcript(h, 1)
           hd == Headers(h)
           ms == hd \o t
           r == assembleMessages(h, 1)
<1>1. h \in Seq(MessageType) /\ Len(h) \in Nat /\ 1 \in 1..(Len(h) + 1) /\ 1 \in 1..Len(h)
  BY LenProperties, EmptySeq DEF Hist
<1>2. h[1].role = "user"
  BY DEF Hist
<1>3. t \in Seq(MessageType) /\ Len(t) \in Nat
  BY <1>1, ExcerptIs, LenProperties
<1>4. PICK phi : Excerpt(h, 1, t, phi)
  BY <1>1, ExcerptIs
<1>5. PICK x \in 1..Len(t) : phi[x] = 1
  BY <1>1, <1>2, <1>4 DEF Excerpt
<1>6. t[x] = h[1]
  BY <1>4, <1>5 DEF Excerpt
<1>7. hd \in Seq(MessageType) /\ Len(hd) \in Nat
  BY HeadersIs, LenProperties
<1>8. Assembled(r)
  BY <1>1, AssembleIs
<1>9. r = dropUnpairedToolResults(fixInterruptedToolCalls(ms))
  BY AssembleParts
<1> HIDE DEF t, hd, r
<1> DEFINE j == Len(hd) + x
<1>10. j \in 1..(Len(hd) + Len(t)) /\ ~(j <= Len(hd)) /\ j - Len(hd) = x
  BY <1>3, <1>7
<1> HIDE DEF j
<1>11. ms \in Seq(MessageType) /\ Len(ms) = Len(hd) + Len(t) /\ ms[j] = t[x]
  BY <1>3, <1>7, <1>10, ConcatProperties
<1>12. j \in 1..Len(ms) /\ ms[j].role # "tool" /\ ms[j].role = "user"
  BY <1>2, <1>6, <1>10, <1>11
<1> HIDE DEF ms
<1>13. Holds(r, ms[j])
  BY <1>9, <1>11, <1>12, RepairKeeps
<1>14. PICK y \in 1..Len(r) : r[y].role = "user"
  BY <1>12, <1>13 DEF Holds
<1>15. y \in DOMAIN r
  BY <1>8, <1>14, LenProperties DEF Assembled
<1>. QED BY <1>14, <1>15 DEF hasTranscript, r

-----------------------------------------------------------------------------
(* buildMessages.                                                           *)

(* The last message that is not an overlay is one of the transcript.        *)
Built(ms) ==
    /\ ms \in Seq(MessageType)
    /\ Paired(ms)
    /\ Len(ms) - Overlays \in 1..Len(ms)
    /\ ms[Len(ms) - Overlays].role # "system"
    /\ ms[1].role = "system"

LEMMA OverlaysBuilt ==
  ASSUME NEW q, Assembled(q), hasTranscript(q),
         NEW ov \in Seq(MessageType), Len(ov) = Overlays, SystemOnly(ov)
  PROVE  Built(q \o ov)
<1> DEFINE ms == q \o ov
           l == Len(q)
<1>1. q \in Seq(MessageType) /\ Paired(q) /\ l \in Nat /\ DOMAIN q = 1..l
  BY LenProperties DEF Assembled
<1>2. PICK a \in 1..l : Headed(q, a)
  BY DEF Assembled
<1>3. Overlays \in Nat
  BY PromptAssumption
<1> HIDE DEF ms
<1> HIDE DEF l
<1>4. /\ ms \in Seq(MessageType)
      /\ Len(ms) = l + Overlays
      /\ \A i \in 1..(l + Overlays) : ms[i] = IF i <= l THEN q[i] ELSE ov[i - l]
  BY <1>1, ConcatProperties DEF ms, l
<1>5. Paired(ms)
  <2>1. NoTurns(ov, Len(ov))
    BY DEF SystemOnly, NoTurns
  <2>2. Paired(ov)
    BY <1>3, <2>1, PairedNoTurns
  <2>3. 0 \in 0..Len(q) /\ PairedFrom(q, 0)
    BY <1>1 DEF Paired, l
  <2>4. PairedFrom(q \o ov, 0)
    BY <1>1, <2>2, <2>3, PairedConcat
  <2>. QED BY <2>4 DEF ms, Paired
<1>6. q[l].role # "system" /\ l \in 1..l
  <2>1. PICK i \in 1..l : q[i].role # "system"
    BY <1>1 DEF hasTranscript
  <2>2. ~(i <= a)
    BY <1>2, <2>1 DEF Headed, l
  <2>3. ~(l <= a) /\ l \in 1..l
    BY <1>1, <2>1, <2>2
  <2>. QED BY <1>2, <2>3 DEF Headed, l
<1>7. Len(ms) - Overlays = l /\ l \in 1..Len(ms) /\ l \in 1..(l + Overlays) /\ l <= l
  BY <1>1, <1>3, <1>4, <1>6
<1>8. ms[l] = q[l]
  BY <1>4, <1>7
<1>9. ms[1].role = "system"
  <2>1. 1 \in 1..l /\ 1 <= a /\ 1 <= l /\ 1 \in 1..(l + Overlays)
    BY <1>1, <1>2, <1>3
  <2>2. ms[1] = q[1] /\ q[1].role = "system"
    BY <1>2, <1>4, <2>1 DEF Headed, l
  <2>. QED BY <2>2
<1>10. Built(ms)
  BY <1>4, <1>5, <1>6, <1>7, <1>8, <1>9 DEF Built
<1>. QED BY <1>10 DEF ms

LEMMA BuildIs ==
  ASSUME NEW h, NEW n, Hist(h, n), h # <<>>
  PROVE  Built(buildMessages(h))
<1> DEFINE ov == [i \in 1..Overlays |-> Message("system")]
           x == assembleMessages(h, summaryStartIndex(h))
           y == assembleMessages(h, 1)
           q == IF hasTranscript(x) THEN x ELSE y
<1>1. h \in Seq(MessageType) /\ Len(h) \in Nat /\ DOMAIN h = 1..Len(h)
  BY LenProperties DEF Hist
<1>2. summaryStartIndex(h) \in 1..(Len(h) + 1) /\ 1 \in 1..(Len(h) + 1)
  BY <1>1, StartIs
<1>3. Assembled(x) /\ Assembled(y) /\ hasTranscript(y)
  BY <1>2, AssembleIs, AssembleKeeps
<1>4. Assembled(q) /\ hasTranscript(q)
  BY <1>3
<1>5. ov \in Seq(MessageType) /\ Len(ov) = Overlays /\ SystemOnly(ov)
  <2>1. ov \in Seq(MessageType) /\ Len(ov) = Overlays
    BY PromptAssumption, SystemMessage
  <2>2. \A i \in 1..Overlays : ov[i] = Message("system")
    OBVIOUS
  <2> HIDE DEF ov
  <2>. QED BY <2>1, <2>2, SystemMessage DEF SystemOnly
<1>6. buildMessages(h) = q \o ov
  BY DEF buildMessages
<1> HIDE DEF q, ov
<1>7. Built(q \o ov)
  BY <1>4, <1>5, OverlaysBuilt
<1>. QED BY <1>6, <1>7

LEMMA BuiltHasTranscript ==
  ASSUME NEW ms, Built(ms)
  PROVE  hasTranscript(ms) /\ ms # <<>> /\ Len(ms) \in Nat /\ DOMAIN ms = 1..Len(ms)
<1>1. ms \in Seq(MessageType) /\ Len(ms) - Overlays \in 1..Len(ms)
      /\ ms[Len(ms) - Overlays].role # "system"
  BY DEF Built
<1>2. Len(ms) \in Nat /\ DOMAIN ms = 1..Len(ms)
  BY <1>1, LenProperties
<1>3. Len(ms) # 0
  BY <1>1, <1>2
<1>. QED BY <1>1, <1>2, <1>3, EmptySeq DEF hasTranscript

-----------------------------------------------------------------------------
(* Where compaction cuts.                                                   *)

LEMMA KeepBoundaryIs ==
  ASSUME NEW S, NEW s \in Seq(S), NEW m \in Nat
  PROVE  LET k == findKeepBoundary(s, m)
         IN  k \in 0..Len(s) /\ (k # 0 => k <= Len(s) - m /\ s[k + 1].role # "tool")
<1> DEFINE T == {0} \cup {i \in 1..Len(s) - m :
                             /\ s[i + 1].role # "tool"
                             /\ ~(s[i].role = "assistant" /\ s[i].calls > 0)}
<1>1. Len(s) \in Nat
  BY LenProperties
<1>2. findKeepBoundary(s, m) = IF Len(s) <= m THEN 0 ELSE Max(T)
  BY DEF findKeepBoundary
<1>3. CASE Len(s) <= m
  BY <1>1, <1>2, <1>3
<1>4. CASE ~(Len(s) <= m)
  <2>1. T \subseteq 0..(Len(s) - m) /\ T # {} /\ Len(s) - m \in Nat
    BY <1>1, <1>4
  <2>2. \A k \in T : k # 0 => s[k + 1].role # "tool"
    OBVIOUS
  <2> HIDE DEF T
  <2>3. Max(T) \in T
    BY <2>1, MaxIs
  <2>4. Max(T) \in 0..Len(s) /\ Max(T) <= Len(s) - m
    <3> DEFINE l == Len(s)
               k == Max(T)
    <3>1. k \in 0..(l - m) /\ l \in Nat /\ m \in Nat
      BY <1>1, <2>1, <2>3
    <3> HIDE DEF k, l
    <3>2. k \in 0..l /\ k <= l - m
      BY <3>1
    <3>. QED BY <3>2 DEF k, l
  <2>. QED BY <1>2, <1>4, <2>2, <2>3, <2>4
<1>. QED BY <1>3, <1>4

(* A cut never comes before a result, and minKeep messages stay.            *)
Cuts(ms, minKeep, k) ==
    /\ k \in 1..Len(ms)
    /\ k > 1 => k + minKeep <= Len(ms) /\ ms[k + 1].role # "tool"

LEMMA BoundaryIs ==
  ASSUME NEW S, NEW ms \in Seq(S), ms # <<>>, NEW minKeep \in Nat \ {0}, NEW widen \in BOOLEAN,
         NEW k \in computeKeepBoundary(ms, minKeep, widen)
  PROVE  Cuts(ms, minKeep, k)
<1> DEFINE tl == Tail(ms)
           first == findKeepBoundary(tl, minKeep) + 1
<1>1. /\ Len(ms) \in Nat /\ Len(ms) >= 1
      /\ tl \in Seq(S) /\ Len(tl) = Len(ms) - 1 /\ Len(tl) \in Nat
      /\ \A i \in 1..Len(tl) : tl[i] = ms[i + 1]
  <2>1. Len(ms) \in Nat /\ Len(ms) # 0
    BY LenProperties, EmptySeq
  <2>. QED BY <2>1, HeadTailProperties, LenProperties
<1>2. /\ findKeepBoundary(tl, minKeep) \in 0..Len(tl)
      /\ findKeepBoundary(tl, minKeep) # 0 => findKeepBoundary(tl, minKeep) <= Len(tl) - minKeep
  BY <1>1, KeepBoundaryIs
<1>3. first \in 1..Len(ms) /\ (first # 1 => first + minKeep <= Len(ms))
  BY <1>1, <1>2
<1>4. PICK x \in 1..first : k = findKeepBoundary(tl, Len(ms) - x) + 1
  <2>1. PICK x \in (IF widen THEN 1..first ELSE {first}) : k = findKeepBoundary(tl, Len(ms) - x) + 1
    BY DEF computeKeepBoundary
  <2> HIDE DEF first, tl
  <2>2. x \in 1..first
    BY <1>3, <2>1
  <2>. QED BY <2>1, <2>2
<1> DEFINE m == Len(ms) - x
           f == findKeepBoundary(tl, m)
<1> HIDE DEF first, tl
<1>5. m \in Nat /\ Len(tl) - m = x - 1
  BY <1>1, <1>3, <1>4
<1> HIDE DEF m
<1>6. f \in 0..Len(tl) /\ (f # 0 => f <= Len(tl) - m /\ tl[f + 1].role # "tool")
  BY <1>1, <1>5, KeepBoundaryIs
<1>7. k = f + 1
  BY <1>4 DEF m
<1> HIDE DEF f
<1>8. k \in 1..Len(ms)
  BY <1>1, <1>6, <1>7
<1>9. ASSUME k > 1
      PROVE  k + minKeep <= Len(ms) /\ ms[k + 1].role # "tool"
  <2> DEFINE l == Len(ms)
  <2>1. f # 0 /\ f <= x - 1 /\ tl[k].role # "tool"
    BY <1>1, <1>5, <1>6, <1>7, <1>9
  <2>2. l \in Nat /\ k \in 1..l /\ first \in 1..l /\ x \in 1..first
        /\ (first # 1 => first + minKeep <= l)
    BY <1>1, <1>3, <1>4, <1>8
  <2>3. f \in Nat
    BY <1>1, <1>6
  <2>4. Len(tl) = l - 1
    BY <1>1
  <2> HIDE DEF l
  <2>5. k <= x /\ first # 1
    BY <1>7, <1>9, <2>1, <2>2, <2>3
  <2>6. k + minKeep <= l
    BY <2>2, <2>5
  <2>7. k \in 1..Len(tl)
    BY <2>2, <2>4, <2>6
  <2>8. tl[k] = ms[k + 1]
    BY <1>1, <2>7
  <2>. QED BY <2>1, <2>6, <2>8 DEF l
<1>. QED BY <1>8, <1>9 DEF Cuts

-----------------------------------------------------------------------------
(* Compaction: the summary and the compressed prompt.                       *)

LEMMA SubSeqType ==
  ASSUME NEW S, NEW s \in Seq(S), NEW i \in Nat \ {0}, NEW j \in 0..Len(s)
  PROVE  SubSeq(s, i, j) \in Seq(S)
<1>1. Len(s) \in Nat
  BY LenProperties
<1>2. \A x \in i..j : s[x] \in S
  <2> TAKE x \in i..j
  <2>1. x \in 1..Len(s)
    BY <1>1
  <2>. QED BY <2>1, ElementOfSeq
<1>. QED BY <1>1, <1>2

LEMMA ElementsType ==
  ASSUME NEW S, NEW s \in Seq(S), NEW i \in Nat \ {0}, NEW j \in 0..Len(s)
  PROVE  ToSet(SubSeq(s, i, j)) \subseteq S
<1> DEFINE t == SubSeq(s, i, j)
<1>1. t \in Seq(S)
  BY SubSeqType
<1> HIDE DEF t
<1>2. \A x \in DOMAIN t : t[x] \in S
  BY <1>1
<1>. QED BY <1>2 DEF ToSet, t

LEMMA MessageRows ==
  ASSUME NEW m \in MessageType
  PROVE  m.row \in 0..MaxRows /\ m.covers \subseteq 1..MaxRows /\ m.id \in -MaxRows..MaxRows
BY DEF MessageType

LEMMA ReadType ==
  ASSUME NEW prefix \in Seq(MessageType), NEW degraded \in BOOLEAN
  PROVE  Read(prefix, degraded) \subseteq 1..MaxRows
<1> DEFINE l == Len(prefix)
           i == Max({1, l - FallbackTurns + 1})
           last == ToSet(SubSeq(prefix, i, l))
<1>1. l \in Nat /\ l \in 0..l /\ FallbackTurns \in Nat /\ MaxRows \in Nat
  BY LenProperties, PromptAssumption
<1>2. i \in Nat \ {0}
  <2> DEFINE x == l - FallbackTurns + 1
  <2>1. x \in Int
    BY <1>1
  <2> HIDE DEF x
  <2>2. \E y \in {1, x} : \A z \in {1, x} : y >= z
    BY <2>1
  <2>3. Max({1, x}) \in {1, x} /\ Max({1, x}) >= 1
    BY <2>2 DEF Max
  <2>4. Max({1, x}) \in Nat \ {0}
    BY <2>1, <2>3
  <2>. QED BY <2>4 DEF x
<1> HIDE DEF i
<1>3. last \subseteq MessageType
  BY <1>1, <1>2, ElementsType
<1>4. ToSet(prefix) \subseteq MessageType
  <2>1. \A x \in DOMAIN prefix : prefix[x] \in MessageType
    OBVIOUS
  <2>. QED BY <2>1 DEF ToSet
<1> HIDE DEF last
<1>5. ASSUME NEW m \in MessageType
      PROVE  ({m.row} \cup m.covers) \ {0} \subseteq 1..MaxRows
  <2>1. m.row \in 0..MaxRows /\ m.covers \subseteq 1..MaxRows
    BY MessageRows
  <2>. QED BY <1>1, <2>1
<1>6. Read(prefix, degraded) = (IF degraded THEN {m.row : m \in last}
                                ELSE UNION {{m.row} \cup m.covers : m \in ToSet(prefix)}) \ {0}
  BY DEF Read, last, i, l
<1>7. CASE degraded
  BY <1>3, <1>5, <1>6, <1>7
<1>8. CASE ~degraded
  BY <1>4, <1>5, <1>6, <1>8
<1>. QED BY <1>7, <1>8

LEMMA ResumeType ==
  ASSUME NEW h \in Seq(MessageType), NEW kept
  PROVE  findResumeFromMessageId(h, kept) \in -MaxRows..MaxRows
<1> DEFINE hits == {i \in DOMAIN h : h[i].id # NoId /\ \E m \in ToSet(kept) : m.id = h[i].id}
<1>1. DOMAIN h = 1..Len(h)
  BY LenProperties
<1>2. hits \subseteq 1..Len(h) /\ hits \subseteq Nat
  BY <1>1
<1>3. findResumeFromMessageId(h, kept) = IF hits = {} THEN NoId ELSE h[Min(hits)].id
  BY DEF findResumeFromMessageId
<1> HIDE DEF hits
<1>4. NoId \in -MaxRows..MaxRows
  BY PromptAssumption DEF NoId
<1>5. ASSUME hits # {}
      PROVE  h[Min(hits)].id \in -MaxRows..MaxRows
  <2>1. Min(hits) \in 1..Len(h)
    BY <1>2, <1>5, MinIs
  <2>2. h[Min(hits)] \in MessageType
    BY <2>1, ElementOfSeq
  <2>. QED BY <2>2, MessageRows
<1>. QED BY <1>3, <1>4, <1>5

(* What a step saves: a message of the next row.                            *)
Row(m, role) ==
    /\ m \in MessageType
    /\ m.role = role
    /\ m.row = Len(conversation) + 1
    /\ m.id = Len(conversation) + 1

LEMMA StoredIs ==
  ASSUME NEW m \in MessageType, Len(conversation) \in Nat, HasRoom
  PROVE  /\ Row(Stored(m), m.role)
         /\ Stored(m).calls = m.calls /\ Stored(m).call = m.call /\ Stored(m).stop = m.stop
<1>1. Len(conversation) + 1 \in 0..MaxRows /\ Len(conversation) + 1 \in -MaxRows..MaxRows
  BY PromptAssumption DEF HasRoom
<1> DEFINE r == Len(conversation) + 1
           resume == IF StoreKeepsMetadata THEN m.resume ELSE NoId
           recorded == StoreKeepsMetadata /\ m.recorded
<1> HIDE DEF r
<1>2. r \in 0..MaxRows /\ r \in -MaxRows..MaxRows
  BY <1>1 DEF r
<1>3. resume \in -MaxRows..MaxRows /\ recorded \in BOOLEAN
  <2>1. m.resume \in -MaxRows..MaxRows /\ m.recorded \in BOOLEAN
    BY DEF MessageType
  <2>2. NoId \in -MaxRows..MaxRows
    BY PromptAssumption DEF NoId
  <2>. QED BY <2>1, <2>2
<1>4. Stored(m) = [m EXCEPT !.row = r, !.id = r, !.resume = resume, !.recorded = recorded]
  BY DEF Stored, r
<1> HIDE DEF resume, recorded
<1>5. [m EXCEPT !.row = r, !.id = r, !.resume = resume, !.recorded = recorded] \in MessageType
  BY <1>2, <1>3 DEF MessageType
<1>6. LET x == [m EXCEPT !.row = r, !.id = r, !.resume = resume, !.recorded = recorded]
      IN  /\ x.role = m.role /\ x.row = r /\ x.id = r
          /\ x.calls = m.calls /\ x.call = m.call /\ x.stop = m.stop
  BY DEF MessageType
<1>. QED BY <1>4, <1>5, <1>6 DEF Row, r

Summary(m) == Row(m, "system") /\ IsSummary(m) /\ m.calls = 0

LEMMA SummaryIs ==
  ASSUME NEW h \in Seq(MessageType), NEW prefix \in Seq(MessageType), NEW kept,
         NEW degraded \in BOOLEAN, Len(conversation) \in Nat, HasRoom
  PROVE  Summary(Stored(summaryMessage(h, prefix, kept, degraded)))
<1> DEFINE m == summaryMessage(h, prefix, kept, degraded)
           resume == findResumeFromMessageId(h, kept)
           covers == Read(prefix, degraded)
<1>1. resume \in -MaxRows..MaxRows /\ covers \in SUBSET (1..MaxRows)
  BY ReadType, ResumeType
<1>2. m = [Message("system") EXCEPT !.stop = "context_summary", !.resume = resume,
                                    !.recorded = ~degraded, !.covers = covers]
  BY DEF summaryMessage
<1> HIDE DEF resume, covers, m
<1>3. m \in MessageType
  BY <1>1, <1>2, SystemMessage DEF MessageType
<1>4. m.role = "system" /\ m.stop = "context_summary" /\ m.calls = 0
  BY <1>2, SystemMessage DEF MessageType
<1>5. Summary(Stored(m))
  BY <1>3, <1>4, StoredIs DEF Summary, IsSummary, Row
<1>. QED BY <1>5 DEF m

(* The shortened prompt: the system prompt, the summary, what is kept.      *)
Shortened(q, ms, k, m) ==
    /\ q \in Seq(MessageType)
    /\ Len(q) = 2 + (Len(ms) - k)
    /\ q[1] = ms[1]
    /\ q[2] = [m EXCEPT !.id = NoId]
    /\ \A x \in 3..Len(q) : q[x] = ms[k + (x - 2)]

(* The request a compression leaves: the system prompt, the summary and     *)
(* what was behind the cut.                                                 *)
LEMMA CompressIs ==
  ASSUME NEW ms, Built(ms), NEW k, Cuts(ms, KeepRound, k), k > 1, NEW degraded \in BOOLEAN,
         history \in Seq(MessageType), Len(conversation) \in Nat, HasRoom
  PROVE  LET r == compressContext(ms, k, degraded)
         IN  /\ Summary(r.saved)
             /\ r.messages \in Seq(MessageType)
             /\ Paired(r.messages)
             /\ hasTranscript(r.messages)
             /\ Shortened(r.messages, ms, k, r.saved)
<1> DEFINE l == Len(ms)
           kept == SubSeq(ms, k + 1, l)
           prefix == SubSeq(ms, 2, k)
           saved == Stored(summaryMessage(history, prefix, kept, degraded))
           shown == [saved EXCEPT !.id = NoId]
           hd == <<ms[1], shown>>
           q == hd \o kept
           r == compressContext(ms, k, degraded)
<1>1. /\ ms \in Seq(MessageType) /\ Paired(ms) /\ l \in Nat
      /\ k \in 1..l /\ k + KeepRound <= l /\ ms[k + 1].role # "tool"
  BY LenProperties DEF Built, Cuts
<1>2. KeepRound \in Nat /\ Overlays \in Nat /\ Overlays < KeepRound
  BY PromptAssumption
<1>3. prefix \in Seq(MessageType)
  <2>1. k \in 0..Len(ms) /\ 2 \in Nat \ {0}
    BY <1>1
  <2>. QED BY <1>1, <2>1, SubSeqType
<1> HIDE DEF prefix
<1>4. kept \in Seq(MessageType) /\ Len(kept) = l - k
      /\ \A x \in 1..(l - k) : kept[x] = ms[k + x]
  <2>1. k + 1 \in 1..(Len(ms) + 1) /\ l \in k..Len(ms)
    BY <1>1
  <2>2. k + 1 \in Nat \ {0} /\ l \in 0..Len(ms)
    BY <1>1
  <2>3. kept \in Seq(MessageType)
    BY <1>1, <2>2, SubSeqType
  <2>4. Len(kept) = l - k
    BY <1>1
  <2>5. \A x \in 1..(l - k) : kept[x] = ms[k + x]
    BY <1>1
  <2>. QED BY <2>3, <2>4, <2>5
<1>5. Paired(kept)
  <2>1. k \in Nat /\ k \in 0..Len(ms)
    BY <1>1
  <2>2. PairedFrom(ms, k)
    BY <1>1, <2>1, PairedBehind
  <2>. QED BY <1>1, <2>1, <2>2, PairedTail
<1> HIDE DEF kept
<1>6. Summary(saved)
  BY <1>3, SummaryIs
<1>7. saved \in MessageType /\ saved.role = "system"
  BY <1>6 DEF Summary, Row
<1> HIDE DEF saved
<1>8. shown \in MessageType /\ shown.role = "system"
  <2>1. NoId \in -MaxRows..MaxRows
    BY PromptAssumption DEF NoId
  <2>. QED BY <1>7, <2>1 DEF MessageType
<1> HIDE DEF shown
<1>9. ms[1] \in MessageType /\ ms[1].role = "system"
  BY <1>1, ElementOfSeq DEF Built
<1>10. hd \in Seq(MessageType) /\ Len(hd) = 2 /\ hd[1] = ms[1] /\ hd[2] = shown
  BY <1>8, <1>9
<1> HIDE DEF hd
<1>11. Paired(hd)
  <2>1. NoTurns(hd, Len(hd))
    BY <1>8, <1>9, <1>10 DEF NoTurns
  <2>2. Len(hd) \in Nat
    BY <1>10
  <2>. QED BY <2>1, <2>2, PairedNoTurns
<1>12. q \in Seq(MessageType) /\ Len(q) = 2 + (l - k)
       /\ \A i \in 1..(2 + (l - k)) : q[i] = IF i <= 2 THEN hd[i] ELSE kept[i - 2]
  <2> DEFINE n == Len(hd)
             d == Len(kept)
  <2>1. n = 2 /\ d = l - k
    BY <1>4, <1>10
  <2>2. q \in Seq(MessageType) /\ Len(q) = n + d
        /\ \A i \in 1..(n + d) : q[i] = IF i <= n THEN hd[i] ELSE kept[i - n]
    BY <1>4, <1>10, ConcatProperties
  <2> HIDE DEF n, d, q
  <2>. QED BY <2>1, <2>2
<1>13. Paired(q)
  <2>1. 0 \in 0..Len(hd) /\ PairedFrom(hd, 0)
    BY <1>10, <1>11 DEF Paired
  <2>2. PairedFrom(hd \o kept, 0)
    BY <1>4, <1>5, <1>10, <2>1, PairedConcat
  <2>. QED BY <2>2 DEF Paired
<1> HIDE DEF q
<1>14. hasTranscript(q)
  <2> DEFINE i == 2 + ((l - Overlays) - k)
  <2>1. i \in 1..(2 + (l - k)) /\ ~(i <= 2) /\ i - 2 \in 1..(l - k) /\ k + (i - 2) = l - Overlays
    BY <1>1, <1>2
  <2> HIDE DEF i
  <2>2. q[i] = ms[l - Overlays]
    BY <1>4, <1>12, <2>1
  <2>3. i \in DOMAIN q
    BY <1>12, <2>1, LenProperties
  <2>. QED BY <2>2, <2>3 DEF hasTranscript, Built
<1>15. dropUnpairedToolResults(q) = q
  BY <1>12, <1>13, DropPaired
<1>16. Shortened(q, ms, k, saved)
  <2>1. q[1] = ms[1] /\ q[2] = shown
    BY <1>1, <1>10, <1>12
  <2>2. ASSUME NEW x \in 3..Len(q)
        PROVE  q[x] = ms[k + (x - 2)]
    <3>1. x \in 1..(2 + (l - k)) /\ ~(x <= 2) /\ x - 2 \in 1..(l - k)
      BY <1>1, <1>12
    <3>. QED BY <1>4, <1>12, <3>1
  <2>. QED BY <1>12, <2>1, <2>2 DEF Shortened, shown
<1>17. r.saved = saved /\ r.messages = q
  BY <1>15 DEF compressContext, kept, prefix, saved, shown, hd, q
<1>. QED BY <1>6, <1>12, <1>13, <1>14, <1>16, <1>17

-----------------------------------------------------------------------------
(* What is appended to a history.                                           *)

(* Message m may follow h.                                                  *)
Fits(h, m) ==
    /\ m.role # "assistant" => m.calls = 0
    /\ m.role = "system" => IsSummary(m)
    /\ m.role = "tool" =>
          /\ \E i \in 1..Len(h) : /\ h[i].role = "assistant"
                                  /\ m.call \in CallIds(h[i])
                                  /\ Aside(h, i + 1, Len(h))
          /\ \A j \in 1..Len(h) : h[j].role = "tool" => h[j].call # m.call
    /\ h = <<>> => m.role = "user"

LEMMA AppendIs ==
  ASSUME NEW S, NEW h \in Seq(S), NEW m \in S, NEW g, g = Append(h, m)
  PROVE  /\ g \in Seq(S) /\ Len(h) \in Nat /\ Len(g) = Len(h) + 1
         /\ \A i \in 1..Len(h) : g[i] = h[i]
         /\ g[Len(h) + 1] = m
         /\ g # <<>>
BY AppendProperties, LenProperties

LEMMA HistGrows ==
  ASSUME NEW h, NEW n \in Nat, Hist(h, n)
  PROVE  Hist(h, n + 1)
<1>1. \A i \in 1..Len(h) : h[i].row \in 1..(n + 1)
  <2>1. \A i \in 1..Len(h) : h[i].row \in 1..n
    BY DEF Hist
  <2>2. 1..n \subseteq 1..(n + 1)
    OBVIOUS
  <2>. QED BY <2>1, <2>2
<1>. QED BY <1>1 DEF Hist

LEMMA HistAppend ==
  ASSUME NEW h, NEW n \in Nat, Hist(h, n), NEW m \in MessageType, m.row = n + 1, Fits(h, m),
         NEW g, g = Append(h, m)
  PROVE  Hist(g, n + 1)
<1> DEFINE l == Len(h)
<1>1. /\ g \in Seq(MessageType) /\ l \in Nat /\ Len(g) = l + 1
      /\ \A i \in 1..l : g[i] = h[i]
      /\ g[l + 1] = m /\ g # <<>>
  BY AppendIs DEF Hist
<1> HIDE DEF l
<1>2. \A i \in 1..Len(g) : i \in 1..l \/ i = l + 1
  BY <1>1
<1>3. ASSUME NEW i \in 1..Len(g)
      PROVE  /\ g[i].role # "assistant" => g[i].calls = 0
             /\ g[i].role = "system" => IsSummary(g[i])
             /\ g[i].row \in 1..(n + 1)
  <2>1. CASE i \in 1..l
    <3>1. h[i].row \in 1..n
      BY <2>1 DEF Hist, l
    <3>2. h[i].row \in 1..(n + 1)
      BY <3>1
    <3>. QED BY <1>1, <2>1, <3>2 DEF Hist, l
  <2>2. CASE i = l + 1
    BY <1>1, <2>2 DEF Fits
  <2>. QED BY <1>2, <2>1, <2>2
<1>4. ASSUME NEW i \in Nat, NEW e \in 0..l, Aside(h, i + 1, e)
      PROVE  Aside(g, i + 1, e)
  <2>1. \A k \in (i + 1)..e : k \in 1..l
    BY <1>1
  <2>. QED BY <1>1, <1>4, <2>1 DEF Aside
<1>5. ASSUME NEW j \in 1..Len(g), g[j].role = "tool"
      PROVE  Called(g, j)
  <2>1. CASE j \in 1..l
    <3>1. h[j].role = "tool" /\ g[j] = h[j]
      BY <1>1, <1>5, <2>1
    <3>2. PICK i \in 1..(j - 1) : /\ h[i].role = "assistant"
                                  /\ h[j].call \in CallIds(h[i])
                                  /\ Aside(h, i + 1, j)
      BY <2>1, <3>1 DEF Hist, Called, l
    <3>3. i \in Nat /\ j \in 0..l /\ i \in 1..l
      BY <1>1, <2>1
    <3>4. Aside(g, i + 1, j)
      BY <1>4, <3>2, <3>3
    <3>5. g[i] = h[i]
      BY <1>1, <3>3
    <3>. QED BY <3>1, <3>2, <3>4, <3>5 DEF Called
  <2>2. CASE j = l + 1
    <3>1. PICK i \in 1..l : /\ h[i].role = "assistant"
                            /\ m.call \in CallIds(h[i])
                            /\ Aside(h, i + 1, l)
      BY <1>1, <1>5, <2>2 DEF Fits, l
    <3>2. i \in Nat /\ l \in 0..l /\ i \in 1..(j - 1)
      BY <1>1, <2>2
    <3>3. Aside(g, i + 1, l)
      BY <1>4, <3>1, <3>2
    <3>4. \A k \in (i + 1)..j : k \in (i + 1)..l \/ k = j
      BY <1>1, <2>2
    <3>5. Aside(g, i + 1, j)
      BY <1>5, <3>3, <3>4 DEF Aside
    <3>. QED BY <1>1, <2>2, <3>1, <3>2, <3>5 DEF Called
  <2>. QED BY <1>2, <2>1, <2>2
<1>6. ASSUME NEW j \in 1..Len(g), NEW k \in 1..Len(g),
             g[j].role = "tool", g[k].role = "tool", g[j].call = g[k].call
      PROVE  j = k
  <2>1. CASE j \in 1..l /\ k \in 1..l
    <3>1. h[j].role = "tool" /\ h[k].role = "tool" /\ h[j].call = h[k].call
      BY <1>1, <1>6, <2>1
    <3>. QED BY <2>1, <3>1 DEF Hist, CalledOnce, l
  <2>2. CASE j \in 1..l /\ k = l + 1
    BY <1>1, <1>6, <2>2 DEF Fits, l
  <2>3. CASE j = l + 1 /\ k \in 1..l
    BY <1>1, <1>6, <2>3 DEF Fits, l
  <2>. QED BY <1>2, <2>1, <2>2, <2>3
<1>7. g[1].role = "user"
  <2>1. CASE l = 0
    <3>1. h = <<>>
      BY <2>1, EmptySeq DEF Hist, l
    <3>. QED BY <1>1, <2>1, <3>1 DEF Fits
  <2>2. CASE l # 0
    <3>1. 1 \in 1..l /\ h # <<>>
      BY <1>1, <2>2, EmptySeq DEF Hist, l
    <3>. QED BY <1>1, <3>1 DEF Hist
  <2>. QED BY <2>1, <2>2
<1>8. CalledOnce(g)
  BY <1>6 DEF CalledOnce
<1>. QED BY <1>1, <1>3, <1>5, <1>7, <1>8 DEF Hist

(* The calls in P belong to the last assistant message of h, unanswered.    *)
Open(h, P) ==
    P # {} => \E i \in 1..Len(h) :
        /\ h[i].role = "assistant"
        /\ P \subseteq CallIds(h[i])
        /\ Aside(h, i + 1, Len(h))
        /\ \A j \in 1..Len(h) : h[j].role = "tool" => h[j].call \notin P

LEMMA OpenFits ==
  ASSUME NEW h, NEW P, Open(h, P), NEW m, m.role = "tool", m.call \in P, m.calls = 0
  PROVE  Fits(h, m) /\ h # <<>>
<1>1. PICK i \in 1..Len(h) :
        /\ h[i].role = "assistant"
        /\ P \subseteq CallIds(h[i])
        /\ Aside(h, i + 1, Len(h))
        /\ \A j \in 1..Len(h) : h[j].role = "tool" => h[j].call \notin P
  BY DEF Open
<1>2. h # <<>>
  BY <1>1
<1>. QED BY <1>1, <1>2 DEF Fits

LEMMA OpenAppend ==
  ASSUME NEW h \in Seq(MessageType), NEW P, Open(h, P), NEW m \in MessageType,
         m.role \in {"tool", "system"}, NEW Q, Q \subseteq P, m.role = "tool" => m.call \notin Q,
         NEW g, g = Append(h, m)
  PROVE  Open(g, Q)
<1> SUFFICES ASSUME Q # {}
             PROVE  Open(g, Q)
  BY DEF Open
<1> DEFINE l == Len(h)
<1>1. /\ g \in Seq(MessageType) /\ l \in Nat /\ Len(g) = l + 1
      /\ \A i \in 1..l : g[i] = h[i]
      /\ g[l + 1] = m
  BY AppendIs
<1>2. PICK i \in 1..l :
        /\ h[i].role = "assistant"
        /\ P \subseteq CallIds(h[i])
        /\ Aside(h, i + 1, l)
        /\ \A j \in 1..l : h[j].role = "tool" => h[j].call \notin P
  BY DEF Open
<1> HIDE DEF l
<1>3. \A k \in 1..(l + 1) : k \in 1..l \/ k = l + 1
  BY <1>1
<1>4. \A k \in (i + 1)..(l + 1) : k = l + 1 \/ (k \in (i + 1)..l /\ k \in 1..l)
  BY <1>1
<1>5. Aside(g, i + 1, l + 1)
  BY <1>1, <1>2, <1>4 DEF Aside
<1>6. \A j \in 1..(l + 1) : g[j].role = "tool" => g[j].call \notin Q
  BY <1>1, <1>2, <1>3
<1>7. i \in 1..(l + 1) /\ g[i] = h[i]
  BY <1>1
<1>. QED BY <1>1, <1>2, <1>5, <1>6, <1>7 DEF Open

LEMMA OpenAnswer ==
  ASSUME NEW h, NEW n \in Nat, Hist(h, n), NEW m \in MessageType, m.role = "assistant",
         m.row = n + 1, NEW g, g = Append(h, m)
  PROVE  Open(g, CallIds(m))
<1> DEFINE l == Len(h)
<1>1. /\ g \in Seq(MessageType) /\ l \in Nat /\ Len(g) = l + 1
      /\ \A i \in 1..l : g[i] = h[i]
      /\ g[l + 1] = m
  BY AppendIs DEF Hist
<1> HIDE DEF l
<1>2. \A k \in 1..(l + 1) : k \in 1..l \/ k = l + 1
  BY <1>1
<1>3. Aside(g, (l + 1) + 1, l + 1)
  BY <1>1 DEF Aside
<1>4. ASSUME NEW j \in 1..l, h[j].role = "tool"
      PROVE  h[j].call \notin CallIds(m)
  <2>1. PICK i \in 1..(j - 1) : h[j].call \in CallIds(h[i])
    BY <1>4 DEF Hist, Called, l
  <2>2. i \in 1..l
    BY <1>1
  <2>3. h[i].row \in 1..n
    BY <2>2 DEF Hist, l
  <2>4. h[i].row # m.row
    BY <2>3
  <2>. QED BY <2>1, <2>4 DEF CallIds
<1>5. \A j \in 1..(l + 1) : g[j].role = "tool" => g[j].call \notin CallIds(m)
  BY <1>1, <1>2, <1>4
<1>6. l + 1 \in 1..(l + 1)
  BY <1>1
<1>. QED BY <1>1, <1>3, <1>5, <1>6 DEF Open

-----------------------------------------------------------------------------
(* The inductive invariant.                                                 *)

Rows(c) == \A n \in DOMAIN c : c[n] \in MessageType /\ c[n].row = n /\ c[n].id = n

(* m as a run has it in its history: under another identifier, if any.      *)
Copy(m, x) ==
    /\ x \in MessageType
    /\ x.role = m.role /\ x.calls = m.calls /\ x.call = m.call
    /\ x.stop = m.stop /\ x.row = m.row
    /\ [x EXCEPT !.id = x.row] = m

Copied(h, c) == \A n \in DOMAIN h : [h[n] EXCEPT !.id = h[n].row] = c[h[n].row]

(* TypeOK alone is not inductive: that what is built from a history pairs   *)
(* needs every result there to be behind its call (Hist), that results stay *)
(* so needs the calls without one to be those of the last answer (Open),    *)
(* and that a prompt has something to answer needs a history that starts    *)
(* with a question.                                                         *)
PromptInv ==
    /\ TypeOK
    /\ Hist(conversation, Len(conversation)) /\ Open(conversation, pending)
    /\ Hist(history, Len(conversation)) /\ Open(history, pending)
    /\ Len(conversation) <= MaxRows
    /\ phase # "tools" => pending = {}
    /\ phase # "idle" => history # <<>>
    /\ prompt \in Seq(MessageType) /\ Paired(prompt)
    /\ phase = "sent" => hasTranscript(prompt)

LEMMA CopyIs ==
  ASSUME NEW m \in MessageType, m.id = m.row, NEW v \in -MaxRows..MaxRows
  PROVE  Copy(m, [m EXCEPT !.id = v])
<1> DEFINE x == [m EXCEPT !.id = v]
<1>1. x \in MessageType
  BY DEF MessageType
<1>2. /\ x.role = m.role /\ x.calls = m.calls /\ x.call = m.call
      /\ x.stop = m.stop /\ x.row = m.row
  BY DEF MessageType
<1>3. [x EXCEPT !.id = m.row] = m
  BY DEF MessageType
<1> HIDE DEF x
<1>4. [x EXCEPT !.id = x.row] = m
  BY <1>2, <1>3
<1>5. Copy(m, x)
  BY <1>1, <1>2, <1>4 DEF Copy
<1>. QED BY <1>5 DEF x

LEMMA CopySelf ==
  ASSUME NEW m \in MessageType, m.id = m.row
  PROVE  Copy(m, m)
<1>1. [m EXCEPT !.id = m.row] = m
  BY DEF MessageType
<1>. QED BY <1>1 DEF Copy

LEMMA FitsCopy ==
  ASSUME NEW h, NEW m, NEW x, Copy(m, x), Fits(h, m)
  PROVE  Fits(h, x)
BY DEF Copy, Fits, IsSummary

(* What saving message m does to the conversation, and to a history that    *)
(* does not get it.                                                         *)
LEMMA SaveIs ==
  ASSUME PromptInv, HasRoom, NEW m, NEW role, Row(m, role), Fits(conversation, m),
         NEW c, c = Append(conversation, m)
  PROVE  /\ Len(c) = Len(conversation) + 1 /\ Len(c) <= MaxRows
         /\ Rows(c)
         /\ Hist(c, Len(c))
         /\ Hist(history, Len(c)) /\ Copied(history, c)
<1> DEFINE n == Len(conversation)
<1>1. conversation \in Seq(MessageType) /\ m \in MessageType /\ m.row = n + 1 /\ m.id = n + 1
  BY DEF PromptInv, Hist, Row
<1>2. /\ c \in Seq(MessageType) /\ n \in Nat /\ Len(c) = n + 1
      /\ \A i \in 1..n : c[i] = conversation[i]
      /\ c[n + 1] = m
  BY <1>1, AppendIs
<1>3. DOMAIN c = 1..(n + 1) /\ DOMAIN conversation = 1..n
  BY <1>1, <1>2, LenProperties
<1> HIDE DEF n
<1>4. n < MaxRows /\ MaxRows \in Nat
  BY PromptAssumption DEF HasRoom, n
<1>5. \A i \in 1..(n + 1) : i \in 1..n \/ i = n + 1
  BY <1>2
<1>6. Rows(c)
  <2>1. \A i \in 1..n : conversation[i] \in MessageType
                        /\ conversation[i].row = i /\ conversation[i].id = i
    BY <1>3 DEF PromptInv, TypeOK
  <2>. QED BY <1>1, <1>2, <1>3, <1>5, <2>1 DEF Rows
<1>7. Hist(c, n + 1)
  BY <1>1, <1>2, HistAppend DEF PromptInv, n
<1>8. Hist(history, n + 1)
  BY <1>2, HistGrows DEF PromptInv, n
<1>9. ASSUME NEW i \in DOMAIN history
      PROVE  [history[i] EXCEPT !.id = history[i].row] = c[history[i].row]
  <2>1. i \in 1..Len(history)
    BY LenProperties DEF PromptInv, Hist
  <2>2. history[i].row \in 1..n
    BY <2>1 DEF PromptInv, Hist, n
  <2>3. [history[i] EXCEPT !.id = history[i].row] = conversation[history[i].row]
    BY DEF PromptInv, TypeOK
  <2>. QED BY <1>2, <2>2, <2>3
<1>10. Copied(history, c)
  BY <1>9 DEF Copied
<1>. QED BY <1>2, <1>4, <1>6, <1>7, <1>8, <1>10 DEF n

(* And to one that does.                                                    *)
LEMMA SaveCopyIs ==
  ASSUME PromptInv, HasRoom, NEW m, NEW role, Row(m, role), Fits(conversation, m),
         NEW c, c = Append(conversation, m),
         NEW x, Copy(m, x), Fits(history, x), NEW h, h = Append(history, x)
  PROVE  Hist(h, Len(c)) /\ Copied(h, c) /\ h # <<>>
<1> DEFINE n == Len(conversation)
           l == Len(history)
<1>1. /\ Len(c) = n + 1 /\ Hist(history, n + 1) /\ Copied(history, c)
  BY SaveIs
<1>2. x \in MessageType /\ x.row = n + 1 /\ [x EXCEPT !.id = x.row] = m
  BY DEF Copy, Row
<1>3. history \in Seq(MessageType) /\ conversation \in Seq(MessageType) /\ m \in MessageType
  BY DEF PromptInv, Hist, Row
<1>4. n \in Nat /\ c[n + 1] = m
  BY <1>3, AppendIs
<1>5. /\ h \in Seq(MessageType) /\ l \in Nat /\ Len(h) = l + 1
      /\ \A i \in 1..l : h[i] = history[i]
      /\ h[l + 1] = x /\ h # <<>>
  BY <1>2, <1>3, AppendIs
<1>6. Hist(h, n + 1)
  BY <1>2, <1>4, HistAppend DEF PromptInv
<1>7. DOMAIN h = 1..(l + 1) /\ DOMAIN history = 1..l
  BY <1>3, <1>5, LenProperties
<1> HIDE DEF n, l
<1>8. \A i \in 1..(l + 1) : i \in 1..l \/ i = l + 1
  BY <1>5
<1>9. ASSUME NEW i \in DOMAIN h
      PROVE  [h[i] EXCEPT !.id = h[i].row] = c[h[i].row]
  <2>1. CASE i \in 1..l
    BY <1>1, <1>5, <1>7, <2>1 DEF Copied
  <2>2. CASE i = l + 1
    BY <1>2, <1>4, <1>5, <2>2
  <2>. QED BY <1>7, <1>8, <2>1, <2>2
<1>10. Copied(h, c)
  BY <1>9 DEF Copied
<1>. QED BY <1>1, <1>5, <1>6, <1>10

(* The invariant after a step, from what the step makes of its parts.       *)
Recorded(c, h, P) ==
    /\ Rows(c) /\ Copied(h, c) /\ Len(c) <= MaxRows
    /\ Hist(c, Len(c)) /\ Open(c, P)
    /\ Hist(h, Len(c)) /\ Open(h, P)

Sent(p, ph) == p \in Seq(MessageType) /\ Paired(p) /\ (ph = "sent" => hasTranscript(p))

Running(ph, h, P, r) ==
    /\ ph \in {"idle", "top", "sent", "tools", "last"}
    /\ ph # "tools" => P = {}
    /\ ph # "idle" => h # <<>>
    /\ P \subseteq (1..MaxRows) \X (1..MaxCalls)
    /\ r \in 0..MaxRetries

LEMMA InvParts ==
  PromptInv <=> /\ Recorded(conversation, history, pending)
                /\ Sent(prompt, phase)
                /\ Running(phase, history, pending, retries)
<1>1. prompt \in Seq(MessageType) => \A n \in DOMAIN prompt : prompt[n] \in MessageType
  OBVIOUS
<1>. QED BY <1>1 DEF PromptInv, TypeOK, Rows, Copied, Recorded, Sent, Running

LEMMA InvFacts ==
  ASSUME PromptInv
  PROVE  /\ conversation \in Seq(MessageType) /\ history \in Seq(MessageType)
         /\ Len(conversation) \in Nat /\ Len(history) \in Nat
         /\ history # <<>> => conversation # <<>>
         /\ prompt \in Seq(MessageType)
<1>1. conversation \in Seq(MessageType) /\ history \in Seq(MessageType)
      /\ prompt \in Seq(MessageType)
  BY DEF PromptInv, Hist
<1>2. Len(conversation) \in Nat /\ Len(history) \in Nat
  BY <1>1, LenProperties
<1>3. ASSUME history # <<>>
      PROVE  conversation # <<>>
  <2>1. 1 \in 1..Len(history)
    BY <1>1, <1>2, <1>3, EmptySeq
  <2>2. history[1].row \in 1..Len(conversation)
    BY <2>1 DEF PromptInv, Hist
  <2>3. Len(conversation) # 0
    BY <1>2, <2>2
  <2>. QED BY <2>3
<1>. QED BY <1>1, <1>2, <1>3

LEMMA NothingRecorded ==
  ASSUME NEW n
  PROVE  /\ Hist(<<>>, n) /\ Open(<<>>, {}) /\ \A c : Copied(<<>>, c)
         /\ Rows(<<>>) /\ Paired(<<>>) /\ <<>> \in Seq(MessageType)
<1>1. <<>> \in Seq(MessageType) /\ Len(<<>>) = 0 /\ DOMAIN <<>> = {} /\ 1..0 = {}
  OBVIOUS
<1>2. Hist(<<>>, n)
  BY <1>1 DEF Hist, CalledOnce
<1>3. \A c : Copied(<<>>, c)
  BY <1>1 DEF Copied
<1>4. Rows(<<>>)
  BY <1>1 DEF Rows
<1>5. Open(<<>>, {})
  BY DEF Open
<1>6. Paired(<<>>)
  <2> DEFINE e == <<>>
  <2>1. Len(e) \in Nat /\ NoTurns(e, Len(e))
    BY <1>1 DEF NoTurns
  <2> HIDE DEF e
  <2>2. Paired(e)
    BY <2>1, PairedNoTurns
  <2>. QED BY <2>2 DEF e
<1>. QED BY <1>1, <1>2, <1>3, <1>4, <1>5, <1>6

LEMMA InitInv ==
  ASSUME Init
  PROVE  PromptInv
<1>1. /\ conversation = <<>> /\ history = <<>> /\ prompt = <<>>
      /\ phase = "idle" /\ pending = {} /\ retries = 0
  BY DEF Init
<1>2. Len(<<>>) = 0 /\ MaxRows \in Nat /\ MaxRetries \in Nat
  BY PromptAssumption
<1>3. Recorded(conversation, history, pending)
  BY <1>1, <1>2, NothingRecorded DEF Recorded
<1>4. Sent(prompt, phase)
  BY <1>1, NothingRecorded DEF Sent
<1>5. Running(phase, history, pending, retries)
  BY <1>1, <1>2 DEF Running
<1>. QED BY <1>3, <1>4, <1>5, InvParts

LEMMA PlainMessage ==
  ASSUME NEW role \in {"user", "assistant", "tool", "system"}
  PROVE  /\ Message(role) \in MessageType
         /\ Message(role).role = role /\ Message(role).calls = 0
<1>1. /\ MaxRows \in Nat /\ MaxCalls \in Nat
      /\ 0 \in 0..MaxRows /\ 0 \in 0..MaxCalls /\ 0 \in -MaxRows..MaxRows
  BY PromptAssumption
<1>. QED BY <1>1 DEF Message, MessageType, NoCall, NoId

(* A user message can always be saved.                                      *)
LEMMA UserIs ==
  ASSUME Len(conversation) \in Nat, HasRoom
  PROVE  LET m == Stored(Message("user"))
         IN  Row(m, "user") /\ \A h : Fits(h, m)
<1> DEFINE u == Message("user")
           m == Stored(u)
<1>1. u \in MessageType /\ u.role = "user" /\ u.calls = 0
  BY PlainMessage
<1> HIDE DEF u
<1>2. Row(m, "user") /\ m.calls = 0
  BY <1>1, StoredIs
<1>3. m.role = "user"
  BY <1>2 DEF Row
<1> HIDE DEF m
<1>4. \A h : Fits(h, m)
  BY <1>2, <1>3 DEF Fits
<1>. QED BY <1>2, <1>4 DEF m, u

(* What is saved of a compaction of ms cut at k.                            *)
LEMMA SavedIs ==
  ASSUME NEW ms \in Seq(MessageType), NEW k \in 1..Len(ms), NEW h \in Seq(MessageType),
         NEW kept, NEW degraded \in BOOLEAN, Len(conversation) \in Nat, HasRoom
  PROVE  Summary(Stored(summaryMessage(h, SubSeq(ms, 2, k), kept, degraded)))
<1> DEFINE prefix == SubSeq(ms, 2, k)
<1>1. prefix \in Seq(MessageType)
  <2>1. k \in 0..Len(ms) /\ 2 \in Nat \ {0}
    BY LenProperties
  <2>. QED BY <2>1, SubSeqType
<1> HIDE DEF prefix
<1>2. Summary(Stored(summaryMessage(h, prefix, kept, degraded)))
  BY <1>1, SummaryIs
<1>. QED BY <1>2 DEF prefix

(* Saving a summary disturbs nothing, whatever is open.                     *)
LEMMA SummarySaved ==
  ASSUME PromptInv, HasRoom, conversation # <<>>, NEW m, Summary(m),
         NEW c, c = Append(conversation, m)
  PROVE  Recorded(c, history, pending)
<1>1. Row(m, "system") /\ m \in MessageType /\ m.role = "system"
  BY DEF Summary, Row
<1>2. Fits(conversation, m)
  BY <1>1 DEF Summary, Fits
<1>3. /\ Len(c) <= MaxRows /\ Rows(c) /\ Hist(c, Len(c))
      /\ Hist(history, Len(c)) /\ Copied(history, c)
  BY <1>1, <1>2, SaveIs
<1>4. Open(conversation, pending) /\ Open(history, pending) /\ conversation \in Seq(MessageType)
  BY InvFacts DEF PromptInv
<1>5. Open(c, pending)
  BY <1>1, <1>4, OpenAppend
<1>. QED BY <1>3, <1>4, <1>5 DEF Recorded

LEMMA InvPartsNext ==
  ASSUME Recorded(conversation', history', pending'), Sent(prompt', phase'),
         Running(phase', history', pending', retries')
  PROVE  PromptInv'
<1>1. \A n \in DOMAIN prompt' : prompt'[n] \in MessageType
  BY DEF Sent
<1>. QED BY <1>1 DEF PromptInv, TypeOK, Rows, Copied, Recorded, Sent, Running

LEMMA StartRunInv ==
  ASSUME PromptInv, StartRun
  PROVE  PromptInv'
<1> DEFINE m == Stored(Message("user"))
<1>1. /\ Recorded(conversation, history, pending) /\ Sent(prompt, phase)
      /\ Running(phase, history, pending, retries)
  BY InvParts
<1>2. /\ phase = "idle" /\ HasRoom /\ conversation' = Append(conversation, m)
      /\ history' = conversation' /\ phase' = "top" /\ retries' = 0
      /\ prompt' = prompt /\ pending' = pending
  BY DEF StartRun
<1>3. Row(m, "user") /\ Fits(conversation, m)
  BY <1>2, InvFacts, UserIs
<1> HIDE DEF m
<1>4. Len(conversation') <= MaxRows /\ Rows(conversation') /\ Hist(conversation', Len(conversation'))
  BY <1>2, <1>3, SaveIs
<1>5. conversation' # <<>> /\ DOMAIN conversation' = 1..Len(conversation')
  BY <1>2, <1>3, AppendIs, InvFacts, LenProperties DEF Row
<1>6. pending' = {}
  BY <1>1, <1>2 DEF Running
<1>7. Copied(history', conversation')
  <2>1. ASSUME NEW i \in DOMAIN conversation'
        PROVE  [conversation'[i] EXCEPT !.id = conversation'[i].row]
                  = conversation'[conversation'[i].row]
    <3> DEFINE r == conversation'[i]
    <3>1. r \in MessageType /\ r.row = i /\ r.id = r.row
      BY <1>4, <2>1 DEF Rows
    <3> HIDE DEF r
    <3>2. [r EXCEPT !.id = r.row] = r
      BY <3>1, CopySelf DEF Copy
    <3>. QED BY <3>1, <3>2 DEF r
  <2>. QED BY <1>2, <2>1 DEF Copied
<1>8. Recorded(conversation', history', pending')
  BY <1>2, <1>4, <1>6, <1>7 DEF Recorded, Open
<1>9. Sent(prompt', phase')
  BY <1>1, <1>2 DEF Sent
<1>10. Running(phase', history', pending', retries')
  BY <1>1, <1>2, <1>5, <1>6, PromptAssumption DEF Running
<1>. QED BY <1>8, <1>9, <1>10, InvPartsNext

LEMMA MidRunMessageInv ==
  ASSUME PromptInv, MidRunMessage
  PROVE  PromptInv'
<1> DEFINE m == Stored(Message("user"))
           x == [m EXCEPT !.id = NoId]
<1>1. /\ Recorded(conversation, history, pending) /\ Sent(prompt, phase)
      /\ Running(phase, history, pending, retries)
  BY InvParts
<1>2. /\ phase \in {"top", "last"} /\ HasRoom /\ conversation' = Append(conversation, m)
      /\ history' = Append(history, x) /\ phase' = "top"
      /\ prompt' = prompt /\ pending' = pending /\ retries' = retries
  BY DEF MidRunMessage
<1>3. Row(m, "user") /\ Fits(conversation, m) /\ Fits(history, m)
  BY <1>2, InvFacts, UserIs
<1> HIDE DEF m
<1>4. Copy(m, x)
  <2>1. NoId \in -MaxRows..MaxRows
    BY PromptAssumption DEF NoId
  <2>2. m \in MessageType /\ m.id = m.row
    BY <1>3 DEF Row
  <2>. QED BY <2>1, <2>2, CopyIs
<1> HIDE DEF x
<1>5. Fits(history, x)
  BY <1>3, <1>4, FitsCopy
<1>6. Len(conversation') <= MaxRows /\ Rows(conversation') /\ Hist(conversation', Len(conversation'))
  BY <1>2, <1>3, SaveIs
<1>7. Hist(history', Len(conversation')) /\ Copied(history', conversation') /\ history' # <<>>
  BY <1>2, <1>3, <1>4, <1>5, SaveCopyIs
<1>8. pending' = {}
  BY <1>1, <1>2 DEF Running
<1>9. Recorded(conversation', history', pending')
  BY <1>6, <1>7, <1>8 DEF Recorded, Open
<1>10. Sent(prompt', phase')
  BY <1>1, <1>2 DEF Sent
<1>11. Running(phase', history', pending', retries')
  BY <1>1, <1>2, <1>7, <1>8 DEF Running
<1>. QED BY <1>9, <1>10, <1>11, InvPartsNext

LEMMA BuildPromptInv ==
  ASSUME PromptInv, BuildPrompt
  PROVE  PromptInv'
<1>1. /\ Recorded(conversation, history, pending)
      /\ Running(phase, history, pending, retries)
  BY InvParts
<1>2. /\ phase = "top" /\ phase' = "sent" /\ prompt' = buildMessages(history)
      /\ conversation' = conversation /\ history' = history
      /\ pending' = pending /\ retries' = retries
  BY DEF BuildPrompt
<1>3. Built(prompt')
  BY <1>1, <1>2, BuildIs DEF Recorded, Running
<1>4. Recorded(conversation', history', pending')
  BY <1>1, <1>2
<1>5. Sent(prompt', phase')
  BY <1>3, BuiltHasTranscript DEF Sent, Built
<1>6. Running(phase', history', pending', retries')
  BY <1>1, <1>2 DEF Running
<1>. QED BY <1>4, <1>5, <1>6, InvPartsNext

LEMMA BuildCompressedPromptInv ==
  ASSUME PromptInv, BuildCompressedPrompt
  PROVE  PromptInv'
<1> DEFINE ms == buildMessages(history)
<1>1. /\ Recorded(conversation, history, pending)
      /\ Running(phase, history, pending, retries)
  BY InvParts
<1>2. /\ phase = "top" /\ HasRoom /\ phase' = "sent"
      /\ history' = history /\ pending' = pending /\ retries' = retries
  BY DEF BuildCompressedPrompt
<1>3. PICK k \in computeKeepBoundary(ms, KeepRound, TRUE), degraded \in Degradations :
         /\ k > 1
         /\ conversation' = Append(conversation, compressContext(ms, k, degraded).saved)
         /\ prompt' = compressContext(ms, k, degraded).messages
  BY DEF BuildCompressedPrompt
<1>4. Built(ms) /\ history # <<>> /\ conversation # <<>>
  BY <1>1, <1>2, BuildIs, InvFacts DEF Recorded, Running
<1> HIDE DEF ms
<1>5. Cuts(ms, KeepRound, k)
  <2>1. KeepRound \in Nat \ {0}
    BY PromptAssumption
  <2>2. ms \in Seq(MessageType) /\ ms # <<>>
    BY <1>4, BuiltHasTranscript DEF Built
  <2>. QED BY <2>1, <2>2, BoundaryIs
<1>6. degraded \in BOOLEAN
  BY DEF Degradations
<1> DEFINE r == compressContext(ms, k, degraded)
<1>7. /\ Summary(r.saved) /\ r.messages \in Seq(MessageType)
      /\ Paired(r.messages) /\ hasTranscript(r.messages)
  BY <1>2, <1>3, <1>4, <1>5, <1>6, CompressIs, InvFacts
<1>8. conversation' = Append(conversation, r.saved) /\ prompt' = r.messages
  BY <1>3
<1> HIDE DEF r
<1>9. Recorded(conversation', history', pending')
  BY <1>2, <1>4, <1>7, <1>8, SummarySaved
<1>10. Sent(prompt', phase')
  BY <1>7, <1>8 DEF Sent
<1>11. Running(phase', history', pending', retries')
  BY <1>1, <1>2 DEF Running
<1>. QED BY <1>9, <1>10, <1>11, InvPartsNext

LEMMA ContextLengthErrorInv ==
  ASSUME PromptInv, ContextLengthError
  PROVE  PromptInv'
<1>1. /\ Recorded(conversation, history, pending) /\ Sent(prompt, phase)
      /\ Running(phase, history, pending, retries)
  BY InvParts
<1>2. /\ phase = "sent" /\ retries < MaxRetries /\ retries' = retries + 1
      /\ phase' = "top" /\ prompt' = <<>> /\ history' = history /\ pending' = pending
  BY DEF ContextLengthError, RetryAllowed
<1>3. Recorded(conversation', history', pending')
  <2>1. CASE conversation' = conversation
    BY <1>1, <1>2, <2>1
  <2>2. CASE HasRoom /\ \E k \in computeKeepBoundary(prompt, KeepRetry, TRUE),
                           degraded \in Degradations :
                           /\ k > 1
                           /\ conversation' = Append(conversation,
                                                     compressContext(prompt, k, degraded).saved)
    <3>1. PICK k \in computeKeepBoundary(prompt, KeepRetry, TRUE), degraded \in Degradations :
                  conversation' = Append(conversation, compressContext(prompt, k, degraded).saved)
      BY <2>2
    <3>2. prompt \in Seq(MessageType) /\ prompt # <<>>
      <4>1. prompt \in Seq(MessageType) /\ hasTranscript(prompt)
        BY <1>1, <1>2 DEF Sent
      <4>. QED BY <4>1 DEF hasTranscript
    <3>3. k \in 1..Len(prompt)
      <4>1. KeepRetry \in Nat \ {0}
        BY PromptAssumption
      <4>. QED BY <3>2, <4>1, BoundaryIs DEF Cuts
    <3>4. degraded \in BOOLEAN
      BY DEF Degradations
    <3> DEFINE kept == SubSeq(prompt, k + 1, Len(prompt))
               m == Stored(summaryMessage(history, SubSeq(prompt, 2, k), kept, degraded))
    <3>5. compressContext(prompt, k, degraded).saved = m
      BY DEF compressContext
    <3> HIDE DEF kept
    <3>6. Summary(m)
      BY <2>2, <3>2, <3>3, <3>4, SavedIs, InvFacts
    <3> HIDE DEF m
    <3>7. conversation # <<>>
      BY <1>1, <1>2, InvFacts DEF Running
    <3>. QED BY <1>2, <2>2, <3>1, <3>5, <3>6, <3>7, SummarySaved
  <2>. QED BY <2>1, <2>2 DEF ContextLengthError
<1>4. Sent(prompt', phase')
  BY <1>2, NothingRecorded DEF Sent
<1>5. Running(phase', history', pending', retries')
  BY <1>1, <1>2, PromptAssumption DEF Running
<1>. QED BY <1>3, <1>4, <1>5, InvPartsNext

LEMMA RespondInv ==
  ASSUME PromptInv, NEW calls \in 0..MaxCalls, NEW stop \in {"tool_calls", "stop"},
         Respond(calls, stop)
  PROVE  PromptInv'
<1> DEFINE answer == [Message("assistant") EXCEPT !.calls = calls, !.stop = stop]
           m == Stored(answer)
           x == IF StoreKeepsIds THEN m ELSE [m EXCEPT !.id = -m.row]
<1>1. /\ Recorded(conversation, history, pending)
      /\ Running(phase, history, pending, retries)
  BY InvParts
<1>2. /\ phase = "sent" /\ HasRoom /\ conversation' = Append(conversation, m)
      /\ history' = Append(history, x) /\ pending' = CallIds(m)
      /\ phase' = (IF calls = 0 THEN "last" ELSE "tools") /\ retries' = 0 /\ prompt' = <<>>
  BY DEF Respond
<1>3. answer \in MessageType /\ answer.role = "assistant" /\ answer.calls = calls
  <2>1. Message("assistant") \in MessageType /\ Message("assistant").role = "assistant"
    BY PlainMessage
  <2>. QED BY <2>1 DEF MessageType
<1> HIDE DEF answer
<1>4. Row(m, "assistant") /\ m.calls = calls
  BY <1>2, <1>3, StoredIs, InvFacts
<1> HIDE DEF m
<1>5. m \in MessageType /\ m.role = "assistant" /\ m.row = Len(conversation) + 1 /\ m.id = m.row
  BY <1>4 DEF Row
<1>6. Len(conversation) + 1 \in 1..MaxRows /\ Len(conversation) \in Nat /\ MaxRows \in Nat
  BY <1>2, InvFacts, PromptAssumption DEF HasRoom
<1>7. Copy(m, x)
  <2>1. CASE StoreKeepsIds
    BY <1>5, <2>1, CopySelf
  <2>2. CASE ~StoreKeepsIds
    <3> DEFINE v == -m.row
    <3>1. v \in -MaxRows..MaxRows
      BY <1>5, <1>6
    <3> HIDE DEF v
    <3>2. Copy(m, [m EXCEPT !.id = v])
      BY <1>5, <3>1, CopyIs
    <3>. QED BY <2>2, <3>2 DEF v
  <2>. QED BY <2>1, <2>2
<1> HIDE DEF x
<1>8. history # <<>> /\ conversation # <<>>
  BY <1>1, <1>2, InvFacts DEF Running
<1>9. Fits(conversation, m) /\ Fits(history, x)
  BY <1>5, <1>7, <1>8, FitsCopy DEF Fits
<1>10. /\ Len(conversation') <= MaxRows /\ Rows(conversation')
       /\ Hist(conversation', Len(conversation'))
  BY <1>2, <1>4, <1>9, SaveIs
<1>11. Hist(history', Len(conversation')) /\ Copied(history', conversation') /\ history' # <<>>
  BY <1>2, <1>4, <1>7, <1>9, SaveCopyIs
<1>12. Open(conversation', pending')
  <2>1. Hist(conversation, Len(conversation))
    BY <1>1 DEF Recorded
  <2>. QED BY <1>2, <1>5, <1>6, <2>1, OpenAnswer
<1>13. Open(history', pending')
  <2>1. x \in MessageType /\ x.role = "assistant" /\ x.row = Len(conversation) + 1
        /\ CallIds(x) = CallIds(m)
    BY <1>5, <1>7 DEF Copy, CallIds
  <2>2. Hist(history, Len(conversation))
    BY <1>1 DEF Recorded
  <2>3. Open(history', CallIds(x))
    BY <1>2, <1>6, <2>1, <2>2, OpenAnswer
  <2>. QED BY <1>2, <2>1, <2>3
<1>14. Recorded(conversation', history', pending')
  BY <1>10, <1>11, <1>12, <1>13 DEF Recorded
<1>15. Sent(prompt', phase')
  BY <1>2, NothingRecorded DEF Sent
<1>16. pending' \subseteq (1..MaxRows) \X (1..MaxCalls) /\ (calls = 0 => pending' = {})
  <2>1. pending' = {<<m.row, k>> : k \in 1..calls}
    BY <1>2, <1>4 DEF CallIds
  <2>2. m.row \in 1..MaxRows /\ 1..calls \subseteq 1..MaxCalls
    BY <1>5, <1>6, PromptAssumption
  <2>. QED BY <2>1, <2>2
<1>17. Running(phase', history', pending', retries')
  BY <1>2, <1>11, <1>16, PromptAssumption DEF Running
<1>. QED BY <1>14, <1>15, <1>17, InvPartsNext

LEMMA ToolResultInv ==
  ASSUME PromptInv, NEW c \in pending, ToolResult(c)
  PROVE  PromptInv'
<1> DEFINE result == [Message("tool") EXCEPT !.call = c]
           m == Stored(result)
           x == [m EXCEPT !.id = NoId]
<1>1. /\ Recorded(conversation, history, pending) /\ Sent(prompt, phase)
      /\ Running(phase, history, pending, retries)
  BY InvParts
<1>2. /\ phase = "tools" /\ HasRoom /\ conversation' = Append(conversation, m)
      /\ history' = Append(history, x) /\ pending' = pending \ {c}
      /\ prompt' = prompt /\ phase' = phase /\ retries' = retries
  BY DEF ToolResult
<1>3. result \in MessageType /\ result.role = "tool" /\ result.call = c /\ result.calls = 0
  <2>1. MaxRows \in Nat /\ MaxCalls \in Nat
    BY PromptAssumption
  <2>2. c \in CallPairs
    BY <1>1, <2>1 DEF Running, CallPairs
  <2>3. result.calls = Message("tool").calls
    BY PlainMessage DEF MessageType
  <2>. QED BY <2>2, <2>3, SyntheticMessage, PlainMessage
<1> HIDE DEF result
<1>4. Row(m, "tool") /\ m.calls = 0 /\ m.call = c
  BY <1>2, <1>3, StoredIs, InvFacts
<1> HIDE DEF m
<1>5. m \in MessageType /\ m.role = "tool" /\ m.id = m.row
  BY <1>4 DEF Row
<1>6. Copy(m, x)
  <2>1. NoId \in -MaxRows..MaxRows
    BY PromptAssumption DEF NoId
  <2>. QED BY <1>5, <2>1, CopyIs
<1> HIDE DEF x
<1>7. x \in MessageType /\ x.role = "tool" /\ x.calls = 0 /\ x.call = c
  BY <1>4, <1>5, <1>6 DEF Copy
<1>8. Open(conversation, pending) /\ Open(history, pending)
  BY <1>1 DEF Recorded
<1>9. Fits(conversation, m) /\ Fits(history, x)
  BY <1>4, <1>5, <1>7, <1>8, OpenFits
<1>10. /\ Len(conversation') <= MaxRows /\ Rows(conversation')
       /\ Hist(conversation', Len(conversation'))
  BY <1>2, <1>4, <1>9, SaveIs
<1>11. Hist(history', Len(conversation')) /\ Copied(history', conversation') /\ history' # <<>>
  BY <1>2, <1>4, <1>6, <1>9, SaveCopyIs
<1>12. pending' \subseteq pending /\ c \notin pending'
  BY <1>2
<1>13. conversation \in Seq(MessageType) /\ history \in Seq(MessageType)
  BY InvFacts
<1>14. Open(conversation', pending')
  BY <1>2, <1>4, <1>5, <1>8, <1>12, <1>13, OpenAppend
<1>15. Open(history', pending')
  BY <1>2, <1>7, <1>8, <1>12, <1>13, OpenAppend
<1>16. Recorded(conversation', history', pending')
  BY <1>10, <1>11, <1>14, <1>15 DEF Recorded
<1>17. Sent(prompt', phase')
  BY <1>1, <1>2 DEF Sent
<1>18. Running(phase', history', pending', retries')
  BY <1>1, <1>2, <1>11, <1>12 DEF Running
<1>. QED BY <1>16, <1>17, <1>18, InvPartsNext

LEMMA EndRoundInv ==
  ASSUME PromptInv, EndRound
  PROVE  PromptInv'
<1>1. /\ Recorded(conversation, history, pending) /\ Sent(prompt, phase)
      /\ Running(phase, history, pending, retries)
  BY InvParts
<1>2. /\ phase = "tools" /\ phase' = "top" /\ pending' = {}
      /\ conversation' = conversation /\ history' = history
      /\ prompt' = prompt /\ retries' = retries
  BY DEF EndRound
<1>3. Recorded(conversation', history', pending')
  BY <1>1, <1>2 DEF Recorded, Open
<1>4. Sent(prompt', phase')
  BY <1>1, <1>2 DEF Sent
<1>5. Running(phase', history', pending', retries')
  BY <1>1, <1>2 DEF Running
<1>. QED BY <1>3, <1>4, <1>5, InvPartsNext

LEMMA EndRunInv ==
  ASSUME PromptInv, EndRun
  PROVE  PromptInv'
<1>1. /\ Recorded(conversation, history, pending)
      /\ Running(phase, history, pending, retries)
  BY InvParts
<1>2. /\ phase' = "idle" /\ history' = <<>> /\ prompt' = <<>> /\ pending' = {}
      /\ conversation' = conversation /\ retries' = retries
  BY DEF EndRun
<1>3. Open(conversation', pending')
  BY <1>2 DEF Open
<1>4. Recorded(conversation', history', pending')
  BY <1>1, <1>2, <1>3, NothingRecorded DEF Recorded
<1>5. Sent(prompt', phase')
  BY <1>2, NothingRecorded DEF Sent
<1>6. Running(phase', history', pending', retries')
  BY <1>1, <1>2 DEF Running
<1>. QED BY <1>4, <1>5, <1>6, InvPartsNext

LEMMA CompactConversationInv ==
  ASSUME PromptInv, CompactConversation
  PROVE  PromptInv'
<1> DEFINE ms == buildMessages(conversation)
<1>1. /\ Recorded(conversation, history, pending) /\ Sent(prompt, phase)
      /\ Running(phase, history, pending, retries)
  BY InvParts
<1>2. /\ conversation # <<>> /\ HasRoom
      /\ history' = history /\ prompt' = prompt /\ phase' = phase
      /\ pending' = pending /\ retries' = retries
  BY DEF CompactConversation
<1>3. PICK k \in computeKeepBoundary(ms, KeepTool, FALSE), degraded \in Degradations :
         conversation' = Append(conversation,
            Stored(summaryMessage(conversation, SubSeq(ms, 2, k),
                                  SubSeq(ms, k + 1, Len(ms)), degraded)))
  BY DEF CompactConversation
<1>4. Built(ms)
  BY <1>1, <1>2, BuildIs DEF Recorded
<1> HIDE DEF ms
<1>5. ms \in Seq(MessageType) /\ k \in 1..Len(ms)
  <2>1. KeepTool \in Nat \ {0}
    BY PromptAssumption
  <2>2. ms \in Seq(MessageType) /\ ms # <<>>
    BY <1>4, BuiltHasTranscript DEF Built
  <2>. QED BY <2>1, <2>2, BoundaryIs DEF Cuts
<1>6. degraded \in BOOLEAN
  BY DEF Degradations
<1> DEFINE kept == SubSeq(ms, k + 1, Len(ms))
           m == Stored(summaryMessage(conversation, SubSeq(ms, 2, k), kept, degraded))
<1>7. conversation' = Append(conversation, m)
  BY <1>3
<1> HIDE DEF kept
<1>8. Summary(m)
  BY <1>2, <1>5, <1>6, SavedIs, InvFacts
<1> HIDE DEF m
<1>9. Recorded(conversation', history', pending')
  BY <1>2, <1>7, <1>8, SummarySaved
<1>10. Sent(prompt', phase')
  BY <1>1, <1>2 DEF Sent
<1>11. Running(phase', history', pending', retries')
  BY <1>1, <1>2 DEF Running
<1>. QED BY <1>9, <1>10, <1>11, InvPartsNext

LEMMA StutterInv ==
  ASSUME PromptInv, UNCHANGED vars
  PROVE  PromptInv'
<1>1. /\ conversation' = conversation /\ history' = history /\ prompt' = prompt
      /\ phase' = phase /\ pending' = pending /\ retries' = retries
  BY DEF vars
<1>2. /\ Recorded(conversation, history, pending) /\ Sent(prompt, phase)
      /\ Running(phase, history, pending, retries)
  BY InvParts
<1>3. /\ Recorded(conversation', history', pending') /\ Sent(prompt', phase')
      /\ Running(phase', history', pending', retries')
  BY <1>1, <1>2
<1>. QED BY <1>3, InvPartsNext

LEMMA NextInv ==
  ASSUME PromptInv, [Next]_vars
  PROVE  PromptInv'
<1>1. CASE StartRun
  BY <1>1, StartRunInv
<1>2. CASE MidRunMessage
  BY <1>2, MidRunMessageInv
<1>3. CASE BuildPrompt
  BY <1>3, BuildPromptInv
<1>4. CASE BuildCompressedPrompt
  BY <1>4, BuildCompressedPromptInv
<1>5. CASE ContextLengthError
  BY <1>5, ContextLengthErrorInv
<1>6. ASSUME NEW calls \in 0..MaxCalls, NEW stop \in {"tool_calls", "stop"}, Respond(calls, stop)
      PROVE  PromptInv'
  BY <1>6, RespondInv
<1>7. ASSUME NEW c \in pending, ToolResult(c)
      PROVE  PromptInv'
  BY <1>7, ToolResultInv
<1>8. CASE EndRound
  BY <1>8, EndRoundInv
<1>9. CASE EndRun
  BY <1>9, EndRunInv
<1>10. CASE CompactConversation
  BY <1>10, CompactConversationInv
<1>11. CASE AtBound
  BY <1>11, StutterInv DEF AtBound
<1>12. CASE UNCHANGED vars
  BY <1>12, StutterInv
<1>. QED
  BY <1>1, <1>2, <1>3, <1>4, <1>5, <1>6, <1>7, <1>8, <1>9, <1>10, <1>11, <1>12 DEF Next

THEOREM PromptInvariant == Spec => []PromptInv
<1>1. Init => PromptInv
  BY InitInv
<1>2. PromptInv /\ [Next]_vars => PromptInv'
  BY NextInv
<1>. QED BY <1>1, <1>2, PTL DEF Spec

-----------------------------------------------------------------------------
(* What a summary stands for.                                               *)

(* Summary m has read what is in front of the row it resumes at, and        *)
(* nothing of what is behind it.                                            *)
Told(c, m) ==
    /\ m.recorded
    /\ m.resume \in 1..Len(c)
    /\ c[m.resume].role \in {"user", "assistant"}
    /\ m.covers \subseteq 1..Len(c)
    /\ \A n \in 1..Len(c) : c[n].role # "system" => (n \in m.covers <=> n < m.resume)

Noted(c) ==
    \A n \in 1..Len(c) : IF c[n].role = "system" THEN Told(c, c[n]) /\ n \notin c[n].covers
                                                 ELSE c[n].covers = {}

(* x is a copy of the stored message m, whose identifier only a tool result *)
(* may have lost.                                                           *)
CopyOf(x, m) ==
    /\ x.role = m.role /\ x.stop = m.stop /\ x.resume = m.resume
    /\ x.recorded = m.recorded /\ x.covers = m.covers
    /\ x.id \in {NoId, x.row}
    /\ x.role \in {"user", "assistant"} => x.id = x.row

(* h is conversation c, less some of its summaries.                         *)
Follows(h, c) ==
    /\ \A i \in 1..Len(h) : h[i].row \in 1..Len(c) /\ CopyOf(h[i], c[h[i].row])
    /\ \A i, j \in 1..Len(h) : i < j => h[i].row < h[j].row
    /\ \A n \in 1..Len(c) : c[n].role # "system" => \E i \in 1..Len(h) : h[i].row = n

(* The prompt ms opens with what stands for everything before row r of c.   *)
Opens(ms, c, hd, r) ==
    /\ hd \in 1..Len(ms)
    /\ ms[1].row = 0 /\ ms[1].covers = {} /\ ~IsSummary(ms[1])
    /\ \/ hd = 1 /\ r = 1
       \/ /\ hd = 2 /\ IsSummary(ms[2]) /\ Told(c, ms[2]) /\ r = ms[2].resume
          /\ ms[2].row \in (1..Len(c)) \ ms[2].covers
          /\ c[ms[2].row].role = "system"

(* A message of the transcript from row r of c, or one made for the prompt. *)
Made(m) == m.row = 0 /\ m.id = NoId /\ m.role \in {"tool", "system"}
Replayed(m, c, r) ==
    /\ m.row \in r..Len(c)
    /\ c[m.row].role # "system" /\ CopyOf(m, c[m.row])
Piece(m, c, r) == ~IsSummary(m) /\ m.covers = {} /\ (Made(m) \/ Replayed(m, c, r))

(* Behind hd messages ms has what row r of c and the rows behind it say.    *)
Replays(ms, c, hd, r) ==
    /\ \A x \in (hd + 1)..Len(ms) : Piece(ms[x], c, r)
    /\ \A x \in (hd + 1)..(Len(ms) - Overlays) : ms[x].role # "system"
    /\ \A x, y \in (hd + 1)..Len(ms) : x < y /\ ms[x].row # 0 /\ ms[y].row # 0 => ms[x].row < ms[y].row
    /\ \A n \in r..Len(c) : c[n].role # "system" => \E x \in (hd + 1)..Len(ms) : ms[x].row = n

Whole(ms, c) == \E hd \in 1..2, r \in 1..(Len(c) + 1) : Opens(ms, c, hd, r) /\ Replays(ms, c, hd, r)

KeepInv ==
    /\ Noted(conversation)
    /\ phase # "idle" => Follows(history, conversation)
    /\ phase = "sent" => Whole(prompt, conversation)

(* A summary in such a prompt is the one behind the system prompt.          *)
LEMMA OneSummary ==
  ASSUME NEW ms \in Seq(MessageType), NEW c, NEW hd \in 1..2, NEW r,
         Opens(ms, c, hd, r), Replays(ms, c, hd, r),
         NEW x \in 1..Len(ms), IsSummary(ms[x])
  PROVE  x = 2 /\ hd = 2
<1>1. Len(ms) \in Nat
  BY LenProperties
<1>2. x # 1
  BY DEF Opens
<1>3. ~(x \in (hd + 1)..Len(ms))
  BY DEF Replays, Piece
<1>. QED BY <1>1, <1>2, <1>3

(* What the prompt owes the conversation.                                   *)
LEMMA WholeKeeps ==
  ASSUME NEW ms \in Seq(MessageType), NEW c, Len(c) \in Nat, NEW h, Len(h) \in Nat,
         Whole(ms, c), Follows(h, c)
  PROVE  /\ \A i \in 1..Len(h) : h[i].role # "system" =>
              \/ \E x \in 1..Len(ms) : ms[x].row = h[i].row
              \/ \E x \in 1..Len(ms) : IsSummary(ms[x]) /\ h[i].row \in ms[x].covers
         /\ \A x, y \in 1..Len(ms) : IsSummary(ms[y]) /\ ms[x].row \in ms[y].covers => ms[x].row = 0
<1>1. PICK hd \in 1..2, r \in 1..(Len(c) + 1) : Opens(ms, c, hd, r) /\ Replays(ms, c, hd, r)
  BY DEF Whole
<1>2. Len(ms) \in Nat
  BY LenProperties
<1>3. ASSUME NEW i \in 1..Len(h), h[i].role # "system"
      PROVE  \/ \E x \in 1..Len(ms) : ms[x].row = h[i].row
             \/ \E x \in 1..Len(ms) : IsSummary(ms[x]) /\ h[i].row \in ms[x].covers
  <2> DEFINE n == h[i].row
  <2>1. n \in 1..Len(c) /\ c[n].role # "system"
    BY <1>3 DEF Follows, CopyOf
  <2> HIDE DEF n
  <2>2. CASE n < r
    <3>1. hd = 2 /\ hd \in 1..Len(ms) /\ IsSummary(ms[2]) /\ Told(c, ms[2]) /\ r = ms[2].resume
      BY <1>1, <2>1, <2>2 DEF Opens
    <3>2. n \in ms[2].covers
      BY <2>1, <2>2, <3>1 DEF Told
    <3>. QED BY <3>1, <3>2 DEF n
  <2>3. CASE ~(n < r)
    <3>1. n \in r..Len(c)
      BY <2>1, <2>3
    <3>2. PICK x \in (hd + 1)..Len(ms) : ms[x].row = n
      BY <1>1, <2>1, <3>1 DEF Replays
    <3>3. x \in 1..Len(ms)
      BY <1>2
    <3>. QED BY <3>2, <3>3 DEF n
  <2>. QED BY <2>2, <2>3
<1>4. ASSUME NEW x \in 1..Len(ms), NEW y \in 1..Len(ms), IsSummary(ms[y]), ms[x].row \in ms[y].covers
      PROVE  ms[x].row = 0
  <2>1. y = 2 /\ hd = 2
    BY <1>1, <1>4, OneSummary
  <2>2. Told(c, ms[2]) /\ r = ms[2].resume /\ ms[2].row \notin ms[2].covers /\ ms[1].row = 0
    BY <1>1, <2>1 DEF Opens
  <2>3. x # 2
    BY <1>4, <2>1, <2>2
  <2>4. CASE x \in (hd + 1)..Len(ms)
    <3>1. Made(ms[x]) \/ Replayed(ms[x], c, r)
      BY <1>1, <2>4 DEF Replays, Piece
    <3>2. CASE Replayed(ms[x], c, r)
      <4>1. ms[x].row \in r..Len(c) /\ c[ms[x].row].role # "system"
        BY <3>2 DEF Replayed
      <4>2. ms[x].row \in 1..Len(c) /\ ~(ms[x].row < r)
        BY <4>1
      <4>. QED BY <1>4, <2>1, <2>2, <4>1, <4>2 DEF Told
    <3>. QED BY <3>1, <3>2 DEF Made
  <2>. QED BY <1>2, <2>1, <2>2, <2>3, <2>4
<1>. QED BY <1>3, <1>4

LEMMA KeepsCompaction ==
  ASSUME PromptInv, KeepInv
  PROVE  NothingLost /\ NoReplay
<1> SUFFICES ASSUME phase = "sent"
             PROVE  /\ \A role \in {"user", "assistant", "tool"} : Lost(role) = {}
                    /\ InPrompt \cap Summarized \subseteq {0}
  BY DEF NothingLost, NoReplay
<1>1. /\ prompt \in Seq(MessageType) /\ history \in Seq(MessageType)
      /\ Len(conversation) \in Nat /\ Len(history) \in Nat /\ Len(prompt) \in Nat
      /\ DOMAIN prompt = 1..Len(prompt) /\ DOMAIN history = 1..Len(history)
  BY InvFacts, LenProperties
<1>2. Whole(prompt, conversation) /\ Follows(history, conversation)
  BY DEF KeepInv
<1>3. /\ ToSet(prompt) = {prompt[x] : x \in 1..Len(prompt)}
      /\ ToSet(history) = {history[i] : i \in 1..Len(history)}
  BY <1>1 DEF ToSet
<1>4. \A x \in 1..Len(prompt) : /\ prompt[x].row \in InPrompt
                                /\ IsSummary(prompt[x]) => prompt[x].covers \subseteq Summarized
  BY <1>3 DEF InPrompt, Summarized, Header
<1>5. ASSUME NEW role \in {"user", "assistant", "tool"}
      PROVE  Lost(role) = {}
  <2> SUFFICES ASSUME NEW n \in Lost(role)
               PROVE  FALSE
    OBVIOUS
  <2>1. PICK i \in 1..Len(history) : history[i].role = role /\ history[i].row = n
    BY <1>3 DEF Lost
  <2>2. n \notin InPrompt /\ n \notin Summarized
    BY DEF Lost
  <2>3. history[i].role # "system"
    BY <2>1
  <2>4. \/ \E x \in 1..Len(prompt) : prompt[x].row = n
        \/ \E x \in 1..Len(prompt) : IsSummary(prompt[x]) /\ n \in prompt[x].covers
    BY <1>1, <1>2, <2>1, <2>3, WholeKeeps
  <2>. QED BY <1>4, <2>2, <2>4
<1>6. ASSUME NEW n \in InPrompt, n \in Summarized
      PROVE  n = 0
  <2>1. PICK x \in 1..Len(prompt) : prompt[x].row = n
    BY <1>3 DEF InPrompt
  <2>2. PICK y \in 1..Len(prompt) : IsSummary(prompt[y]) /\ n \in prompt[y].covers
    BY <1>3, <1>6 DEF Summarized, Header
  <2>. QED BY <1>1, <1>2, <2>1, <2>2, WholeKeeps
<1>. QED BY <1>5, <1>6

-----------------------------------------------------------------------------
(* Compaction of such a prompt.                                             *)

(* The transcript resumes at the first message that is kept.                *)
LEMMA ResumeIs ==
  ASSUME NEW h, Len(h) \in Nat, DOMAIN h = 1..Len(h), NEW c, Len(c) \in Nat, Follows(h, c),
         NEW q \in 1..Len(c), c[q].role \in {"user", "assistant"},
         NEW kept, \E m \in ToSet(kept) : m.id = q,
         \A m \in ToSet(kept) : m.id = NoId \/ (m.id \in Nat /\ q <= m.id)
  PROVE  findResumeFromMessageId(h, kept) = q
<1> DEFINE hits == {i \in DOMAIN h : h[i].id # NoId /\ \E m \in ToSet(kept) : m.id = h[i].id}
<1>1. PICK p \in 1..Len(h) : h[p].row = q
  BY DEF Follows
<1>2. h[p].id = q
  BY <1>1 DEF Follows, CopyOf
<1>3. p \in hits
  BY <1>1, <1>2 DEF NoId
<1>4. hits \subseteq Nat /\ hits # {}
  BY <1>3
<1>5. ASSUME NEW i \in hits
      PROVE  p <= i
  <2>1. i \in 1..Len(h) /\ h[i].id # NoId
    OBVIOUS
  <2>2. h[i].id = h[i].row /\ h[i].row \in 1..Len(c)
    BY <2>1 DEF Follows, CopyOf
  <2>3. q <= h[i].row
    BY <2>1, <2>2
  <2>4. ~(i < p)
    BY <1>1, <2>1, <2>2, <2>3 DEF Follows
  <2>. QED BY <2>1, <2>4
<1>6. Min(hits) \in hits /\ \A i \in hits : Min(hits) <= i
  BY <1>4, MinIs
<1>7. findResumeFromMessageId(h, kept) = h[Min(hits)].id
  BY <1>4 DEF findResumeFromMessageId
<1> HIDE DEF hits
<1>8. Min(hits) = p
  <2> DEFINE l == Min(hits)
  <2>1. l \in Nat /\ p \in Nat /\ l <= p /\ p <= l
    BY <1>3, <1>4, <1>5, <1>6
  <2> HIDE DEF l
  <2>2. l = p
    BY <2>1
  <2>. QED BY <2>2 DEF l
<1>. QED BY <1>2, <1>7, <1>8

(* What is in a cut of a sequence.                                          *)
LEMMA CutElements ==
  ASSUME NEW S, NEW s \in Seq(S), NEW i \in 1..(Len(s) + 1), NEW j \in (i - 1)..Len(s)
  PROVE  ToSet(SubSeq(s, i, j)) = {s[x] : x \in i..j}
<1> DEFINE t == SubSeq(s, i, j)
           n == (j - i) + 1
<1>1. Len(s) \in Nat
  BY LenProperties
<1>2. n \in Nat /\ i - 1 \in Nat
  BY <1>1
<1>3. Len(t) = n /\ DOMAIN t = 1..n
  BY <1>1
<1>4. \A x \in 1..n : t[x] = s[(i - 1) + x]
  BY <1>1
<1>5. ToSet(t) = {t[x] : x \in 1..n}
  BY <1>3 DEF ToSet
<1> HIDE DEF t
<1>6. \A x \in 1..n : (i - 1) + x \in i..j
  BY <1>1
<1>7. ASSUME NEW x \in i..j
      PROVE  \E y \in 1..n : t[y] = s[x]
  <2> DEFINE y == x - (i - 1)
  <2>1. y \in 1..n /\ (i - 1) + y = x
    BY <1>1
  <2> HIDE DEF n, y
  <2>. QED BY <1>4, <2>1
<1> HIDE DEF n
<1>8. ToSet(t) \subseteq {s[x] : x \in i..j}
  BY <1>4, <1>5, <1>6
<1>9. {s[x] : x \in i..j} \subseteq ToSet(t)
  BY <1>5, <1>7
<1>10. ToSet(t) = {s[x] : x \in i..j}
  BY <1>8, <1>9
<1>. QED BY <1>10 DEF t

(* Where a prompt may be cut: in its transcript, not in front of a result.  *)
CutsBody(ms, k) ==
    /\ k \in 2..Len(ms)
    /\ k < Len(ms) - Overlays
    /\ ms[k + 1].role # "tool"

LEMMA CutAt ==
  ASSUME NEW ms \in Seq(MessageType), NEW c, Len(c) \in Nat, NEW hd \in 1..2,
         NEW r \in 1..(Len(c) + 1), Opens(ms, c, hd, r), Replays(ms, c, hd, r),
         NEW k, CutsBody(ms, k)
  PROVE  LET q == ms[k + 1].row
         IN  /\ q \in r..Len(c) /\ q \in 1..Len(c)
             /\ c[q].role \in {"user", "assistant"} /\ ms[k + 1].id = q
             /\ \A x \in (k + 1)..Len(ms) : ms[x].row = 0 \/ q <= ms[x].row
             /\ \A x \in (hd + 1)..k : ms[x].row = 0 \/ ms[x].row < q
<1> DEFINE q == ms[k + 1].row
<1>1. Len(ms) \in Nat /\ Overlays \in Nat
  BY LenProperties, PromptAssumption
<1>2. k + 1 \in (hd + 1)..Len(ms) /\ k + 1 \in (hd + 1)..(Len(ms) - Overlays) /\ k + 1 \in 1..Len(ms)
  BY <1>1 DEF CutsBody
<1>3. ms[k + 1] \in MessageType
  BY <1>2, ElementOfSeq
<1>4. ms[k + 1].role \in {"user", "assistant"}
  <2>1. ms[k + 1].role # "system" /\ ms[k + 1].role # "tool"
    BY <1>2 DEF Replays, CutsBody
  <2>. QED BY <1>3, <2>1, MessageFields
<1>5. Replayed(ms[k + 1], c, r)
  BY <1>2, <1>4 DEF Replays, Piece, Made
<1>6. q \in r..Len(c) /\ c[q].role = ms[k + 1].role /\ ms[k + 1].id = q
  BY <1>4, <1>5 DEF Replayed, CopyOf
<1>7. q \in 1..Len(c) /\ q # 0
  BY <1>6
<1>8. ASSUME NEW x \in (k + 1)..Len(ms)
      PROVE  ms[x].row = 0 \/ q <= ms[x].row
  <2>1. CASE x = k + 1
    BY <1>6, <2>1
  <2>2. CASE x # k + 1 /\ ms[x].row # 0
    <3>1. x \in (hd + 1)..Len(ms) /\ k + 1 < x
      BY <1>2, <2>2
    <3>2. q < ms[x].row
      BY <1>2, <1>7, <2>2, <3>1 DEF Replays
    <3>3. ms[x].row \in Nat
      <4>1. x \in 1..Len(ms)
        BY <1>2
      <4>2. ms[x] \in MessageType
        BY <4>1, ElementOfSeq
      <4>. QED BY <4>2, MessageFields
    <3>. QED BY <1>7, <3>2, <3>3
  <2>. QED BY <2>1, <2>2
<1>9. ASSUME NEW x \in (hd + 1)..k, ms[x].row # 0
      PROVE  ms[x].row < q
  <2>1. x \in (hd + 1)..Len(ms) /\ x < k + 1
    BY <1>1 DEF CutsBody
  <2>. QED BY <1>2, <1>7, <1>9, <2>1 DEF Replays
<1>. QED BY <1>4, <1>6, <1>7, <1>8, <1>9

(* The summary of what is cut off has read all that is in front of there.   *)
LEMMA CutRead ==
  ASSUME NEW ms \in Seq(MessageType), NEW c, Len(c) \in Nat, NEW hd \in 1..2,
         NEW r \in 1..(Len(c) + 1), Opens(ms, c, hd, r), Replays(ms, c, hd, r),
         NEW k, CutsBody(ms, k)
  PROVE  LET read == Read(SubSeq(ms, 2, k), FALSE)
         IN  /\ read \subseteq 1..Len(c)
             /\ \A n \in 1..Len(c) : c[n].role # "system" => (n \in read <=> n < ms[k + 1].row)
<1> DEFINE read == Read(SubSeq(ms, 2, k), FALSE)
           q == ms[k + 1].row
<1>1. Len(ms) \in Nat /\ k \in 2..Len(ms)
  BY LenProperties DEF CutsBody
<1>2. /\ q \in r..Len(c) /\ q \in 1..Len(c)
      /\ \A x \in (k + 1)..Len(ms) : ms[x].row = 0 \/ q <= ms[x].row
      /\ \A x \in (hd + 1)..k : ms[x].row = 0 \/ ms[x].row < q
  BY CutAt
<1>3. ToSet(SubSeq(ms, 2, k)) = {ms[x] : x \in 2..k}
  <2>1. 2 \in 1..(Len(ms) + 1) /\ k \in (2 - 1)..Len(ms)
    BY <1>1
  <2>. QED BY <2>1, CutElements
<1>4. \A n : n \in read <=> n # 0 /\ \E x \in 2..k : n = ms[x].row \/ n \in ms[x].covers
  BY <1>3 DEF Read
<1> HIDE DEF read, q
<1>5. \A x \in (hd + 1)..k : Piece(ms[x], c, r)
  BY <1>1 DEF Replays
<1>6. ASSUME NEW x \in 2..k
      PROVE  \/ /\ x = 2 /\ hd = 2 /\ Told(c, ms[2]) /\ r = ms[2].resume
                /\ ms[2].row \in 1..Len(c) /\ c[ms[2].row].role = "system"
             \/ x \in (hd + 1)..k
  <2>1. x = hd \/ x \in (hd + 1)..k
    BY <1>1
  <2>2. x = hd => x = 2 /\ hd = 2
    OBVIOUS
  <2>. QED BY <2>1, <2>2 DEF Opens
<1>7. ASSUME NEW x \in (hd + 1)..k
      PROVE  /\ ms[x].covers = {}
             /\ ms[x].row = 0 \/ (ms[x].row \in 1..Len(c) /\ ms[x].row < q)
  <2>1. ms[x].covers = {} /\ (ms[x].row = 0 \/ ms[x].row \in r..Len(c))
    BY <1>5 DEF Piece, Made, Replayed
  <2>. QED BY <1>2, <2>1 DEF q
<1>8. ASSUME NEW n \in read
      PROVE  n \in 1..Len(c)
  <2>1. PICK x \in 2..k : n = ms[x].row \/ n \in ms[x].covers
    BY <1>4
  <2>2. n # 0
    BY <1>4
  <2>. QED BY <1>6, <1>7, <2>1, <2>2 DEF Told
<1>9. ASSUME NEW n \in 1..Len(c), c[n].role # "system", n \in read
      PROVE  n < q
  <2>1. PICK x \in 2..k : n = ms[x].row \/ n \in ms[x].covers
    BY <1>4, <1>9
  <2>2. CASE x \in (hd + 1)..k
    BY <1>7, <2>1, <2>2
  <2>3. CASE x = 2 /\ hd = 2 /\ Told(c, ms[2]) /\ r = ms[2].resume /\ c[ms[2].row].role = "system"
    <3>1. n \in ms[2].covers
      BY <1>9, <2>1, <2>3
    <3>2. n < r
      BY <1>9, <2>3, <3>1 DEF Told
    <3>. QED BY <1>2, <3>2
  <2>. QED BY <1>6, <2>2, <2>3
<1>10. ASSUME NEW n \in 1..Len(c), c[n].role # "system", n < q
       PROVE  n \in read
  <2>1. CASE n < r
    <3>1. hd = 2 /\ Told(c, ms[2]) /\ r = ms[2].resume
      BY <2>1 DEF Opens
    <3>2. n \in ms[2].covers
      BY <1>10, <2>1, <3>1 DEF Told
    <3>3. 2 \in 2..k /\ n # 0
      BY <1>1
    <3>. QED BY <1>4, <3>2, <3>3
  <2>2. CASE ~(n < r)
    <3>1. n \in r..Len(c)
      BY <2>2
    <3>2. PICK x \in (hd + 1)..Len(ms) : ms[x].row = n
      BY <1>10, <3>1 DEF Replays
    <3>3. n # 0 /\ ~(q <= n)
      BY <1>2, <1>10
    <3>4. ~(x \in (k + 1)..Len(ms))
      BY <1>2, <3>2, <3>3 DEF q
    <3>5. x \in 2..k
      BY <1>1, <3>4
    <3>. QED BY <1>4, <3>2, <3>3, <3>5
  <2>. QED BY <2>1, <2>2
<1>. QED BY <1>8, <1>9, <1>10 DEF read, q

(* What is appended to the conversation changes nothing of that.            *)
LEMMA ToldGrows ==
  ASSUME NEW S, NEW c \in Seq(S), NEW x \in S, NEW m, Told(c, m), NEW g, g = Append(c, x)
  PROVE  Told(g, m) /\ Len(c) + 1 \notin m.covers
<1>1. /\ Len(c) \in Nat /\ Len(g) = Len(c) + 1
      /\ \A i \in 1..Len(c) : g[i] = c[i]
  BY AppendIs
<1>2. m.covers \subseteq 1..Len(c) /\ m.resume \in 1..Len(c)
  BY DEF Told
<1>3. Len(c) + 1 \notin m.covers
  BY <1>1, <1>2
<1>4. ASSUME NEW n \in 1..Len(g), g[n].role # "system"
      PROVE  n \in m.covers <=> n < m.resume
  <2>1. CASE n \in 1..Len(c)
    BY <1>1, <1>4, <2>1 DEF Told
  <2>2. CASE n = Len(c) + 1
    BY <1>1, <1>2, <1>3, <2>2
  <2>. QED BY <1>1, <2>1, <2>2
<1>5. m.covers \subseteq 1..Len(g) /\ m.resume \in 1..Len(g)
  BY <1>1, <1>2
<1>6. m.recorded /\ g[m.resume].role \in {"user", "assistant"}
  BY <1>1, <1>2 DEF Told
<1>. QED BY <1>3, <1>4, <1>5, <1>6 DEF Told

LEMMA NotedAppend ==
  ASSUME NEW S, NEW c \in Seq(S), Noted(c), NEW x \in S, NEW g, g = Append(c, x),
         IF x.role = "system" THEN Told(g, x) /\ Len(c) + 1 \notin x.covers ELSE x.covers = {}
  PROVE  Noted(g)
<1>1. /\ Len(c) \in Nat /\ Len(g) = Len(c) + 1
      /\ \A i \in 1..Len(c) : g[i] = c[i]
      /\ g[Len(c) + 1] = x
  BY AppendIs
<1>2. ASSUME NEW n \in 1..Len(c)
      PROVE  IF g[n].role = "system" THEN Told(g, g[n]) /\ n \notin g[n].covers ELSE g[n].covers = {}
  <2>1. g[n] = c[n]
    BY <1>1
  <2>2. CASE c[n].role = "system"
    <3>1. Told(c, c[n]) /\ n \notin c[n].covers
      BY <2>2 DEF Noted
    <3>2. Told(g, c[n])
      BY <3>1, ToldGrows
    <3>. QED BY <2>1, <2>2, <3>1, <3>2
  <2>3. CASE c[n].role # "system"
    BY <2>1, <2>3 DEF Noted
  <2>. QED BY <2>2, <2>3
<1>3. ASSUME NEW n \in 1..Len(g)
      PROVE  n \in 1..Len(c) \/ n = Len(c) + 1
  BY <1>1
<1>. QED BY <1>1, <1>2, <1>3 DEF Noted

LEMMA FollowsSummary ==
  ASSUME NEW S, NEW c \in Seq(S), NEW h, Follows(h, c), NEW x \in S, x.role = "system",
         NEW g, g = Append(c, x)
  PROVE  Follows(h, g)
<1>1. /\ Len(c) \in Nat /\ Len(g) = Len(c) + 1
      /\ \A i \in 1..Len(c) : g[i] = c[i]
      /\ g[Len(c) + 1] = x
  BY AppendIs
<1>2. \A i \in 1..Len(h) : h[i].row \in 1..Len(g) /\ CopyOf(h[i], g[h[i].row])
  BY <1>1 DEF Follows
<1>3. \A i, j \in 1..Len(h) : i < j => h[i].row < h[j].row
  BY DEF Follows
<1>4. ASSUME NEW n \in 1..Len(g), g[n].role # "system"
      PROVE  \E i \in 1..Len(h) : h[i].row = n
  <2>1. n \in 1..Len(c)
    BY <1>1, <1>4
  <2>. QED BY <1>1, <1>4, <2>1 DEF Follows
<1>. QED BY <1>2, <1>3, <1>4 DEF Follows

LEMMA FollowsBoth ==
  ASSUME NEW S, NEW c \in Seq(S), NEW h \in Seq(S), Follows(h, c),
         NEW m \in S, NEW x \in S, x.row = Len(c) + 1, CopyOf(x, m),
         NEW g, g = Append(c, m), NEW k, k = Append(h, x)
  PROVE  Follows(k, g)
<1>1. /\ Len(c) \in Nat /\ Len(g) = Len(c) + 1
      /\ \A i \in 1..Len(c) : g[i] = c[i]
      /\ g[Len(c) + 1] = m
  BY AppendIs
<1>2. /\ Len(h) \in Nat /\ Len(k) = Len(h) + 1
      /\ \A i \in 1..Len(h) : k[i] = h[i]
      /\ k[Len(h) + 1] = x
  BY AppendIs
<1>3. \A i \in 1..Len(k) : i \in 1..Len(h) \/ i = Len(h) + 1
  BY <1>2
<1>4. ASSUME NEW i \in 1..Len(k)
      PROVE  k[i].row \in 1..Len(g) /\ CopyOf(k[i], g[k[i].row])
  <2>1. CASE i \in 1..Len(h)
    BY <1>1, <1>2, <2>1 DEF Follows
  <2>2. CASE i = Len(h) + 1
    <3>1. k[i] = x /\ Len(c) + 1 \in 1..Len(g)
      BY <1>1, <1>2, <2>2
    <3>. QED BY <1>1, <3>1
  <2>. QED BY <1>3, <2>1, <2>2
<1>5. ASSUME NEW i \in 1..Len(k), NEW j \in 1..Len(k), i < j
      PROVE  k[i].row < k[j].row
  <2>1. i \in 1..Len(h)
    BY <1>2, <1>5
  <2>2. CASE j \in 1..Len(h)
    BY <1>2, <1>5, <2>1, <2>2 DEF Follows
  <2>3. CASE j = Len(h) + 1
    <3>1. h[i].row \in 1..Len(c) /\ k[i] = h[i] /\ k[j] = x
      BY <1>2, <2>1, <2>3 DEF Follows
    <3>. QED BY <1>1, <3>1
  <2>. QED BY <1>3, <2>2, <2>3
<1>6. ASSUME NEW n \in 1..Len(g), g[n].role # "system"
      PROVE  \E i \in 1..Len(k) : k[i].row = n
  <2>1. CASE n \in 1..Len(c)
    <3>1. PICK i \in 1..Len(h) : h[i].row = n
      BY <1>1, <1>6, <2>1 DEF Follows
    <3>2. i \in 1..Len(k)
      BY <1>2
    <3>. QED BY <1>2, <3>1, <3>2
  <2>2. CASE n = Len(c) + 1
    <3>1. Len(h) + 1 \in 1..Len(k)
      BY <1>2
    <3>. QED BY <1>2, <2>2, <3>1
  <2>. QED BY <1>1, <2>1, <2>2
<1>. QED BY <1>4, <1>5, <1>6 DEF Follows

(* Summary m of the prompt ms cut at k, for conversation c.                 *)
CutSummary(m, ms, k, c) ==
    /\ IsSummary(m) /\ m.row = Len(c) + 1 /\ m.recorded
    /\ m.resume = ms[k + 1].row
    /\ m.covers = Read(SubSeq(ms, 2, k), FALSE)

LEMMA CutTold ==
  ASSUME NEW ms \in Seq(MessageType), NEW S, NEW c \in Seq(S), Whole(ms, c),
         NEW k, CutsBody(ms, k), NEW m \in S, CutSummary(m, ms, k, c), NEW g, g = Append(c, m)
  PROVE  Told(g, m) /\ Len(c) + 1 \notin m.covers
<1>1. PICK hd \in 1..2, r \in 1..(Len(c) + 1) : Opens(ms, c, hd, r) /\ Replays(ms, c, hd, r)
  BY DEF Whole
<1>2. Len(c) \in Nat
  BY LenProperties
<1>3. /\ m.resume \in 1..Len(c) /\ c[m.resume].role \in {"user", "assistant"}
  BY <1>1, <1>2, CutAt DEF CutSummary
<1>4. /\ m.covers \subseteq 1..Len(c)
      /\ \A n \in 1..Len(c) : c[n].role # "system" => (n \in m.covers <=> n < m.resume)
  <2> DEFINE read == Read(SubSeq(ms, 2, k), FALSE)
             q == ms[k + 1].row
  <2>1. /\ read \subseteq 1..Len(c)
        /\ \A n \in 1..Len(c) : c[n].role # "system" => (n \in read <=> n < q)
    BY <1>1, <1>2, CutRead
  <2>2. m.covers = read /\ m.resume = q
    BY DEF CutSummary
  <2> HIDE DEF read, q
  <2>. QED BY <2>1, <2>2
<1>5. Told(c, m)
  BY <1>3, <1>4 DEF Told, CutSummary
<1>. QED BY <1>5, ToldGrows

LEMMA ShortenedWhole ==
  ASSUME NEW ms \in Seq(MessageType), NEW c \in Seq(MessageType), Whole(ms, c),
         NEW k, CutsBody(ms, k), NEW m \in MessageType, CutSummary(m, ms, k, c),
         NEW g, g = Append(c, m), NEW q, Shortened(q, ms, k, m)
  PROVE  Whole(q, g)
<1>1. PICK hd \in 1..2, r \in 1..(Len(c) + 1) : Opens(ms, c, hd, r) /\ Replays(ms, c, hd, r)
  BY DEF Whole
<1>2. Len(ms) \in Nat /\ Len(c) \in Nat /\ Overlays \in Nat /\ k \in 2..Len(ms) /\ Len(q) \in Nat
  BY LenProperties, PromptAssumption DEF CutsBody, Shortened
<1> DEFINE p == ms[k + 1].row
<1>3. /\ p \in r..Len(c) /\ p \in 1..Len(c)
      /\ \A x \in (k + 1)..Len(ms) : ms[x].row = 0 \/ p <= ms[x].row
      /\ \A x \in (hd + 1)..k : ms[x].row = 0 \/ ms[x].row < p
  BY <1>1, <1>2, CutAt
<1>4. m.resume = p
  BY DEF CutSummary
<1> HIDE DEF p
<1>5. /\ Len(g) = Len(c) + 1
      /\ \A i \in 1..Len(c) : g[i] = c[i]
      /\ g[Len(c) + 1] = m
  BY AppendIs
<1>6. Told(g, m) /\ Len(c) + 1 \notin m.covers
  BY CutTold
<1>7. m.role = "system" /\ IsSummary(m) /\ m.row = Len(c) + 1
  BY DEF CutSummary, IsSummary
<1>8. Opens(q, g, 2, p)
  <2> DEFINE y == q[2]
  <2>1. y = [m EXCEPT !.id = NoId]
    BY DEF Shortened
  <2> HIDE DEF y
  <2>2. /\ y.role = m.role /\ y.stop = m.stop /\ y.recorded = m.recorded /\ y.resume = m.resume
        /\ y.covers = m.covers /\ y.row = m.row
    BY <2>1 DEF MessageType
  <2>3. IsSummary(y)
    BY <1>7, <2>2 DEF IsSummary
  <2>4. Told(g, y)
    BY <1>6, <2>2 DEF Told
  <2>5. y.row \in (1..Len(g)) \ y.covers /\ g[y.row].role = "system"
    <3>1. Len(c) + 1 \in 1..Len(g)
      BY <1>2, <1>5
    <3>. QED BY <1>5, <1>6, <1>7, <2>2, <3>1
  <2>6. q[1].row = 0 /\ q[1].covers = {} /\ ~IsSummary(q[1])
    BY <1>1 DEF Shortened, Opens
  <2>7. 2 \in 1..Len(q)
    BY <1>2 DEF Shortened
  <2>. QED BY <1>4, <2>2, <2>3, <2>4, <2>5, <2>6, <2>7 DEF Opens, y
<1>9. ASSUME NEW x \in 3..Len(q)
      PROVE  /\ q[x] = ms[k + (x - 2)] /\ k + (x - 2) \in (k + 1)..Len(ms)
             /\ k + (x - 2) \in (hd + 1)..Len(ms)
             /\ x <= Len(q) - Overlays => k + (x - 2) \in (hd + 1)..(Len(ms) - Overlays)
  <2>1. Len(q) = 2 + (Len(ms) - k)
    BY DEF Shortened
  <2>2. q[x] = ms[k + (x - 2)]
    BY DEF Shortened
  <2>. QED BY <1>2, <2>1, <2>2
<1>10. ASSUME NEW x \in 3..Len(q)
       PROVE  Piece(q[x], g, p)
  <2> DEFINE i == k + (x - 2)
  <2>1. q[x] = ms[i] /\ i \in (k + 1)..Len(ms) /\ i \in (hd + 1)..Len(ms)
    BY <1>9
  <2> HIDE DEF i
  <2>2. Piece(ms[i], c, r) /\ (ms[i].row = 0 \/ p <= ms[i].row)
    BY <1>1, <1>3, <2>1 DEF Replays
  <2>3. Replayed(ms[i], c, r) => Replayed(ms[i], g, p)
    <3>1. ASSUME Replayed(ms[i], c, r)
          PROVE  ms[i].row \in 1..Len(c) /\ ms[i].row \in p..Len(g)
      <4>1. ms[i].row \in r..Len(c)
        BY <3>1 DEF Replayed
      <4>. QED BY <1>2, <1>3, <1>5, <2>2, <4>1
    <3>. QED BY <1>5, <3>1 DEF Replayed
  <2>. QED BY <2>1, <2>2, <2>3 DEF Piece
<1>11. ASSUME NEW x \in 3..(Len(q) - Overlays)
       PROVE  q[x].role # "system"
  <2>1. x \in 3..Len(q) /\ x <= Len(q) - Overlays
    BY <1>2
  <2>. QED BY <1>1, <1>9, <2>1 DEF Replays
<1>12. ASSUME NEW x \in 3..Len(q), NEW y \in 3..Len(q), x < y, q[x].row # 0, q[y].row # 0
       PROVE  q[x].row < q[y].row
  <2> DEFINE i == k + (x - 2)
             j == k + (y - 2)
  <2>1. i < j
    BY <1>2, <1>12
  <2>2. /\ q[x] = ms[i] /\ i \in (hd + 1)..Len(ms)
        /\ q[y] = ms[j] /\ j \in (hd + 1)..Len(ms)
    BY <1>9
  <2> HIDE DEF i, j
  <2>. QED BY <1>1, <1>12, <2>1, <2>2 DEF Replays
<1>13. ASSUME NEW n \in p..Len(g), g[n].role # "system"
       PROVE  \E x \in 3..Len(q) : q[x].row = n
  <2>1. n # Len(c) + 1
    BY <1>5, <1>7, <1>13
  <2>2. n \in r..Len(c) /\ n # 0 /\ ~(n < p) /\ n \in 1..Len(c)
    BY <1>2, <1>3, <1>5, <2>1
  <2>3. c[n].role # "system"
    BY <1>5, <1>13, <2>2
  <2>4. PICK x \in (hd + 1)..Len(ms) : ms[x].row = n
    BY <1>1, <2>2, <2>3 DEF Replays
  <2>5. ~(x \in (hd + 1)..k)
    BY <1>3, <2>2, <2>4
  <2>6. Len(q) = 2 + (Len(ms) - k)
    BY DEF Shortened
  <2> DEFINE y == x - k + 2
  <2>7. y \in 3..Len(q) /\ k + (y - 2) = x
    BY <1>2, <2>5, <2>6
  <2> HIDE DEF y
  <2>. QED BY <1>9, <2>4, <2>7
<1>14. p \in 1..(Len(g) + 1) /\ 2 \in 1..2 /\ 2 + 1 = 3
  BY <1>3, <1>5, <1>2
<1>15. Replays(q, g, 2, p)
  BY <1>10, <1>11, <1>12, <1>13, <1>14 DEF Replays
<1>. QED BY <1>8, <1>14, <1>15 DEF Whole

-----------------------------------------------------------------------------
(* buildMessages builds such a prompt.                                      *)

(* A result that fixInterruptedToolCalls made up.                           *)
Patch(m) == Made(m) /\ m.role = "tool" /\ m.covers = {}

(* q is made of the first j messages of ms, in order, and of such results.  *)
Weaves(ms, j, q, phi) ==
    /\ phi \in [1..Len(q) -> 0..j]
    /\ \A x \in 1..Len(q) : IF phi[x] = 0 THEN Patch(q[x]) ELSE q[x] = ms[phi[x]]
    /\ \A x, y \in 1..Len(q) : x < y /\ phi[x] # 0 /\ phi[y] # 0 => phi[x] < phi[y]
    /\ \A i \in 1..j : \E x \in 1..Len(q) : phi[x] = i

LEMMA WeavesNext ==
  ASSUME NEW S, NEW ms, NEW j \in Nat \ {0}, NEW q \in Seq(S), NEW phi, Weaves(ms, j - 1, q, phi),
         NEW r \in Seq(S), 1 <= Len(r), r[1] = ms[j], \A x \in 2..Len(r) : Patch(r[x])
  PROVE  \E psi : Weaves(ms, j, q \o r, psi)
<1> DEFINE p == q \o r
           l == Len(q)
           psi == [x \in 1..Len(p) |-> IF x <= l THEN phi[x] ELSE IF x = l + 1 THEN j ELSE 0]
<1>1. l \in Nat /\ Len(r) \in Nat /\ Len(p) = l + Len(r) /\ p \in Seq(S)
  BY LenProperties, ConcatProperties
<1>2. \A x \in 1..(l + Len(r)) : p[x] = IF x <= l THEN q[x] ELSE r[x - l]
  BY <1>1, ConcatProperties
<1>3. phi \in [1..l -> 0..(j - 1)]
  BY DEF Weaves
<1> HIDE DEF p
<1>4. psi \in [1..Len(p) -> 0..j]
  BY <1>1, <1>3
<1>5. /\ \A x \in 1..l : psi[x] = phi[x] /\ p[x] = q[x]
      /\ psi[l + 1] = j /\ p[l + 1] = ms[j]
      /\ \A x \in (l + 2)..Len(p) : psi[x] = 0 /\ p[x] = r[x - l]
  BY <1>1, <1>2
<1> HIDE DEF l
<1>6. \A x \in 1..Len(p) : x \in 1..l \/ x = l + 1 \/ x \in (l + 2)..Len(p)
  BY <1>1
<1> HIDE DEF psi
<1>7. ASSUME NEW x \in 1..Len(p)
      PROVE  IF psi[x] = 0 THEN Patch(p[x]) ELSE p[x] = ms[psi[x]]
  <2>1. CASE x \in 1..l
    BY <1>5, <2>1 DEF Weaves, l
  <2>2. CASE x = l + 1
    BY <1>5, <2>2
  <2>3. CASE x \in (l + 2)..Len(p)
    <3>1. x - l \in 2..Len(r)
      BY <1>1, <2>3
    <3>. QED BY <1>5, <2>3, <3>1
  <2>. QED BY <1>6, <2>1, <2>2, <2>3
<1>8. ASSUME NEW x \in 1..Len(p), NEW y \in 1..Len(p), x < y, psi[x] # 0, psi[y] # 0
      PROVE  psi[x] < psi[y]
  <2>1. x \in 1..l
    BY <1>1, <1>5, <1>6, <1>8
  <2>2. CASE y \in 1..l
    BY <1>5, <1>8, <2>1, <2>2 DEF Weaves, l
  <2>3. CASE y = l + 1
    BY <1>3, <1>5, <2>1, <2>3
  <2>. QED BY <1>5, <1>6, <1>8, <2>2, <2>3
<1>9. ASSUME NEW i \in 1..j
      PROVE  \E x \in 1..Len(p) : psi[x] = i
  <2>1. CASE i = j
    <3>1. l + 1 \in 1..Len(p)
      BY <1>1
    <3>. QED BY <1>5, <2>1, <3>1
  <2>2. CASE i # j
    <3>1. i \in 1..(j - 1)
      BY <2>2
    <3>2. PICK x \in 1..l : phi[x] = i
      BY <3>1 DEF Weaves, l
    <3>3. x \in 1..Len(p)
      BY <1>1
    <3>. QED BY <1>5, <3>2, <3>3
  <2>. QED BY <2>1, <2>2
<1>10. Weaves(ms, j, p, psi)
  BY <1>4, <1>7, <1>8, <1>9 DEF Weaves
<1>. QED BY <1>10 DEF p

LEMMA RepairedIs ==
  ASSUME NEW ms \in Seq(MessageType), NEW j \in 1..Len(ms)
  PROVE  LET r == Repaired(ms, j)
         IN  1 <= Len(r) /\ r[1] = ms[j] /\ \A x \in 2..Len(r) : Patch(r[x])
<1> DEFINE y == synthetic(ms, Max(EndingAt(ms, j)))
           t == IF EndingAt(ms, j) = {} THEN <<>> ELSE y
           r == Repaired(ms, j)
<1>1. Len(ms) \in Nat /\ ms[j] \in MessageType
  BY LenProperties, ElementOfSeq
<1>2. EndingAt(ms, j) # {} =>
        y \in Seq(MessageType) /\ \A x \in 1..Len(y) : Patch(y[x])
  <2> SUFFICES ASSUME EndingAt(ms, j) # {}
               PROVE  y \in Seq(MessageType) /\ \A x \in 1..Len(y) : Patch(y[x])
    OBVIOUS
  <2> DEFINE i == Max(EndingAt(ms, j))
             u == unanswered(ms, i)
  <2>1. EndingAt(ms, j) \subseteq 0..j /\ j \in Nat
    BY <1>1 DEF EndingAt
  <2>2. i \in EndingAt(ms, j)
    BY <2>1, MaxIs
  <2>3. i \in 1..Len(ms)
    BY <1>1, <2>2 DEF EndingAt
  <2> HIDE DEF i
  <2>4. synthetic(ms, i) \in Seq(MessageType) /\ u \in Seq(CallPairs)
    BY <2>3, SyntheticType
  <2>5. synthetic(ms, i) = [n \in DOMAIN u |-> [Message("tool") EXCEPT !.call = u[n]]]
    BY DEF synthetic
  <2>6. DOMAIN u = 1..Len(synthetic(ms, i))
    <3>1. DOMAIN u = 1..Len(u) /\ Len(synthetic(ms, i)) = Len(u)
      BY <2>3, <2>4, SyntheticType, LenProperties
    <3>. QED BY <3>1
  <2> HIDE DEF u
  <2>7. \A c : Patch([Message("tool") EXCEPT !.call = c])
    BY DEF Patch, Made, Message
  <2>8. \A n \in 1..Len(synthetic(ms, i)) : Patch(synthetic(ms, i)[n])
    BY <2>5, <2>6, <2>7
  <2>. QED BY <2>4, <2>8 DEF i
<1>3. t \in Seq(MessageType) /\ \A x \in 1..Len(t) : Patch(t[x])
  BY <1>2
<1>4. r = <<ms[j]>> \o t
  BY DEF Repaired
<1> HIDE DEF t, r
<1>5. /\ <<ms[j]>> \in Seq(MessageType) /\ Len(<<ms[j]>>) = 1 /\ <<ms[j]>>[1] = ms[j]
      /\ Len(t) \in Nat
  BY <1>1, <1>3, LenProperties
<1>6. /\ Len(r) = 1 + Len(t) /\ r[1] = ms[j]
      /\ \A x \in 2..Len(r) : r[x] = t[x - 1] /\ x - 1 \in 1..Len(t)
  <2>1. Len(r) = 1 + Len(t)
    BY <1>3, <1>4, <1>5, ConcatProperties
  <2>2. \A x \in 1..(1 + Len(t)) : r[x] = IF x <= 1 THEN <<ms[j]>>[x] ELSE t[x - 1]
    BY <1>3, <1>4, <1>5, ConcatProperties
  <2>. QED BY <1>5, <2>1, <2>2
<1>. QED BY <1>3, <1>5, <1>6 DEF r

LEMMA FixWeaves ==
  ASSUME NEW ms \in Seq(MessageType)
  PROVE  \E phi : Weaves(ms, Len(ms), fixInterruptedToolCalls(ms), phi)
<1> DEFINE n == Len(ms)
<1>1. n \in Nat /\ 0 \in 0..n /\ n \in 0..n /\ 0 \in Nat
  BY LenProperties
<1>2. PICK F, ss : /\ Joins(MessageType, ss, F, n)
                   /\ ss \in [1..n -> Seq(MessageType)]
                   /\ \A j \in 1..n : ss[j] = Repaired(ms, j)
                   /\ fixInterruptedToolCalls(ms) = F[n]
  BY FixPieces
<1> DEFINE T == {j \in Nat : \E phi : Weaves(ms, j, F[j], phi)}
<1> HIDE DEF T
<1>3. 0 \in T
  <2>1. F[0] = <<>>
    BY <1>2 DEF Joins
  <2>2. Weaves(ms, 0, F[0], <<>>)
    BY <2>1 DEF Weaves
  <2>. QED BY <2>2 DEF T
<1>4. ASSUME NEW j \in (0 + 1)..n, j - 1 \in T
      PROVE  j \in T
  <2>1. j \in 1..n /\ j \in Nat \ {0} /\ j - 1 \in 0..n
    OBVIOUS
  <2>2. PICK phi : Weaves(ms, j - 1, F[j - 1], phi)
    BY <1>4 DEF T
  <2>3. F[j] = F[j - 1] \o ss[j] /\ F[j - 1] \in Seq(MessageType) /\ ss[j] \in Seq(MessageType)
    BY <1>2, <2>1 DEF Joins
  <2>4. 1 <= Len(ss[j]) /\ ss[j][1] = ms[j] /\ \A x \in 2..Len(ss[j]) : Patch(ss[j][x])
    BY <1>2, <2>1, RepairedIs
  <2>5. \E psi : Weaves(ms, j, F[j - 1] \o ss[j], psi)
    BY <2>1, <2>2, <2>3, <2>4, WeavesNext
  <2>. QED BY <2>1, <2>3, <2>5 DEF T
<1>5. n \in T
  BY <1>1, <1>3, <1>4, UpFrom
<1>. QED BY <1>2, <1>5 DEF T

(* p is the headers hd, then what h says from start on and such results.    *)
Woven(p, hd, h, start, psi) ==
    LET a == Len(hd)
        body == (a + 1)..Len(p)
    IN  /\ p \in Seq(MessageType)
        /\ a < Len(p)
        /\ \A x \in 1..a : p[x] = hd[x]
        /\ psi \in [body -> 0..Len(h)]
        /\ \A x \in body : p[x].role # "system"
        /\ \A x \in body : IF psi[x] = 0 THEN Patch(p[x]) ELSE start <= psi[x] /\ p[x] = h[psi[x]]
        /\ \A x, y \in body : x < y /\ psi[x] # 0 /\ psi[y] # 0 => psi[x] < psi[y]
        /\ \A i \in start..Len(h) : h[i].role # "system" => \E x \in body : psi[x] = i

(* Where the transcript does not start with a tool result none is dropped.  *)
LEMMA NoneDropped ==
  ASSUME NEW ms, NEW a, Turns(ms, a), a < Len(ms), ms[a + 1].role # "tool"
  PROVE  LET p == fixInterruptedToolCalls(ms)
         IN  /\ dropUnpairedToolResults(p) = p /\ p \in Seq(MessageType) /\ a <= Len(p)
             /\ \A k \in 1..a : p[k] = ms[k] /\ p[k].role = "system"
             /\ \A k \in (a + 1)..Len(p) : p[k].role # "system"
<1> DEFINE p == fixInterruptedToolCalls(ms)
<1>1. Len(ms) \in Nat /\ a \in 1..Len(ms)
  BY LenProperties DEF Turns
<1>2. PICK b : RunEnds(ms, a, b) /\ FixedTo(ms, b, p)
  BY FixIs
<1>3. b = a
  <2>1. b \in a..Len(ms) /\ \A k \in (a + 1)..b : ms[k].role = "tool"
    BY <1>2 DEF RunEnds, ToolsOnly
  <2>2. ~(a + 1 \in (a + 1)..b)
    BY <2>1
  <2>. QED BY <1>1, <2>1, <2>2
<1> HIDE DEF p
<1>4. /\ p \in Seq(MessageType) /\ a <= Len(p) /\ PairedFrom(p, a)
      /\ \A k \in 1..a : p[k] = ms[k]
      /\ \A k \in (a + 1)..Len(p) : p[k].role # "system"
  BY <1>2, <1>3 DEF FixedTo
<1>5. \A k \in 1..a : ms[k].role = "system"
  BY <1>1 DEF Turns
<1>6. Paired(p)
  <2>1. NoTurns(p, a)
    BY <1>4, <1>5 DEF NoTurns
  <2>2. a \in Nat /\ Len(p) \in Nat
    BY <1>1, <1>4, LenProperties
  <2>. QED BY <1>4, <2>1, <2>2, PairedAfter
<1>7. dropUnpairedToolResults(p) = p
  BY <1>4, <1>6, DropPaired
<1>. QED BY <1>4, <1>5, <1>7 DEF p

LEMMA AssembleWoven ==
  ASSUME NEW h, NEW n, Hist(h, n), NEW start \in 1..Len(h), h[start].role \notin {"tool", "system"}
  PROVE  \E psi : Woven(assembleMessages(h, start), Headers(h), h, start, psi)
<1> DEFINE hd == Headers(h)
           a == Len(hd)
           t == Transcript(h, start)
           ms == hd \o t
           p == fixInterruptedToolCalls(ms)
<1>1. h \in Seq(MessageType) /\ Len(h) \in Nat /\ start \in 1..(Len(h) + 1)
  BY LenProperties DEF Hist
<1>2. hd \in Seq(MessageType) /\ a \in Nat /\ a # 0
  BY HeadersIs, LenProperties, EmptySeq
<1>3. t \in Seq(MessageType) /\ Len(t) \in Nat
  BY <1>1, ExcerptIs, LenProperties
<1>4. PICK phi : Excerpt(h, start, t, phi)
  BY <1>1, ExcerptIs
<1>5. Turns(ms, a)
  BY <1>1, HeadersIs, TurnsIs
<1>6. assembleMessages(h, start) = dropUnpairedToolResults(p)
  BY AssembleParts
<1> HIDE DEF hd, t
<1>7. /\ Len(ms) = a + Len(t)
      /\ \A k \in 1..a : ms[k] = hd[k]
      /\ \A k \in (a + 1)..Len(ms) : ms[k] = t[k - a] /\ k - a \in 1..Len(t)
      /\ \A x \in 1..Len(t) : ms[a + x] = t[x] /\ a + x \in (a + 1)..Len(ms)
  <2>1. /\ Len(ms) = a + Len(t)
        /\ \A k \in 1..(a + Len(t)) : ms[k] = IF k <= a THEN hd[k] ELSE t[k - a]
    BY <1>2, <1>3, ConcatProperties
  <2>. QED BY <1>2, <1>3, <2>1
<1>8. 1 \in 1..Len(t) /\ t[1] = h[start]
  <2>1. start \in start..Len(h)
    BY <1>1
  <2>2. PICK x \in 1..Len(t) : phi[x] = start
    BY <1>4, <2>1 DEF Excerpt
  <2>3. 1 \in 1..Len(t) /\ phi[1] \in start..Len(h)
    BY <1>3, <1>4 DEF Excerpt
  <2>4. ~(1 < x)
    <3>1. ~(phi[1] < phi[x])
      BY <1>1, <2>2, <2>3
    <3>. QED BY <1>4, <2>3, <3>1 DEF Excerpt
  <2>5. x = 1
    BY <2>4
  <2>. QED BY <1>4, <2>2, <2>3, <2>5 DEF Excerpt
<1>9. a < Len(ms) /\ ms[a + 1].role # "tool"
  <2>1. ms[a + 1] = t[1] /\ a + 1 \in (a + 1)..Len(ms)
    BY <1>7, <1>8
  <2>. QED BY <1>2, <1>3, <1>7, <1>8, <2>1
<1>10. ms \in Seq(MessageType)
  BY <1>5 DEF Turns
<1>11. \A k \in 1..a : ms[k].role = "system"
  <2>1. a \in 1..Len(ms)
    BY <1>5 DEF Turns
  <2>2. \A k \in 1..a : k \in 1..Len(ms)
    BY <1>2, <1>9
  <2>. QED BY <1>2, <1>5, <2>2 DEF Turns
<1> HIDE DEF ms
<1>12. /\ dropUnpairedToolResults(p) = p /\ p \in Seq(MessageType) /\ a <= Len(p)
       /\ \A k \in 1..a : p[k] = ms[k] /\ p[k].role = "system"
       /\ \A k \in (a + 1)..Len(p) : p[k].role # "system"
  BY <1>5, <1>9, NoneDropped
<1>13. PICK om : Weaves(ms, Len(ms), p, om)
  BY <1>10, FixWeaves
<1> HIDE DEF p
<1>14. Len(p) \in Nat /\ om \in [1..Len(p) -> 0..Len(ms)]
  BY <1>12, <1>13, LenProperties DEF Weaves
<1>15. ASSUME NEW x \in (a + 1)..Len(p), om[x] # 0
       PROVE  om[x] \in (a + 1)..Len(ms) /\ om[x] - a \in 1..Len(t) /\ p[x] = t[om[x] - a]
  <2>1. x \in 1..Len(p) /\ om[x] \in 1..Len(ms)
    BY <1>2, <1>14, <1>15
  <2>2. p[x] = ms[om[x]]
    BY <1>13, <1>15, <2>1 DEF Weaves
  <2>3. ~(om[x] \in 1..a)
    BY <1>11, <1>12, <2>2
  <2>4. om[x] \in (a + 1)..Len(ms)
    BY <1>2, <2>1, <2>3
  <2>. QED BY <1>7, <2>2, <2>4
<1> DEFINE psi == [x \in (a + 1)..Len(p) |-> IF om[x] = 0 THEN 0 ELSE phi[om[x] - a]]
<1>16. phi \in [1..Len(t) -> start..Len(h)] /\ 0 \in 0..Len(h) /\ start..Len(h) \subseteq 1..Len(h)
       /\ 1..Len(h) \subseteq 0..Len(h)
  BY <1>1, <1>4 DEF Excerpt
<1>17. psi \in [(a + 1)..Len(p) -> 0..Len(h)]
  BY <1>15, <1>16
<1>18. \A x \in (a + 1)..Len(p) :
          /\ om[x] = 0 => psi[x] = 0
          /\ om[x] # 0 => psi[x] = phi[om[x] - a] /\ psi[x] \in start..Len(h) /\ psi[x] # 0
  BY <1>15, <1>16
<1> HIDE DEF psi
<1>19. ASSUME NEW x \in (a + 1)..Len(p)
       PROVE  IF psi[x] = 0 THEN Patch(p[x]) ELSE start <= psi[x] /\ p[x] = h[psi[x]]
  <2>1. x \in 1..Len(p)
    BY <1>2
  <2>2. CASE om[x] = 0
    BY <1>13, <1>18, <2>1, <2>2 DEF Weaves
  <2>3. CASE om[x] # 0
    <3>1. p[x] = h[psi[x]]
      <4> DEFINE i == om[x] - a
      <4>1. i \in 1..Len(t) /\ p[x] = t[i] /\ psi[x] = phi[i]
        BY <1>15, <1>18, <2>3
      <4> HIDE DEF i
      <4>2. t[i] = h[phi[i]]
        BY <1>4, <4>1 DEF Excerpt
      <4>. QED BY <4>1, <4>2
    <3>2. start <= psi[x]
      BY <1>1, <1>18, <2>3
    <3>. QED BY <1>18, <2>3, <3>1, <3>2
  <2>. QED BY <2>2, <2>3
<1>20. ASSUME NEW x \in (a + 1)..Len(p), NEW y \in (a + 1)..Len(p), x < y, psi[x] # 0, psi[y] # 0
       PROVE  psi[x] < psi[y]
  <2>1. om[x] # 0 /\ om[y] # 0 /\ x \in 1..Len(p) /\ y \in 1..Len(p)
    BY <1>2, <1>18, <1>20
  <2>2. om[x] < om[y]
    BY <1>13, <1>20, <2>1 DEF Weaves
  <2> DEFINE i == om[x] - a
             j == om[y] - a
  <2>3. i \in 1..Len(t) /\ psi[x] = phi[i] /\ om[x] \in (a + 1)..Len(ms)
    BY <1>15, <1>18, <2>1
  <2>4. j \in 1..Len(t) /\ psi[y] = phi[j] /\ om[y] \in (a + 1)..Len(ms)
    BY <1>15, <1>18, <2>1
  <2>5. i < j
    <3> DEFINE u == om[x]
               v == om[y]
    <3>1. u \in Int /\ v \in Int /\ a \in Int /\ u < v
      BY <1>2, <2>2, <2>3, <2>4
    <3> HIDE DEF u, v, a
    <3>2. u - a < v - a
      BY <3>1
    <3>. QED BY <3>2 DEF u, v
  <2> HIDE DEF i, j
  <2>. QED BY <1>4, <2>3, <2>4, <2>5 DEF Excerpt
<1>21. ASSUME NEW i \in start..Len(h), h[i].role # "system"
       PROVE  \E x \in (a + 1)..Len(p) : psi[x] = i
  <2>1. PICK k \in 1..Len(t) : phi[k] = i
    BY <1>4, <1>21 DEF Excerpt
  <2>2. t[k].role # "system" /\ ms[a + k] = t[k] /\ a + k \in (a + 1)..Len(ms) /\ a + k \in 1..Len(ms)
    BY <1>2, <1>4, <1>7 DEF Excerpt
  <2>3. PICK x \in 1..Len(p) : om[x] = a + k
    BY <1>13, <2>2 DEF Weaves
  <2>4. om[x] # 0 /\ om[x] - a = k
    BY <1>2, <2>3
  <2>5. p[x] = t[k]
    BY <1>13, <2>2, <2>3, <2>4 DEF Weaves
  <2>6. ~(x \in 1..a)
    BY <1>12, <2>2, <2>5
  <2>7. x \in (a + 1)..Len(p)
    BY <1>2, <2>6
  <2>. QED BY <1>18, <2>1, <2>4, <2>7
<1>22. a < Len(p)
  <2>1. start \in start..Len(h)
    BY <1>1
  <2>2. PICK x \in (a + 1)..Len(p) : psi[x] = start
    BY <1>21, <2>1
  <2>. QED BY <1>2, <1>14, <2>2
<1>23. \A x \in 1..a : p[x] = hd[x]
  BY <1>7, <1>12
<1>24. Woven(p, hd, h, start, psi)
  BY <1>12, <1>17, <1>19, <1>20, <1>21, <1>22, <1>23 DEF Woven
<1>. QED BY <1>6, <1>12, <1>24 DEF hd, t

(* The overlays, and what stands in front of and behind them.               *)
Overlaid(ms, p) ==
    /\ ms \in Seq(MessageType) /\ Len(ms) = Len(p) + Overlays
    /\ \A x \in 1..Len(p) : ms[x] = p[x]
    /\ \A x \in (Len(p) + 1)..Len(ms) : ms[x] = Message("system")

(* The rows from r on are those of h from start on.                         *)
StartsAt(h, start, r) == \A i \in 1..Len(h) : start <= i <=> r <= h[i].row

LEMMA WovenWhole ==
  ASSUME NEW h, Len(h) \in Nat, NEW c, Len(c) \in Nat, Follows(h, c), Noted(c),
         NEW hd, Len(hd) \in 1..2, NEW r \in 1..(Len(c) + 1), Opens(hd, c, Len(hd), r),
         NEW start \in 1..Len(h), StartsAt(h, start, r),
         NEW p, NEW psi, Woven(p, hd, h, start, psi), NEW ms, Overlaid(ms, p)
  PROVE  Whole(ms, c)
<1> DEFINE a == Len(hd)
           l == Len(p)
<1>1. /\ l \in Nat /\ a < l /\ Len(ms) = l + Overlays /\ Overlays \in Nat /\ Len(ms) \in Nat
      /\ ms \in Seq(MessageType)
  BY PromptAssumption, LenProperties DEF Woven, Overlaid
<1>2. \A x \in 1..l : ms[x] = p[x]
  BY DEF Overlaid
<1>3. Opens(ms, c, a, r)
  <2>1. \A x \in 1..a : ms[x] = hd[x]
    BY <1>1, <1>2 DEF Woven
  <2>2. a = 1 \/ a = 2
    OBVIOUS
  <2>3. a \in 1..Len(ms) /\ ms[1] = hd[1] /\ (a = 2 => ms[2] = hd[2])
    <3>1. CASE a = 1
      <4>1. 1 \in 1..Len(ms) /\ 1 \in 1..1
        BY <1>1, <3>1
      <4>. QED BY <2>1, <3>1, <4>1
    <3>2. CASE a = 2
      <4>1. 2 \in 1..Len(ms) /\ 1 \in 1..2 /\ 2 \in 1..2
        BY <1>1, <3>2
      <4>. QED BY <2>1, <3>2, <4>1
    <3>. QED BY <2>2, <3>1, <3>2
  <2>. QED BY <2>3 DEF Opens
<1>4. \A x \in (a + 1)..Len(ms) :
          \/ x \in (a + 1)..l /\ ms[x] = p[x]
          \/ x \in (l + 1)..Len(ms) /\ ms[x] = Message("system")
  BY <1>1, <1>2 DEF Overlaid
<1>5. /\ Made(Message("system")) /\ Message("system").covers = {} /\ ~IsSummary(Message("system"))
      /\ Message("system").row = 0
  BY DEF Made, Message, IsSummary
<1>6. psi \in [(a + 1)..l -> 0..Len(h)]
  BY DEF Woven
<1>7. ASSUME NEW x \in (a + 1)..l
      PROVE  \/ psi[x] = 0 /\ Patch(p[x])
             \/ /\ psi[x] \in 1..Len(h) /\ start <= psi[x] /\ p[x] = h[psi[x]]
                /\ h[psi[x]].role # "system"
                /\ p[x].row \in r..Len(c) /\ Replayed(p[x], c, r) /\ p[x].covers = {}
  <2>1. p[x].role # "system"
    BY DEF Woven
  <2>2. CASE psi[x] = 0
    BY <2>2 DEF Woven
  <2>3. CASE psi[x] # 0
    <3> DEFINE i == psi[x]
    <3>1. i \in 1..Len(h) /\ start <= i /\ p[x] = h[i]
      BY <1>6, <2>3 DEF Woven
    <3> HIDE DEF i
    <3>2. h[i].row \in 1..Len(c) /\ CopyOf(h[i], c[h[i].row]) /\ r <= h[i].row
      BY <3>1 DEF Follows, StartsAt
    <3>3. c[h[i].row].role # "system" /\ h[i].covers = {}
      BY <2>1, <3>1, <3>2 DEF CopyOf, Noted
    <3>4. h[i].row \in r..Len(c)
      BY <3>2
    <3>5. Replayed(p[x], c, r)
      BY <3>1, <3>2, <3>3, <3>4 DEF Replayed
    <3>. QED BY <2>1, <3>1, <3>3, <3>4, <3>5 DEF i
  <2>. QED BY <2>2, <2>3
<1>8. ASSUME NEW x \in (a + 1)..Len(ms)
      PROVE  Piece(ms[x], c, r)
  <2>1. CASE x \in (a + 1)..l /\ ms[x] = p[x]
    <3>1. ~IsSummary(p[x])
      BY <2>1 DEF Woven, IsSummary
    <3>. QED BY <1>7, <2>1, <3>1 DEF Piece, Patch
  <2>2. CASE ms[x] = Message("system")
    BY <1>5, <2>2 DEF Piece
  <2>. QED BY <1>4, <2>1, <2>2
<1>9. ASSUME NEW x \in (a + 1)..(Len(ms) - Overlays)
      PROVE  ms[x].role # "system"
  <2>1. x \in (a + 1)..l /\ x \in 1..l
    BY <1>1
  <2>. QED BY <1>2, <2>1 DEF Woven
<1>10. ASSUME NEW x \in (a + 1)..Len(ms), NEW y \in (a + 1)..Len(ms), x < y,
              ms[x].row # 0, ms[y].row # 0
       PROVE  ms[x].row < ms[y].row
  <2>1. x \in (a + 1)..l /\ ms[x] = p[x] /\ y \in (a + 1)..l /\ ms[y] = p[y]
    BY <1>4, <1>5, <1>10
  <2>2. psi[x] # 0 /\ psi[y] # 0
    <3>1. ~Patch(p[x]) /\ ~Patch(p[y])
      BY <1>10, <2>1 DEF Patch, Made
    <3>. QED BY <1>7, <2>1, <3>1
  <2>3. psi[x] < psi[y]
    BY <1>10, <2>1, <2>2 DEF Woven
  <2> DEFINE i == psi[x]
             j == psi[y]
  <2>4. i \in 1..Len(h) /\ j \in 1..Len(h) /\ i < j /\ p[x] = h[i] /\ p[y] = h[j]
    BY <1>7, <2>1, <2>2, <2>3
  <2> HIDE DEF i, j
  <2>5. h[i].row < h[j].row
    BY <2>4 DEF Follows
  <2>. QED BY <2>1, <2>4, <2>5
<1>11. ASSUME NEW n \in r..Len(c), c[n].role # "system"
       PROVE  \E x \in (a + 1)..Len(ms) : ms[x].row = n
  <2>1. n \in 1..Len(c) /\ r <= n
    OBVIOUS
  <2>2. PICK i \in 1..Len(h) : h[i].row = n
    BY <1>11, <2>1 DEF Follows
  <2>3. i \in start..Len(h)
    BY <2>1, <2>2 DEF StartsAt
  <2>4. h[i].role # "system"
    BY <1>11, <2>2 DEF Follows, CopyOf
  <2>5. PICK x \in (a + 1)..l : psi[x] = i
    BY <2>3, <2>4 DEF Woven
  <2>6. p[x] = h[i]
    BY <1>7, <2>3, <2>5
  <2>7. x \in (a + 1)..Len(ms) /\ x \in 1..l
    BY <1>1
  <2>. QED BY <1>2, <2>2, <2>6, <2>7
<1>12. Replays(ms, c, a, r)
  BY <1>8, <1>9, <1>10, <1>11 DEF Replays
<1>. QED BY <1>3, <1>12 DEF Whole

(* Where the transcript resumes, and behind which headers.                  *)
LEMMA ResumesRight ==
  ASSUME NEW h, NEW n, Hist(h, n), h # <<>>, NEW c, Len(c) \in Nat, Follows(h, c), Noted(c)
  PROVE  LET start == summaryStartIndex(h)
             hd == Headers(h)
         IN  /\ start \in 1..Len(h) /\ h[start].role \in {"user", "assistant"}
             /\ Len(hd) \in 1..2
             /\ \E r \in 1..(Len(c) + 1) : Opens(hd, c, Len(hd), r) /\ StartsAt(h, start, r)
<1> DEFINE s == findLastSummaryIndex(h)
           start == summaryStartIndex(h)
           hd == Headers(h)
           sys == Message("system")
           x == [h[s] EXCEPT !.id = NoId]
<1>1. h \in Seq(MessageType) /\ Len(h) \in Nat /\ DOMAIN h = 1..Len(h) /\ Len(h) # 0
  BY LenProperties, EmptySeq DEF Hist
<1>2. s \in 0..Len(h) /\ (s # 0 => IsSummary(h[s]))
  BY <1>1, LastSummaryIs
<1>3. sys.row = 0 /\ sys.covers = {} /\ ~IsSummary(sys) /\ sys \in MessageType
  BY SystemMessage DEF Message, IsSummary
<1>4. hd = <<sys>> \o (IF s = 0 THEN <<>> ELSE <<x>>)
  BY DEF Headers
<1>5. CASE s = 0
  <2>1. start = 1
    BY <1>5 DEF summaryStartIndex
  <2>2. hd = <<sys>>
    BY <1>3, <1>4, <1>5
  <2>3. Len(hd) = 1 /\ hd[1] = sys
    BY <2>2
  <2> HIDE DEF sys, start
  <2>4. Opens(hd, c, Len(hd), 1)
    BY <1>3, <2>3 DEF Opens
  <2>5. StartsAt(h, start, 1)
    BY <2>1 DEF StartsAt, Follows
  <2>6. h[1].role = "user" /\ 1 \in 1..Len(h)
    BY <1>1 DEF Hist
  <2>7. 1 \in 1..(Len(c) + 1) /\ 1 \in 1..2
    OBVIOUS
  <2>. QED BY <2>1, <2>3, <2>4, <2>5, <2>6, <2>7 DEF start
<1>6. CASE s # 0
  <2>1. s \in 1..Len(h) /\ IsSummary(h[s]) /\ h[s] \in MessageType
    BY <1>1, <1>2, <1>6, ElementOfSeq
  <2> DEFINE m == h[s].row
             r == h[s].resume
  <2>2. m \in 1..Len(c) /\ CopyOf(h[s], c[m])
    BY <2>1 DEF Follows
  <2>3. c[m].role = "system"
    BY <2>1, <2>2 DEF CopyOf, IsSummary
  <2>4. Told(c, c[m]) /\ m \notin c[m].covers
    BY <2>2, <2>3 DEF Noted
  <2>5. Told(c, h[s]) /\ m \notin h[s].covers
    BY <2>2, <2>4 DEF Told, CopyOf
  <2>6. r \in 1..Len(c) /\ c[r].role \in {"user", "assistant"} /\ h[s].recorded
    BY <2>5 DEF Told
  <2>7. PICK p \in 1..Len(h) : h[p].row = r
    BY <2>6 DEF Follows
  <2>8. h[p].role \in {"user", "assistant"} /\ h[p].id = r
    BY <2>6, <2>7 DEF Follows, CopyOf
  <2> HIDE DEF s
  <2>9. \A i \in 1..Len(h) : h[i].id = r => i = p
    <3> SUFFICES ASSUME NEW i \in 1..Len(h), h[i].id = r
                 PROVE  i = p
      OBVIOUS
    <3>1. h[i].row = r
      BY <2>6 DEF Follows, CopyOf, NoId
    <3>2. ~(i < p) /\ ~(p < i)
      BY <2>6, <2>7, <3>1 DEF Follows
    <3>. QED BY <3>2
  <2> DEFINE recorded == recordedResumeIndex(h, s)
  <2>10. recorded = {p}
    <3>1. r # NoId
      BY <2>6 DEF NoId
    <3>2. recorded = {i \in 1..Len(h) : h[i].id = r}
      BY <1>1, <2>6, <3>1 DEF recordedResumeIndex
    <3>. QED BY <2>7, <2>8, <2>9, <3>2
  <2>11. start = Min(recorded)
    BY <1>6, <2>10 DEF summaryStartIndex, s
  <2>12. start = p
    <3>1. recorded \subseteq Nat /\ recorded # {}
      BY <2>10
    <3>2. Min(recorded) \in recorded
      BY <3>1, MinIs
    <3>. QED BY <2>10, <2>11, <3>2
  <2> HIDE DEF start
  <2>13. x \in MessageType
    <3>1. NoId \in -MaxRows..MaxRows
      BY PromptAssumption DEF NoId
    <3>. QED BY <2>1, <3>1 DEF MessageType
  <2>14. /\ x.role = h[s].role /\ x.stop = h[s].stop /\ x.recorded = h[s].recorded
         /\ x.resume = r /\ x.covers = h[s].covers /\ x.row = m
    BY <2>1 DEF MessageType
  <2> HIDE DEF x, sys
  <2>15. Len(hd) = 2 /\ hd[1] = sys /\ hd[2] = x
    <3>1. /\ <<sys>> \in Seq(MessageType) /\ Len(<<sys>>) = 1 /\ <<sys>>[1] = sys
          /\ <<x>> \in Seq(MessageType) /\ Len(<<x>>) = 1 /\ <<x>>[1] = x
      BY <1>3, <2>13
    <3>2. hd = <<sys>> \o <<x>>
      BY <1>4, <1>6
    <3>. QED BY <3>1, <3>2, ConcatProperties
  <2> HIDE DEF hd
  <2>16. IsSummary(x)
    BY <2>1, <2>14 DEF IsSummary
  <2>17. Told(c, x)
    BY <2>5, <2>14 DEF Told
  <2>18. x.row \in (1..Len(c)) \ x.covers /\ c[x.row].role = "system"
    BY <2>2, <2>3, <2>5, <2>14
  <2>19. Opens(hd, c, Len(hd), r)
    BY <1>3, <2>14, <2>15, <2>16, <2>17, <2>18 DEF Opens
  <2>20. StartsAt(h, start, r)
    <3> SUFFICES ASSUME NEW i \in 1..Len(h)
                 PROVE  p <= i <=> r <= h[i].row
      BY <2>12 DEF StartsAt
    <3>1. h[i].row \in 1..Len(c)
      BY DEF Follows
    <3>2. (i < p => h[i].row < r) /\ (p < i => r < h[i].row)
      BY <2>7 DEF Follows
    <3>. QED BY <2>6, <2>7, <3>1, <3>2
  <2>21. r \in 1..(Len(c) + 1)
    BY <2>6
  <2>22. p \in 1..Len(h) /\ 2 \in 1..2
    OBVIOUS
  <2>. QED BY <2>8, <2>12, <2>15, <2>19, <2>20, <2>21, <2>22 DEF start, hd
<1>. QED BY <1>5, <1>6

LEMMA BuildWhole ==
  ASSUME NEW h, NEW n, Hist(h, n), h # <<>>, NEW c, Len(c) \in Nat, Follows(h, c), Noted(c)
  PROVE  Whole(buildMessages(h), c)
<1> DEFINE start == summaryStartIndex(h)
           hd == Headers(h)
           p == assembleMessages(h, start)
           ov == [i \in 1..Overlays |-> Message("system")]
           ms == p \o ov
<1>1. h \in Seq(MessageType) /\ Len(h) \in Nat
  BY LenProperties DEF Hist
<1>2. /\ start \in 1..Len(h) /\ h[start].role \in {"user", "assistant"} /\ Len(hd) \in 1..2
      /\ \E r \in 1..(Len(c) + 1) : Opens(hd, c, Len(hd), r) /\ StartsAt(h, start, r)
  BY ResumesRight
<1>3. PICK psi : Woven(p, hd, h, start, psi)
  BY <1>2, AssembleWoven
<1>4. ov \in Seq(MessageType) /\ Len(ov) = Overlays /\ \A i \in 1..Overlays : ov[i] = Message("system")
  BY PromptAssumption, SystemMessage
<1>5. buildMessages(h) = IF hasTranscript(p) THEN ms ELSE assembleMessages(h, 1) \o ov
  BY DEF buildMessages
<1> HIDE DEF start, hd, p, ov
<1>6. p \in Seq(MessageType) /\ Len(p) \in Nat /\ DOMAIN p = 1..Len(p) /\ Len(hd) < Len(p)
  BY <1>3, LenProperties DEF Woven
<1>7. hasTranscript(p)
  <2>1. Len(p) \in (Len(hd) + 1)..Len(p) /\ Len(p) \in 1..Len(p)
    BY <1>2, <1>6
  <2>2. p[Len(p)].role # "system"
    BY <1>3, <2>1 DEF Woven
  <2>. QED BY <1>6, <2>1, <2>2 DEF hasTranscript
<1>8. Overlaid(ms, p)
  <2>1. /\ ms \in Seq(MessageType) /\ Len(ms) = Len(p) + Overlays
        /\ \A x \in 1..(Len(p) + Overlays) : ms[x] = IF x <= Len(p) THEN p[x] ELSE ov[x - Len(p)]
    BY <1>4, <1>6, ConcatProperties
  <2> HIDE DEF ms
  <2>2. Overlays \in Nat
    BY PromptAssumption
  <2>3. \A x \in 1..Len(p) : ms[x] = p[x]
    BY <1>6, <2>1, <2>2
  <2>4. ASSUME NEW x \in (Len(p) + 1)..Len(ms)
        PROVE  ms[x] = Message("system")
    <3>1. x - Len(p) \in 1..Overlays /\ ms[x] = ov[x - Len(p)]
      BY <1>6, <2>1, <2>2
    <3>. QED BY <1>4, <3>1
  <2>. QED BY <2>1, <2>3, <2>4 DEF Overlaid
<1>9. Whole(ms, c)
  BY <1>1, <1>2, <1>3, <1>8, WovenWhole
<1>. QED BY <1>5, <1>7, <1>9

-----------------------------------------------------------------------------
(* Every step keeps it so, in the database.                                 *)

LEMMA FollowsSelf ==
  ASSUME NEW c, Len(c) \in Nat, DOMAIN c = 1..Len(c), Rows(c)
  PROVE  Follows(c, c)
<1>1. \A i \in 1..Len(c) : c[i].row = i /\ c[i].id = i
  BY DEF Rows
<1>2. \A i \in 1..Len(c) : c[i].row \in 1..Len(c) /\ CopyOf(c[i], c[c[i].row])
  BY <1>1 DEF CopyOf
<1>. QED BY <1>1, <1>2 DEF Follows

LEMMA CutsItsBody ==
  ASSUME NEW ms \in Seq(MessageType), NEW m \in Nat, Overlays < m, NEW k, Cuts(ms, m, k), k > 1
  PROVE  CutsBody(ms, k)
<1>1. Len(ms) \in Nat /\ Overlays \in Nat
  BY LenProperties, PromptAssumption
<1>. QED BY <1>1 DEF Cuts, CutsBody

LEMMA SavedCuts ==
  ASSUME NEW ms \in Seq(MessageType), Len(conversation) \in Nat, Whole(ms, conversation),
         NEW h \in Seq(MessageType), Follows(h, conversation), NEW k, CutsBody(ms, k), StoreKeepsMetadata
  PROVE  CutSummary(Stored(summaryMessage(h, SubSeq(ms, 2, k), SubSeq(ms, k + 1, Len(ms)), FALSE)),
                    ms, k, conversation)
<1> DEFINE c == conversation
           kept == SubSeq(ms, k + 1, Len(ms))
           prefix == SubSeq(ms, 2, k)
           q == ms[k + 1].row
           m == Stored(summaryMessage(h, prefix, kept, FALSE))
<1>1. PICK hd \in 1..2, r \in 1..(Len(c) + 1) : Opens(ms, c, hd, r) /\ Replays(ms, c, hd, r)
  BY DEF Whole
<1>2. /\ Len(ms) \in Nat /\ k \in 2..Len(ms) /\ k + 1 \in (k + 1)..Len(ms)
      /\ Len(h) \in Nat /\ DOMAIN h = 1..Len(h)
  <2>1. Len(ms) \in Nat /\ Overlays \in Nat /\ Len(h) \in Nat /\ DOMAIN h = 1..Len(h)
    BY LenProperties, PromptAssumption
  <2>. QED BY <2>1 DEF CutsBody
<1>3. /\ q \in 1..Len(c) /\ c[q].role \in {"user", "assistant"} /\ ms[k + 1].id = q
      /\ \A x \in (k + 1)..Len(ms) : ms[x].row = 0 \/ q <= ms[x].row
  BY <1>1, CutAt
<1>4. ToSet(kept) = {ms[x] : x \in (k + 1)..Len(ms)}
  <2>1. k + 1 \in 1..(Len(ms) + 1) /\ Len(ms) \in ((k + 1) - 1)..Len(ms)
    BY <1>2
  <2>. QED BY <2>1, CutElements
<1> HIDE DEF kept, q
<1>5. \E y \in ToSet(kept) : y.id = q
  BY <1>2, <1>3, <1>4
<1>6. ASSUME NEW y \in ToSet(kept)
      PROVE  y.id = NoId \/ (y.id \in Nat /\ q <= y.id)
  <2>1. PICK x \in (k + 1)..Len(ms) : y = ms[x]
    BY <1>4
  <2>2. x \in (hd + 1)..Len(ms)
    BY <1>2
  <2>3. CASE Made(y)
    BY <2>3 DEF Made
  <2>4. CASE Replayed(y, c, r)
    <3>1. y.row \in 1..Len(c) /\ y.id \in {NoId, y.row}
      BY <2>4 DEF Replayed, CopyOf
    <3>. QED BY <1>3, <2>1, <3>1
  <2>. QED BY <1>1, <2>1, <2>2, <2>3, <2>4 DEF Replays, Piece
<1>7. findResumeFromMessageId(h, kept) = q
  BY <1>2, <1>3, <1>5, <1>6, ResumeIs
<1>8. /\ m.role = "system" /\ m.stop = "context_summary" /\ m.row = Len(c) + 1 /\ m.recorded
      /\ m.resume = findResumeFromMessageId(h, kept) /\ m.covers = Read(prefix, FALSE)
  BY DEF Stored, summaryMessage, Message
<1>. QED BY <1>7, <1>8 DEF CutSummary, IsSummary, kept, q

(* What the conversation keeps when such a summary is saved.                *)
LEMMA SummaryNoted ==
  ASSUME NEW c \in Seq(MessageType), Noted(c), NEW ms \in Seq(MessageType), Whole(ms, c),
         NEW k, CutsBody(ms, k), NEW m \in MessageType, CutSummary(m, ms, k, c),
         NEW g, g = Append(c, m)
  PROVE  Noted(g) /\ \A h : Follows(h, c) => Follows(h, g)
<1>1. m.role = "system"
  BY DEF CutSummary, IsSummary
<1>2. Told(g, m) /\ Len(c) + 1 \notin m.covers
  BY CutTold
<1>3. Noted(g)
  BY <1>1, <1>2, NotedAppend
<1>4. ASSUME NEW h, Follows(h, c)
      PROVE  Follows(h, g)
  BY <1>1, <1>4, FollowsSummary
<1>. QED BY <1>3, <1>4

(* What a run saves of itself: a message that covers nothing.               *)
LEMMA SavedNoted ==
  ASSUME NEW c \in Seq(MessageType), Noted(c), NEW m \in MessageType,
         m.role # "system", m.covers = {}, NEW g, g = Append(c, m)
  PROVE  Noted(g)
BY NotedAppend

LEMMA KeepFacts ==
  ASSUME PromptInv
  PROVE  /\ conversation \in Seq(MessageType) /\ history \in Seq(MessageType)
         /\ prompt \in Seq(MessageType)
         /\ Len(conversation) \in Nat /\ DOMAIN conversation = 1..Len(conversation)
         /\ Follows(conversation, conversation)
         /\ Hist(conversation, Len(conversation)) /\ Hist(history, Len(conversation))
         /\ phase # "idle" => history # <<>>
<1>1. /\ conversation \in Seq(MessageType) /\ history \in Seq(MessageType)
      /\ prompt \in Seq(MessageType)
      /\ Len(conversation) \in Nat /\ DOMAIN conversation = 1..Len(conversation)
  BY InvFacts, LenProperties
<1>2. Rows(conversation)
  BY DEF PromptInv, TypeOK, Rows
<1>3. Follows(conversation, conversation)
  BY <1>1, <1>2, FollowsSelf
<1>. QED BY <1>1, <1>3 DEF PromptInv

LEMMA InitKeep ==
  ASSUME Init
  PROVE  KeepInv
<1>1. conversation = <<>> /\ phase = "idle"
  BY DEF Init
<1>2. Len(<<>>) = 0
  OBVIOUS
<1>. QED BY <1>1, <1>2 DEF KeepInv, Noted

LEMMA StartRunKeep ==
  ASSUME PromptInv, KeepInv, StartRun, PromptInv'
  PROVE  KeepInv'
<1> DEFINE u == Message("user")
           m == Stored(u)
<1>1. conversation' = Append(conversation, m) /\ history' = conversation' /\ phase' = "top" /\ HasRoom
  BY DEF StartRun
<1>2. u \in MessageType /\ u.role = "user"
  BY PlainMessage
<1>3. m.role = "user" /\ m.covers = {}
  BY DEF Stored, Message
<1> HIDE DEF u
<1>4. m \in MessageType
  BY <1>1, <1>2, KeepFacts, StoredIs DEF Row
<1> HIDE DEF m
<1>5. Noted(conversation')
  BY <1>1, <1>3, <1>4, KeepFacts, SavedNoted DEF KeepInv
<1>6. Follows(history', conversation')
  <2>1. conversation' \in Seq(MessageType) /\ Rows(conversation')
    BY DEF PromptInv, TypeOK, Rows, Hist
  <2>2. Len(conversation') \in Nat /\ DOMAIN (conversation') = 1..Len(conversation')
    BY <2>1, LenProperties
  <2>. QED BY <1>1, <2>1, <2>2, FollowsSelf
<1>. QED BY <1>1, <1>5, <1>6 DEF KeepInv

LEMMA BuildPromptKeep ==
  ASSUME PromptInv, KeepInv, BuildPrompt
  PROVE  KeepInv'
<1>1. /\ phase = "top" /\ phase' = "sent" /\ prompt' = buildMessages(history)
      /\ conversation' = conversation /\ history' = history
  BY DEF BuildPrompt
<1>2. Noted(conversation) /\ Follows(history, conversation)
  BY <1>1 DEF KeepInv
<1>3. Whole(buildMessages(history), conversation)
  BY <1>1, <1>2, KeepFacts, BuildWhole
<1>. QED BY <1>1, <1>2, <1>3 DEF KeepInv

LEMMA BuildCompressedPromptKeep ==
  ASSUME PromptInv, KeepInv, BuildCompressedPrompt, ~MayDegrade, StoreKeepsMetadata
  PROVE  KeepInv'
<1> DEFINE ms == buildMessages(history)
<1>1. phase = "top" /\ HasRoom /\ phase' = "sent" /\ history' = history
  BY DEF BuildCompressedPrompt
<1>2. PICK k \in computeKeepBoundary(ms, KeepRound, TRUE), degraded \in Degradations :
         /\ k > 1
         /\ conversation' = Append(conversation, compressContext(ms, k, degraded).saved)
         /\ prompt' = compressContext(ms, k, degraded).messages
  BY DEF BuildCompressedPrompt
<1>3. degraded = FALSE
  BY DEF Degradations
<1>4. Noted(conversation) /\ Follows(history, conversation)
  BY <1>1 DEF KeepInv
<1>5. Built(ms) /\ Whole(ms, conversation)
  BY <1>1, <1>4, KeepFacts, BuildIs, BuildWhole
<1> HIDE DEF ms
<1>6. ms \in Seq(MessageType) /\ ms # <<>>
  BY <1>5, BuiltHasTranscript DEF Built
<1>7. KeepRound \in Nat \ {0} /\ Overlays < KeepRound
  BY PromptAssumption
<1>8. Cuts(ms, KeepRound, k)
  BY <1>6, <1>7, BoundaryIs
<1>9. CutsBody(ms, k)
  BY <1>2, <1>6, <1>7, <1>8, CutsItsBody
<1> DEFINE r == compressContext(ms, k, FALSE)
           m == r.saved
           q == r.messages
<1>10. Summary(m) /\ Shortened(q, ms, k, m)
  BY <1>1, <1>2, <1>5, <1>8, KeepFacts, CompressIs
<1>11. CutSummary(m, ms, k, conversation)
  <2>1. m = Stored(summaryMessage(history, SubSeq(ms, 2, k), SubSeq(ms, k + 1, Len(ms)), FALSE))
    BY DEF compressContext
  <2> HIDE DEF m
  <2>. QED BY <1>4, <1>5, <1>6, <1>9, <2>1, KeepFacts, SavedCuts
<1>12. conversation' = Append(conversation, m) /\ prompt' = q
  BY <1>2, <1>3
<1> HIDE DEF m, q, r
<1>13. m \in MessageType
  BY <1>10 DEF Summary, Row
<1>14. Noted(conversation') /\ Follows(history, conversation')
  BY <1>4, <1>5, <1>6, <1>9, <1>11, <1>12, <1>13, KeepFacts, SummaryNoted
<1>15. Whole(q, conversation')
  BY <1>5, <1>6, <1>9, <1>10, <1>11, <1>12, <1>13, KeepFacts, ShortenedWhole
<1>. QED BY <1>1, <1>12, <1>14, <1>15 DEF KeepInv

LEMMA ContextLengthErrorKeep ==
  ASSUME PromptInv, KeepInv, ContextLengthError, ~MayDegrade, StoreKeepsMetadata
  PROVE  KeepInv'
<1>1. phase = "sent" /\ phase' = "top" /\ history' = history
  BY DEF ContextLengthError
<1>2. Noted(conversation) /\ Follows(history, conversation) /\ Whole(prompt, conversation)
  BY <1>1 DEF KeepInv
<1>3. CASE conversation' = conversation
  BY <1>1, <1>2, <1>3 DEF KeepInv
<1>4. CASE HasRoom /\ \E k \in computeKeepBoundary(prompt, KeepRetry, TRUE),
                         degraded \in Degradations :
                         /\ k > 1
                         /\ conversation' = Append(conversation,
                                                   compressContext(prompt, k, degraded).saved)
  <2>1. PICK k \in computeKeepBoundary(prompt, KeepRetry, TRUE), degraded \in Degradations :
                k > 1 /\ conversation' = Append(conversation,
                                                compressContext(prompt, k, degraded).saved)
    BY <1>4
  <2>2. degraded = FALSE
    BY DEF Degradations
  <2>3. prompt \in Seq(MessageType) /\ prompt # <<>> /\ Len(prompt) \in Nat
    <3>1. prompt \in Seq(MessageType) /\ hasTranscript(prompt)
      BY <1>1 DEF PromptInv
    <3>. QED BY <3>1, LenProperties DEF hasTranscript
  <2>4. KeepRetry \in Nat \ {0} /\ Overlays < KeepRetry
    BY PromptAssumption
  <2>5. Cuts(prompt, KeepRetry, k)
    BY <2>3, <2>4, BoundaryIs
  <2>6. CutsBody(prompt, k)
    BY <2>1, <2>3, <2>4, <2>5, CutsItsBody
  <2> DEFINE m == Stored(summaryMessage(history, SubSeq(prompt, 2, k),
                                        SubSeq(prompt, k + 1, Len(prompt)), FALSE))
  <2>7. conversation' = Append(conversation, m)
    BY <2>1, <2>2 DEF compressContext
  <2>8. CutSummary(m, prompt, k, conversation)
    BY <1>2, <2>3, <2>6, KeepFacts, SavedCuts
  <2>9. m \in MessageType
    <3>1. k \in 1..Len(prompt)
      BY <2>5 DEF Cuts
    <3>. QED BY <1>4, <2>3, <3>1, KeepFacts, SavedIs DEF Summary, Row
  <2> HIDE DEF m
  <2>10. Noted(conversation') /\ Follows(history, conversation')
    BY <1>2, <2>3, <2>6, <2>7, <2>8, <2>9, KeepFacts, SummaryNoted
  <2>. QED BY <1>1, <2>10 DEF KeepInv
<1>. QED BY <1>3, <1>4 DEF ContextLengthError

LEMMA RespondKeep ==
  ASSUME PromptInv, KeepInv, NEW calls \in 0..MaxCalls, NEW stop \in {"tool_calls", "stop"},
         Respond(calls, stop), StoreKeepsIds
  PROVE  KeepInv'
<1> DEFINE answer == [Message("assistant") EXCEPT !.calls = calls, !.stop = stop]
           m == Stored(answer)
<1>1. /\ phase = "sent" /\ HasRoom /\ conversation' = Append(conversation, m)
      /\ history' = Append(history, m) /\ phase' # "sent"
  BY DEF Respond
<1>2. answer \in MessageType /\ answer.role = "assistant"
  <2>1. Message("assistant") \in MessageType /\ Message("assistant").role = "assistant"
    BY PlainMessage
  <2>. QED BY <2>1 DEF MessageType
<1>3. m.role = "assistant" /\ m.covers = {}
  BY DEF Stored, Message
<1> HIDE DEF answer
<1>4. m \in MessageType /\ m.row = Len(conversation) + 1 /\ m.id = m.row
  BY <1>1, <1>2, KeepFacts, StoredIs DEF Row
<1> HIDE DEF m
<1>5. Noted(conversation) /\ Follows(history, conversation)
  BY <1>1 DEF KeepInv
<1>6. Noted(conversation')
  BY <1>1, <1>3, <1>4, <1>5, KeepFacts, SavedNoted
<1>7. CopyOf(m, m)
  BY <1>4 DEF CopyOf
<1>8. Follows(history', conversation')
  BY <1>1, <1>4, <1>5, <1>7, KeepFacts, FollowsBoth
<1>. QED BY <1>1, <1>6, <1>8 DEF KeepInv

LEMMA ToolResultKeep ==
  ASSUME PromptInv, KeepInv, NEW c \in pending, ToolResult(c)
  PROVE  KeepInv'
<1> DEFINE result == [Message("tool") EXCEPT !.call = c]
           m == Stored(result)
           x == [m EXCEPT !.id = NoId]
<1>1. /\ phase = "tools" /\ HasRoom /\ conversation' = Append(conversation, m)
      /\ history' = Append(history, x) /\ phase' = phase
  BY DEF ToolResult
<1>2. result \in MessageType /\ result.role = "tool"
  <2>1. MaxRows \in Nat /\ MaxCalls \in Nat
    BY PromptAssumption
  <2>2. c \in CallPairs
    BY <2>1 DEF PromptInv, TypeOK, CallPairs
  <2>. QED BY <2>2, SyntheticMessage
<1>3. m.role = "tool" /\ m.covers = {}
  BY DEF Stored, Message
<1> HIDE DEF result
<1>4. m \in MessageType /\ m.row = Len(conversation) + 1
  BY <1>1, <1>2, KeepFacts, StoredIs DEF Row
<1> HIDE DEF m
<1>5. Noted(conversation) /\ Follows(history, conversation)
  BY <1>1 DEF KeepInv
<1>6. Noted(conversation')
  BY <1>1, <1>3, <1>4, <1>5, KeepFacts, SavedNoted
<1>7. x \in MessageType /\ x.row = m.row /\ CopyOf(x, m)
  <2>1. NoId \in -MaxRows..MaxRows
    BY PromptAssumption DEF NoId
  <2>. QED BY <1>3, <1>4, <2>1 DEF MessageType, CopyOf
<1> HIDE DEF x
<1>8. Follows(history', conversation')
  BY <1>1, <1>4, <1>5, <1>7, KeepFacts, FollowsBoth
<1>. QED BY <1>1, <1>6, <1>8 DEF KeepInv

LEMMA CompactConversationKeep ==
  ASSUME PromptInv, KeepInv, CompactConversation, ~MayDegrade, StoreKeepsMetadata, Overlays < KeepTool
  PROVE  KeepInv'
<1> DEFINE ms == buildMessages(conversation)
<1>1. /\ conversation # <<>> /\ HasRoom /\ phase # "sent"
      /\ history' = history /\ phase' = phase
  BY DEF CompactConversation
<1>2. PICK k \in computeKeepBoundary(ms, KeepTool, FALSE), degraded \in Degradations :
         /\ k > 1
         /\ conversation' = Append(conversation,
               Stored(summaryMessage(conversation, SubSeq(ms, 2, k),
                                     SubSeq(ms, k + 1, Len(ms)), degraded)))
  BY DEF CompactConversation
<1>3. degraded = FALSE
  BY DEF Degradations
<1>4. Noted(conversation) /\ (phase # "idle" => Follows(history, conversation))
  BY DEF KeepInv
<1>5. Built(ms) /\ Whole(ms, conversation)
  BY <1>1, <1>4, KeepFacts, BuildIs, BuildWhole
<1> HIDE DEF ms
<1>6. ms \in Seq(MessageType) /\ ms # <<>>
  BY <1>5, BuiltHasTranscript DEF Built
<1>7. KeepTool \in Nat \ {0}
  BY PromptAssumption
<1>8. Cuts(ms, KeepTool, k)
  BY <1>6, <1>7, BoundaryIs
<1>9. CutsBody(ms, k)
  BY <1>2, <1>6, <1>7, <1>8, CutsItsBody
<1> DEFINE m == Stored(summaryMessage(conversation, SubSeq(ms, 2, k),
                                      SubSeq(ms, k + 1, Len(ms)), FALSE))
<1>10. conversation' = Append(conversation, m)
  BY <1>2, <1>3
<1>11. CutSummary(m, ms, k, conversation)
  BY <1>5, <1>6, <1>9, KeepFacts, SavedCuts
<1>12. m \in MessageType
  <2>1. k \in 1..Len(ms)
    BY <1>8 DEF Cuts
  <2>. QED BY <1>1, <1>6, <2>1, KeepFacts, SavedIs DEF Summary, Row
<1> HIDE DEF m
<1>13. Noted(conversation') /\ (phase # "idle" => Follows(history, conversation'))
  BY <1>4, <1>5, <1>6, <1>9, <1>10, <1>11, <1>12, KeepFacts, SummaryNoted
<1>. QED BY <1>1, <1>13 DEF KeepInv

LEMMA NextKeep ==
  ASSUME StoreKeepsIds, StoreKeepsMetadata, ~MayDegrade, ~MidRun, Overlays < KeepTool,
         PromptInv, KeepInv, [Next]_vars, PromptInv'
  PROVE  KeepInv'
<1>1. CASE StartRun
  BY <1>1, StartRunKeep
<1>2. CASE MidRunMessage
  BY <1>2 DEF MidRunMessage
<1>3. CASE BuildPrompt
  BY <1>3, BuildPromptKeep
<1>4. CASE BuildCompressedPrompt
  BY <1>4, BuildCompressedPromptKeep
<1>5. CASE ContextLengthError
  BY <1>5, ContextLengthErrorKeep
<1>6. ASSUME NEW calls \in 0..MaxCalls, NEW stop \in {"tool_calls", "stop"}, Respond(calls, stop)
      PROVE  KeepInv'
  BY <1>6, RespondKeep
<1>7. ASSUME NEW c \in pending, ToolResult(c)
      PROVE  KeepInv'
  BY <1>7, ToolResultKeep
<1>8. CASE EndRound
  <2>1. /\ phase = "tools" /\ phase' = "top"
        /\ conversation' = conversation /\ history' = history
    BY <1>8 DEF EndRound
  <2>. QED BY <2>1 DEF KeepInv
<1>9. CASE EndRun
  <2>1. phase' = "idle" /\ conversation' = conversation
    BY <1>9 DEF EndRun
  <2>. QED BY <2>1 DEF KeepInv
<1>10. CASE CompactConversation
  BY <1>10, CompactConversationKeep
<1>11. CASE UNCHANGED vars
  <2>1. /\ phase' = phase /\ conversation' = conversation
        /\ history' = history /\ prompt' = prompt
    BY <1>11 DEF vars
  <2>. QED BY <2>1 DEF KeepInv
<1>12. CASE AtBound
  BY <1>11, <1>12 DEF AtBound
<1>. QED
  BY <1>1, <1>2, <1>3, <1>4, <1>5, <1>6, <1>7, <1>8, <1>9, <1>10, <1>11, <1>12 DEF Next

-----------------------------------------------------------------------------
(* What follows for every conversation.                                     *)

(* The variables keep their types: a stored message sits at its own row, a  *)
(* run has stored everything its history holds, and what the repairs and    *)
(* the compaction of internal/runners build are messages.                   *)
THEOREM PromptTypeOK == Spec => []TypeOK
<1>1. PromptInv => TypeOK
  BY DEF PromptInv
<1>. QED BY <1>1, PromptInvariant, PTL

(* Providers reject a request with a tool call without its result or a      *)
(* result without its call.  Whatever was interrupted, cut off or compacted,*)
(* buildMessages and compressContext send none.                             *)
THEOREM PromptsPaired == Spec => []PromptPaired
<1>1. PromptInv => PromptPaired
  BY PairedPrompt DEF PromptInv
<1>. QED BY <1>1, PromptInvariant, PTL

(* Every request has something to answer, wherever the transcript resumes   *)
(* and however much compaction cuts: buildMessages falls back to the whole  *)
(* history, and the kept tail is longer than what is appended to it.        *)
THEOREM PromptsAnswerable == Spec => []PromptAnswerable
<1>1. PromptInv => PromptAnswerable
  BY DEF PromptInv, PromptAnswerable
<1>. QED BY <1>1, PromptInvariant, PTL

(* In a store that keeps identifiers and metadata, as the database does, as *)
(* long as no user message arrives during a run, the summarizer does not    *)
(* fall back to a few recent turns and CompactConversation keeps more       *)
(* messages than are overlays: every message of the history is in every     *)
(* request, verbatim or in the one summary that has read it, and what a     *)
(* summary stands for is not replayed, however often internal/runners       *)
(* compacts.                                                                *)
THEOREM CompactionKeepsAll ==
  ASSUME StoreKeepsIds, StoreKeepsMetadata, ~MayDegrade, ~MidRun, Overlays < KeepTool
  PROVE  Spec => []CompactionKeeps
<1>1. Init => KeepInv
  BY InitKeep
<1>2. PromptInv /\ PromptInv' /\ KeepInv /\ [Next]_vars => KeepInv'
  BY NextKeep
<1>3. PromptInv /\ KeepInv => CompactionKeeps
  BY KeepsCompaction DEF CompactionKeeps
<1>. QED BY <1>1, <1>2, <1>3, PromptInvariant, PTL DEF Spec

=============================================================================
