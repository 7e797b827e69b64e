------------------------------ MODULE SumsProofs ------------------------------
(***************************************************************************)
(* What a console client's items account for and what the dictionary's      *)
(* lines fill: sums over sequences, and the theorems of Console and         *)
(* DictKeeper that rest on them.                                            *)
(***************************************************************************)
EXTENDS Console, DictKeeper, SequenceTheorems, WellFoundedInduction, TLAPS

-----------------------------------------------------------------------------
(* Sums over sequences.  What Total adds up is defined by what comes before; *)
(* of the places where a law fails there would be a first.                   *)

\* Of numbers there is a least.
LEMMA Least ==
    ASSUME NEW T, T \subseteq Nat, T # {}
    PROVE  \E x \in T : \A y \in T : x <= y
<1>1. PICK x \in T : \A y \in T : ~(<<y, x>> \in OpToRel(<, Nat))
  BY NatLessThanWellFounded, WFMin
<1>2. \A y \in T : ~(y < x)
  BY <1>1 DEF OpToRel
<1> QED BY <1>2

\* f gives every place of w, up to n, the sum so far.
IsUpTo(f, w, n) == f = [i \in 0 .. n |-> IF i = 0 THEN 0 ELSE f[i - 1] + w[i]]

UpTo(w) == CHOOSE f : IsUpTo(f, w, Len(w))

LEMMA TotalIs == ASSUME NEW w PROVE Total(w) = UpTo(w)[Len(w)]
BY Zenon DEF Total, UpTo, IsUpTo

\* There is one, however long the sequence.
LEMMA UpToExists ==
    ASSUME NEW w, NEW n \in Nat
    PROVE  \E f : IsUpTo(f, w, n)
<1> DEFINE bad == {k \in Nat : ~ \E f : IsUpTo(f, w, k)}
<1>1. SUFFICES ASSUME bad # {} PROVE FALSE
  OBVIOUS
<1>2. PICK k \in bad : \A j \in bad : k <= j
  <2>1. bad \subseteq Nat
    OBVIOUS
  <2> HIDE DEF bad
  <2> QED BY <1>1, <2>1, Least
<1>3. CASE k = 0
  <2>1. IsUpTo([i \in 0 .. 0 |-> 0], w, 0)
    BY DEF IsUpTo
  <2> QED BY <1>3, <2>1
<1>4. CASE k # 0
  <2>1. k - 1 \in Nat /\ k \in Nat /\ k - 1 \notin bad
    BY <1>2, <1>4
  <2>2. PICK f : IsUpTo(f, w, k - 1)
    BY <2>1
  <2> DEFINE g == [i \in 0 .. k |-> IF i = k THEN f[k - 1] + w[k] ELSE f[i]]
  <2>3. \A i \in 0 .. k - 1 : f[i] = IF i = 0 THEN 0 ELSE f[i - 1] + w[i]
    BY <2>2 DEF IsUpTo
  <2>4. \A i \in 0 .. k : g[i] = IF i = 0 THEN 0 ELSE g[i - 1] + w[i]
    BY <1>4, <2>1, <2>3
  <2>5. IsUpTo(g, w, k)
    <3>1. g = [i \in 0 .. k |-> g[i]]
      OBVIOUS
    <3> HIDE DEF g
    <3> QED BY <2>4, <3>1 DEF IsUpTo
  <2> QED BY <2>5
<1> QED BY <1>3, <1>4

LEMMA UpToUnfolds ==
    ASSUME NEW w \in Seq(Nat)
    PROVE  /\ UpTo(w)[0] = 0
           /\ \A i \in 1 .. Len(w) : UpTo(w)[i] = UpTo(w)[i - 1] + w[i]
<1>1. Len(w) \in Nat
  OBVIOUS
<1>2. \E f : IsUpTo(f, w, Len(w))
  BY <1>1, UpToExists
<1>3. IsUpTo(UpTo(w), w, Len(w))
  BY <1>2, Zenon DEF UpTo
<1> HIDE DEF UpTo
<1> QED BY <1>1, <1>3 DEF IsUpTo

LEMMA UpToType ==
    ASSUME NEW w \in Seq(Nat)
    PROVE  \A i \in 0 .. Len(w) : UpTo(w)[i] \in Nat
<1> DEFINE bad == {i \in 0 .. Len(w) : UpTo(w)[i] \notin Nat}
<1>0. Len(w) \in Nat /\ \A i \in 1 .. Len(w) : w[i] \in Nat
  OBVIOUS
<1>1. SUFFICES ASSUME bad # {} PROVE FALSE
  OBVIOUS
<1>2. PICK k \in bad : \A j \in bad : k <= j
  <2>1. bad \subseteq Nat
    BY <1>0
  <2> HIDE DEF bad
  <2> QED BY <1>1, <2>1, Least
<1>3. k # 0
  BY UpToUnfolds
<1>4. k - 1 \in 0 .. Len(w) /\ k - 1 \notin bad /\ k \in 1 .. Len(w)
  BY <1>0, <1>2, <1>3
<1>5. UpTo(w)[k - 1] \in Nat
  BY <1>4
<1>6. UpTo(w)[k] = UpTo(w)[k - 1] + w[k]
  BY <1>4, UpToUnfolds
<1> QED BY <1>0, <1>4, <1>5, <1>6

\* What stands in w from the r-th place on adds up as it does by itself.
IsPart(w, r, v) ==
    /\ r \in Nat /\ r + Len(v) <= Len(w)
    /\ \A i \in 1 .. Len(v) : w[r + i] = v[i]

LEMMA UpToShifted ==
    ASSUME NEW w \in Seq(Nat), NEW v \in Seq(Nat), NEW r, IsPart(w, r, v)
    PROVE  \A k \in 0 .. Len(v) : UpTo(w)[r + k] = UpTo(w)[r] + UpTo(v)[k]
<1> DEFINE bad == {k \in 0 .. Len(v) : UpTo(w)[r + k] # UpTo(w)[r] + UpTo(v)[k]}
<1>0. /\ Len(w) \in Nat /\ Len(v) \in Nat /\ r \in Nat /\ r + Len(v) <= Len(w)
      /\ \A i \in 1 .. Len(v) : v[i] \in Nat
  <2>1. \A i \in 1 .. Len(v) : v[i] \in Nat
    BY ElementOfSeq
  <2> QED BY <2>1, LenProperties DEF IsPart
<1>1. SUFFICES ASSUME bad # {} PROVE FALSE
  BY <1>0
<1>2. PICK k \in bad : \A j \in bad : k <= j
  <2>1. bad \subseteq Nat
    BY <1>0
  <2> HIDE DEF bad
  <2> QED BY <1>1, <2>1, Least
<1>3. UpTo(w)[r] \in Nat /\ UpTo(v)[0] = 0
  <2>1. r \in 0 .. Len(w)
    BY <1>0
  <2> QED BY <2>1, UpToType, UpToUnfolds
<1>11. k \in 0 .. Len(v) /\ UpTo(w)[r + k] # UpTo(w)[r] + UpTo(v)[k]
  BY <1>2
<1>12. \A j \in 0 .. Len(v) : j < k => UpTo(w)[r + j] = UpTo(w)[r] + UpTo(v)[j]
  <2> SUFFICES ASSUME NEW j \in 0 .. Len(v), j < k, j \in bad PROVE FALSE
    OBVIOUS
  <2>1. k <= j
    BY <1>2
  <2> HIDE DEF bad
  <2> QED BY <1>0, <1>11, <2>1
<1>4. k # 0
  <2>1. r + 0 = r /\ UpTo(w)[r] + UpTo(v)[0] = UpTo(w)[r]
    BY <1>0, <1>3
  <2> QED BY <1>11, <2>1
<1> HIDE DEF bad
<1>5. k \in 1 .. Len(v) /\ k - 1 \in 0 .. Len(v) /\ k - 1 < k
  BY <1>0, <1>4, <1>11
<1>6. UpTo(w)[r + (k - 1)] = UpTo(w)[r] + UpTo(v)[k - 1]
  BY <1>5, <1>12
<1>7. r + k \in 1 .. Len(w) /\ (r + k) - 1 = r + (k - 1)
  BY <1>0, <1>5
<1>8. UpTo(w)[r + k] = UpTo(w)[r + (k - 1)] + w[r + k]
  BY <1>7, UpToUnfolds
<1>9. UpTo(v)[k] = UpTo(v)[k - 1] + v[k] /\ UpTo(v)[k - 1] \in Nat
  BY <1>5, UpToUnfolds, UpToType
<1>10. w[r + k] = v[k] /\ v[k] \in Nat
  BY <1>0, <1>5 DEF IsPart
<1> QED BY ONLY <1>3, <1>6, <1>8, <1>9, <1>10, <1>11, SMTT(30)

\* The laws of Total that the rest uses.
LEMMA TotalType == ASSUME NEW w \in Seq(Nat) PROVE Total(w) \in Nat
<1>1. Len(w) \in Nat
  OBVIOUS
<1> QED BY <1>1, TotalIs, UpToType

LEMMA TotalNone == ASSUME NEW w \in Seq(Nat), Len(w) = 0 PROVE Total(w) = 0
BY TotalIs, UpToUnfolds

LEMMA TotalOne == ASSUME NEW w \in Seq(Nat), Len(w) = 1 PROVE Total(w) = w[1]
<1>1. Total(w) = UpTo(w)[1]
  BY TotalIs
<1>2. UpTo(w)[0] = 0 /\ 1 \in 1 .. Len(w) /\ 1 - 1 = 0 /\ w[1] \in Nat
  BY UpToUnfolds, SMTT(30)
<1>3. UpTo(w)[1] = UpTo(w)[1 - 1] + w[1]
  BY <1>2, UpToUnfolds
<1> QED BY <1>1, <1>2, <1>3

\* A sequence in two parts.
LEMMA TotalParts ==
    ASSUME NEW w \in Seq(Nat), NEW u \in Seq(Nat), NEW v \in Seq(Nat),
           Len(w) = Len(u) + Len(v), IsPart(w, 0, u), IsPart(w, Len(u), v)
    PROVE  Total(w) = Total(u) + Total(v)
<1>0. Len(u) \in Nat /\ Len(v) \in Nat /\ Len(w) \in Nat
  BY LenProperties
<1>1. UpTo(w)[Len(u)] = UpTo(u)[Len(u)]
  <2>1. UpTo(w)[0 + Len(u)] = UpTo(w)[0] + UpTo(u)[Len(u)]
    <3>1. Len(u) \in 0 .. Len(u)
      BY <1>0
    <3>2. \A k \in 0 .. Len(u) : UpTo(w)[0 + k] = UpTo(w)[0] + UpTo(u)[k]
      BY UpToShifted
    <3> QED BY <3>1, <3>2
  <2>2. UpTo(w)[0] = 0 /\ UpTo(u)[Len(u)] \in Nat /\ 0 + Len(u) = Len(u)
    BY <1>0, UpToUnfolds, UpToType
  <2> QED BY <2>1, <2>2
<1>2. UpTo(w)[Len(u) + Len(v)] = UpTo(w)[Len(u)] + UpTo(v)[Len(v)]
  <2>1. Len(v) \in 0 .. Len(v)
    BY <1>0
  <2>2. \A k \in 0 .. Len(v) : UpTo(w)[Len(u) + k] = UpTo(w)[Len(u)] + UpTo(v)[k]
    BY UpToShifted
  <2> QED BY <2>1, <2>2
<1> QED BY <1>1, <1>2, TotalIs

\* As many ones are as many.
LEMMA UpToOnes ==
    ASSUME NEW w \in Seq(Nat), \A i \in 1 .. Len(w) : w[i] = 1
    PROVE  \A k \in 0 .. Len(w) : UpTo(w)[k] = k
<1> DEFINE bad == {k \in 0 .. Len(w) : UpTo(w)[k] # k}
<1>0. Len(w) \in Nat
  BY LenProperties
<1>1. SUFFICES ASSUME bad # {} PROVE FALSE
  OBVIOUS
<1>2. PICK k \in bad : \A j \in bad : k <= j
  <2>1. bad \subseteq Nat
    BY <1>0
  <2> HIDE DEF bad
  <2> QED BY <1>1, <2>1, Least
<1>3. k # 0
  BY UpToUnfolds
<1>4. k \in 1 .. Len(w) /\ UpTo(w)[k - 1] = k - 1
  BY <1>0, <1>2, <1>3
<1>5. UpTo(w)[k] = (k - 1) + w[k]
  BY <1>4, UpToUnfolds
<1> QED BY <1>2, <1>4, <1>5

\* Where every part is positive the sums ascend.
LEMMA UpToAscends ==
    ASSUME NEW w \in Seq(Nat), \A i \in 1 .. Len(w) : w[i] > 0,
           NEW j \in 0 .. Len(w), NEW k \in 0 .. Len(w), j < k
    PROVE  UpTo(w)[j] < UpTo(w)[k]
<1> DEFINE bad == {i \in j + 1 .. k : ~(UpTo(w)[j] < UpTo(w)[i])}
<1>0. Len(w) \in Nat /\ j \in Nat /\ k \in Nat /\ k <= Len(w) /\ k \in j + 1 .. k
  BY LenProperties
<1>1. SUFFICES ASSUME bad # {} PROVE FALSE
  BY <1>0
<1>2. PICK i \in bad : \A h \in bad : i <= h
  <2>1. bad \subseteq Nat
    BY <1>0
  <2> HIDE DEF bad
  <2> QED BY <1>1, <2>1, Least
<1>3. i \in 1 .. Len(w) /\ i - 1 \in 0 .. Len(w) /\ (i - 1 = j \/ i - 1 \in j + 1 .. k) /\ i - 1 < i
  BY <1>0, <1>2
<1>4. UpTo(w)[i] = UpTo(w)[i - 1] + w[i]
  BY <1>3, UpToUnfolds
<1>5. UpTo(w)[j] \in Nat /\ UpTo(w)[i - 1] \in Nat /\ w[i] \in Nat /\ w[i] > 0
  BY <1>3, UpToType, ElementOfSeq
<1>6. UpTo(w)[j] <= UpTo(w)[i - 1]
  <2>1. CASE i - 1 = j
    BY <1>5, <2>1
  <2>2. CASE i - 1 \in j + 1 .. k
    <3>1. i - 1 \notin bad /\ i \in Nat
      BY <1>0, <1>2, <1>3
    <3> QED BY <1>5, <2>2, <3>1
  <2> QED BY <1>3, <2>1, <2>2
<1>7. ~(UpTo(w)[j] < UpTo(w)[i])
  BY <1>2
<1> HIDE DEF bad
<1> QED BY <1>4, <1>5, <1>6, <1>7

-----------------------------------------------------------------------------
(* Sequences cut and joined.                                                 *)

LEMMA Cut ==
    ASSUME NEW S, NEW v \in Seq(S), NEW m \in 0 .. Len(v), NEW n \in m .. Len(v)
    PROVE  /\ SubSeq(v, m + 1, n) \in Seq(S) /\ Len(SubSeq(v, m + 1, n)) = n - m
           /\ \A i \in 1 .. n - m : SubSeq(v, m + 1, n)[i] = v[m + i]
<1>0. Len(v) \in Nat /\ m \in Nat /\ n \in Nat /\ m <= n /\ n <= Len(v)
  BY LenProperties
<1>1. (\A i \in m + 1 .. n : v[i] \in S) /\ m + 1 \in Int /\ n \in Int
  BY <1>0, ElementOfSeq
<1>2. SubSeq(v, m + 1, n) \in Seq(S)
  BY ONLY <1>1, SubSeqProperties
<1>3. Len(SubSeq(v, m + 1, n)) = (IF m + 1 <= n THEN n - (m + 1) + 1 ELSE 0)
  BY ONLY <1>1, SubSeqProperties
<1>4. \A i \in 1 .. n - (m + 1) + 1 : SubSeq(v, m + 1, n)[i] = v[(m + 1) + i - 1]
  BY ONLY <1>1, SubSeqProperties
<1>5. \A i \in 1 .. n - m : (m + 1) + i - 1 = m + i /\ i \in 1 .. n - (m + 1) + 1
  BY <1>0
<1> QED BY <1>0, <1>2, <1>3, <1>4, <1>5

LEMMA Joined ==
    ASSUME NEW S, NEW u \in Seq(S), NEW v \in Seq(S)
    PROVE  /\ u \o v \in Seq(S) /\ Len(u \o v) = Len(u) + Len(v)
           /\ Len(u) \in Nat /\ Len(v) \in Nat
           /\ \A i \in 1 .. Len(u) : (u \o v)[i] = u[i]
           /\ \A i \in 1 .. Len(v) : (u \o v)[Len(u) + i] = v[i]
<1>0. Len(u) \in Nat /\ Len(v) \in Nat
  BY LenProperties
<1>1. u \o v \in Seq(S) /\ Len(u \o v) = Len(u) + Len(v)
  BY ConcatProperties
<1>2. \A i \in 1 .. Len(u) + Len(v) : (u \o v)[i] = IF i <= Len(u) THEN u[i] ELSE v[i - Len(u)]
  BY ConcatProperties
<1>3. \A i \in 1 .. Len(u) : (u \o v)[i] = u[i]
  BY <1>0, <1>2
<1>4. ASSUME NEW i \in 1 .. Len(v) PROVE (u \o v)[Len(u) + i] = v[i]
  <2>1. Len(u) + i \in 1 .. Len(u) + Len(v) /\ ~(Len(u) + i <= Len(u)) /\ (Len(u) + i) - Len(u) = i
    BY <1>0
  <2> QED BY <1>2, <2>1
<1> QED BY <1>0, <1>1, <1>3, <1>4

-----------------------------------------------------------------------------
(* Console: what a client's items account for.                               *)

\* What the first i items account for.
At(v, i) == UpTo(Weights(v))[i]

LEMMA WeightsType ==
    ASSUME NEW v \in Seq(Int)
    PROVE  /\ Len(v) \in Nat /\ DOMAIN v = 1 .. Len(v)
           /\ \A i \in 1 .. Len(v) : v[i] \in Int
           /\ Weights(v) \in Seq(Nat) /\ Len(Weights(v)) = Len(v)
           /\ \A i \in 1 .. Len(v) : Weights(v)[i] = IF v[i] > 0 THEN 1 ELSE -v[i]
<1>1. Len(v) \in Nat /\ DOMAIN v = 1 .. Len(v) /\ \A i \in 1 .. Len(v) : v[i] \in Int
  BY LenProperties, ElementOfSeq
<1>2. Weights(v) \in [1 .. Len(v) -> Nat]
  BY <1>1 DEF Weights
<1>3. Weights(v) \in Seq(Nat) /\ Len(Weights(v)) = Len(v)
  BY <1>1, <1>2, IsASeq, LenProperties
<1> QED BY <1>1, <1>3 DEF Weights

LEMMA AtSteps ==
    ASSUME NEW v \in Seq(Int)
    PROVE  /\ Accounts(v) = At(v, Len(v)) /\ At(v, 0) = 0
           /\ \A i \in 0 .. Len(v) : At(v, i) \in Nat
           /\ \A i \in 1 .. Len(v) :
                At(v, i) = At(v, i - 1) + (IF v[i] > 0 THEN 1 ELSE -v[i])
<1> DEFINE w == Weights(v)
<1>1. w \in Seq(Nat) /\ Len(w) = Len(v) /\ \A i \in 1 .. Len(v) : w[i] = IF v[i] > 0 THEN 1 ELSE -v[i]
  BY WeightsType
<1>2. Accounts(v) = Total(w)
  BY DEF Accounts
<1>3. At(v, 0) = UpTo(w)[0] /\ \A i \in 0 .. Len(v) : At(v, i) = UpTo(w)[i]
  BY DEF At
<1>4. \A i \in 1 .. Len(v) : At(v, i) = UpTo(w)[i] /\ At(v, i - 1) = UpTo(w)[i - 1]
  BY DEF At
<1>5. At(v, Len(v)) = UpTo(w)[Len(v)]
  BY DEF At
<1> HIDE DEF w
<1>6. /\ Total(w) = UpTo(w)[Len(w)] /\ UpTo(w)[0] = 0
      /\ \A i \in 0 .. Len(w) : UpTo(w)[i] \in Nat
      /\ \A i \in 1 .. Len(w) : UpTo(w)[i] = UpTo(w)[i - 1] + w[i]
  BY <1>1, TotalIs, UpToType, UpToUnfolds
<1>7. Accounts(v) = At(v, Len(v)) /\ At(v, 0) = 0
  BY <1>1, <1>2, <1>3, <1>5, <1>6
<1>8. \A i \in 0 .. Len(v) : At(v, i) \in Nat
  BY <1>1, <1>3, <1>6
<1>9. ASSUME NEW i \in 1 .. Len(v)
      PROVE  At(v, i) = At(v, i - 1) + (IF v[i] > 0 THEN 1 ELSE -v[i])
  BY <1>1, <1>4, <1>6
<1> QED BY <1>7, <1>8, <1>9

\* What the items m + 1 to n account for; and before an item stands no more than is
\* accounted for up to it.
LEMMA AtParts ==
    ASSUME NEW v \in Seq(Int), NEW m \in 0 .. Len(v), NEW n \in m .. Len(v)
    PROVE  /\ SubSeq(v, m + 1, n) \in Seq(Int) /\ Len(SubSeq(v, m + 1, n)) = n - m
           /\ \A i \in 1 .. n - m : SubSeq(v, m + 1, n)[i] = v[m + i]
           /\ \A i \in 0 .. n - m : At(v, m + i) = At(v, m) + At(SubSeq(v, m + 1, n), i)
           /\ At(v, n) = At(v, m) + Accounts(SubSeq(v, m + 1, n))
           /\ Accounts(SubSeq(v, m + 1, n)) \in Nat /\ At(v, m) <= At(v, n)
<1> DEFINE u == SubSeq(v, m + 1, n)
<1>0. Len(v) \in Nat /\ m \in Nat /\ n \in Nat /\ m <= n /\ n <= Len(v)
  BY LenProperties
<1>1. u \in Seq(Int) /\ Len(u) = n - m /\ \A i \in 1 .. n - m : u[i] = v[m + i]
  BY Cut
<1> HIDE DEF u
<1>2. Weights(u) \in Seq(Nat) /\ Len(Weights(u)) = n - m /\ Weights(v) \in Seq(Nat) /\ Len(Weights(v)) = Len(v)
  BY <1>1, WeightsType
<1>3. IsPart(Weights(v), m, Weights(u))
  <2>1. \A i \in 1 .. n - m : m + i \in 1 .. Len(v)
    BY <1>0
  <2>2. \A i \in 1 .. n - m : Weights(v)[m + i] = IF v[m + i] > 0 THEN 1 ELSE -v[m + i]
    BY <2>1, WeightsType
  <2>3. \A i \in 1 .. n - m : Weights(u)[i] = IF u[i] > 0 THEN 1 ELSE -u[i]
    BY <1>1, WeightsType
  <2>4. m \in Nat /\ m + Len(Weights(u)) <= Len(Weights(v))
    BY <1>0, <1>2
  <2> QED BY <1>1, <1>2, <2>2, <2>3, <2>4 DEF IsPart
<1>4. \A i \in 0 .. n - m : At(v, m + i) = At(v, m) + At(u, i)
  <2>1. \A i \in 0 .. Len(Weights(u)) :
           UpTo(Weights(v))[m + i] = UpTo(Weights(v))[m] + UpTo(Weights(u))[i]
    <3>1. /\ Weights(v) \in Seq(Nat) /\ Weights(u) \in Seq(Nat)
          /\ IsPart(Weights(v), m, Weights(u))
      BY <1>2, <1>3
    <3> HIDE DEF IsPart, UpTo, Weights
    <3> QED BY ONLY <3>1, UpToShifted, ZenonT(60)
  <2> QED BY <1>1, <1>2, <2>1 DEF At
<1>5. m + (n - m) = n /\ Accounts(u) = At(u, Len(u)) /\ Len(u) \in 0 .. Len(u)
  <2>1. Accounts(u) = At(u, Len(u))
    BY <1>1, AtSteps
  <2> QED BY <1>0, <1>1, <2>1
<1>6. At(v, m) \in Nat /\ Accounts(u) \in Nat
  BY <1>0, <1>1, <1>5, AtSteps
<1>7. n - m \in 0 .. n - m /\ Len(u) = n - m
  BY <1>0, <1>1
<1>8. At(v, n) = At(v, m) + Accounts(u) /\ At(v, m) <= At(v, n)
  BY <1>4, <1>5, <1>6, <1>7
<1> QED BY <1>1, <1>4, <1>6, <1>8 DEF u

\* Follows, by what the items before each account for.
LEMMA FollowsAt ==
    ASSUME NEW v \in Seq(Int)
    PROVE  Follows(v) <=> \A i \in 1 .. Len(v) : v[i] > 0 => v[i] = At(v, i - 1) + 1
<1>1. DOMAIN v = 1 .. Len(v) /\ Len(v) \in Nat
  BY LenProperties
<1>2. ASSUME NEW i \in 1 .. Len(v) PROVE Accounts(SubSeq(v, 1, i - 1)) = At(v, i - 1)
  <2>1. i - 1 \in 0 .. Len(v) /\ 0 \in 0 .. Len(v) /\ 0 + 1 = 1
    BY <1>1
  <2>2. At(v, i - 1) = At(v, 0) + Accounts(SubSeq(v, 0 + 1, i - 1)) /\ Accounts(SubSeq(v, 0 + 1, i - 1)) \in Nat
    BY <2>1, AtParts
  <2> QED BY <2>1, <2>2, AtSteps
<1> QED BY <1>1, <1>2 DEF Follows

\* The items behind the first k, as the client counts them then: they follow on, and
\* account for the rest.
LEMMA RestFollows ==
    ASSUME NEW v \in Seq(Int), Follows(v), NEW r \in 0 .. Len(v), NEW n \in r .. Len(v)
    PROVE  LET k == Accounts(SubSeq(v, 1, r))
               left == Rest(SubSeq(v, r + 1, n), k)
           IN  /\ k \in Nat /\ k = At(v, r)
               /\ left \in Seq(Int) /\ Len(left) = n - r
               /\ \A i \in 1 .. n - r : left[i] = IF v[r + i] > 0 THEN v[r + i] - k ELSE v[r + i]
               /\ \A i \in 0 .. n - r : At(left, i) = At(v, r + i) - k
               /\ Follows(left) /\ Accounts(left) = At(v, n) - k
<1> DEFINE k == Accounts(SubSeq(v, 1, r))
<1> DEFINE u == SubSeq(v, r + 1, n)
<1> DEFINE left == Rest(u, k)
<1>0. Len(v) \in Nat /\ r \in Nat /\ n \in Nat /\ r <= n /\ n <= Len(v)
  BY LenProperties
<1>1. k \in Nat /\ k = At(v, r)
  <2>1. 0 \in 0 .. Len(v) /\ r \in 0 .. Len(v) /\ 0 + 1 = 1
    BY <1>0
  <2>2. At(v, r) = At(v, 0) + Accounts(SubSeq(v, 0 + 1, r)) /\ Accounts(SubSeq(v, 0 + 1, r)) \in Nat
    BY <2>1, AtParts
  <2> QED BY <2>1, <2>2, AtSteps
<1>2. /\ u \in Seq(Int) /\ Len(u) = n - r /\ \A i \in 1 .. n - r : u[i] = v[r + i]
      /\ \A i \in 0 .. n - r : At(v, r + i) = At(v, r) + At(u, i)
  BY AtParts
<1> HIDE DEF k, u
<1>3. DOMAIN u = 1 .. n - r /\ \A i \in 1 .. n - r : u[i] \in Int
  BY <1>2, LenProperties, ElementOfSeq
<1>4. /\ left \in Seq(Int) /\ Len(left) = n - r
      /\ \A i \in 1 .. n - r : left[i] = IF u[i] > 0 THEN u[i] - k ELSE u[i]
  <2>1. left = [i \in 1 .. n - r |-> IF u[i] > 0 THEN u[i] - k ELSE u[i]]
    BY <1>3 DEF Rest
  <2>2. left \in [1 .. n - r -> Int] /\ n - r \in Nat
    BY <1>0, <1>1, <1>3, <2>1
  <2> QED BY <2>1, <2>2, LenProperties
<1> HIDE DEF left
\* A byte that is left stands behind all that the client has accounted for.
<1>5. ASSUME NEW i \in 1 .. n - r, v[r + i] > 0
      PROVE  v[r + i] = k + At(u, i - 1) + 1 /\ At(u, i - 1) \in Nat
  <2>1. r + i \in 1 .. Len(v) /\ (r + i) - 1 = r + (i - 1) /\ i - 1 \in 0 .. n - r
    BY <1>0
  <2>2. v[r + i] = At(v, r + (i - 1)) + 1
    BY <1>5, <2>1, FollowsAt
  <2>3. At(v, r + (i - 1)) = k + At(u, i - 1)
    BY <1>1, <1>2, <2>1
  <2>4. At(u, i - 1) \in Nat
    BY <1>2, <2>1, AtSteps
  <2> QED BY <1>1, <2>2, <2>3, <2>4
<1>6. \A i \in 1 .. n - r : left[i] > 0 <=> v[r + i] > 0
  <2> SUFFICES ASSUME NEW i \in 1 .. n - r PROVE left[i] > 0 <=> v[r + i] > 0
    OBVIOUS
  <2>1. CASE v[r + i] > 0
    <3>1. u[i] = v[r + i] /\ left[i] = u[i] - k
      BY <1>2, <1>4, <2>1
    <3>2. v[r + i] = k + At(u, i - 1) + 1 /\ At(u, i - 1) \in Nat
      BY <1>5, <2>1
    <3>3. left[i] = At(u, i - 1) + 1
      BY ONLY <1>1, <3>1, <3>2
    <3> QED BY ONLY <2>1, <3>2, <3>3
  <2>2. CASE ~(v[r + i] > 0)
    BY <1>2, <1>4, <2>2
  <2> QED BY <2>1, <2>2
<1>7. Weights(left) = Weights(u)
  <2>1. DOMAIN left = 1 .. n - r
    BY <1>4, LenProperties
  <2> QED BY <1>2, <1>3, <1>4, <1>6, <2>1 DEF Weights
<1>8. \A i \in 0 .. n - r : At(left, i) = At(u, i) /\ At(u, i) \in Nat
  BY <1>2, <1>7, AtSteps DEF At
<1>9. \A i \in 0 .. n - r : At(left, i) = At(v, r + i) - k
  BY <1>1, <1>2, <1>8
<1>10. Follows(left)
  <2> SUFFICES ASSUME NEW i \in 1 .. n - r, left[i] > 0 PROVE left[i] = At(left, i - 1) + 1
    BY <1>4, FollowsAt
  <2>1. left[i] = v[r + i] - k /\ v[r + i] = k + At(u, i - 1) + 1 /\ i - 1 \in 0 .. n - r
    <3>1. v[r + i] > 0 /\ i - 1 \in 0 .. n - r
      BY <1>0, <1>6
    <3>2. left[i] = v[r + i] - k
      BY <1>2, <1>4, <3>1
    <3>3. v[r + i] = k + At(u, i - 1) + 1
      BY <1>5, <3>1
    <3> QED BY <3>1, <3>2, <3>3
  <2>2. At(left, i - 1) = At(u, i - 1) /\ At(u, i - 1) \in Nat
    BY <1>8, <2>1
  <2> QED BY <1>1, <2>1, <2>2
<1>11. Accounts(left) = At(v, n) - k
  <2>1. n - r \in 0 .. n - r /\ r + (n - r) = n
    BY <1>0
  <2>2. Accounts(left) = At(left, n - r)
    BY <1>4, AtSteps
  <2> QED BY <1>9, <2>1, <2>2
<1>12. \A i \in 1 .. n - r : left[i] = IF v[r + i] > 0 THEN v[r + i] - k ELSE v[r + i]
  BY <1>2, <1>4
<1> QED BY <1>1, <1>4, <1>9, <1>10, <1>11, <1>12 DEF k, u, left

\* The first items of what is left are left of the first items.
LEMMA RestFirst ==
    ASSUME NEW v \in Seq(Int), NEW k \in Int, NEW r \in 0 .. Len(v), NEW n \in r .. Len(v)
    PROVE  SubSeq(Rest(SubSeq(v, r + 1, Len(v)), k), 1, n - r) = Rest(SubSeq(v, r + 1, n), k)
<1> DEFINE x == SubSeq(v, r + 1, Len(v))
<1> DEFINE y == SubSeq(v, r + 1, n)
<1>0. Len(v) \in Nat /\ r \in Nat /\ n \in Nat /\ r <= n /\ n <= Len(v)
  BY LenProperties
<1>1. x \in Seq(Int) /\ Len(x) = Len(v) - r /\ \A i \in 1 .. Len(v) - r : x[i] = v[r + i]
  <2>1. Len(v) \in r .. Len(v)
    BY <1>0
  <2> QED BY <2>1, AtParts
<1>2. y \in Seq(Int) /\ Len(y) = n - r /\ \A i \in 1 .. n - r : y[i] = v[r + i]
  BY AtParts
<1> HIDE DEF x, y
<1>3. DOMAIN x = 1 .. Len(v) - r /\ DOMAIN y = 1 .. n - r
  BY <1>1, <1>2, LenProperties
<1>4. Rest(x, k) \in Seq(Int) /\ Len(Rest(x, k)) = Len(v) - r
  <2>1. Rest(x, k) \in [1 .. Len(v) - r -> Int] /\ Len(v) - r \in Nat
    <3>1. \A i \in 1 .. Len(v) - r : x[i] \in Int
      BY <1>1, ElementOfSeq
    <3> QED BY <1>0, <1>3, <3>1 DEF Rest
  <2>2. Rest(x, k) \in Seq(Int)
    BY <2>1, SeqDef, Zenon
  <2>3. DOMAIN Rest(x, k) = 1 .. Len(v) - r
    BY <2>1
  <2> QED BY <2>1, <2>2, <2>3, LenProperties
<1>5. n - r \in 0 .. Len(Rest(x, k)) /\ 0 \in 0 .. Len(Rest(x, k)) /\ n - r \in 0 .. Len(Rest(x, k)) /\ 0 + 1 = 1
  BY <1>0, <1>4
<1> DEFINE z == SubSeq(Rest(x, k), 0 + 1, n - r)
<1>6. z \in Seq(Int) /\ Len(z) = (n - r) - 0 /\ \A i \in 1 .. (n - r) - 0 : z[i] = Rest(x, k)[0 + i]
  BY <1>4, <1>5, AtParts
<1> HIDE DEF z
<1>7. z = [i \in 1 .. n - r |-> z[i]]
  BY <1>0, <1>6, LenProperties
<1>8. \A i \in 1 .. n - r : z[i] = Rest(y, k)[i]
  <2> SUFFICES ASSUME NEW i \in 1 .. n - r PROVE z[i] = Rest(y, k)[i]
    OBVIOUS
  <2>1. i \in 1 .. Len(v) - r /\ i \in 1 .. (n - r) - 0 /\ 0 + i = i
    BY <1>0
  <2>2. z[i] = Rest(x, k)[i]
    BY <1>6, <2>1
  <2>3. x[i] = y[i]
    BY <1>1, <1>2, <2>1
  <2> QED BY <1>3, <2>1, <2>2, <2>3 DEF Rest
<1>9. z = Rest(y, k)
  BY <1>3, <1>7, <1>8 DEF Rest
<1> QED BY <1>9 DEF x, y, z

LEMMA AtConcat ==
    ASSUME NEW u \in Seq(Int), NEW v \in Seq(Int)
    PROVE  /\ u \o v \in Seq(Int) /\ Len(u \o v) = Len(u) + Len(v)
           /\ \A i \in 1 .. Len(u) : (u \o v)[i] = u[i]
           /\ \A i \in 1 .. Len(v) : (u \o v)[Len(u) + i] = v[i]
           /\ \A i \in 0 .. Len(u) : At(u \o v, i) = At(u, i)
           /\ \A i \in 0 .. Len(v) : At(u \o v, Len(u) + i) = At(u, Len(u)) + At(v, i)
<1> DEFINE w == u \o v
<1>0. /\ w \in Seq(Int) /\ Len(w) = Len(u) + Len(v) /\ Len(u) \in Nat /\ Len(v) \in Nat
      /\ \A i \in 1 .. Len(u) : w[i] = u[i]
      /\ \A i \in 1 .. Len(v) : w[Len(u) + i] = v[i]
  BY Joined
<1>1. w \in Seq(Int) /\ Len(w) = Len(u) + Len(v)
  BY <1>0
<1> HIDE DEF w
<1>3. \A i \in 1 .. Len(u) : i \in 1 .. Len(w) /\ w[i] = u[i]
  BY <1>0
<1>4. \A i \in 1 .. Len(v) : Len(u) + i \in 1 .. Len(w) /\ w[Len(u) + i] = v[i]
  BY <1>0
<1>5. /\ Weights(u) \in Seq(Nat) /\ Len(Weights(u)) = Len(u)
      /\ \A i \in 1 .. Len(u) : Weights(u)[i] = IF u[i] > 0 THEN 1 ELSE -u[i]
  BY WeightsType
<1>6. /\ Weights(v) \in Seq(Nat) /\ Len(Weights(v)) = Len(v)
      /\ \A i \in 1 .. Len(v) : Weights(v)[i] = IF v[i] > 0 THEN 1 ELSE -v[i]
  BY WeightsType
<1>7. /\ Weights(w) \in Seq(Nat) /\ Len(Weights(w)) = Len(w)
      /\ \A i \in 1 .. Len(w) : Weights(w)[i] = IF w[i] > 0 THEN 1 ELSE -w[i]
  BY <1>1, WeightsType
<1>8. IsPart(Weights(w), 0, Weights(u))
  <2>1. \A i \in 1 .. Len(u) : Weights(w)[0 + i] = Weights(u)[i]
    <3> SUFFICES ASSUME NEW i \in 1 .. Len(u) PROVE Weights(w)[0 + i] = Weights(u)[i]
      OBVIOUS
    <3>1. 0 + i = i /\ i \in 1 .. Len(w) /\ w[i] = u[i]
      BY <1>0, <1>3
    <3> QED BY <1>5, <1>7, <3>1
  <2> QED BY <1>0, <1>1, <1>5, <1>7, <2>1 DEF IsPart
<1>9. IsPart(Weights(w), Len(u), Weights(v))
  <2>1. \A i \in 1 .. Len(v) : Weights(w)[Len(u) + i] = Weights(v)[i]
    <3> SUFFICES ASSUME NEW i \in 1 .. Len(v) PROVE Weights(w)[Len(u) + i] = Weights(v)[i]
      OBVIOUS
    <3>1. Len(u) + i \in 1 .. Len(w) /\ w[Len(u) + i] = v[i]
      BY <1>4
    <3> QED BY <1>6, <1>7, <3>1
  <2> QED BY <1>0, <1>1, <1>6, <1>7, <2>1 DEF IsPart
<1>10. \A i \in 0 .. Len(u) : At(w, i) = At(u, i)
  <2>1. \A i \in 0 .. Len(u) : UpTo(Weights(w))[0 + i] = UpTo(Weights(w))[0] + UpTo(Weights(u))[i]
    BY <1>5, <1>7, <1>8, UpToShifted
  <2>2. UpTo(Weights(w))[0] = 0 /\ \A i \in 0 .. Len(u) : UpTo(Weights(u))[i] \in Nat /\ 0 + i = i
    BY <1>5, <1>7, UpToUnfolds, UpToType
  <2> QED BY <2>1, <2>2 DEF At
<1>11. \A i \in 0 .. Len(v) : At(w, Len(u) + i) = At(u, Len(u)) + At(v, i)
  <2>1. \A i \in 0 .. Len(v) :
           UpTo(Weights(w))[Len(u) + i] = UpTo(Weights(w))[Len(u)] + UpTo(Weights(v))[i]
    BY <1>6, <1>7, <1>9, UpToShifted
  <2>2. Len(u) \in 0 .. Len(u)
    BY <1>0
  <2>3. At(w, Len(u)) = At(u, Len(u))
    BY <1>10, <2>2
  <2> QED BY <2>1, <2>3 DEF At
<1> QED BY <1>1, <1>3, <1>4, <1>10, <1>11 DEF w

-----------------------------------------------------------------------------
(* A client's slot.                                                          *)

Slots == [conn : BOOLEAN, pend : Seq(Int), lost : Nat, room : -1 .. SOCK, top : Nat]

\* What OutputAccounted says of a slot; and a count waits only behind a backlog, so
\* that what comes next after an empty one is at the client's count.
Sound(s) ==
    /\ s \in Slots /\ Len(s.pend) <= PEND
    /\ Follows(s.pend) /\ Accounts(s.pend) + s.lost = s.top
    /\ s.lost > 0 => s.pend # <<>>

LEMMA EmptyAccounts == Accounts(<<>>) = 0 /\ Follows(<<>>) /\ <<>> \in Seq(Int) /\ Len(<<>>) = 0
<1>1. <<>> \in Seq(Int) /\ Len(<<>>) = 0 /\ DOMAIN <<>> = {}
  OBVIOUS
<1> QED BY <1>1, AtSteps DEF Follows

LEMMA FreeSound == Sound(Free)
BY EmptyAccounts, ConsoleAssumption DEF Sound, Slots, Free

LEMMA FreshSound == Sound(Fresh)
BY EmptyAccounts, ConsoleAssumption DEF Sound, Slots, Fresh

LEMMA MarkerIs ==
    ASSUME NEW s, Sound(s)
    PROVE  /\ Marker(s) \in Seq(Int) /\ Len(Marker(s)) \in {0, 1} /\ Follows(Marker(s))
           /\ At(Marker(s), 0) = 0 /\ Accounts(Marker(s)) = At(Marker(s), Len(Marker(s)))
           /\ Accounts(Marker(s)) = s.lost
           /\ Len(Marker(s)) = 1 => Marker(s)[1] = -s.lost /\ s.lost > 0
<1>1. s.lost \in Nat
  BY DEF Sound, Slots
<1>2. CASE s.lost = 0
  <2>1. Marker(s) = <<>>
    BY <1>2 DEF Marker
  <2>2. At(<<>>, 0) = 0 /\ Accounts(<<>>) = At(<<>>, Len(<<>>))
    BY EmptyAccounts, AtSteps
  <2> QED BY <1>2, <2>1, <2>2, EmptyAccounts
<1>3. CASE s.lost # 0
  <2>1. Marker(s) = <<-s.lost>> /\ s.lost > 0
    BY <1>1, <1>3 DEF Marker, Sound
  <2>2. <<-s.lost>> \in Seq(Int) /\ Len(<<-s.lost>>) = 1 /\ <<-s.lost>>[1] = -s.lost
    BY <1>1
  <2>3. At(<<-s.lost>>, 1) = At(<<-s.lost>>, 0) + s.lost /\ At(<<-s.lost>>, 0) = 0
    <3>1. 1 \in 1 .. Len(<<-s.lost>>) /\ 1 - 1 = 0
      BY <2>2
    <3>2. ~(-s.lost > 0) /\ -(-s.lost) = s.lost
      BY <1>1, <2>1
    <3> QED BY <2>2, <3>1, <3>2, AtSteps
  <2>4. Follows(<<-s.lost>>)
    <3>1. \A i \in 1 .. Len(<<-s.lost>>) : ~(<<-s.lost>>[i] > 0)
      BY <1>1, <2>1, <2>2
    <3> QED BY <2>2, <3>1, FollowsAt
  <2>5. Accounts(<<-s.lost>>) = At(<<-s.lost>>, 1)
    BY <2>2, AtSteps
  <2> QED BY <1>1, <2>1, <2>2, <2>3, <2>4, <2>5
<1> QED BY <1>2, <1>3

\* Everything due, by its places.
LEMMA DueRight ==
    ASSUME NEW s, Sound(s), NEW n \in Nat
    PROVE  LET due == Due(s, n)
               p == Len(s.pend)
               q == Len(s.pend \o Marker(s))
           IN  /\ p \in Nat /\ q = p + Len(Marker(s)) /\ Len(Marker(s)) \in {0, 1}
               /\ due \in Seq(Int) /\ Len(due) = q + n /\ Follows(due)
               /\ \A i \in 1 .. p : due[i] = s.pend[i]
               /\ At(due, p) = Accounts(s.pend)
               /\ \A j \in 0 .. n : At(due, q + j) = s.top + j
<1> DEFINE due == Due(s, n)
<1> DEFINE head == s.pend \o Marker(s)
<1> DEFINE p == Len(s.pend)
<1> DEFINE q == Len(head)
<1>1. /\ s.pend \in Seq(Int) /\ s.top \in Nat /\ s.lost \in Nat /\ Follows(s.pend)
      /\ Accounts(s.pend) + s.lost = s.top
  BY DEF Sound, Slots
<1>2. p \in Nat /\ Len(Marker(s)) \in {0, 1} /\ Marker(s) \in Seq(Int)
  BY <1>1, MarkerIs, LenProperties
<1>3. /\ head \in Seq(Int) /\ q = p + Len(Marker(s))
      /\ \A i \in 1 .. p : head[i] = s.pend[i]
      /\ \A i \in 1 .. Len(Marker(s)) : head[p + i] = Marker(s)[i]
      /\ \A i \in 0 .. p : At(head, i) = At(s.pend, i)
      /\ \A i \in 0 .. Len(Marker(s)) : At(head, p + i) = At(s.pend, p) + At(Marker(s), i)
  BY <1>1, <1>2, AtConcat
<1>4. New(s, n) \in Seq(Int) /\ Len(New(s, n)) = n /\ \A i \in 1 .. n : New(s, n)[i] = s.top + i
  <2>1. New(s, n) \in [1 .. n -> Int]
    BY <1>1 DEF New
  <2>2. New(s, n) \in Seq(Int)
    BY <2>1, SeqDef, Zenon
  <2> QED BY <2>1, <2>2, LenProperties DEF New
<1>5. due = head \o New(s, n)
  BY DEF Due
<1> HIDE DEF head, due, p, q
<1>6. /\ due \in Seq(Int) /\ Len(due) = q + n
      /\ \A i \in 1 .. q : due[i] = head[i]
      /\ \A i \in 1 .. n : due[q + i] = s.top + i
      /\ \A i \in 0 .. q : At(due, i) = At(head, i)
      /\ \A i \in 0 .. n : At(due, q + i) = At(head, q) + At(New(s, n), i)
  <2>1. q = Len(head)
    BY DEF q
  <2>2. /\ head \o New(s, n) \in Seq(Int) /\ Len(head \o New(s, n)) = Len(head) + Len(New(s, n))
        /\ \A i \in 1 .. Len(head) : (head \o New(s, n))[i] = head[i]
        /\ \A i \in 1 .. Len(New(s, n)) : (head \o New(s, n))[Len(head) + i] = New(s, n)[i]
        /\ \A i \in 0 .. Len(head) : At(head \o New(s, n), i) = At(head, i)
        /\ \A i \in 0 .. Len(New(s, n)) :
              At(head \o New(s, n), Len(head) + i) = At(head, Len(head)) + At(New(s, n), i)
    BY <1>3, <1>4, AtConcat
  <2> QED BY <1>4, <1>5, <2>1, <2>2
<1>7. Accounts(s.pend) = At(s.pend, p) /\ \A i \in 0 .. p : At(s.pend, i) \in Nat
  BY <1>1, AtSteps DEF p
<1>8. At(head, q) = s.top /\ At(head, p) = Accounts(s.pend)
  <2>1. At(head, p + Len(Marker(s))) = At(s.pend, p) + At(Marker(s), Len(Marker(s)))
    BY <1>2, <1>3
  <2>2. At(Marker(s), Len(Marker(s))) = s.lost
    BY MarkerIs
  <2>3. p \in 0 .. p
    BY <1>2
  <2> QED BY <1>1, <1>3, <1>7, <2>1, <2>2, <2>3
<1>9. \A j \in 0 .. n : At(New(s, n), j) = j
  <2>1. /\ Weights(New(s, n)) \in Seq(Nat) /\ Len(Weights(New(s, n))) = n
        /\ \A i \in 1 .. n : Weights(New(s, n))[i] = 1
    <3>1. \A i \in 1 .. n : New(s, n)[i] > 0
      BY <1>1, <1>4
    <3> QED BY <1>4, <3>1, WeightsType
  <2> QED BY <2>1, UpToOnes DEF At
<1>10. \A j \in 0 .. n : At(due, q + j) = s.top + j
  BY <1>6, <1>8, <1>9
<1>11. q \in Nat /\ p <= q
  BY <1>2, <1>3
<1>12. At(due, p) = Accounts(s.pend)
  BY <1>2, <1>6, <1>8, <1>11
<1>13. \A i \in 1 .. p : due[i] = s.pend[i]
  BY <1>2, <1>3, <1>6, <1>11
<1>14. Follows(due)
  <2> SUFFICES ASSUME NEW i \in 1 .. Len(due), due[i] > 0 PROVE due[i] = At(due, i - 1) + 1
    BY <1>6, FollowsAt
  <2>1. CASE i \in 1 .. p
    <3>1. due[i] = s.pend[i] /\ i - 1 \in 0 .. p /\ i - 1 \in 0 .. q
      BY <1>2, <1>11, <1>13, <2>1
    <3>2. s.pend[i] = At(s.pend, i - 1) + 1
      BY <1>1, <2>1, <3>1, FollowsAt DEF p
    <3> QED BY <1>3, <1>6, <3>1, <3>2
  <2>2. CASE i \in p + 1 .. q
    <3>1. Len(Marker(s)) = 1 /\ i = p + 1 /\ 1 \in 1 .. Len(Marker(s)) /\ i \in 1 .. q
      <4>1. q = p + Len(Marker(s))
        BY <1>3
      <4>2. CASE Len(Marker(s)) = 0
        BY <1>2, <2>2, <4>1, <4>2
      <4>3. CASE Len(Marker(s)) = 1
        BY <1>2, <2>2, <4>1, <4>3
      <4> QED BY <1>2, <4>2, <4>3
    <3>2. due[i] = -s.lost /\ s.lost > 0
      BY <1>3, <1>6, <3>1, MarkerIs
    <3> QED BY <1>1, <3>2
  <2>3. CASE i \in q + 1 .. q + n
    <3>1. i - q \in 1 .. n /\ i - q - 1 \in 0 .. n /\ q + (i - q) = i /\ q + (i - q - 1) = i - 1
      BY <1>11, <2>3
    <3>2. due[i] = s.top + (i - q) /\ At(due, i - 1) = s.top + (i - q - 1)
      BY <1>6, <1>10, <3>1
    <3> QED BY <1>1, <1>11, <3>1, <3>2
  <2> QED BY <1>2, <1>6, <1>11, <2>1, <2>2, <2>3
<1> QED BY <1>2, <1>3, <1>6, <1>10, <1>12, <1>13, <1>14 DEF due, p, q, head

With(s, room, top, pend, lost) ==
    [s EXCEPT !.room = room, !.top = top, !.pend = pend, !.lost = lost]

LEMMA WithIs ==
    ASSUME NEW s \in Slots, NEW room \in -1 .. SOCK, NEW top \in Nat, NEW pend \in Seq(Int),
           NEW lost \in Nat
    PROVE  LET t == With(s, room, top, pend, lost)
           IN  t \in Slots /\ t.pend = pend /\ t.lost = lost /\ t.top = top /\ t.conn = s.conn
BY DEF Slots, With

\* However much the socket takes, the slot stays so.
LEMMA TakenSound ==
    ASSUME NEW s, Sound(s), s.conn, NEW n \in Nat, NEW r \in 0 .. Len(Due(s, n)), r <= s.room
    PROVE  Sound(Taken(s, n, r)) /\ Taken(s, n, r).conn
<1> DEFINE due == Due(s, n)
<1> DEFINE p == Len(s.pend)
<1> DEFINE q == Len(s.pend \o Marker(s))
<1> DEFINE k == Accounts(SubSeq(due, 1, r))
<1> DEFINE left == Rest(SubSeq(due, r + 1, Len(due)), k)
<1> DEFINE t == Taken(s, n, r)
<1>1. /\ s \in Slots /\ p <= PEND /\ Follows(s.pend) /\ Accounts(s.pend) + s.lost = s.top
      /\ s.pend \in Seq(Int) /\ s.top \in Nat /\ s.lost \in Nat /\ s.room \in -1 .. SOCK
      /\ s.lost > 0 => s.pend # <<>>
  BY DEF Sound, Slots
<1>2. PEND \in Nat /\ PEND >= 1 /\ SOCK \in Nat
  BY ConsoleAssumption
<1>3. /\ p \in Nat /\ q = p + Len(Marker(s)) /\ Len(Marker(s)) \in {0, 1}
      /\ due \in Seq(Int) /\ Len(due) = q + n /\ Follows(due)
      /\ At(due, p) = Accounts(s.pend)
      /\ \A j \in 0 .. n : At(due, q + j) = s.top + j
  BY DueRight
<1>4. Accounts(s.pend) \in Nat
  BY <1>1, AtSteps, LenProperties
<1>5. t = IF r < p
          THEN [s EXCEPT !.room = s.room - r, !.top = s.top + n - k,
                         !.pend = SubSeq(left, 1, p - r), !.lost = s.lost + n]
          ELSE IF r < q
          THEN [s EXCEPT !.room = s.room - r, !.top = s.top + n - k,
                         !.pend = Marker(s), !.lost = n]
          ELSE [s EXCEPT !.room = s.room - r, !.top = s.top + n - k,
                         !.pend = SubSeq(left, 1, Kept(left)),
                         !.lost = (IF s.pend # <<>> THEN 0 ELSE s.lost) + Len(left) - Kept(left)]
  BY DEF Taken
<1> HIDE DEF due, p, q, k, left, t
<1>6. r \in 0 .. Len(due) /\ r \in Nat /\ q \in Nat /\ q \in p .. Len(due)
  <2>1. Len(Marker(s)) \in Nat
    BY <1>3
  <2>2. r \in 0 .. Len(due)
    BY DEF due
  <2>3. q \in Nat /\ p <= q /\ q <= Len(due) /\ Len(due) \in Nat
    BY <1>3, <2>1
  <2>4. p \in Nat
    BY <1>3
  <2> QED BY ONLY <2>2, <2>3, <2>4
<1>7. s.room - r \in -1 .. SOCK
  <2>1. r <= s.room /\ s.room \in -1 .. SOCK /\ r \in Nat /\ SOCK \in Nat
    BY <1>1, <1>2, <1>6
  <2> QED BY ONLY <2>1
\* What stays in pend, up to the m-th of what was due.
<1>8. ASSUME NEW m \in r .. Len(due)
      PROVE  /\ k \in Nat /\ k = At(due, r)
             /\ SubSeq(left, 1, m - r) \in Seq(Int) /\ Len(SubSeq(left, 1, m - r)) = m - r
             /\ Follows(SubSeq(left, 1, m - r))
             /\ Accounts(SubSeq(left, 1, m - r)) = At(due, m) - k
             /\ Accounts(SubSeq(left, 1, m - r)) \in Nat
  <2>1. k = Accounts(SubSeq(due, 1, r))
    BY DEF k
  <2>2. k \in Nat /\ k = At(due, r)
    <3>1. due \in Seq(Int) /\ Follows(due) /\ r \in 0 .. Len(due) /\ Len(due) \in r .. Len(due)
      BY <1>3, <1>6
    <3> QED BY ONLY <3>1, <2>1, RestFollows
  <2>3. SubSeq(left, 1, m - r) = Rest(SubSeq(due, r + 1, m), k)
    <3>1. k \in Int /\ m \in r .. Len(due) /\ r \in 0 .. Len(due) /\ due \in Seq(Int)
      BY <1>3, <1>6, <2>2
    <3> QED BY <3>1, RestFirst DEF left
  <2>4. /\ Rest(SubSeq(due, r + 1, m), k) \in Seq(Int)
        /\ Len(Rest(SubSeq(due, r + 1, m), k)) = m - r
        /\ Follows(Rest(SubSeq(due, r + 1, m), k))
        /\ Accounts(Rest(SubSeq(due, r + 1, m), k)) = At(due, m) - k
    <3>1. due \in Seq(Int) /\ Follows(due) /\ r \in 0 .. Len(due)
      BY <1>3, <1>6
    <3> QED BY <3>1, <2>1, RestFollows
  <2>5. Accounts(Rest(SubSeq(due, r + 1, m), k)) \in Nat
    BY <2>4, AtSteps, LenProperties
  <2> QED BY <2>2, <2>3, <2>4, <2>5
<1>9. k \in Nat /\ k = At(due, r)
  BY <1>6, <1>8
<1>10. CASE r < p
  <2>1. p \in r .. Len(due)
    BY <1>3, <1>6, <1>10
  <2> DEFINE u == SubSeq(left, 1, p - r)
  <2>2. /\ u \in Seq(Int) /\ Len(u) = p - r /\ Follows(u) /\ Accounts(u) = Accounts(s.pend) - k
        /\ Accounts(u) \in Nat
    BY <1>3, <1>8, <2>1
  <2>3. t = With(s, s.room - r, s.top + n - k, u, s.lost + n)
    BY <1>5, <1>10 DEF With
  <2> HIDE DEF u
  <2>4. u # <<>>
    BY <1>3, <1>10, <2>2, EmptyAccounts
  <2>5. Accounts(u) + (s.lost + n) = s.top + n - k
    BY <1>1, <1>4, <1>9, <2>2
  <2>6. s.top + n - k \in Nat
    BY <1>1, <2>2, <2>5
  <2>7. /\ t \in Slots /\ t.pend = u /\ t.lost = s.lost + n /\ t.top = s.top + n - k /\ t.conn
    <3>1. s.lost + n \in Nat
      BY <1>1
    <3>2. s \in Slots /\ s.room - r \in -1 .. SOCK
      BY <1>1, <1>7
    <3>3. s.top + n - k \in Nat /\ u \in Seq(Int)
      BY <2>2, <2>6
    <3>4. LET x == With(s, s.room - r, s.top + n - k, u, s.lost + n)
          IN  x \in Slots /\ x.pend = u /\ x.lost = s.lost + n /\ x.top = s.top + n - k /\ x.conn = s.conn
      BY <3>1, <3>2, <3>3, WithIs, Zenon
    <3> QED BY <3>4, <2>3
  <2>8. p - r <= PEND
    BY <1>1, <1>2, <1>3, <1>6
  <2> QED BY <2>2, <2>4, <2>5, <2>7, <2>8 DEF Sound, t
<1>11. CASE ~(r < p) /\ r < q
  <2>1. Len(Marker(s)) = 1 /\ r = p
    <3>1. p \in Nat /\ q = p + Len(Marker(s)) /\ Len(Marker(s)) \in {0, 1}
      BY <1>3
    <3>2. CASE Len(Marker(s)) = 0
      BY <1>6, <1>11, <3>1, <3>2
    <3>3. CASE Len(Marker(s)) = 1
      BY <1>6, <1>11, <3>1, <3>3
    <3> QED BY <3>1, <3>2, <3>3
  <2>2. /\ Marker(s) \in Seq(Int) /\ Follows(Marker(s)) /\ Accounts(Marker(s)) = s.lost
        /\ Marker(s) # <<>>
    BY <2>1, MarkerIs, EmptyAccounts
  <2>3. t = With(s, s.room - r, s.top + n - k, Marker(s), n)
    BY <1>5, <1>11 DEF With
  <2>4. s.lost + n = s.top + n - k
    BY <1>1, <1>3, <1>4, <1>9, <2>1
  <2>5. /\ t \in Slots /\ t.pend = Marker(s) /\ t.lost = n /\ t.top = s.top + n - k /\ t.conn
    <3>1. s.top + n - k \in Nat
      BY <1>1, <2>4
    <3>2. s \in Slots /\ s.room - r \in -1 .. SOCK
      BY <1>1, <1>7
    <3>3. s.top + n - k \in Nat /\ Marker(s) \in Seq(Int)
      BY <2>2, <3>1
    <3>4. LET x == With(s, s.room - r, s.top + n - k, Marker(s), n)
          IN  x \in Slots /\ x.pend = Marker(s) /\ x.lost = n /\ x.top = s.top + n - k /\ x.conn = s.conn
      BY <3>1, <3>2, <3>3, WithIs, Zenon
    <3> QED BY <3>4, <2>3
  <2> QED BY <1>2, <2>1, <2>2, <2>4, <2>5 DEF Sound, t
<1>12. CASE ~(r < p) /\ ~(r < q)
  <2>1. r \in q .. Len(due) /\ Len(due) = q + n /\ Len(due) \in r .. Len(due)
    BY <1>3, <1>6, <1>12
  <2>2. Len(left) = Len(due) - r
    <3>1. k = Accounts(SubSeq(due, 1, r))
      BY DEF k
    <3> QED BY <1>3, <1>6, <2>1, <3>1, RestFollows DEF left
  <2>3. /\ Len(left) \in Nat /\ Kept(left) \in 0 .. Len(left) /\ Kept(left) <= PEND
        /\ Len(left) - Kept(left) > 0 => Kept(left) > 0
    BY <1>2, <1>6, <2>1, <2>2 DEF Kept
  <2> DEFINE u == SubSeq(left, 1, Kept(left))
  <2> DEFINE m == r + Kept(left)
  <2>4. m \in r .. Len(due) /\ m - r = Kept(left) /\ m - q \in 0 .. n /\ q + (m - q) = m
        /\ r - q \in 0 .. n /\ q + (r - q) = r /\ m \in Nat
    <3>1. Kept(left) \in Nat /\ Kept(left) <= Len(due) - r
      BY <1>6, <2>1, <2>2, <2>3
    <3> HIDE DEF m
    <3>2. m = r + Kept(left)
      BY DEF m
    <3>3. n \in Nat
      OBVIOUS
    <3> QED BY ONLY <1>6, <2>1, <3>1, <3>2, <3>3, SMTT(30)
  <2>5. At(due, m) = s.top + (m - q) /\ k = s.top + (r - q)
    BY <1>3, <1>9, <2>4
  <2>6. u \in Seq(Int) /\ Len(u) = Kept(left) /\ Follows(u) /\ Accounts(u) = At(due, m) - k
    BY <1>8, <2>4
  <2>7. Accounts(u) = Kept(left)
    <3>1. s.top \in Nat /\ r \in Nat /\ q \in Nat /\ Kept(left) \in Int
      BY <1>1, <1>6, <2>3
    <3>2. Accounts(u) = (s.top + (m - q)) - (s.top + (r - q))
      BY <2>5, <2>6
    <3>3. m - r = Kept(left) /\ m \in Nat
      BY <2>4
    <3> HIDE DEF m, u
    <3> QED BY <3>1, <3>2, <3>3
  <2>8. (IF s.pend # <<>> THEN 0 ELSE s.lost) = 0
    BY <1>1
  <2>9. t = With(s, s.room - r, s.top + n - k, u, Len(left) - Kept(left))
    <3>1. t = With(s, s.room - r, s.top + n - k, u,
                   (IF s.pend # <<>> THEN 0 ELSE s.lost) + Len(left) - Kept(left))
      BY <1>5, <1>12 DEF With
    <3>2. (IF s.pend # <<>> THEN 0 ELSE s.lost) + Len(left) - Kept(left) = Len(left) - Kept(left)
      <4> HIDE DEF u
      <4> DEFINE base == IF s.pend # <<>> THEN 0 ELSE s.lost
      <4>1. base = 0
        BY <2>8
      <4>2. Len(left) \in Int /\ Kept(left) \in Int
        BY <2>3
      <4> HIDE DEF base
      <4>3. base + Len(left) - Kept(left) = Len(left) - Kept(left)
        BY <4>1, <4>2
      <4> QED BY <4>3 DEF base
    <3> QED BY <3>1, <3>2
  <2> HIDE DEF u
  <2>10. Kept(left) + (Len(left) - Kept(left)) = s.top + n - k /\ s.top + n - k \in Nat
    <3>1. /\ s.top \in Nat /\ r \in Nat /\ q \in Nat /\ n \in Nat /\ Kept(left) \in Nat
          /\ k = s.top + (r - q) /\ Len(left) = (q + n) - r /\ r >= q /\ r <= q + n
      BY <1>1, <1>6, <2>1, <2>2, <2>3, <2>5
    <3> QED BY <3>1
  <2>11. /\ t \in Slots /\ t.pend = u /\ t.lost = Len(left) - Kept(left) /\ t.top = s.top + n - k /\ t.conn
    <3>1. Len(left) - Kept(left) \in Nat
      BY <2>3
    <3>2. s \in Slots /\ s.room - r \in -1 .. SOCK
      BY <1>1, <1>7
    <3>3. s.top + n - k \in Nat /\ u \in Seq(Int)
      BY <2>6, <2>10
    <3>4. LET x == With(s, s.room - r, s.top + n - k, u, Len(left) - Kept(left))
          IN  x \in Slots /\ x.pend = u /\ x.lost = Len(left) - Kept(left) /\ x.top = s.top + n - k /\ x.conn = s.conn
      BY <3>1, <3>2, <3>3, WithIs, Zenon
    <3> QED BY <3>4, <2>9
  <2>12. Len(left) - Kept(left) > 0 => u # <<>>
    <3>1. Len(left) - Kept(left) > 0 => Len(u) > 0
      BY <2>3, <2>6
    <3> QED BY <3>1, EmptyAccounts
  <2>13. Len(t.pend) <= PEND /\ Follows(t.pend) /\ Accounts(t.pend) + t.lost = t.top
    BY <2>3, <2>6, <2>7, <2>10, <2>11
  <2> QED BY <2>11, <2>12, <2>13 DEF Sound, t
<1> QED BY <1>3, <1>6, <1>10, <1>11, <1>12

\* consoleSend() keeps a client that is there sound, or stops it.
LEMMA SendSound ==
    ASSUME NEW s, Sound(s), s.conn, NEW n \in Nat
    PROVE  /\ Sound(ConsoleSend(s, n))
           /\ ConsoleSend(s, n).conn \/ ConsoleSend(s, n) = Free
<1> DEFINE due == Len(Due(s, n))
<1> DEFINE r == IF s.room < due THEN s.room ELSE due
<1>1. s.room \in -1 .. SOCK /\ SOCK \in Nat
  BY ConsoleAssumption DEF Sound, Slots
<1>2. due \in Nat
  BY DueRight, LenProperties
<1>3. CASE due = 0
  BY <1>3 DEF ConsoleSend
<1>4. CASE due # 0 /\ s.room = -1
  BY <1>4, FreeSound DEF ConsoleSend
<1>5. CASE due # 0 /\ s.room # -1
  <2>1. r \in 0 .. due /\ r <= s.room
    BY <1>1, <1>2, <1>5
  <2>2. ConsoleSend(s, n) = Taken(s, n, r)
    BY <1>5 DEF ConsoleSend
  <2> HIDE DEF r
  <2>3. Sound(Taken(s, n, r)) /\ Taken(s, n, r).conn
    BY <2>1, TakenSound
  <2> QED BY <2>2, <2>3
<1> QED BY <1>3, <1>4, <1>5

-----------------------------------------------------------------------------
(* The console's steps.                                                      *)

SlotsSound ==
    /\ slot \in [Clients -> Slots]
    /\ \A c \in Clients : Sound(slot[c]) /\ (~slot[c].conn => slot[c] = Free /\ c \notin typed)

ConsoleInv ==
    /\ SlotsSound
    /\ raw \in 0 .. RAW /\ rawDropped \in 0 .. MAX_DROPPED
    /\ up \in BOOLEAN /\ waiting \in BOOLEAN
    /\ typed \subseteq Clients /\ inputCursor \in Clients
    /\ pc \in {"idle", "drain", "forget", "upstream", "backlog", "output", "input"}

LEMMA ConsoleInvAccounts == ConsoleInv => OutputAccounted
BY DEF ConsoleInv, SlotsSound, Sound, Slots, OutputAccounted, TypeOK

LEMMA ConsoleInitially == Init => ConsoleInv
<1> SUFFICES ASSUME Init PROVE ConsoleInv
  OBVIOUS
<1>1. slot \in [Clients -> Slots] /\ \A c \in Clients : slot[c] = Free
  BY FreeSound DEF Init, Sound
<1>2. SlotsSound
  BY <1>1, FreeSound DEF SlotsSound, Init
<1>3. 0 \in 0 .. RAW /\ 0 \in 0 .. MAX_DROPPED /\ 0 \in Clients
  BY ConsoleAssumption DEF Clients
<1> QED BY <1>2, <1>3 DEF ConsoleInv, Init

\* Sent to clients that are there, with those typed who stay.
LEMMA SendToSound ==
    ASSUME ConsoleInv, NEW C, C \subseteq Connected, NEW n \in Nat,
           slot' = SendTo(C, n), typed' \subseteq typed \cap {c \in Clients : slot'[c].conn}
    PROVE  SlotsSound' /\ typed' \subseteq Clients
<1>1. ASSUME NEW c \in Clients
      PROVE  Sound(slot'[c]) /\ (~slot'[c].conn => slot'[c] = Free /\ c \notin typed')
  <2>0. Sound(slot[c]) /\ (~slot[c].conn => slot[c] = Free /\ c \notin typed)
    BY DEF ConsoleInv, SlotsSound
  <2>1. CASE c \in C
    <3>1. slot'[c] = ConsoleSend(slot[c], n) /\ slot[c].conn
      BY <2>1 DEF SendTo, Connected
    <3>2. Sound(slot'[c]) /\ (slot'[c].conn \/ slot'[c] = Free)
      BY <2>0, <3>1, SendSound
    <3> QED BY <3>2
  <2>2. CASE c \notin C
    <3>1. slot'[c] = slot[c]
      BY <2>2 DEF SendTo
    <3> QED BY <2>0, <3>1
  <2> QED BY <2>1, <2>2
<1>2. slot' \in [Clients -> Slots]
  <2>1. slot' = [c \in Clients |-> slot'[c]]
    BY DEF SendTo
  <2>2. \A c \in Clients : slot'[c] \in Slots
    BY <1>1 DEF Sound
  <2> QED BY <2>1, <2>2
<1> QED BY <1>1, <1>2 DEF SlotsSound

LEMMA ConsoleBegins ==
    ASSUME ConsoleInv, BeginTick
    PROVE  ConsoleInv'
<1> DEFINE kept == [c \in Clients |-> IF slot[c].room = -1 THEN Free ELSE slot[c]]
<1> DEFINE places == {c \in Clients : ~kept[c].conn}
<1> DEFINE first == CHOOSE c \in places : \A d \in places : c <= d
<1>1. \A c \in Clients :
         Sound(slot[c]) /\ (~slot[c].conn => slot[c] = Free /\ c \notin typed)
  BY DEF ConsoleInv, SlotsSound
<1>2. \A c \in Clients :
         /\ Sound(kept[c]) /\ (~kept[c].conn => kept[c] = Free)
         /\ ~kept[c].conn => slot[c].room = -1 \/ c \notin typed
  BY <1>1, FreeSound DEF Free
<1>3. \/ slot' = kept
      \/ slot' = [kept EXCEPT ![first] = ConsoleSend(Fresh, 1)] /\ places # {}
  BY DEF BeginTick
<1>4. typed' = {c \in typed : slot[c].room # -1}
  BY DEF BeginTick
<1>5. places # {} => first \in places
  <2>1. places \subseteq Nat
    BY ConsoleAssumption DEF Clients
  <2> HIDE DEF places
  <2> QED BY <2>1, Least
<1>6. Sound(ConsoleSend(Fresh, 1)) /\ (ConsoleSend(Fresh, 1).conn \/ ConsoleSend(Fresh, 1) = Free)
  BY FreshSound, SendSound DEF Fresh
<1>7. ASSUME NEW c \in Clients
      PROVE  Sound(slot'[c]) /\ (~slot'[c].conn => slot'[c] = Free /\ c \notin typed')
  <2>1. CASE slot' = kept
    BY <1>2, <1>4, <2>1
  <2>2. CASE slot' = [kept EXCEPT ![first] = ConsoleSend(Fresh, 1)] /\ places # {}
    <3>1. CASE c = first
      <4>1. slot'[c] = ConsoleSend(Fresh, 1)
        BY <2>2, <3>1
      <4>2. ~kept[c].conn
        BY <1>5, <2>2, <3>1
      <4> QED BY <1>2, <1>4, <1>6, <4>1, <4>2
    <3>2. CASE c # first
      <4>1. slot'[c] = kept[c]
        BY <2>2, <3>2
      <4> QED BY <1>2, <1>4, <4>1
    <3> QED BY <3>1, <3>2
  <2> QED BY <1>3, <2>1, <2>2
<1>8. slot' \in [Clients -> Slots]
  <2>1. slot' = [c \in Clients |-> slot'[c]]
    BY <1>3
  <2>2. \A c \in Clients : slot'[c] \in Slots
    BY <1>7 DEF Sound
  <2> QED BY <2>1, <2>2
<1>9. SlotsSound'
  BY <1>7, <1>8 DEF SlotsSound
<1> QED BY <1>9 DEF ConsoleInv, BeginTick

\* The slot whose input is read is one that has some.
LEMMA Modulo ==
    ASSUME NEW d \in Nat, NEW n \in Nat \ {0}, d < n
    PROVE  d % n = d /\ (d + n) % n = d
BY SMT

LEMMA InputFound ==
    ASSUME ConsoleInv, typed # {}
    PROVE  LET at(k) == (inputCursor + k) % CLIENTS
               k1 == CHOOSE k \in Clients : at(k) \in typed /\ \A j \in 0 .. k - 1 : at(j) \notin typed
           IN  at(k1) \in typed /\ at(k1) \in Nat
<1> DEFINE at(k) == (inputCursor + k) % CLIENTS
<1> DEFINE T == {k \in Clients : at(k) \in typed}
<1>1. CLIENTS \in Nat \ {0} /\ Clients = 0 .. CLIENTS - 1 /\ inputCursor \in Clients /\ typed \subseteq Clients
  BY ConsoleAssumption DEF ConsoleInv, Clients
<1>2. T # {}
  <2>1. PICK d \in typed : d \in 0 .. CLIENTS - 1
    BY <1>1
  <2>2. CASE d >= inputCursor
    <3>1. d - inputCursor \in Clients /\ inputCursor + (d - inputCursor) = d
      BY <1>1, <2>1, <2>2
    <3>2. at(d - inputCursor) = d
      BY <1>1, <2>1, <3>1, Modulo
    <3> QED BY <2>1, <3>1, <3>2
  <2>3. CASE d < inputCursor
    <3>1. (d + CLIENTS) - inputCursor \in Clients /\ inputCursor + ((d + CLIENTS) - inputCursor) = d + CLIENTS
      BY <1>1, <2>1, <2>3
    <3>2. at((d + CLIENTS) - inputCursor) = d
      BY <1>1, <2>1, <3>1, Modulo
    <3> QED BY <2>1, <3>1, <3>2
  <2> QED BY <1>1, <2>1, <2>2, <2>3
<1>3. PICK k \in T : \A j \in T : k <= j
  <2>1. T \subseteq Nat
    BY <1>1
  <2> HIDE DEF T
  <2> QED BY <1>2, <2>1, Least
<1>4. \A j \in 0 .. k - 1 : at(j) \notin typed
  <2> SUFFICES ASSUME NEW j \in 0 .. k - 1, at(j) \in typed PROVE FALSE
    OBVIOUS
  <2>1. j \in Clients /\ j < k
    BY <1>1
  <2> QED BY <1>3, <2>1
<1>5. \E i \in Clients : at(i) \in typed /\ \A j \in 0 .. i - 1 : at(j) \notin typed
  BY <1>3, <1>4
<1> HIDE DEF at
<1>6. at(CHOOSE i \in Clients : at(i) \in typed /\ \A j \in 0 .. i - 1 : at(j) \notin typed) \in typed
  BY <1>5
<1>7. typed \subseteq Nat
  BY <1>1
<1> QED BY <1>6, <1>7 DEF at

LEMMA ConsoleTicks ==
    ASSUME ConsoleInv, Drain \/ Forget \/ TellUpstream \/ Backlog \/ Output \/ OutputDone
    PROVE  ConsoleInv'
<1> USE ConsoleAssumption
<1>1. CASE Drain
  BY <1>1 DEF ConsoleInv, SlotsSound, Drain
<1>2. CASE Forget
  BY <1>2 DEF ConsoleInv, SlotsSound, Forget
<1>3. CASE OutputDone
  BY <1>3 DEF ConsoleInv, SlotsSound, OutputDone
<1>4. CASE TellUpstream
  <2>1. SlotsSound' /\ typed' \subseteq Clients
    <3>1. CASE rawDropped > 0
      BY <1>4, <3>1, SendToSound DEF TellUpstream, StillTyped
    <3>2. CASE ~(rawDropped > 0)
      BY <1>4, <3>2 DEF TellUpstream, StillTyped, ConsoleInv, SlotsSound
    <3> QED BY <3>1, <3>2
  <2> QED BY <1>4, <2>1 DEF ConsoleInv, TellUpstream
<1>5. CASE Backlog
  <2>1. SlotsSound' /\ typed' \subseteq Clients
    BY <1>5, SendToSound DEF Backlog, StillTyped, Backlogged
  <2> QED BY <1>5, <2>1 DEF ConsoleInv, Backlog
<1>6. CASE Output
  <2> DEFINE n == IF raw < CHUNK THEN raw ELSE CHUNK
  <2>1. n \in Nat /\ n <= raw /\ raw \in 0 .. RAW
    BY DEF ConsoleInv
  <2>2. raw' = raw - n /\ slot' = SendTo(Connected, n) /\ typed' = StillTyped
    BY <1>6 DEF Output
  <2> HIDE DEF n
  <2>3. SlotsSound' /\ typed' \subseteq Clients
    BY <2>1, <2>2, SendToSound DEF StillTyped
  <2> QED BY <1>6, <2>1, <2>2, <2>3 DEF ConsoleInv, Output
<1> QED BY <1>1, <1>2, <1>3, <1>4, <1>5, <1>6

LEMMA ConsoleInputs ==
    ASSUME ConsoleInv, Input
    PROVE  ConsoleInv'
<1>1. CASE typed = {}
  BY <1>1 DEF ConsoleInv, SlotsSound, Input
<1>2. CASE typed # {}
  <2>1. PICK c : /\ c \in typed /\ c \in Nat
                 /\ inputCursor' = CursorAfter(c)
                 /\ slot' \in {slot, SendTo({c}, 1)}
                 /\ typed' = StillTyped \ {c}
    BY <1>2, InputFound DEF Input
  <2>2. inputCursor' \in Clients
    BY <2>1, ConsoleAssumption DEF CursorAfter, Clients
  <2>3. SlotsSound' /\ typed' \subseteq Clients
    <3>1. CASE slot' = slot
      BY <2>1, <3>1 DEF StillTyped, ConsoleInv, SlotsSound
    <3>2. CASE slot' = SendTo({c}, 1)
      <4>1. {c} \subseteq Connected
        BY <2>1 DEF ConsoleInv, SlotsSound, Connected
      <4>2. typed' \subseteq typed \cap {d \in Clients : slot'[d].conn}
        BY <2>1 DEF StillTyped
      <4> QED BY <3>2, <4>1, <4>2, SendToSound
    <3> QED BY <2>1, <3>1, <3>2
  <2> QED BY <2>2, <2>3 DEF ConsoleInv, Input
<1> QED BY <1>1, <1>2

LEMMA ClientsAct ==
    ASSUME ConsoleInv, NEW c \in Clients, Types(c) \/ Reads(c) \/ Goes(c)
    PROVE  ConsoleInv'
<1>0. /\ Sound(slot[c]) /\ slot \in [Clients -> Slots]
      /\ \A d \in Clients : Sound(slot[d]) /\ (~slot[d].conn => slot[d] = Free /\ d \notin typed)
  BY DEF ConsoleInv, SlotsSound
<1>1. CASE Types(c)
  BY <1>1 DEF ConsoleInv, SlotsSound, Types, Connected
<1>2. ASSUME NEW room \in -1 .. SOCK, slot' = [slot EXCEPT ![c].room = room], slot[c].conn,
             typed' = typed
      PROVE  SlotsSound'
  <2>1. slot' \in [Clients -> Slots]
    BY <1>0, <1>2 DEF Slots
  <2>2. ASSUME NEW d \in Clients
        PROVE  Sound(slot'[d]) /\ (~slot'[d].conn => slot'[d] = Free /\ d \notin typed)
    <3>1. CASE d = c
      <4>1. /\ slot'[d].pend = slot[d].pend /\ slot'[d].lost = slot[d].lost
            /\ slot'[d].top = slot[d].top /\ slot'[d].conn = slot[d].conn
        BY <1>0, <1>2, <3>1 DEF Slots
      <4> QED BY <1>0, <1>2, <2>1, <3>1, <4>1 DEF Sound
    <3>2. CASE d # c
      <4>1. slot'[d] = slot[d]
        BY <1>0, <1>2, <3>2
      <4> QED BY <1>0, <4>1
    <3> QED BY <3>1, <3>2
  <2> QED BY <1>2, <2>1, <2>2 DEF SlotsSound
<1>3. CASE Reads(c)
  <2>1. SlotsSound'
    <3>1. SOCK \in -1 .. SOCK
      BY ConsoleAssumption
    <3> QED BY <1>2, <1>3, <3>1 DEF Reads
  <2> QED BY <1>3, <2>1 DEF ConsoleInv, Reads
<1>4. CASE Goes(c)
  <2>1. SlotsSound'
    <3>1. -1 \in -1 .. SOCK
      BY ConsoleAssumption
    <3> QED BY <1>2, <1>4, <3>1 DEF Goes
  <2> QED BY <1>4, <2>1 DEF ConsoleInv, Goes
<1> QED BY <1>1, <1>3, <1>4

LEMMA ConsolePushes ==
    ASSUME ConsoleInv, NEW n \in 1 .. RAW, ConsolePushRaw(n)
    PROVE  ConsoleInv'
<1>1. raw \in 0 .. RAW /\ RAW \in Nat /\ rawDropped \in 0 .. MAX_DROPPED /\ MAX_DROPPED \in Nat
  BY ConsoleAssumption DEF ConsoleInv
<1>2. Fits(n) \in 0 .. n /\ raw + Fits(n) \in 0 .. RAW
  BY <1>1 DEF Fits
<1>3. raw' \in 0 .. RAW /\ rawDropped' \in 0 .. MAX_DROPPED
  BY <1>1, <1>2 DEF ConsolePushRaw
<1> QED BY <1>3 DEF ConsoleInv, SlotsSound, ConsolePushRaw

LEMMA ConsoleNext ==
    ASSUME ConsoleInv, [Next]_vars
    PROVE  ConsoleInv'
<1>1. CASE UNCHANGED vars
  BY <1>1 DEF ConsoleInv, SlotsSound, vars
<1>2. CASE ConsoleStart \/ Connects
  BY <1>2 DEF ConsoleInv, SlotsSound, ConsoleStart, Connects
<1>3. CASE ConsoleStop
  <2>1. slot' \in [Clients -> Slots] /\ (\A c \in Clients : slot'[c] = Free) /\ typed' = {}
    BY <1>3, FreeSound DEF ConsoleStop, Sound
  <2>2. SlotsSound'
    BY <2>1, FreeSound DEF SlotsSound
  <2> QED BY <1>3, <2>2 DEF ConsoleInv, ConsoleStop
<1> QED BY <1>1, <1>2, <1>3, ConsoleBegins, ConsoleTicks, ConsoleInputs, ConsolePushes, ClientsAct
    DEF Next, ConsoleTick, Push

\* The inductive invariant of the console server (console.cpp): every client's pending
\* output follows on from what it was sent, and a count of lost items waits only behind
\* a backlog.
THEOREM ConsoleInductive == Spec => []ConsoleInv
<1>1. Init => ConsoleInv
  BY ConsoleInitially
<1>2. ConsoleInv /\ [Next]_vars => ConsoleInv'
  BY ConsoleNext
<1> QED BY <1>1, <1>2, PTL DEF Spec

\* Everything a client was offered is sent, pending or counted, and the count told at the
\* gap (consoleSend(), console.cpp).
THEOREM OutputIsAccounted == Spec => []OutputAccounted
BY ConsoleInductive, ConsoleInvAccounts, PTL

-----------------------------------------------------------------------------
(* DictKeeper: lines and their sizes.                                        *)

Text == Seq(Lines)

LEMMA SizesType ==
    ASSUME NEW s \in Text
    PROVE  /\ Len(s) \in Nat /\ DOMAIN s = 1 .. Len(s) /\ \A i \in 1 .. Len(s) : s[i] \in Lines
           /\ Sizes(s) \in Seq(Nat) /\ Len(Sizes(s)) = Len(s)
           /\ \A i \in 1 .. Len(s) : Sizes(s)[i] = Size[s[i]] /\ Sizes(s)[i] > 0
           /\ Bytes(s) \in Nat /\ Bytes(s) = UpTo(Sizes(s))[Len(s)]
<1>1. Len(s) \in Nat /\ DOMAIN s = 1 .. Len(s) /\ \A i \in 1 .. Len(s) : s[i] \in Lines
  BY LenProperties, ElementOfSeq DEF Text
<1>2. \A l \in Lines : Size[l] \in Nat \ {0}
  BY DictAssumption
<1>3. Sizes(s) \in [1 .. Len(s) -> Nat]
  BY <1>1, <1>2 DEF Sizes
<1>4. Sizes(s) \in Seq(Nat)
  <2>1. \E n \in Nat : Sizes(s) \in [1 .. n -> Nat]
    BY <1>1, <1>3
  <2> QED BY <2>1, SeqDef
<1>5. Len(Sizes(s)) = Len(s)
  <2>1. DOMAIN Sizes(s) = 1 .. Len(s)
    BY <1>3
  <2> QED BY <1>1, <1>4, <2>1, LenProperties
<1>6. \A i \in 1 .. Len(s) : Sizes(s)[i] = Size[s[i]] /\ Sizes(s)[i] > 0
  BY <1>1, <1>2 DEF Sizes
<1>7. Bytes(s) \in Nat /\ Bytes(s) = UpTo(Sizes(s))[Len(s)]
  BY <1>1, <1>4, <1>5, TotalIs, TotalType DEF Bytes
<1> QED BY <1>1, <1>4, <1>5, <1>6, <1>7

\* Part of a buffer, by its place.
LEMMA SizesPart ==
    ASSUME NEW w \in Text, NEW v \in Text, NEW r \in Nat, r + Len(v) <= Len(w),
           \A i \in 1 .. Len(v) : w[r + i] = v[i]
    PROVE  IsPart(Sizes(w), r, Sizes(v))
<1>1. /\ Len(Sizes(w)) = Len(w) /\ Len(Sizes(v)) = Len(v) /\ Len(w) \in Nat /\ Len(v) \in Nat
      /\ \A i \in 1 .. Len(w) : Sizes(w)[i] = Size[w[i]]
      /\ \A i \in 1 .. Len(v) : Sizes(v)[i] = Size[v[i]]
  BY SizesType
<1>2. ASSUME NEW i \in 1 .. Len(v) PROVE Sizes(w)[r + i] = Sizes(v)[i]
  <2>1. r + i \in 1 .. Len(w)
    BY <1>1
  <2> QED BY <1>1, <2>1
<1> QED BY <1>1, <1>2 DEF IsPart

LEMMA BytesJoined ==
    ASSUME NEW u \in Text, NEW v \in Text
    PROVE  u \o v \in Text /\ Bytes(u \o v) = Bytes(u) + Bytes(v)
<1>1. /\ u \o v \in Text /\ Len(u \o v) = Len(u) + Len(v) /\ Len(u) \in Nat /\ Len(v) \in Nat
      /\ \A i \in 1 .. Len(u) : (u \o v)[i] = u[i]
      /\ \A i \in 1 .. Len(v) : (u \o v)[Len(u) + i] = v[i]
  BY Joined DEF Text
<1>2. IsPart(Sizes(u \o v), 0, Sizes(u))
  <2>1. \A i \in 1 .. Len(u) : 0 + i = i
    BY <1>1
  <2>2. 0 + Len(u) <= Len(u \o v) /\ \A i \in 1 .. Len(u) : (u \o v)[0 + i] = u[i]
    BY <1>1, <2>1
  <2> QED BY <1>1, <2>2, SizesPart
<1>3. IsPart(Sizes(u \o v), Len(Sizes(u)), Sizes(v))
  <2>1. Len(u) + Len(v) <= Len(u \o v) /\ Len(Sizes(u)) = Len(u)
    BY <1>1, SizesType
  <2>2. IsPart(Sizes(u \o v), Len(u), Sizes(v))
    BY <1>1, <2>1, SizesPart
  <2> QED BY <2>1, <2>2
<1>4. /\ Sizes(u) \in Seq(Nat) /\ Sizes(v) \in Seq(Nat) /\ Sizes(u \o v) \in Seq(Nat)
      /\ Len(Sizes(u \o v)) = Len(Sizes(u)) + Len(Sizes(v))
  BY <1>1, SizesType
<1> QED BY <1>1, <1>2, <1>3, <1>4, TotalParts DEF Bytes

LEMMA BytesOne ==
    ASSUME NEW l \in Lines
    PROVE  <<l>> \in Text /\ Bytes(<<l>>) = Size[l] /\ Bytes(<<>>) = 0 /\ <<>> \in Text
<1>1. <<l>> \in Text /\ Len(<<l>>) = 1 /\ <<l>>[1] = l /\ <<>> \in Text /\ Len(<<>>) = 0
  BY DEF Text
<1>2. Bytes(<<l>>) = Sizes(<<l>>)[1]
  BY <1>1, SizesType, TotalOne DEF Bytes
<1>3. Bytes(<<>>) = 0
  BY <1>1, SizesType, TotalNone DEF Bytes
<1> QED BY <1>1, <1>2, <1>3, SizesType

LEMMA NoBytes == <<>> \in Text /\ Len(<<>>) = 0 /\ Bytes(<<>>) = 0
<1>1. <<>> \in Text /\ Len(<<>>) = 0
  BY DEF Text
<1> QED BY <1>1, SizesType, TotalNone DEF Bytes

\* The first k lines take more the more they are.
LEMMA BytesFirst ==
    ASSUME NEW s \in Text, NEW k \in 0 .. Len(s)
    PROVE  /\ SubSeq(s, 1, k) \in Text /\ Len(SubSeq(s, 1, k)) = k
           /\ \A i \in 1 .. k : SubSeq(s, 1, k)[i] = s[i]
           /\ Bytes(SubSeq(s, 1, k)) = UpTo(Sizes(s))[k] /\ Bytes(SubSeq(s, 1, k)) \in Nat
<1>0. Len(s) \in Nat /\ 0 \in 0 .. Len(s) /\ k \in Nat /\ k <= Len(s) /\ 0 + 1 = 1 /\ k - 0 = k
  BY SizesType
<1>1. /\ SubSeq(s, 0 + 1, k) \in Text /\ Len(SubSeq(s, 0 + 1, k)) = k - 0
      /\ \A i \in 1 .. k - 0 : SubSeq(s, 0 + 1, k)[i] = s[0 + i]
  BY <1>0, Cut DEF Text
<1>2. \A i \in 1 .. k : 0 + i = i
  BY <1>0
<1> DEFINE u == SubSeq(s, 1, k)
<1>3. u \in Text /\ Len(u) = k /\ \A i \in 1 .. k : u[i] = s[i]
  BY <1>0, <1>1, <1>2
<1> HIDE DEF u
<1>4. IsPart(Sizes(s), 0, Sizes(u))
  BY <1>0, <1>2, <1>3, SizesPart
<1>5. UpTo(Sizes(s))[0 + k] = UpTo(Sizes(s))[0] + UpTo(Sizes(u))[k]
  <2>1. k \in 0 .. Len(Sizes(u))
    BY <1>0, <1>3, SizesType
  <2>2. Sizes(s) \in Seq(Nat) /\ Sizes(u) \in Seq(Nat)
    BY <1>3, SizesType
  <2> QED BY <1>4, <2>1, <2>2, UpToShifted
<1>6. UpTo(Sizes(s))[0] = 0 /\ Bytes(u) = UpTo(Sizes(u))[k] /\ Bytes(u) \in Nat
  BY <1>3, SizesType, UpToUnfolds
<1> QED BY <1>0, <1>3, <1>5, <1>6 DEF u

LEMMA BytesNext ==
    ASSUME NEW s \in Text, NEW k \in 0 .. Len(s), k < Len(s)
    PROVE  /\ s[k + 1] \in Lines /\ Size[s[k + 1]] \in Nat \ {0}
           /\ Bytes(SubSeq(s, 1, k + 1)) = Bytes(SubSeq(s, 1, k)) + Size[s[k + 1]]
<1>1. Len(s) \in Nat /\ k + 1 \in 1 .. Len(s) /\ k + 1 \in 0 .. Len(s) /\ (k + 1) - 1 = k
  BY SizesType
<1>2. UpTo(Sizes(s))[k + 1] = UpTo(Sizes(s))[k] + Sizes(s)[k + 1]
  BY <1>1, SizesType, UpToUnfolds
<1>3. s[k + 1] \in Lines /\ Size[s[k + 1]] \in Nat \ {0} /\ Sizes(s)[k + 1] = Size[s[k + 1]]
  BY <1>1, SizesType, DictAssumption
<1> QED BY <1>1, <1>2, <1>3, BytesFirst

LEMMA BytesAscend ==
    ASSUME NEW s \in Text, NEW j \in 0 .. Len(s), NEW k \in 0 .. Len(s)
    PROVE  j < k => Bytes(SubSeq(s, 1, j)) < Bytes(SubSeq(s, 1, k))
<1>1. /\ Sizes(s) \in Seq(Nat) /\ Len(Sizes(s)) = Len(s)
      /\ \A i \in 1 .. Len(s) : Sizes(s)[i] > 0
  BY SizesType
<1>2. j < k => UpTo(Sizes(s))[j] < UpTo(Sizes(s))[k]
  BY <1>1, UpToAscends
<1> QED BY <1>2, BytesFirst

\* Lines, each once.
LEMMA InjectiveJoined ==
    ASSUME NEW u \in Text, NEW v \in Text
    PROVE  /\ ToSet(u \o v) = ToSet(u) \cup ToSet(v)
           /\ IsInjective(u \o v) <=>
                IsInjective(u) /\ IsInjective(v) /\ ToSet(u) \cap ToSet(v) = {}
<1> DEFINE w == u \o v
<1>1. /\ w \in Text /\ Len(w) = Len(u) + Len(v) /\ Len(u) \in Nat /\ Len(v) \in Nat
      /\ \A i \in 1 .. Len(u) : w[i] = u[i]
      /\ \A i \in 1 .. Len(v) : w[Len(u) + i] = v[i]
  BY Joined DEF Text
<1> HIDE DEF w
<1>2. DOMAIN u = 1 .. Len(u) /\ DOMAIN v = 1 .. Len(v) /\ DOMAIN w = 1 .. Len(w)
  BY <1>1, SizesType
<1>3. \A i \in 1 .. Len(w) : i \in 1 .. Len(u) \/ (i - Len(u) \in 1 .. Len(v) /\ i = Len(u) + (i - Len(u)))
  BY <1>1
<1>4. \A i \in 1 .. Len(u) : i \in 1 .. Len(w)
  BY <1>1
<1>5. \A i \in 1 .. Len(v) : Len(u) + i \in 1 .. Len(w)
  BY <1>1
<1>6. ToSet(w) = ToSet(u) \cup ToSet(v)
  <2>1. ASSUME NEW x \in ToSet(w) PROVE x \in ToSet(u) \cup ToSet(v)
    <3>1. PICK i \in 1 .. Len(w) : x = w[i]
      BY <1>2 DEF ToSet
    <3>2. CASE i \in 1 .. Len(u)
      BY <1>1, <1>2, <3>1, <3>2 DEF ToSet
    <3>3. CASE i - Len(u) \in 1 .. Len(v) /\ i = Len(u) + (i - Len(u))
      <4>1. x = v[i - Len(u)]
        BY <1>1, <3>1, <3>3
      <4> QED BY <1>2, <3>3, <4>1 DEF ToSet
    <3> QED BY <1>3, <3>2, <3>3
  <2>2. ASSUME NEW x \in ToSet(u) PROVE x \in ToSet(w)
    <3>1. PICK i \in 1 .. Len(u) : x = u[i]
      BY <1>2 DEF ToSet
    <3> QED BY <1>1, <1>2, <1>4, <3>1 DEF ToSet
  <2>3. ASSUME NEW x \in ToSet(v) PROVE x \in ToSet(w)
    <3>1. PICK i \in 1 .. Len(v) : x = v[i]
      BY <1>2 DEF ToSet
    <3>2. x = w[Len(u) + i] /\ Len(u) + i \in DOMAIN w
      BY <1>1, <1>2, <1>5, <3>1
    <3> QED BY <3>2 DEF ToSet
  <2> QED BY <2>1, <2>2, <2>3
<1>7. ASSUME IsInjective(w)
      PROVE  IsInjective(u) /\ IsInjective(v) /\ ToSet(u) \cap ToSet(v) = {}
  <2>0. \A a, b \in 1 .. Len(w) : w[a] = w[b] => a = b
    BY <1>2, <1>7 DEF IsInjective
  <2>1. ASSUME NEW i \in 1 .. Len(u), NEW j \in 1 .. Len(u), u[i] = u[j] PROVE i = j
    BY <1>1, <1>4, <2>0, <2>1
  <2>2. ASSUME NEW i \in 1 .. Len(v), NEW j \in 1 .. Len(v), v[i] = v[j] PROVE i = j
    <3>1. Len(u) + i = Len(u) + j
      BY <1>1, <1>5, <2>0, <2>2
    <3> QED BY <1>1, <3>1
  <2>3. ASSUME NEW i \in 1 .. Len(u), NEW j \in 1 .. Len(v), u[i] = v[j] PROVE FALSE
    <3>1. i = Len(u) + j
      BY <1>1, <1>4, <1>5, <2>0, <2>3
    <3> QED BY <1>1, <3>1
  <2> QED BY <1>2, <2>1, <2>2, <2>3 DEF IsInjective, ToSet
<1>8. ASSUME IsInjective(u), IsInjective(v), ToSet(u) \cap ToSet(v) = {}
      PROVE  IsInjective(w)
  <2> SUFFICES ASSUME NEW a \in 1 .. Len(w), NEW b \in 1 .. Len(w), w[a] = w[b] PROVE a = b
    BY <1>2 DEF IsInjective
  <2>1. \A i, j \in 1 .. Len(u) : u[i] = u[j] => i = j
    BY <1>2, <1>8 DEF IsInjective
  <2>2. \A i, j \in 1 .. Len(v) : v[i] = v[j] => i = j
    BY <1>2, <1>8 DEF IsInjective
  <2>3. \A i \in 1 .. Len(u), j \in 1 .. Len(v) : u[i] # v[j]
    BY <1>2, <1>8 DEF ToSet
  <2>4. CASE a \in 1 .. Len(u) /\ b \in 1 .. Len(u)
    BY <1>1, <2>1, <2>4
  <2>5. CASE a \in 1 .. Len(u) /\ b - Len(u) \in 1 .. Len(v) /\ b = Len(u) + (b - Len(u))
    <3>1. w[b] = v[b - Len(u)] /\ w[a] = u[a]
      BY <1>1, <2>5
    <3> QED BY <2>3, <2>5, <3>1
  <2>6. CASE b \in 1 .. Len(u) /\ a - Len(u) \in 1 .. Len(v) /\ a = Len(u) + (a - Len(u))
    <3>1. w[a] = v[a - Len(u)] /\ w[b] = u[b]
      BY <1>1, <2>6
    <3> QED BY <2>3, <2>6, <3>1
  <2>7. CASE /\ a - Len(u) \in 1 .. Len(v) /\ a = Len(u) + (a - Len(u))
             /\ b - Len(u) \in 1 .. Len(v) /\ b = Len(u) + (b - Len(u))
    <3>1. w[a] = v[a - Len(u)] /\ w[b] = v[b - Len(u)]
      BY <1>1, <2>7
    <3>2. a - Len(u) = b - Len(u)
      BY <2>2, <2>7, <3>1
    <3> QED BY <2>7, <3>2
  <2> QED BY <1>3, <2>4, <2>5, <2>6, <2>7
<1> QED BY <1>6, <1>7, <1>8 DEF w

LEMMA OneLine ==
    ASSUME NEW l \in Lines
    PROVE  ToSet(<<l>>) = {l} /\ IsInjective(<<l>>)
<1>1. <<l>> \in Text /\ Len(<<l>>) = 1 /\ <<l>>[1] = l /\ DOMAIN <<l>> = {1}
  BY DEF Text
<1> QED BY <1>1 DEF ToSet, IsInjective

LEMMA NoLine == ToSet(<<>>) = {} /\ IsInjective(<<>>)
BY DEF ToSet, IsInjective

\* A line more.
LEMMA Appended ==
    ASSUME NEW u \in Text, NEW l \in Lines
    PROVE  /\ Append(u, l) \in Text /\ Bytes(Append(u, l)) = Bytes(u) + Size[l]
           /\ ToSet(Append(u, l)) = ToSet(u) \cup {l}
           /\ IsInjective(Append(u, l)) <=> IsInjective(u) /\ l \notin ToSet(u)
<1>1. Append(u, l) = u \o <<l>>
  BY AppendIsConcat DEF Text
<1>2. <<l>> \in Text /\ Bytes(<<l>>) = Size[l]
  BY BytesOne
<1>3. /\ ToSet(u \o <<l>>) = ToSet(u) \cup ToSet(<<l>>)
      /\ IsInjective(u \o <<l>>) <=>
            IsInjective(u) /\ IsInjective(<<l>>) /\ ToSet(u) \cap ToSet(<<l>>) = {}
  BY <1>2, InjectiveJoined
<1>4. u \o <<l>> \in Text /\ Bytes(u \o <<l>>) = Bytes(u) + Bytes(<<l>>)
  BY <1>2, BytesJoined
<1>5. ToSet(<<l>>) = {l} /\ IsInjective(<<l>>)
  BY OneLine
<1>6. IsInjective(Append(u, l)) <=> IsInjective(u) /\ l \notin ToSet(u)
  BY <1>1, <1>3, <1>5
<1> QED BY <1>1, <1>2, <1>3, <1>4, <1>5, <1>6

\* The first lines and those behind them.
LEMMA TwoParts ==
    ASSUME NEW s \in Text, NEW k \in 0 .. Len(s)
    PROVE  /\ SubSeq(s, 1, k) \in Text /\ SubSeq(s, k + 1, Len(s)) \in Text
           /\ Len(SubSeq(s, k + 1, Len(s))) = Len(s) - k
           /\ \A i \in 1 .. Len(s) - k : SubSeq(s, k + 1, Len(s))[i] = s[k + i]
           /\ s = SubSeq(s, 1, k) \o SubSeq(s, k + 1, Len(s))
<1> DEFINE u == SubSeq(s, 1, k)
<1> DEFINE v == SubSeq(s, k + 1, Len(s))
<1>1. Len(s) \in Nat /\ k \in Nat /\ k <= Len(s) /\ Len(s) \in k .. Len(s)
  BY SizesType
<1>2. u \in Text /\ Len(u) = k /\ \A i \in 1 .. k : u[i] = s[i]
  BY BytesFirst
<1>3. v \in Text /\ Len(v) = Len(s) - k /\ \A i \in 1 .. Len(s) - k : v[i] = s[k + i]
  BY <1>1, Cut DEF Text
<1> HIDE DEF u, v
<1>4. /\ u \o v \in Text /\ Len(u \o v) = Len(s)
      /\ \A i \in 1 .. k : (u \o v)[i] = u[i]
      /\ \A i \in 1 .. Len(s) - k : (u \o v)[k + i] = v[i]
  <2>1. /\ u \o v \in Text /\ Len(u \o v) = Len(u) + Len(v)
        /\ \A i \in 1 .. Len(u) : (u \o v)[i] = u[i]
        /\ \A i \in 1 .. Len(v) : (u \o v)[Len(u) + i] = v[i]
    BY <1>2, <1>3, Joined DEF Text
  <2> QED BY <1>1, <1>2, <1>3, <2>1
<1>5. \A i \in 1 .. Len(s) : (u \o v)[i] = s[i]
  <2> SUFFICES ASSUME NEW i \in 1 .. Len(s) PROVE (u \o v)[i] = s[i]
    OBVIOUS
  <2>1. CASE i <= k
    <3>1. i \in 1 .. k
      BY <1>1, <2>1
    <3> QED BY <1>2, <1>4, <3>1
  <2>2. CASE ~(i <= k)
    <3>1. i - k \in 1 .. Len(s) - k /\ i = k + (i - k)
      BY <1>1, <2>2
    <3> QED BY <1>3, <1>4, <3>1
  <2> QED BY <2>1, <2>2
<1>6. s = u \o v
  <2>1. DOMAIN s = 1 .. Len(s) /\ DOMAIN (u \o v) = 1 .. Len(s)
    BY <1>4, SizesType
  <2>2. s = [i \in 1 .. Len(s) |-> s[i]] /\ (u \o v) = [i \in 1 .. Len(s) |-> (u \o v)[i]]
    BY <1>4, <2>1, LenProperties DEF Text
  <2> QED BY <1>5, <2>2
<1> QED BY <1>2, <1>3, <1>6 DEF u, v

\* What of the first i lines is in S.
IsOnlyTo(f, s, S, n) ==
    f = [i \in 0 .. n |-> IF i = 0 THEN <<>> ELSE IF s[i] \in S THEN Append(f[i - 1], s[i]) ELSE f[i - 1]]

OnlyTo(s, S) == CHOOSE f : IsOnlyTo(f, s, S, Len(s))

LEMMA OnlyIs == ASSUME NEW s, NEW S PROVE Only(s, S) = OnlyTo(s, S)[Len(s)]
BY Zenon DEF Only, OnlyTo, IsOnlyTo

LEMMA OnlyToExists ==
    ASSUME NEW s, NEW S, NEW n \in Nat
    PROVE  \E f : IsOnlyTo(f, s, S, n)
<1> DEFINE bad == {k \in Nat : ~ \E f : IsOnlyTo(f, s, S, k)}
<1>1. SUFFICES ASSUME bad # {} PROVE FALSE
  OBVIOUS
<1>2. PICK k \in bad : \A j \in bad : k <= j
  <2>1. bad \subseteq Nat
    OBVIOUS
  <2> HIDE DEF bad
  <2> QED BY <1>1, <2>1, Least
<1>3. CASE k = 0
  <2>1. IsOnlyTo([i \in 0 .. 0 |-> <<>>], s, S, 0)
    BY DEF IsOnlyTo
  <2> QED BY <1>3, <2>1
<1>4. CASE k # 0
  <2>1. k - 1 \in Nat /\ k \in Nat /\ k - 1 \notin bad
    BY <1>2, <1>4
  <2>2. PICK f : IsOnlyTo(f, s, S, k - 1)
    BY <2>1
  <2> DEFINE step(h, i) == IF s[i] \in S THEN Append(h[i - 1], s[i]) ELSE h[i - 1]
  <2> DEFINE g == [i \in 0 .. k |-> IF i = k THEN step(f, k) ELSE f[i]]
  <2>3. \A i \in 0 .. k - 1 : f[i] = IF i = 0 THEN <<>> ELSE step(f, i)
    BY <2>2 DEF IsOnlyTo
  <2>4. ASSUME NEW i \in 0 .. k PROVE g[i] = IF i = 0 THEN <<>> ELSE step(g, i)
    <3>1. CASE i = 0
      BY <1>4, <2>1, <2>3, <3>1
    <3>2. CASE i # 0
      <4>1. i - 1 \in 0 .. k - 1 /\ i - 1 \in 0 .. k /\ i - 1 # k
        BY <2>1, <3>2
      <4>2. g[i - 1] = f[i - 1]
        BY <4>1
      <4>3. g[i] = step(f, i)
        <5>1. CASE i = k
          BY <5>1
        <5>2. CASE i # k
          <6>1. i \in 0 .. k - 1
            BY <2>1, <5>2
          <6> QED BY <2>3, <3>2, <5>2, <6>1
        <5> QED BY <5>1, <5>2
      <4> HIDE DEF g
      <4> QED BY <3>2, <4>2, <4>3
    <3> QED BY <3>1, <3>2
  <2>5. IsOnlyTo(g, s, S, k)
    <3>1. g = [i \in 0 .. k |-> g[i]]
      OBVIOUS
    <3> HIDE DEF g
    <3> QED BY <2>4, <3>1 DEF IsOnlyTo
  <2> QED BY <2>5
<1> QED BY <1>3, <1>4

LEMMA OnlyToUnfolds ==
    ASSUME NEW s \in Text, NEW S
    PROVE  /\ OnlyTo(s, S)[0] = <<>>
           /\ \A i \in 1 .. Len(s) :
                OnlyTo(s, S)[i] = IF s[i] \in S THEN Append(OnlyTo(s, S)[i - 1], s[i])
                                  ELSE OnlyTo(s, S)[i - 1]
<1>1. Len(s) \in Nat
  BY SizesType
<1>2. \E f : IsOnlyTo(f, s, S, Len(s))
  BY <1>1, OnlyToExists
<1>3. IsOnlyTo(OnlyTo(s, S), s, S, Len(s))
  BY <1>2, Zenon DEF OnlyTo
<1> DEFINE f == OnlyTo(s, S)
<1> HIDE DEF f
<1>4. f = [i \in 0 .. Len(s) |-> IF i = 0 THEN <<>>
                               ELSE IF s[i] \in S THEN Append(f[i - 1], s[i]) ELSE f[i - 1]]
  BY <1>3 DEF IsOnlyTo, f
<1>5. \A i \in 0 .. Len(s) : f[i] = IF i = 0 THEN <<>>
                                    ELSE IF s[i] \in S THEN Append(f[i - 1], s[i]) ELSE f[i - 1]
  BY <1>4, Zenon
<1>6. 0 \in 0 .. Len(s) /\ \A i \in 1 .. Len(s) : i \in 0 .. Len(s) /\ i # 0
  BY <1>1
<1> QED BY <1>5, <1>6 DEF f

\* The lines of s that are in S: all of them, each as often as in s; and if the first m
\* of s all are, they take no less room.
OnlyRight(s, S, m, i) ==
    /\ OnlyTo(s, S)[i] \in Text
    /\ ToSet(OnlyTo(s, S)[i]) = {s[h] : h \in 1 .. i} \cap S
    /\ IsInjective(s) => IsInjective(OnlyTo(s, S)[i])
    /\ Bytes(OnlyTo(s, S)[i]) >= Bytes(SubSeq(s, 1, IF i < m THEN i ELSE m))

LEMMA OnlyToRight ==
    ASSUME NEW s \in Text, NEW S, NEW m \in 0 .. Len(s), \A i \in 1 .. m : s[i] \in S,
           NEW n \in 0 .. Len(s)
    PROVE  OnlyRight(s, S, m, n)
<1> DEFINE bad == {i \in 0 .. Len(s) : ~OnlyRight(s, S, m, i)}
<1>0. Len(s) \in Nat /\ DOMAIN s = 1 .. Len(s) /\ m \in Nat /\ m <= Len(s) /\ \A i \in 1 .. Len(s) : s[i] \in Lines
  BY SizesType
<1>1. SUFFICES ASSUME bad # {} PROVE FALSE
  OBVIOUS
<1>2. PICK k \in bad : \A j \in bad : k <= j
  <2>1. bad \subseteq Nat
    BY <1>0
  <2> HIDE DEF bad
  <2> QED BY <1>1, <2>1, Least
<1>3. k \in 0 .. Len(s) /\ ~OnlyRight(s, S, m, k)
  OBVIOUS
<1>4. k # 0 => k - 1 \in 0 .. Len(s) /\ OnlyRight(s, S, m, k - 1)
  <2> SUFFICES ASSUME k # 0 PROVE k - 1 \in 0 .. Len(s) /\ k - 1 \notin bad
    OBVIOUS
  <2> QED BY <1>0, <1>2
<1> HIDE DEF bad
<1>5. k # 0
  <2> SUFFICES ASSUME k = 0 PROVE FALSE
    OBVIOUS
  <2>1. OnlyTo(s, S)[0] = <<>> /\ (IF 0 < m THEN 0 ELSE m) = 0 /\ {s[h] : h \in 1 .. 0} = {}
    BY <1>0, OnlyToUnfolds
  <2>2. SubSeq(s, 1, 0) = <<>>
    BY SubSeqEmpty
  <2>3. OnlyRight(s, S, m, 0)
    <3>1. OnlyTo(s, S)[0] \in Text /\ Bytes(OnlyTo(s, S)[0]) >= 0 /\ IsInjective(OnlyTo(s, S)[0])
      BY <2>1, NoLine, NoBytes
    <3>2. ToSet(OnlyTo(s, S)[0]) = {s[h] : h \in 1 .. 0} \cap S
      BY <2>1, NoLine
    <3>3. Bytes(SubSeq(s, 1, IF 0 < m THEN 0 ELSE m)) = 0
      BY <2>1, <2>2, NoBytes
    <3> QED BY <3>1, <3>2, <3>3 DEF OnlyRight
  <2> QED BY <1>3, <2>3
<1> DEFINE u == OnlyTo(s, S)[k - 1]
<1> DEFINE last == IF k - 1 < m THEN k - 1 ELSE m
<1>6. /\ u \in Text /\ ToSet(u) = {s[h] : h \in 1 .. k - 1} \cap S
      /\ IsInjective(s) => IsInjective(u)
      /\ Bytes(u) >= Bytes(SubSeq(s, 1, last)) /\ Bytes(u) \in Nat
  BY <1>4, <1>5, SizesType DEF OnlyRight
<1>7. k \in 1 .. Len(s) /\ s[k] \in Lines /\ {s[h] : h \in 1 .. k} = {s[h] : h \in 1 .. k - 1} \cup {s[k]}
      /\ Size[s[k]] \in Nat
  <2>1. k \in 1 .. Len(s) /\ s[k] \in Lines
    BY <1>0, <1>3, <1>5
  <2>2. \A h \in 1 .. k : h \in 1 .. k - 1 \/ h = k
    BY <1>0, <2>1
  <2>3. \A h \in 1 .. k - 1 : h \in 1 .. k
    BY <1>0, <2>1
  <2>4. k \in 1 .. k
    BY <1>0, <2>1
  <2> QED BY <2>1, <2>2, <2>3, <2>4, DictAssumption
<1> DEFINE v == OnlyTo(s, S)[k]
<1>8. v = IF s[k] \in S THEN Append(u, s[k]) ELSE u
  BY <1>7, OnlyToUnfolds
<1>9. IsInjective(s) => s[k] \notin {s[h] : h \in 1 .. k - 1}
  BY <1>0, <1>7 DEF IsInjective
<1> HIDE DEF u, v
<1>10. v \in Text /\ ToSet(v) = {s[h] : h \in 1 .. k} \cap S /\ (IsInjective(s) => IsInjective(v))
  <2>1. CASE s[k] \in S
    <3>1. /\ v \in Text /\ ToSet(v) = ToSet(u) \cup {s[k]}
          /\ IsInjective(v) <=> IsInjective(u) /\ s[k] \notin ToSet(u)
      BY <1>6, <1>7, <1>8, <2>1, Appended
    <3> QED BY <1>6, <1>7, <1>9, <2>1, <3>1
  <2>2. CASE s[k] \notin S
    BY <1>6, <1>7, <1>8, <2>2
  <2> QED BY <2>1, <2>2
<1>11. Bytes(v) >= Bytes(SubSeq(s, 1, IF k < m THEN k ELSE m))
  <2>1. CASE k <= m
    <3>1. last = k - 1 /\ (IF k < m THEN k ELSE m) = k /\ s[k] \in S /\ k - 1 < Len(s)
          /\ k - 1 \in 0 .. Len(s) /\ (k - 1) + 1 = k
      BY <1>0, <1>7, <2>1
    <3>2. Bytes(v) = Bytes(u) + Size[s[k]]
      BY <1>6, <1>7, <1>8, <3>1, Appended
    <3>3. Bytes(SubSeq(s, 1, k)) = Bytes(SubSeq(s, 1, k - 1)) + Size[s[k]] /\ Bytes(SubSeq(s, 1, k - 1)) \in Nat
      BY <3>1, BytesNext, BytesFirst
    <3> HIDE DEF last
    <3> QED BY <1>6, <1>7, <3>1, <3>2, <3>3
  <2>2. CASE ~(k <= m)
    <3>1. last = m /\ (IF k < m THEN k ELSE m) = m
      BY <1>0, <1>7, <2>2
    <3>2. Bytes(v) >= Bytes(u) /\ Bytes(v) \in Nat
      <4>1. CASE s[k] \in S
        <5>1. Bytes(v) = Bytes(u) + Size[s[k]]
          BY <1>6, <1>7, <1>8, <4>1, Appended
        <5> QED BY <1>6, <1>7, <5>1
      <4>2. CASE s[k] \notin S
        BY <1>6, <1>8, <4>2
      <4> QED BY <4>1, <4>2
    <3>3. Bytes(SubSeq(s, 1, m)) \in Nat
      BY BytesFirst
    <3> HIDE DEF last
    <3> QED BY <1>6, <3>1, <3>2, <3>3
  <2> QED BY <2>1, <2>2
<1>12. OnlyRight(s, S, m, k)
  BY <1>10, <1>11 DEF OnlyRight, v
<1> QED BY <1>3, <1>12

LEMMA OnlyKeeps ==
    ASSUME NEW s \in Text, NEW S
    PROVE  /\ Only(s, S) \in Text /\ ToSet(Only(s, S)) = ToSet(s) \cap S
           /\ IsInjective(s) => IsInjective(Only(s, S))
<1>1. Len(s) \in Nat /\ DOMAIN s = 1 .. Len(s) /\ Len(s) \in 0 .. Len(s) /\ 0 \in 0 .. Len(s)
  BY SizesType
<1>2. \A i \in 1 .. 0 : s[i] \in S
  OBVIOUS
<1>3. OnlyRight(s, S, 0, Len(s))
  BY <1>1, <1>2, OnlyToRight
<1> QED BY <1>1, <1>3, OnlyIs DEF OnlyRight, ToSet

LEMMA OnlyHolds ==
    ASSUME NEW s \in Text, NEW t \in Text, NEW S, ToSet(s) \subseteq S
    PROVE  Bytes(Only(s \o t, S)) >= Bytes(s)
<1> DEFINE w == s \o t
<1>1. /\ w \in Text /\ Len(w) = Len(s) + Len(t) /\ Len(s) \in Nat /\ Len(t) \in Nat
      /\ \A i \in 1 .. Len(s) : w[i] = s[i]
  BY Joined DEF Text
<1>2. \A i \in 1 .. Len(s) : s[i] \in S
  BY SizesType DEF ToSet
<1> HIDE DEF w
<1>3. Len(s) \in 0 .. Len(w) /\ Len(w) \in 0 .. Len(w) /\ (IF Len(w) < Len(s) THEN Len(w) ELSE Len(s)) = Len(s)
  BY <1>1
<1>4. \A i \in 1 .. Len(s) : w[i] \in S
  BY <1>1, <1>2
<1>5. OnlyRight(w, S, Len(s), Len(w))
  BY <1>1, <1>3, <1>4, OnlyToRight
<1>6. Bytes(Only(w, S)) >= Bytes(SubSeq(w, 1, Len(s)))
  BY <1>3, <1>5, OnlyIs DEF OnlyRight
<1>7. SubSeq(w, 1, Len(s)) = s
  <2>1. /\ SubSeq(w, 1, Len(s)) \in Text /\ Len(SubSeq(w, 1, Len(s))) = Len(s)
        /\ \A i \in 1 .. Len(s) : SubSeq(w, 1, Len(s))[i] = w[i]
    BY <1>1, <1>3, BytesFirst
  <2>2. DOMAIN SubSeq(w, 1, Len(s)) = 1 .. Len(s) /\ DOMAIN s = 1 .. Len(s)
    BY <2>1, SizesType
  <2>3. /\ SubSeq(w, 1, Len(s)) = [i \in 1 .. Len(s) |-> SubSeq(w, 1, Len(s))[i]]
        /\ s = [i \in 1 .. Len(s) |-> s[i]]
    BY <2>1, <2>2, LenProperties DEF Text
  <2> QED BY <1>1, <2>1, <2>3
<1> QED BY <1>6, <1>7 DEF w

-----------------------------------------------------------------------------
(* The rebuild.                                                              *)

LEMMA Greatest ==
    ASSUME NEW n \in Nat, NEW T, T \subseteq 0 .. n, T # {}
    PROVE  \E x \in T : \A y \in T : y <= x
<1> DEFINE U == {n - x : x \in T}
<1>1. U \subseteq Nat /\ U # {}
  <2>1. \A x \in T : n - x \in Nat
    OBVIOUS
  <2> QED BY <2>1
<1>2. PICK z \in U : \A y \in U : z <= y
  <2> HIDE DEF U
  <2> QED BY <1>1, Least
<1>3. PICK x \in T : z = n - x
  BY <1>2
<1>4. \A y \in T : n - x <= n - y
  BY <1>2, <1>3
<1> QED BY <1>3, <1>4

\* Behind what is out comes as much of s as fits: the line after it does not.
LEMMA Copied ==
    ASSUME NEW s \in Text, NEW out \in Text, NEW cap \in Nat, Bytes(out) <= cap
    PROVE  \E k \in 0 .. Len(s) :
              /\ CopyLines(s, out, cap) = out \o SubSeq(s, 1, k)
              /\ CopyLines(s, out, cap) \in Text /\ Bytes(CopyLines(s, out, cap)) <= cap
              /\ Bytes(CopyLines(s, out, cap)) = Bytes(out) + Bytes(SubSeq(s, 1, k))
              /\ k < Len(s) => Bytes(CopyLines(s, out, cap)) + Size[s[k + 1]] > cap
<1> DEFINE fits == {k \in 0 .. Len(s) : Bytes(out) + Bytes(SubSeq(s, 1, k)) <= cap}
<1>1. Len(s) \in Nat /\ Bytes(out) \in Nat /\ 0 \in 0 .. Len(s)
  BY SizesType
<1>2. 0 \in fits
  <2>1. SubSeq(s, 1, 0) = <<>>
    BY SubSeqEmpty
  <2>2. Bytes(SubSeq(s, 1, 0)) = 0
    BY <2>1, NoBytes
  <2> QED BY <1>1, <2>2
<1> DEFINE k == CHOOSE i \in fits : \A j \in fits : j <= i
<1>3. k \in fits /\ \A j \in fits : j <= k
  <2>1. fits \subseteq 0 .. Len(s) /\ fits # {}
    BY <1>2
  <2> HIDE DEF fits
  <2>2. \E i \in fits : \A j \in fits : j <= i
    BY <1>1, <2>1, Greatest
  <2> QED BY <2>2
<1>4. CopyLines(s, out, cap) = out \o SubSeq(s, 1, k)
  BY DEF CopyLines
<1>5. k \in 0 .. Len(s) /\ Bytes(out) + Bytes(SubSeq(s, 1, k)) <= cap
  BY <1>3
<1>6. ASSUME k < Len(s) PROVE ~(Bytes(out) + Bytes(SubSeq(s, 1, k + 1)) <= cap)
  <2>1. k + 1 \in 0 .. Len(s) /\ ~(k + 1 <= k)
    BY <1>1, <1>5, <1>6
  <2>2. k + 1 \notin fits
    <3> HIDE DEF fits, k
    <3> QED BY <1>3, <2>1
  <2> HIDE DEF k
  <2> QED BY <2>1, <2>2
<1> HIDE DEF fits, k
<1>7. /\ SubSeq(s, 1, k) \in Text /\ Bytes(SubSeq(s, 1, k)) \in Nat
  BY <1>5, BytesFirst
<1>8. /\ CopyLines(s, out, cap) \in Text
      /\ Bytes(CopyLines(s, out, cap)) = Bytes(out) + Bytes(SubSeq(s, 1, k))
  BY <1>4, <1>7, BytesJoined
<1>9. ASSUME k < Len(s) PROVE Bytes(CopyLines(s, out, cap)) + Size[s[k + 1]] > cap
  <2>1. Bytes(SubSeq(s, 1, k + 1)) = Bytes(SubSeq(s, 1, k)) + Size[s[k + 1]] /\ Size[s[k + 1]] \in Nat
    BY <1>5, <1>9, BytesNext
  <2>2. ~(Bytes(out) + Bytes(SubSeq(s, 1, k + 1)) <= cap)
    BY <1>6, <1>9
  <2> QED BY <1>1, <1>7, <1>8, <2>1, <2>2
<1> QED BY <1>4, <1>5, <1>8, <1>9

\* The second copy begins where the first ended: at no other line's end does the count
\* of bytes stand where the first copy left it.
LEMMA NotCopiedIs ==
    ASSUME NEW s \in Text, NEW k \in 0 .. Len(s)
    PROVE  NotCopied(s, Bytes(SubSeq(s, 1, k))) = SubSeq(s, k + 1, Len(s))
<1> DEFINE already == Bytes(SubSeq(s, 1, k))
<1> DEFINE starts == {i \in 1 .. Len(s) : Bytes(SubSeq(s, 1, i - 1)) >= already}
<1>0. Len(s) \in Nat /\ k \in Nat /\ k <= Len(s) /\ already \in Nat
  BY SizesType, BytesFirst
<1>1. \A i \in 1 .. Len(s) : i \in starts <=> i >= k + 1
  <2> SUFFICES ASSUME NEW i \in 1 .. Len(s) PROVE i \in starts <=> i >= k + 1
    OBVIOUS
  <2>1. i - 1 \in 0 .. Len(s) /\ i \in Nat
    BY <1>0
  <2>2. Bytes(SubSeq(s, 1, i - 1)) \in Nat
    BY <2>1, BytesFirst
  <2>3. CASE i - 1 < k
    <3>1. Bytes(SubSeq(s, 1, i - 1)) < already
      BY <2>1, <2>3, BytesAscend
    <3> HIDE DEF already
    <3>2. i \notin starts
      BY <1>0, <2>2, <3>1
    <3> QED BY <1>0, <2>1, <2>3, <3>2
  <2>4. CASE i - 1 = k
    <3>1. i \in starts
      BY <1>0, <2>4
    <3> QED BY <1>0, <2>1, <2>4, <3>1
  <2>5. CASE i - 1 > k
    <3>1. already < Bytes(SubSeq(s, 1, i - 1))
      BY <1>0, <2>1, <2>5, BytesAscend
    <3> HIDE DEF already
    <3>2. i \in starts
      BY <1>0, <2>2, <3>1
    <3> QED BY <1>0, <2>1, <2>5, <3>2
  <2> QED BY <1>0, <2>1, <2>3, <2>4, <2>5
<1>2. NotCopied(s, already) =
        IF starts = {} THEN <<>> ELSE SubSeq(s, CHOOSE i \in starts : \A j \in starts : i <= j, Len(s))
  BY DEF NotCopied
<1>3. starts \subseteq 1 .. Len(s)
  OBVIOUS
<1> HIDE DEF starts
<1>4. CASE k = Len(s)
  <2>1. starts = {}
    BY <1>0, <1>1, <1>3, <1>4
  <2>2. SubSeq(s, k + 1, Len(s)) = <<>>
    BY <1>0, <1>4, SubSeqEmpty
  <2> QED BY <1>2, <2>1, <2>2
<1>5. CASE k # Len(s)
  <2>1. k + 1 \in starts /\ \A j \in starts : k + 1 <= j
    BY <1>0, <1>1, <1>3, <1>5
  <2>2. ASSUME NEW i \in starts, \A j \in starts : i <= j PROVE i = k + 1
    BY <1>0, <1>3, <2>1, <2>2
  <2>3. (CHOOSE i \in starts : \A j \in starts : i <= j) = k + 1
    BY <2>1, <2>2
  <2> QED BY <1>2, <2>1, <2>3
<1> QED BY <1>4, <1>5

LEMMA ShareIs ==
    /\ ProvenShare \in Nat /\ ProvenShare <= GZ_DICT /\ GZ_DICT \in Nat
    /\ \A l \in Lines : Size[l] \in Nat \ {0} /\ Size[l] <= GZ_DICT - ProvenShare
<1>1. GZ_DICT \in Nat \ {0}
  BY DictAssumption
<1>2. (GZ_DICT * 2) \div 3 \in Nat /\ (GZ_DICT * 2) \div 3 <= GZ_DICT
  BY <1>1, Z3
<1> QED BY <1>1, <1>2, DictAssumption DEF ProvenShare

-----------------------------------------------------------------------------
(* The dictionary keeper's steps.                                            *)

\* What NothingTwice says, with what the marks mean: a marked line was heard since the
\* marks started over, and a line just heard is marked if it is known.
KeeperInv ==
    /\ NothingTwice
    /\ \A l \in used : heard[l] <= sessions
    /\ \A l \in Lines : heard[l] = 0 /\ l \in ToSet(dict) => l \in used

LEMMA DictIs ==
    ASSUME KeeperInv
    PROVE  /\ dict \in Text /\ cand \in Text /\ IsInjective(dict) /\ IsInjective(cand)
           /\ ToSet(dict) \cap ToSet(cand) = {} /\ used \subseteq ToSet(dict)
           /\ ToSet(dict) \subseteq Lines /\ ToSet(cand) \subseteq Lines
<1>1. /\ dict \in Text /\ cand \in Text /\ used \subseteq ToSet(dict) /\ IsInjective(dict \o cand)
  BY DEF KeeperInv, NothingTwice, KeeperTypeOK, Text
<1>2. ToSet(dict) \subseteq Lines /\ ToSet(cand) \subseteq Lines
  BY <1>1, SizesType DEF ToSet
<1> QED BY <1>1, <1>2, InjectiveJoined

LEMMA MarkedAre ==
    ASSUME KeeperInv
    PROVE  /\ Marked(TRUE) \in Text /\ IsInjective(Marked(TRUE)) /\ ToSet(Marked(TRUE)) = used
           /\ Marked(FALSE) \in Text /\ IsInjective(Marked(FALSE))
           /\ ToSet(Marked(FALSE)) = ToSet(dict) \ used
<1>1. /\ dict \in Text /\ IsInjective(dict) /\ used \subseteq ToSet(dict) /\ ToSet(dict) \subseteq Lines
  BY DictIs
<1> DEFINE T == {l \in Lines : (l \in used) = TRUE}
<1> DEFINE F == {l \in Lines : (l \in used) = FALSE}
<1>2. Marked(TRUE) = Only(dict, T) /\ Marked(FALSE) = Only(dict, F)
  BY DEF Marked
<1>3. ToSet(dict) \cap T = used /\ ToSet(dict) \cap F = ToSet(dict) \ used
  BY <1>1
<1> HIDE DEF T, F
<1>4. \A S : /\ Only(dict, S) \in Text /\ ToSet(Only(dict, S)) = ToSet(dict) \cap S
             /\ IsInjective(Only(dict, S))
  BY <1>1, OnlyKeeps
<1> QED BY <1>2, <1>3, <1>4

\* The rebuilt dictionary: proven lines, new ones, proven ones again, and the rest.
LEMMA RebuiltIs ==
    ASSUME KeeperInv
    PROVE  \E a \in 0 .. Len(Marked(TRUE)), b \in 0 .. Len(cand),
              c \in 0 .. Len(Marked(TRUE)), d \in 0 .. Len(Marked(FALSE)) :
              LET rest == SubSeq(Marked(TRUE), a + 1, Len(Marked(TRUE)))
                  more == WithNew \o SubSeq(rest, 1, c)
              IN  /\ Proven = SubSeq(Marked(TRUE), 1, a) /\ Bytes(Proven) <= ProvenShare
                  /\ WithNew = Proven \o SubSeq(cand, 1, b)
                  /\ Bytes(WithNew) = Bytes(Proven) + Bytes(SubSeq(cand, 1, b))
                  /\ b < Len(cand) => Bytes(WithNew) + Size[cand[b + 1]] > GZ_DICT
                  /\ c <= Len(rest) /\ more \in Text
                  /\ c < Len(rest) => Bytes(more) + Size[rest[c + 1]] > GZ_DICT
                  /\ Rebuilt = more \o SubSeq(Marked(FALSE), 1, d)
                  /\ Rebuilt \in Text /\ Bytes(Rebuilt) <= GZ_DICT
<1> DEFINE mt == Marked(TRUE)
<1> DEFINE mf == Marked(FALSE)
<1>1. mt \in Text /\ mf \in Text /\ cand \in Text /\ Len(mt) \in Nat
  BY MarkedAre, DictIs, SizesType
<1>2. <<>> \in Text /\ Bytes(<<>>) = 0
  BY NoBytes
<1>3. PICK a \in 0 .. Len(mt) : /\ Proven = <<>> \o SubSeq(mt, 1, a)
                                /\ Proven \in Text /\ Bytes(Proven) <= ProvenShare
  <2>1. Proven = CopyLines(mt, <<>>, ProvenShare)
    BY DEF Proven
  <2> HIDE DEF mt
  <2>2. ProvenShare \in Nat /\ Bytes(<<>>) <= ProvenShare
    BY <1>2, ShareIs
  <2> QED BY <1>1, <1>2, <2>1, <2>2, Copied
<1>4. Proven = SubSeq(mt, 1, a)
  <2>1. SubSeq(mt, 1, a) \in Text
    BY <1>1, BytesFirst
  <2> QED BY <1>3, <2>1, ConcatEmptySeq DEF Text
<1>5. Bytes(Proven) \in Nat /\ Bytes(Proven) <= GZ_DICT
  <2>1. Bytes(Proven) \in Nat /\ Bytes(Proven) <= ProvenShare
    BY <1>3, SizesType
  <2> QED BY <2>1, ShareIs
<1>6. PICK b \in 0 .. Len(cand) :
         /\ WithNew = Proven \o SubSeq(cand, 1, b) /\ WithNew \in Text /\ Bytes(WithNew) <= GZ_DICT
         /\ Bytes(WithNew) = Bytes(Proven) + Bytes(SubSeq(cand, 1, b))
         /\ b < Len(cand) => Bytes(WithNew) + Size[cand[b + 1]] > GZ_DICT
  BY <1>1, <1>3, <1>5, Copied, ShareIs DEF WithNew
<1> DEFINE rest == SubSeq(mt, a + 1, Len(mt))
<1>7. NotCopied(mt, Bytes(Proven)) = rest
  BY <1>1, <1>4, NotCopiedIs
<1>8. rest \in Text /\ Len(rest) = Len(mt) - a
  BY <1>1, TwoParts
<1> DEFINE third == CopyLines(rest, WithNew, GZ_DICT)
<1>9. PICK c \in 0 .. Len(rest) :
         /\ third = WithNew \o SubSeq(rest, 1, c) /\ third \in Text /\ Bytes(third) <= GZ_DICT
         /\ c < Len(rest) => Bytes(third) + Size[rest[c + 1]] > GZ_DICT
  <2> HIDE DEF rest
  <2> QED BY <1>6, <1>8, Copied, ShareIs
<1>10. Rebuilt = CopyLines(mf, third, GZ_DICT)
  BY <1>7 DEF Rebuilt
<1> HIDE DEF third, rest, mt, mf
<1>11. PICK d \in 0 .. Len(mf) :
         /\ Rebuilt = third \o SubSeq(mf, 1, d) /\ Rebuilt \in Text /\ Bytes(Rebuilt) <= GZ_DICT
  BY <1>1, <1>9, <1>10, Copied, ShareIs
<1>12. c \in 0 .. Len(mt) /\ c <= Len(rest)
  BY <1>1, <1>8, <1>9
<1> QED BY <1>3, <1>4, <1>6, <1>9, <1>11, <1>12 DEF rest, mt, mf

LEMMA PartsApart ==
    ASSUME NEW s \in Text, IsInjective(s), NEW k \in 0 .. Len(s)
    PROVE  LET u == SubSeq(s, 1, k)
               v == SubSeq(s, k + 1, Len(s))
           IN  /\ u \in Text /\ v \in Text /\ IsInjective(u) /\ IsInjective(v)
               /\ ToSet(u) \cap ToSet(v) = {} /\ ToSet(s) = ToSet(u) \cup ToSet(v)
<1> DEFINE u == SubSeq(s, 1, k)
<1> DEFINE v == SubSeq(s, k + 1, Len(s))
<1>1. u \in Text /\ v \in Text /\ s = u \o v
  BY TwoParts
<1> HIDE DEF u, v
<1>2. u \in Text /\ v \in Text /\ IsInjective(u) /\ IsInjective(v)
      /\ ToSet(u) \cap ToSet(v) = {} /\ ToSet(s) = ToSet(u) \cup ToSet(v)
  BY <1>1, InjectiveJoined
<1> QED BY <1>2 DEF u, v

\* No line is in the rebuilt dictionary twice.  If a proven line had to go, one stood
\* where the room ended: it is left out too, and what stands before is proven or new.
LEMMA RebuiltRight ==
    ASSUME KeeperInv
    PROVE  /\ Rebuilt \in Text /\ Bytes(Rebuilt) <= GZ_DICT /\ IsInjective(Rebuilt)
           /\ used \subseteq ToSet(Rebuilt)
              \/ \E more, behind \in Text, l \in used :
                   /\ Rebuilt = more \o behind /\ ToSet(more) \subseteq used \cup ToSet(cand)
                   /\ l \notin ToSet(Rebuilt) /\ Bytes(more) + Size[l] > GZ_DICT
<1> DEFINE mt == Marked(TRUE)
<1> DEFINE mf == Marked(FALSE)
<1>1. /\ mt \in Text /\ IsInjective(mt) /\ ToSet(mt) = used
      /\ mf \in Text /\ IsInjective(mf) /\ ToSet(mf) = ToSet(dict) \ used
      /\ cand \in Text /\ IsInjective(cand) /\ ToSet(cand) \cap ToSet(dict) = {}
      /\ used \subseteq ToSet(dict)
  BY MarkedAre, DictIs
<1>2. PICK a \in 0 .. Len(mt), b \in 0 .. Len(cand), c \in 0 .. Len(mt), d \in 0 .. Len(mf) :
              LET rest == SubSeq(mt, a + 1, Len(mt))
                  more == WithNew \o SubSeq(rest, 1, c)
              IN  /\ Proven = SubSeq(mt, 1, a)
                  /\ WithNew = Proven \o SubSeq(cand, 1, b)
                  /\ c <= Len(rest) /\ more \in Text
                  /\ c < Len(rest) => Bytes(more) + Size[rest[c + 1]] > GZ_DICT
                  /\ Rebuilt = more \o SubSeq(mf, 1, d)
                  /\ Rebuilt \in Text /\ Bytes(Rebuilt) <= GZ_DICT
  BY RebuiltIs
<1> DEFINE rest == SubSeq(mt, a + 1, Len(mt))
<1> DEFINE new == SubSeq(cand, 1, b)
<1> DEFINE again == SubSeq(rest, 1, c)
<1> DEFINE left == SubSeq(rest, c + 1, Len(rest))
<1> DEFINE more == WithNew \o again
<1> DEFINE behind == SubSeq(mf, 1, d)
<1>3. /\ Proven = SubSeq(mt, 1, a) /\ WithNew = Proven \o new /\ c <= Len(rest) /\ more \in Text
      /\ c < Len(rest) => Bytes(more) + Size[rest[c + 1]] > GZ_DICT
      /\ Rebuilt = more \o behind /\ Rebuilt \in Text /\ Bytes(Rebuilt) <= GZ_DICT
  BY <1>2
<1> HIDE <1>2
<1>4. /\ Proven \in Text /\ rest \in Text /\ IsInjective(Proven) /\ IsInjective(rest)
      /\ ToSet(Proven) \cap ToSet(rest) = {} /\ used = ToSet(Proven) \cup ToSet(rest)
  <2> HIDE DEF mt
  <2> QED BY <1>1, <1>3, PartsApart
<1>5. new \in Text /\ IsInjective(new) /\ ToSet(new) \subseteq ToSet(cand)
  BY <1>1, PartsApart
<1>6. behind \in Text /\ IsInjective(behind) /\ ToSet(behind) \subseteq ToSet(dict) \ used
  <2> HIDE DEF mf
  <2> QED BY <1>1, PartsApart
<1> HIDE DEF rest, new, behind, mt, mf
<1>7. c \in 0 .. Len(rest) /\ Len(rest) \in Nat
  BY <1>1, <1>3, <1>4, SizesType
<1>8. /\ again \in Text /\ left \in Text /\ IsInjective(again) /\ IsInjective(left)
      /\ ToSet(again) \cap ToSet(left) = {} /\ ToSet(rest) = ToSet(again) \cup ToSet(left)
  BY <1>4, <1>7, PartsApart
<1> HIDE DEF again
<1>9. /\ WithNew \in Text /\ ToSet(WithNew) = ToSet(Proven) \cup ToSet(new) /\ IsInjective(WithNew)
  <2>1. ToSet(Proven) \cap ToSet(new) = {}
    BY <1>1, <1>4, <1>5
  <2> QED BY <1>3, <1>4, <1>5, <2>1, InjectiveJoined, BytesJoined
<1>10. ToSet(more) = ToSet(WithNew) \cup ToSet(again) /\ IsInjective(more)
  <2>1. ToSet(WithNew) \cap ToSet(again) = {}
    BY <1>1, <1>4, <1>5, <1>8, <1>9
  <2> QED BY <1>8, <1>9, <2>1, InjectiveJoined
<1> HIDE DEF more
<1>11. ToSet(Rebuilt) = ToSet(more) \cup ToSet(behind) /\ IsInjective(Rebuilt)
  <2>1. ToSet(more) \cap ToSet(behind) = {}
    BY <1>1, <1>4, <1>5, <1>6, <1>8, <1>9, <1>10
  <2> QED BY <1>3, <1>6, <1>10, <2>1, InjectiveJoined
<1>12. ToSet(more) \subseteq used \cup ToSet(cand)
  BY <1>4, <1>5, <1>8, <1>9, <1>10
<1>13. CASE c = Len(rest)
  <2>1. left = <<>>
    BY <1>7, <1>13, SubSeqEmpty
  <2>2. ToSet(left) = {}
    BY <2>1, NoLine
  <2>3. used \subseteq ToSet(Rebuilt)
    BY <1>4, <1>8, <1>9, <1>10, <1>11, <2>2
  <2> QED BY <1>3, <1>11, <2>3
<1>14. CASE c # Len(rest)
  <2>1. c < Len(rest) /\ c + 1 \in 1 .. Len(rest) /\ 1 \in 1 .. Len(rest) - c
    BY <1>7, <1>14
  <2>2. left[1] = rest[c + 1] /\ Len(left) = Len(rest) - c
    BY <1>4, <1>7, <2>1, TwoParts
  <2>3. rest[c + 1] \in ToSet(left)
    <3>1. DOMAIN left = 1 .. Len(rest) - c
      BY <1>8, <2>2, SizesType
    <3> QED BY <2>1, <2>2, <3>1 DEF ToSet
  <2> DEFINE l == rest[c + 1]
  <2>4. Bytes(more) + Size[l] > GZ_DICT
    BY <1>3, <2>1
  <2> HIDE DEF l, left
  <2>5. l \in ToSet(left)
    BY <2>3 DEF l
  <2>6. l \in used /\ l \notin ToSet(Rebuilt)
    BY <1>1, <1>4, <1>5, <1>6, <1>8, <1>9, <1>10, <1>11, <2>5
  <2> QED BY <1>3, <1>6, <1>11, <1>12, <2>4, <2>6
<1> QED BY <1>13, <1>14

LEMMA KeeperInitially == KeeperInit => KeeperInv
<1> SUFFICES ASSUME KeeperInit PROVE KeeperInv
  OBVIOUS
<1>1. dict = <<>> /\ cand = <<>> /\ <<>> \in Seq(Lines) /\ <<>> \o <<>> = <<>>
  BY DEF KeeperInit
<1>2. Bytes(<<>>) = 0 /\ ToSet(<<>>) = {} /\ IsInjective(<<>>)
  BY NoBytes, NoLine
<1>3. MARK_SESSIONS \in Nat \ {0} /\ GZ_DICT \in Nat /\ DICT_CAND \in Nat
  BY DictAssumption
<1>4. heard \in [Lines -> 0 .. Long] /\ \A l \in Lines : heard[l] # 0
  BY <1>3 DEF KeeperInit, Long
<1>5. sessions \in 0 .. MARK_SESSIONS - 1 /\ onFlash = dict /\ used = {}
  BY <1>3 DEF KeeperInit
<1> QED BY <1>1, <1>2, <1>3, <1>4, <1>5 DEF KeeperInv, NothingTwice, KeeperTypeOK

\* A new dictionary: all that the steps below need to say of it.
LEMMA LoadRight ==
    ASSUME NEW t \in Text, Bytes(t) <= GZ_DICT, IsInjective(t), Load(t), onFlash' = t,
           heard' \in [Lines -> 0 .. Long], \A l \in Lines : heard'[l] # 0
    PROVE  KeeperInv'
<1>1. dict' = t /\ used' = {} /\ sessions' = 0 /\ cand' = <<>>
  BY DEF Load
<1>2. Bytes(<<>>) = 0 /\ <<>> \in Text /\ t \o <<>> = t
  BY NoBytes, ConcatEmptySeq DEF Text
<1>3. MARK_SESSIONS \in Nat \ {0} /\ DICT_CAND \in Nat
  BY DictAssumption
<1> QED BY <1>1, <1>2, <1>3 DEF KeeperInv, NothingTwice, KeeperTypeOK, Text

\* Everything a session older.
LEMMA OlderRight ==
    ASSUME heard \in [Lines -> 0 .. Long], Older
    PROVE  /\ heard' \in [Lines -> 0 .. Long]
           /\ \A l \in Lines : heard'[l] # 0 /\ heard'[l] <= heard[l] + 1
<1>1. Long \in Nat \ {0}
  BY DictAssumption DEF Long
<1> QED BY <1>1 DEF Older

LEMMA NoteRight ==
    ASSUME KeeperInv, NEW l \in Lines, Note(l)
    PROVE  KeeperInv'
<1>1. /\ dict \in Text /\ cand \in Text /\ IsInjective(dict) /\ IsInjective(cand)
      /\ ToSet(dict) \cap ToSet(cand) = {} /\ used \subseteq ToSet(dict)
  BY DictIs
<1>2. /\ heard \in [Lines -> 0 .. Long] /\ sessions \in Nat /\ Bytes(cand) <= DICT_CAND
      /\ \A k \in used : heard[k] <= sessions
      /\ \A k \in Lines : heard[k] = 0 /\ k \in ToSet(dict) => k \in used
  BY DEF KeeperInv, NothingTwice, KeeperTypeOK
<1>3. (Known(l) <=> l \in ToSet(dict)) /\ (Contains(cand, l) <=> l \in ToSet(cand))
  BY <1>1, SizesType DEF Known, Contains, ToSet
<1>4. dict' = dict /\ sessions' = sessions /\ onFlash' = onFlash
  BY DEF Note
<1>5. used' = IF l \in ToSet(dict) THEN used \cup {l} ELSE used
  BY <1>3 DEF Note
<1>6. /\ heard' \in [Lines -> 0 .. Long]
      /\ \A k \in Lines : heard'[k] = IF k = l THEN 0 ELSE heard[k]
  <2>1. Long \in Nat
    BY DictAssumption DEF Long
  <2> QED BY <1>2, <2>1 DEF Note
<1>7. /\ cand' \in Text /\ Bytes(cand') <= DICT_CAND /\ IsInjective(cand')
      /\ ToSet(dict) \cap ToSet(cand') = {}
  <2>1. CASE l \in ToSet(dict) \/ l \in ToSet(cand) \/ NoRoom(l)
    <3>1. cand' = cand
      BY <1>3, <2>1 DEF Note
    <3> QED BY <1>1, <1>2, <3>1
  <2>2. CASE ~(l \in ToSet(dict) \/ l \in ToSet(cand) \/ NoRoom(l))
    <3>1. cand' = Append(cand, l)
      BY <1>3, <2>2 DEF Note
    <3>2. /\ Append(cand, l) \in Text /\ Bytes(Append(cand, l)) = Bytes(cand) + Size[l]
          /\ ToSet(Append(cand, l)) = ToSet(cand) \cup {l}
          /\ IsInjective(Append(cand, l)) <=> IsInjective(cand) /\ l \notin ToSet(cand)
      BY <1>1, Appended
    <3>3. Bytes(cand) + Size[l] <= DICT_CAND
      <4>1. Bytes(cand) \in Nat /\ Size[l] \in Nat /\ DICT_CAND \in Nat
        BY <1>1, SizesType, DictAssumption
      <4> QED BY <2>2, <4>1 DEF NoRoom
    <3> QED BY <1>1, <2>2, <3>1, <3>2, <3>3
  <2> QED BY <2>1, <2>2
<1>8. IsInjective(dict \o cand')
  BY <1>1, <1>7, InjectiveJoined
<1>9. used' \subseteq ToSet(dict)
  BY <1>1, <1>5
<1>10. \A k \in used' : heard'[k] <= sessions
  <2>1. ToSet(dict) \subseteq Lines
    BY DictIs
  <2> QED BY <1>1, <1>2, <1>5, <1>6, <2>1
<1>11. \A k \in Lines : heard'[k] = 0 /\ k \in ToSet(dict) => k \in used'
  BY <1>2, <1>5, <1>6
<1> QED BY <1>4, <1>6, <1>7, <1>8, <1>9, <1>10, <1>11 DEF KeeperInv, NothingTwice, KeeperTypeOK, Text

LEMMA EndSessionRight ==
    ASSUME KeeperInv, EndSession
    PROVE  KeeperInv'
<1>1. /\ dict \in Text /\ IsInjective(dict) /\ used \subseteq ToSet(dict) /\ ToSet(dict) \subseteq Lines
  BY DictIs
<1>2. /\ heard \in [Lines -> 0 .. Long] /\ sessions \in 0 .. MARK_SESSIONS - 1
      /\ Bytes(dict) <= GZ_DICT /\ onFlash = dict /\ \A k \in used : heard[k] <= sessions
  BY DEF KeeperInv, NothingTwice, KeeperTypeOK
<1>3. /\ heard' \in [Lines -> 0 .. Long]
      /\ \A l \in Lines : heard'[l] # 0 /\ heard'[l] <= heard[l] + 1
  BY <1>2, OlderRight DEF EndSession
<1>4. dict' = dict /\ onFlash' = onFlash /\ cand' = <<>>
  BY DEF EndSession
<1>5. Bytes(<<>>) = 0 /\ <<>> \in Text /\ dict \o <<>> = dict
  BY <1>1, NoBytes, ConcatEmptySeq DEF Text
<1>6. MARK_SESSIONS \in Nat \ {0} /\ DICT_CAND \in Nat
  BY DictAssumption
<1>7. /\ used' \subseteq ToSet(dict) /\ sessions' \in 0 .. MARK_SESSIONS - 1
      /\ \A k \in used' : heard'[k] <= sessions'
  <2>1. CASE sessions + 1 >= MARK_SESSIONS
    BY <1>6, <2>1 DEF EndSession
  <2>2. CASE ~(sessions + 1 >= MARK_SESSIONS)
    <3>1. sessions' = sessions + 1 /\ used' = used
      BY <2>2 DEF EndSession
    <3>2. ASSUME NEW k \in used PROVE heard'[k] <= sessions + 1
      <4>1. k \in Lines /\ heard[k] \in Int /\ heard'[k] \in Int /\ heard[k] <= sessions /\ sessions \in Int
        <5>1. Long \in Nat
          BY DictAssumption DEF Long
        <5> QED BY <1>1, <1>2, <1>3, <5>1
      <4> QED BY <1>3, <4>1
    <3> QED BY <1>1, <1>2, <1>6, <2>2, <3>1, <3>2
  <2> QED BY <2>1, <2>2
<1> QED BY <1>1, <1>2, <1>3, <1>4, <1>5, <1>6, <1>7 DEF KeeperInv, NothingTwice, KeeperTypeOK, Text

LEMMA KeeperNextRight ==
    ASSUME KeeperInv, [KeeperNext]_keeperVars
    PROVE  KeeperInv'
<1>1. CASE UNCHANGED keeperVars
  BY <1>1 DEF KeeperInv, NothingTwice, KeeperTypeOK, keeperVars
<1>2. CASE \E l \in Lines : Note(l)
  BY <1>2, NoteRight
<1>3. CASE NoRefresh
  BY <1>3, EndSessionRight DEF NoRefresh
<1>4. CASE Refresh
  <2>1. Rebuilt \in Text /\ Bytes(Rebuilt) <= GZ_DICT /\ IsInjective(Rebuilt)
    BY RebuiltRight
  <2>2. heard \in [Lines -> 0 .. Long]
    BY DEF KeeperInv, NothingTwice, KeeperTypeOK
  <2>3. heard' \in [Lines -> 0 .. Long] /\ \A l \in Lines : heard'[l] # 0
    BY <1>4, <2>2, OlderRight DEF Refresh
  <2>4. Load(Rebuilt) /\ onFlash' = Rebuilt
    BY <1>4 DEF Refresh
  <2> QED BY <2>1, <2>3, <2>4, LoadRight
<1>5. CASE Reboot
  <2>1. onFlash \in Text /\ Bytes(onFlash) <= GZ_DICT /\ IsInjective(onFlash)
    BY DictIs DEF KeeperInv, NothingTwice, KeeperTypeOK
  <2>2. Long \in Nat \ {0}
    BY DictAssumption DEF Long
  <2>3. heard' \in [Lines -> 0 .. Long] /\ \A l \in Lines : heard'[l] # 0
    BY <1>5, <2>2 DEF Reboot
  <2>4. Load(onFlash) /\ onFlash' = onFlash
    BY <1>5 DEF Reboot
  <2> QED BY <2>1, <2>3, <2>4, LoadRight
<1> QED BY <1>1, <1>2, <1>3, <1>4, <1>5 DEF KeeperNext

\* The inductive invariant of the dictionary keeper (dictkeeper.h): no line twice, and
\* the marks are those of lines heard since they last started over.
THEOREM KeeperInductive == KeeperSpec => []KeeperInv
<1>1. KeeperInit => KeeperInv
  BY KeeperInitially
<1>2. KeeperInv /\ [KeeperNext]_keeperVars => KeeperInv'
  BY KeeperNextRight
<1> QED BY <1>1, <1>2, PTL DEF KeeperSpec

\* No line is in the dictionary or among the candidates twice, and neither outgrows its
\* room, through every rebuild (rebuild(), dictkeeper.h).
THEOREM NoLineTwice == KeeperSpec => []NothingTwice
<1>1. KeeperInv => NothingTwice
  BY DEF KeeperInv
<1> QED BY <1>1, KeeperInductive, PTL

\* Whatever the dictionary holds, a rebuild takes a new line if there is one
\* (rebuild(), dictkeeper.h).
THEOREM RebuildLearns == KeeperSpec => []AlwaysLearns
<1>1. KeeperInv => AlwaysLearns
  <2> SUFFICES ASSUME KeeperInv, cand # <<>> PROVE NewBytes > 0
    BY DEF AlwaysLearns
  <2>1. cand \in Text /\ Len(cand) \in Nat
    BY DictIs, SizesType
  <2>2. PICK b \in 0 .. Len(cand) :
           /\ Proven \in Text /\ WithNew \in Text /\ Bytes(Proven) <= ProvenShare
           /\ Bytes(WithNew) = Bytes(Proven) + Bytes(SubSeq(cand, 1, b))
           /\ b < Len(cand) => Bytes(WithNew) + Size[cand[b + 1]] > GZ_DICT
    <3>1. PICK a \in 0 .. Len(Marked(TRUE)), b \in 0 .. Len(cand) :
             /\ Proven = SubSeq(Marked(TRUE), 1, a) /\ Bytes(Proven) <= ProvenShare
             /\ WithNew = Proven \o SubSeq(cand, 1, b)
             /\ Bytes(WithNew) = Bytes(Proven) + Bytes(SubSeq(cand, 1, b))
             /\ b < Len(cand) => Bytes(WithNew) + Size[cand[b + 1]] > GZ_DICT
      BY RebuiltIs
    <3>2. Proven \in Text
      BY <3>1, MarkedAre, BytesFirst
    <3>3. WithNew \in Text
      BY <2>1, <3>1, <3>2, BytesFirst, BytesJoined
    <3> QED BY <3>1, <3>2, <3>3
  <2>3. Bytes(Proven) \in Nat /\ Bytes(SubSeq(cand, 1, b)) \in Nat
    BY <2>1, <2>2, SizesType, BytesFirst
  <2>4. b # 0
    <3> SUFFICES ASSUME b = 0 PROVE FALSE
      OBVIOUS
    <3>1. 0 < Len(cand) /\ 0 + 1 = 1 /\ 1 \in 1 .. Len(cand)
      <4>1. Len(cand) # 0
        BY <2>1, EmptySeq DEF Text
      <4> QED BY <2>1, <4>1
    <3>2. Bytes(SubSeq(cand, 1, 0)) = 0
      <4>1. SubSeq(cand, 1, 0) = <<>>
        BY SubSeqEmpty
      <4> QED BY <4>1, NoBytes
    <3>3. cand[1] \in Lines
      BY <2>1, <3>1, SizesType
    <3>4. Bytes(Proven) + Size[cand[1]] > GZ_DICT
      BY <2>2, <2>3, <3>1, <3>2
    <3> QED BY <2>2, <2>3, <3>3, <3>4, ShareIs
  <2>5. Bytes(SubSeq(cand, 1, 0)) < Bytes(SubSeq(cand, 1, b)) /\ Bytes(SubSeq(cand, 1, 0)) = 0
    <3>1. 0 \in 0 .. Len(cand) /\ 0 < b
      BY <2>1, <2>4
    <3>2. Bytes(SubSeq(cand, 1, 0)) < Bytes(SubSeq(cand, 1, b))
      BY <2>1, <3>1, BytesAscend
    <3>3. SubSeq(cand, 1, 0) = <<>>
      BY SubSeqEmpty
    <3> QED BY <3>2, <3>3, NoBytes
  <2> QED BY <2>2, <2>3, <2>5 DEF NewBytes
<1> QED BY <1>1, KeeperInductive, PTL

\* A line heard in the session that ends leaves the dictionary only for want of room
\* (rebuild() and dictMaybeRefresh()).
THEOREM RecurringIsKept == KeeperSpec => RecurringStays
<1> DEFINE stays == (\E l \in Dropped : heard[l] = 0) =>
          \E l \in Dropped :
              /\ Lately(l)
              /\ Bytes(Only(dict', {k \in Lines : ~Contains(dict, k) \/ Lately(k)})) + Size[l]
                    > GZ_DICT
<1>1. KeeperInv /\ [KeeperNext]_keeperVars => [stays]_keeperVars
  <2> SUFFICES ASSUME KeeperInv, KeeperNext, NEW l0 \in Dropped, heard[l0] = 0
               PROVE  \E l \in Dropped :
                        /\ Lately(l)
                        /\ Bytes(Only(dict', {k \in Lines : ~Contains(dict, k) \/ Lately(k)})) + Size[l]
                              > GZ_DICT
    OBVIOUS
  <2>1. /\ dict \in Text /\ cand \in Text /\ used \subseteq ToSet(dict) /\ ToSet(dict) \subseteq Lines
        /\ ToSet(cand) \subseteq Lines /\ ToSet(dict) \cap ToSet(cand) = {}
    BY DictIs
  <2>2. /\ \A l \in used : heard[l] <= sessions
        /\ \A l \in Lines : heard[l] = 0 /\ l \in ToSet(dict) => l \in used
        /\ sessions \in 0 .. MARK_SESSIONS - 1 /\ onFlash = dict /\ heard \in [Lines -> 0 .. Long]
    BY DEF KeeperInv, NothingTwice, KeeperTypeOK
  <2>3. MARK_SESSIONS \in Nat \ {0} /\ Long \in Nat
    BY DictAssumption DEF Long
  <2>4. \A l \in used : Lately(l)
    <3> SUFFICES ASSUME NEW l \in used PROVE Lately(l)
      OBVIOUS
    <3>1. heard[l] \in Int /\ heard[l] <= sessions
      BY <2>1, <2>2, <2>3
    <3> QED BY <2>2, <2>3, <3>1 DEF Lately
  <2>5. \A s \in Text : \A l : Contains(s, l) <=> l \in ToSet(s)
    BY SizesType DEF Contains, ToSet
  <2>6. dict' # dict
    BY <2>1, <2>5 DEF Dropped
  <2>7. dict' = Rebuilt
    BY <2>2, <2>6 DEF KeeperNext, Note, NoRefresh, EndSession, Refresh, Reboot, Load
  <2>8. /\ Rebuilt \in Text
        /\ used \subseteq ToSet(Rebuilt)
              \/ \E more, behind \in Text, l \in used :
                   /\ Rebuilt = more \o behind /\ ToSet(more) \subseteq used \cup ToSet(cand)
                   /\ l \notin ToSet(Rebuilt) /\ Bytes(more) + Size[l] > GZ_DICT
    BY RebuiltRight
  <2>9. Dropped = ToSet(dict) \ ToSet(Rebuilt)
    BY <2>5, <2>7, <2>8 DEF Dropped
  <2>10. l0 \in used /\ l0 \notin ToSet(Rebuilt)
    BY <2>1, <2>2, <2>9
  <2>11. PICK more \in Text, behind \in Text, l \in used :
            /\ Rebuilt = more \o behind /\ ToSet(more) \subseteq used \cup ToSet(cand)
            /\ l \notin ToSet(Rebuilt) /\ Bytes(more) + Size[l] > GZ_DICT
    BY <2>8, <2>10
  <2> DEFINE S == {k \in Lines : ~Contains(dict, k) \/ Lately(k)}
  <2>12. ToSet(more) \subseteq S
    BY <2>1, <2>4, <2>5, <2>11
  <2> HIDE DEF S
  <2>13. Bytes(Only(dict', S)) >= Bytes(more)
    BY <2>7, <2>11, <2>12, OnlyHolds
  <2>14. Bytes(more) \in Nat /\ Bytes(Only(dict', S)) \in Nat /\ Size[l] \in Nat /\ GZ_DICT \in Nat
    <3>1. Only(dict', S) \in Text
      BY <2>7, <2>8, OnlyKeeps
    <3> QED BY <2>1, <2>11, <3>1, SizesType, ShareIs
  <2>15. Bytes(Only(dict', S)) + Size[l] > GZ_DICT
    BY <2>11, <2>13, <2>14
  <2>16. l \in Dropped /\ Lately(l)
    BY <2>1, <2>4, <2>9, <2>11
  <2> QED BY <2>15, <2>16 DEF S
<1> QED BY <1>1, KeeperInductive, PTL DEF KeeperSpec, RecurringStays

=============================================================================
