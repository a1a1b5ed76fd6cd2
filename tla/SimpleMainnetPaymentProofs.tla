--------------------- MODULE SimpleMainnetPaymentProofs ---------------------
(***************************************************************************)
(* What SimpleMainnetPayment computes.  Of every stored history: what a    *)
(* hash that is added leaves of it, and that a reload reads back what was  *)
(* stored.  Of every amount: its value is the one number with the digits   *)
(* of its text, and the text it is written as parses to it.  The functions *)
(* over entries and digits are followed by induction on sets of indices.   *)
(***************************************************************************)
EXTENDS SimpleMainnetPayment, SequenceTheorems, WellFoundedInduction, TLAPS

-----------------------------------------------------------------------------
(* Induction and iteration along the indices of a sequence.                *)

LEMMA LeastIndex ==
    ASSUME NEW S, S \subseteq Nat, S # {}
    PROVE  \E x \in S : \A y \in S : x <= y
<1>1. PICK x \in S : \A y \in S : ~(<<y, x>> \in OpToRel(<, Nat))
  BY NatLessThanWellFounded, WFMin
<1>2. \A y \in S : ~(<<y, x>> \in {ss \in Nat \X Nat : ss[1] < ss[2]})
  BY <1>1, Zenon DEF OpToRel
<1>3. ASSUME NEW y \in S
      PROVE  x <= y
  <2>1. x \in Nat /\ y \in Nat /\ <<y, x>> \in Nat \X Nat
    OBVIOUS
  <2>2. ~(y < x)
    BY <1>2, <2>1
  <2>3. QED
    BY <2>1, <2>2
<1>4. QED
  BY <1>3

LEMMA IndexInduction ==
    ASSUME NEW n \in Nat, NEW T, 0 \in T, \A i \in 1..n : i - 1 \in T => i \in T
    PROVE  \A i \in 0..n : i \in T
<1> SUFFICES ASSUME NEW i \in 0..n, i \notin T
             PROVE  FALSE
  OBVIOUS
<1> DEFINE S == {k \in 0..n : k \notin T}
<1>1. S \subseteq Nat /\ S # {}
  OBVIOUS
<1> HIDE DEF S
<1>2. PICK m \in S : \A k \in S : m <= k
  BY <1>1, LeastIndex
<1>3. m \in 1..n /\ m \notin T
  BY <1>2 DEF S
<1>4. m - 1 \in 0..n /\ ~(m <= m - 1)
  BY <1>3
<1>5. m - 1 \in T
  BY <1>2, <1>4 DEF S
<1>6. QED
  BY <1>3, <1>5

Iterates(f, base, n, g) == f[0] = base /\ \A i \in 1..n : f[i] = g[<<f[i - 1], i>>]

LEMMA Iteration ==
    ASSUME NEW D, NEW base \in D, NEW n \in Nat, NEW g \in [D \X (1..n) -> D]
    PROVE  \E f \in [0..n -> D] : Iterates(f, base, n, g)
<1> DEFINE Steps(f, k) == f[0] = base /\ \A i \in 1..k : f[i] = g[<<f[i - 1], i>>]
           T == {k \in 0..n : \E f \in [0..k -> D] : Steps(f, k)}
<1>1. 0 \in T
  <2>1. PICK f : f = [i \in 0..0 |-> base]
    OBVIOUS
  <2>2. f \in [0..0 -> D] /\ Steps(f, 0)
    BY <2>1
  <2>3. QED
    BY <2>2
<1>2. ASSUME NEW k \in 1..n, k - 1 \in T
      PROVE  k \in T
  <2>1. PICK f \in [0..(k - 1) -> D] : Steps(f, k - 1)
    BY <1>2
  <2>2. PICK h : h = [i \in 0..k |-> IF i = k THEN g[<<f[k - 1], k>>] ELSE f[i]]
    OBVIOUS
  <2>3. f[k - 1] \in D /\ g[<<f[k - 1], k>>] \in D
    BY <2>1
  <2>4. h \in [0..k -> D]
    BY <2>2, <2>3
  <2>5. /\ h[k] = g[<<f[k - 1], k>>]
        /\ \A i \in 0..(k - 1) : h[i] = f[i]
    BY <2>2
  <2>6. h[0] = base
    BY <2>1, <2>5
  <2>7. ASSUME NEW i \in 1..k
        PROVE  h[i] = g[<<h[i - 1], i>>]
    <3>1. CASE i = k
      BY <2>5, <3>1
    <3>2. CASE i # k
      <4>1. i \in 1..(k - 1) /\ i - 1 \in 0..(k - 1) /\ i \in 0..(k - 1)
        BY <3>2
      <4>2. QED
        BY <2>1, <2>5, <4>1
    <3>3. QED
      BY <3>1, <3>2
  <2>8. QED
    BY <2>4, <2>6, <2>7
<1> HIDE DEF T
<1>3. n \in T
  BY <1>1, <1>2, IndexInduction
<1>4. QED
  BY <1>3 DEF T, Iterates

-----------------------------------------------------------------------------
(* A history without a candidate.                                          *)

Distinct(history) ==
    \A i, j \in 1..Len(history) : history[i] = history[j] => i = j

LEMMA WithoutSteps ==
    ASSUME NEW S, NEW history \in Seq(S), NEW candidate
    PROVE  \E f : /\ f[0] = <<>>
                  /\ \A i \in 1..Len(history) :
                        f[i] = IF history[i] = candidate THEN f[i - 1]
                               ELSE Append(f[i - 1], history[i])
                  /\ Without(history, candidate) = f[Len(history)]
<1> DEFINE n == Len(history)
           Keeps(f) == f = [i \in 0..n |->
                IF i = 0 THEN <<>>
                ELSE IF history[i] = candidate THEN f[i - 1] ELSE Append(f[i - 1], history[i])]
           kept == CHOOSE f : Keeps(f)
<1>0. n \in Nat
  OBVIOUS
<1>1. \E f : Keeps(f)
  <2> DEFINE g == [x \in Seq(S) \X (1..n) |->
                IF history[x[2]] = candidate THEN x[1] ELSE Append(x[1], history[x[2]])]
  <2>1. g \in [Seq(S) \X (1..n) -> Seq(S)]
    <3>1. ASSUME NEW x \in Seq(S) \X (1..n)
          PROVE  (IF history[x[2]] = candidate THEN x[1] ELSE Append(x[1], history[x[2]])) \in Seq(S)
      <4>1. x[1] \in Seq(S) /\ history[x[2]] \in S
        OBVIOUS
      <4>2. Append(x[1], history[x[2]]) \in Seq(S)
        BY <4>1
      <4>3. QED
        BY <4>1, <4>2
    <3>2. QED
      BY <3>1
  <2>2. \A s \in Seq(S), i \in 1..n :
            g[<<s, i>>] = IF history[i] = candidate THEN s ELSE Append(s, history[i])
    OBVIOUS
  <2> HIDE DEF g, n
  <2>3. <<>> \in Seq(S)
    OBVIOUS
  <2>4. PICK f \in [0..n -> Seq(S)] : /\ f[0] = <<>>
                                      /\ \A i \in 1..n : f[i] = g[<<f[i - 1], i>>]
    <3>1. PICK D : D = Seq(S)
      OBVIOUS
    <3>2. g \in [D \X (1..n) -> D] /\ <<>> \in D
      BY <2>1, <2>3, <3>1
    <3>3. \E f \in [0..n -> D] : Iterates(f, <<>>, n, g)
      BY <1>0, <3>2, Iteration
    <3>4. QED
      BY <3>1, <3>3 DEF Iterates
  <2>5. ASSUME NEW i \in 1..n
        PROVE  f[i] = IF history[i] = candidate THEN f[i - 1] ELSE Append(f[i - 1], history[i])
    <3>1. f[i - 1] \in Seq(S)
      BY <1>0, <2>4
    <3>2. QED
      BY <2>2, <2>4, <3>1
  <2>6. Keeps(f)
    <3>1. \A i \in 0..n : f[i] = IF i = 0 THEN <<>>
              ELSE IF history[i] = candidate THEN f[i - 1] ELSE Append(f[i - 1], history[i])
      <4>1. ASSUME NEW i \in 0..n
            PROVE  i = 0 \/ i \in 1..n
        BY <1>0
      <4>2. QED
        BY <2>4, <2>5, <4>1, Zenon
    <3>2. QED
      BY <2>4, <3>1
  <2>7. QED
    BY <2>6
<1>2. Keeps(kept)
  BY <1>1, Zenon
<1>3. Without(history, candidate) = kept[n]
  BY Zenon DEF Without
<1>4. PICK f : Keeps(f) /\ Without(history, candidate) = f[n]
  BY <1>2, <1>3, Zenon
<1>5. f[0] = <<>>
  BY <1>0, <1>4
<1>6. ASSUME NEW i \in 1..n
      PROVE  f[i] = IF history[i] = candidate THEN f[i - 1] ELSE Append(f[i - 1], history[i])
  <2>1. i \in 0..n /\ i # 0
    BY <1>0
  <2>2. f[i] = IF i = 0 THEN <<>>
               ELSE IF history[i] = candidate THEN f[i - 1] ELSE Append(f[i - 1], history[i])
    BY <1>4, <2>1, Zenon
  <2>3. QED
    BY <2>1, <2>2, Zenon
<1>7. QED
  BY <1>4, <1>5, <1>6, Zenon

LEMMA WithoutFacts ==
    ASSUME NEW S, NEW history \in Seq(S), NEW candidate
    PROVE  LET rest == Without(history, candidate)
           IN  /\ rest \in Seq(S) /\ Len(rest) <= Len(history)
               /\ \A k \in 1..Len(rest) : rest[k] # candidate
               /\ Distinct(history) => Distinct(rest)
               /\ (\A j \in 1..Len(history) : history[j] # candidate) => rest = history
<1> DEFINE n == Len(history)
<1>1. PICK f : /\ f[0] = <<>>
               /\ \A i \in 1..n : f[i] = IF history[i] = candidate THEN f[i - 1]
                                         ELSE Append(f[i - 1], history[i])
               /\ Without(history, candidate) = f[n]
  BY WithoutSteps
<1>2. n \in Nat /\ \A i \in 1..n : history[i] \in S
  OBVIOUS
<1> DEFINE Come(s, i) == \A k \in 1..Len(s) : \E j \in 1..i : s[k] = history[j]
           Good(s, i) == /\ s \in Seq(S) /\ Len(s) <= i
                         /\ \A k \in 1..Len(s) : s[k] # candidate
                         /\ Come(s, i)
                         /\ Distinct(history) => Distinct(s)
                         /\ (\A j \in 1..i : history[j] # candidate) =>
                                /\ Len(s) = i
                                /\ \A k \in 1..i : s[k] = history[k]
           T == {i \in 0..n : Good(f[i], i)}
<1> HIDE DEF n
<1>3. 0 \in T
  <2>1. Len(<<>>) = 0 /\ <<>> \in Seq(S)
    OBVIOUS
  <2>2. Good(<<>>, 0)
    BY <2>1 DEF Distinct
  <2>3. f[0] = <<>> /\ 0 \in 0..n
    BY <1>1, <1>2
  <2>4. Good(f[0], 0)
    BY <2>2, <2>3, Zenon
  <2>5. QED
    BY <2>3, <2>4, Zenon
<1>4. ASSUME NEW i \in 1..n, i - 1 \in T
      PROVE  i \in T
  <2> DEFINE s == f[i - 1]
  <2>1. i \in Nat /\ i - 1 \in Nat /\ i \in 0..n /\ i - 1 \in 0..n /\ 1 <= i
    BY <1>2
  <2>2. Good(s, i - 1)
    BY <1>4
  <2> HIDE DEF T
  <2>3. f[i] = IF history[i] = candidate THEN s ELSE Append(s, history[i])
    BY <1>1
  <2> HIDE DEF s
  <2>4. Come(s, i)
    BY <2>1, <2>2
  <2>5. CASE history[i] = candidate
    <3>1. Good(s, i)
      BY <2>1, <2>2, <2>4, <2>5
    <3>2. f[i] = s
      BY <2>3, <2>5
    <3>3. QED
      BY <2>1, <3>1, <3>2 DEF T
  <2>6. CASE history[i] # candidate
    <3> DEFINE r == Append(s, history[i])
    <3>1. /\ r \in Seq(S) /\ Len(r) = Len(s) + 1 /\ r[Len(s) + 1] = history[i]
          /\ \A k \in 1..Len(s) : r[k] = s[k]
          /\ Len(s) \in Nat
      BY <1>2, <2>2
    <3> HIDE DEF r
    <3>2. \A k \in 1..Len(r) : k = Len(s) + 1 \/ k \in 1..Len(s)
      BY <3>1
    <3>3. Len(r) <= i
      BY <2>1, <2>2, <3>1
    <3>4. \A k \in 1..Len(r) : r[k] # candidate
      BY <2>2, <2>6, <3>1, <3>2
    <3>5. Come(r, i)
      <4>1. i \in 1..i
        BY <2>1
      <4>2. QED
        BY <2>4, <3>1, <3>2, <4>1
    <3>6. ASSUME Distinct(history)
          PROVE  Distinct(r)
      <4>1. ASSUME NEW k \in 1..Len(s)
            PROVE  s[k] # history[i]
        <5>1. PICK j \in 1..(i - 1) : s[k] = history[j]
          BY <2>2
        <5>2. j \in 1..Len(history) /\ i \in 1..Len(history) /\ j # i
          BY <1>2, <2>1 DEF n
        <5>3. QED
          BY <3>6, <5>1, <5>2 DEF Distinct
      <4>2. Distinct(s)
        BY <2>2, <3>6
      <4>3. ASSUME NEW k \in 1..Len(r), NEW l \in 1..Len(r), r[k] = r[l]
            PROVE  k = l
        BY <3>1, <3>2, <4>1, <4>2, <4>3 DEF Distinct
      <4>4. QED
        BY <4>3 DEF Distinct
    <3>7. ASSUME \A j \in 1..i : history[j] # candidate
          PROVE  /\ Len(r) = i
                 /\ \A k \in 1..i : r[k] = history[k]
      <4>1. Len(s) = i - 1 /\ \A k \in 1..(i - 1) : s[k] = history[k]
        BY <2>1, <2>2, <3>7
      <4>2. QED
        BY <2>1, <3>1, <4>1
    <3>8. Good(r, i)
      BY <3>1, <3>3, <3>4, <3>5, <3>6, <3>7
    <3>9. f[i] = r
      BY <2>3, <2>6 DEF r
    <3>10. QED
      BY <2>1, <3>8, <3>9 DEF T
  <2>7. QED
    BY <2>5, <2>6
<1> HIDE DEF T
<1>5. n \in T
  <2>1. \A i \in 0..n : i \in T
    BY <1>2, <1>3, <1>4, IndexInduction
  <2>2. QED
    BY <1>2, <2>1
<1> DEFINE rest == Without(history, candidate)
<1>6. Good(rest, n)
  BY <1>1, <1>5 DEF T
<1> HIDE DEF rest
<1>7. ASSUME \A j \in 1..n : history[j] # candidate
      PROVE  rest = history
  <2>1. rest \in Seq(S) /\ Len(rest) = n /\ \A k \in 1..n : rest[k] = history[k]
    BY <1>6, <1>7
  <2>2. QED
    BY <2>1, SeqEqual DEF n
<1>8. QED
  BY <1>6, <1>7 DEF n, rest

-----------------------------------------------------------------------------
(* A history to which a hash is added.                                     *)

\* The candidate first and once, and at most HistoryLimit hashes.
LEMMA UpdateFacts ==
    ASSUME NEW S, NEW history \in Seq(S), NEW candidate \in S
    PROVE  LET added == UpdateTransactionHistory(history, candidate)
           IN  /\ added \in Seq(S) /\ 1 <= Len(added) /\ Len(added) <= HistoryLimit
               /\ added[1] = candidate
               /\ Distinct(history) => Distinct(added)
<1> DEFINE rest == Without(history, candidate)
           all == <<candidate>> \o rest
           n == IF Len(all) < HistoryLimit THEN Len(all) ELSE HistoryLimit
           added == SubSeq(all, 1, n)
<1>0. HistoryLimit \in Nat /\ 1 <= HistoryLimit
  BY PaymentAssumption
<1>1. /\ rest \in Seq(S)
      /\ \A k \in 1..Len(rest) : rest[k] # candidate
      /\ Distinct(history) => Distinct(rest)
  BY WithoutFacts
<1>2. UpdateTransactionHistory(history, candidate) = added
  BY DEF UpdateTransactionHistory, AtMost
<1> HIDE DEF rest
<1>3. /\ all \in Seq(S) /\ Len(all) = Len(rest) + 1 /\ all[1] = candidate
      /\ \A k \in 1..Len(rest) : all[k + 1] = rest[k]
      /\ Len(rest) \in Nat
  BY <1>1
<1> HIDE DEF all
<1>4. n \in 1..Len(all) /\ n <= HistoryLimit
  BY <1>0, <1>3
<1> HIDE DEF n
<1>5. /\ added \in Seq(S) /\ Len(added) = n
      /\ \A k \in 1..n : added[k] = all[k]
  BY <1>3, <1>4
<1> HIDE DEF added
<1>6. added[1] = candidate /\ 1 <= Len(added) /\ Len(added) <= HistoryLimit
  BY <1>3, <1>4, <1>5
<1>7. ASSUME Distinct(history), NEW k \in 1..Len(added), NEW l \in 1..Len(added),
             added[k] = added[l]
      PROVE  k = l
  <2>1. k \in 1..Len(all) /\ l \in 1..Len(all) /\ all[k] = all[l]
    BY <1>3, <1>4, <1>5, <1>7
  <2>2. \A j \in 1..Len(all) : j = 1 \/ (j - 1 \in 1..Len(rest) /\ all[j] = rest[j - 1])
    <3>1. ASSUME NEW j \in 1..Len(all), j # 1
          PROVE  j - 1 \in 1..Len(rest) /\ all[j] = rest[j - 1]
      <4>1. j - 1 \in 1..Len(rest) /\ (j - 1) + 1 = j
        BY <1>3, <3>1
      <4>2. QED
        BY <1>3, <4>1
    <3>2. QED
      BY <3>1
  <2>3. Distinct(rest)
    BY <1>1, <1>7
  <2>4. CASE k = 1 \/ l = 1
    BY <1>1, <1>3, <2>1, <2>2, <2>4
  <2>5. CASE k # 1 /\ l # 1
    <3>1. k - 1 = l - 1
      BY <2>1, <2>2, <2>3, <2>5 DEF Distinct
    <3>2. QED
      BY <1>3, <2>1, <3>1
  <2>6. QED
    BY <2>4, <2>5
<1>8. QED
  BY <1>2, <1>5, <1>6, <1>7 DEF Distinct

\* A new hash goes before those already there; only the last may be dropped.
LEMMA UpdateFresh ==
    ASSUME NEW S, NEW history \in Seq(S), NEW candidate \in S,
           \A j \in 1..Len(history) : history[j] # candidate
    PROVE  LET added == UpdateTransactionHistory(history, candidate)
           IN  /\ added \in Seq(S)
               /\ Len(added) = IF Len(history) < HistoryLimit THEN Len(history) + 1
                               ELSE HistoryLimit
               /\ added[1] = candidate
               /\ \A k \in 2..Len(added) : k - 1 \in 1..Len(history) /\ added[k] = history[k - 1]
<1> DEFINE all == <<candidate>> \o history
           n == IF Len(all) < HistoryLimit THEN Len(all) ELSE HistoryLimit
           added == SubSeq(all, 1, n)
<1>0. HistoryLimit \in Nat /\ 1 <= HistoryLimit
  BY PaymentAssumption
<1>1. Without(history, candidate) = history
  BY WithoutFacts
<1>2. UpdateTransactionHistory(history, candidate) = added
  BY <1>1 DEF UpdateTransactionHistory, AtMost
<1>3. /\ all \in Seq(S) /\ Len(all) = Len(history) + 1 /\ all[1] = candidate
      /\ \A k \in 1..Len(history) : all[k + 1] = history[k]
      /\ Len(history) \in Nat
  OBVIOUS
<1> HIDE DEF all
<1>4. /\ n \in 1..Len(all)
      /\ n = IF Len(history) < HistoryLimit THEN Len(history) + 1 ELSE HistoryLimit
  BY <1>0, <1>3
<1> HIDE DEF n
<1>5. /\ added \in Seq(S) /\ Len(added) = n
      /\ \A k \in 1..n : added[k] = all[k]
  BY <1>3, <1>4
<1> HIDE DEF added
<1>6. ASSUME NEW k \in 2..n
      PROVE  k - 1 \in 1..Len(history) /\ added[k] = history[k - 1]
  <2>1. k - 1 \in 1..Len(history) /\ (k - 1) + 1 = k /\ k \in 1..n
    BY <1>3, <1>4
  <2>2. QED
    BY <1>3, <1>5, <2>1
<1>7. added[1] = candidate
  BY <1>3, <1>4, <1>5
<1>8. QED
  BY <1>2, <1>4, <1>5, <1>6, <1>7

-----------------------------------------------------------------------------
(* A history read back.                                                    *)

\* The functions a reload computes: the entries of a stored history added so far.
LEMMA ParseSteps ==
    ASSUME NEW S, NEW stored \in Seq(S)
    PROVE  \E f : /\ f[0] = <<>>
                  /\ \A i \in 1..Len(stored) :
                        f[i] = UpdateTransactionHistory(f[i - 1], stored[i])
                  /\ ParseTransactionHistory(stored) = Reverse(f[Len(stored)])
<1> DEFINE n == Len(stored)
           Adds(f) == f = [i \in 0..n |->
                IF i = 0 THEN <<>> ELSE UpdateTransactionHistory(f[i - 1], stored[i])]
           added == CHOOSE f : Adds(f)
<1>0. n \in Nat
  OBVIOUS
<1>1. \E f : Adds(f)
  <2>1. PICK g : g = [x \in Seq(S) \X (1..n) |-> UpdateTransactionHistory(x[1], stored[x[2]])]
    OBVIOUS
  <2>2. g \in [Seq(S) \X (1..n) -> Seq(S)]
    <3>1. ASSUME NEW x \in Seq(S) \X (1..n)
          PROVE  UpdateTransactionHistory(x[1], stored[x[2]]) \in Seq(S)
      <4>1. x[1] \in Seq(S) /\ stored[x[2]] \in S
        OBVIOUS
      <4>2. QED
        BY <4>1, UpdateFacts
    <3>2. QED
      BY <2>1, <3>1
  <2>3. \A s \in Seq(S), i \in 1..n : g[<<s, i>>] = UpdateTransactionHistory(s, stored[i])
    BY <2>1
  <2> HIDE DEF n
  <2>4. PICK D : D = Seq(S)
    OBVIOUS
  <2>5. g \in [D \X (1..n) -> D] /\ <<>> \in D
    BY <2>2, <2>4
  <2>6. PICK f \in [0..n -> D] : Iterates(f, <<>>, n, g)
    BY <1>0, <2>5, Iteration
  <2>7. ASSUME NEW i \in 1..n
        PROVE  f[i] = UpdateTransactionHistory(f[i - 1], stored[i])
    <3>1. f[i - 1] \in Seq(S)
      BY <1>0, <2>4
    <3>2. QED
      BY <2>3, <2>6, <3>1 DEF Iterates
  <2>8. Adds(f)
    <3>1. \A i \in 0..n : f[i] = IF i = 0 THEN <<>> ELSE UpdateTransactionHistory(f[i - 1], stored[i])
      <4>1. ASSUME NEW i \in 0..n
            PROVE  i = 0 \/ i \in 1..n
        BY <1>0
      <4>2. f[0] = <<>>
        BY <2>6 DEF Iterates
      <4>3. QED
        BY <2>7, <4>1, <4>2, Zenon
    <3>2. QED
      BY <3>1
  <2>9. QED
    BY <2>8
<1>2. Adds(added)
  BY <1>1, Zenon
<1>3. ParseTransactionHistory(stored) = Reverse(added[n])
  BY Zenon DEF ParseTransactionHistory
<1>4. PICK f : Adds(f) /\ ParseTransactionHistory(stored) = Reverse(f[n])
  BY <1>2, <1>3, Zenon
<1>5. f[0] = <<>>
  BY <1>0, <1>4
<1>6. ASSUME NEW i \in 1..n
      PROVE  f[i] = UpdateTransactionHistory(f[i - 1], stored[i])
  <2>1. i \in 0..n /\ i # 0
    BY <1>0
  <2>2. f[i] = IF i = 0 THEN <<>> ELSE UpdateTransactionHistory(f[i - 1], stored[i])
    BY <1>4, <2>1, Zenon
  <2>3. QED
    BY <2>1, <2>2, Zenon
<1>7. QED
  BY <1>4, <1>5, <1>6, Zenon

\* Distinct hashes, as many as a history keeps at most, are read back as stored.
LEMMA ParseReadsBack ==
    ASSUME NEW S, NEW stored \in Seq(S), Distinct(stored), Len(stored) <= HistoryLimit
    PROVE  ParseTransactionHistory(stored) = stored
<1> DEFINE n == Len(stored)
<1>1. PICK f : /\ f[0] = <<>>
               /\ \A i \in 1..n : f[i] = UpdateTransactionHistory(f[i - 1], stored[i])
               /\ ParseTransactionHistory(stored) = Reverse(f[n])
  BY ParseSteps
<1>2. n \in Nat /\ \A i \in 1..n : stored[i] \in S
  OBVIOUS
<1>3. HistoryLimit \in Nat /\ n <= HistoryLimit
  BY PaymentAssumption
<1> DEFINE Turned(s, i) == /\ s \in Seq(S) /\ Len(s) = i
                           /\ \A k \in 1..i : s[k] = stored[(i + 1) - k]
           T == {i \in 0..n : Turned(f[i], i)}
<1> HIDE DEF n
<1>4. 0 \in T
  <2>1. <<>> \in Seq(S) /\ Len(<<>>) = 0
    OBVIOUS
  <2>2. Turned(<<>>, 0) /\ 0 \in 0..n
    BY <1>2, <2>1
  <2>3. Turned(f[0], 0)
    BY <1>1, <2>2, Zenon
  <2>4. QED
    BY <2>2, <2>3, Zenon
<1>5. ASSUME NEW i \in 1..n, i - 1 \in T
      PROVE  i \in T
  <2> DEFINE s == f[i - 1]
             r == UpdateTransactionHistory(s, stored[i])
  <2>1. i \in Nat /\ i \in 0..n /\ 1 <= i /\ i <= n /\ stored[i] \in S
    BY <1>2
  <2>2. Turned(s, i - 1)
    BY <1>5
  <2> HIDE DEF T
  <2>3. f[i] = r
    BY <1>1
  <2> HIDE DEF s
  <2>4. s \in Seq(S) /\ Len(s) = i - 1
    BY <2>2
  <2>5. ASSUME NEW j \in 1..Len(s)
        PROVE  s[j] = stored[i - j] /\ s[j] # stored[i]
    <3>1. j \in 1..(i - 1) /\ ((i - 1) + 1) - j = i - j
      BY <2>1, <2>4
    <3>2. s[j] = stored[i - j]
      BY <2>2, <3>1
    <3>3. i - j \in 1..Len(stored) /\ i \in 1..Len(stored) /\ i - j # i
      BY <2>1, <3>1 DEF n
    <3>4. QED
      BY <3>2, <3>3 DEF Distinct
  <2>6. /\ r \in Seq(S)
        /\ Len(r) = IF Len(s) < HistoryLimit THEN Len(s) + 1 ELSE HistoryLimit
        /\ r[1] = stored[i]
        /\ \A k \in 2..Len(r) : k - 1 \in 1..Len(s) /\ r[k] = s[k - 1]
    <3>1. \A j \in 1..Len(s) : s[j] # stored[i]
      BY <2>5
    <3>2. QED
      BY <2>1, <2>4, <3>1, UpdateFresh, Zenon
  <2> HIDE DEF r
  <2>7. Len(r) = i
    <3>1. Len(s) < HistoryLimit
      BY <1>2, <1>3, <2>1, <2>4
    <3>2. Len(r) = Len(s) + 1
      BY <2>6, <3>1
    <3>3. QED
      BY <2>1, <2>4, <3>2
  <2>8. ASSUME NEW k \in 1..i
        PROVE  r[k] = stored[(i + 1) - k]
    <3>1. CASE k = 1
      <4>1. (i + 1) - k = i
        BY <2>1, <3>1
      <4>2. QED
        BY <2>6, <3>1, <4>1
    <3>2. CASE k # 1
      <4>1. k \in 2..i /\ i - (k - 1) = (i + 1) - k
        BY <2>1, <3>2
      <4>2. k - 1 \in 1..Len(s) /\ r[k] = s[k - 1]
        BY <2>6, <2>7, <4>1
      <4>3. s[k - 1] = stored[i - (k - 1)]
        BY <2>5, <4>2
      <4>4. QED
        BY <4>1, <4>2, <4>3
    <3>3. QED
      BY <3>1, <3>2
  <2>9. Turned(f[i], i)
    BY <2>3, <2>6, <2>7, <2>8
  <2>10. QED
    BY <2>1, <2>9 DEF T
<1>6. Turned(f[n], n)
  <2> HIDE DEF T
  <2>1. \A i \in 0..n : i \in T
    BY <1>2, <1>4, <1>5, IndexInduction
  <2>2. n \in T
    BY <1>2, <2>1
  <2>3. QED
    BY <2>2 DEF T
<1>7. Reverse(f[n]) = stored
  <2> DEFINE s == f[n]
  <2>1. /\ s \in Seq(S) /\ Len(s) = n
        /\ \A k \in 1..n : s[k] = stored[(n + 1) - k]
    BY <1>6
  <2> HIDE DEF s
  <2>2. Reverse(s) = [k \in 1..n |-> s[(n - k) + 1]]
    BY <2>1 DEF Reverse
  <2>3. ASSUME NEW k \in 1..n
        PROVE  s[(n - k) + 1] = stored[k] /\ s[(n - k) + 1] \in S
    <3>1. (n - k) + 1 \in 1..n /\ (n + 1) - ((n - k) + 1) = k
      BY <1>2
    <3>2. QED
      BY <1>2, <2>1, <3>1
  <2>4. Reverse(s) \in Seq(S) /\ Len(Reverse(s)) = n
    <3>1. PICK r : r = [k \in 1..n |-> s[(n - k) + 1]]
      OBVIOUS
    <3>2. r \in [1..n -> S]
      BY <2>3, <3>1
    <3>3. r \in Seq(S) /\ Len(r) = n
      BY <1>2, <3>2
    <3>4. QED
      BY <2>2, <3>1, <3>3
  <2>5. \A k \in 1..n : Reverse(s)[k] = stored[k]
    BY <2>2, <2>3
  <2>6. Reverse(s) = stored
    BY <2>4, <2>5, SeqEqual DEF n
  <2>7. QED
    BY <2>6 DEF s
<1>8. QED
  BY <1>1, <1>7

-----------------------------------------------------------------------------
(* Powers of the base, and division by them.                               *)

LEMMA PowerSteps ==
    ASSUME NEW k \in Nat
    PROVE  \E f \in [0..k -> Nat \ {0}] :
              /\ f[0] = 1
              /\ \A i \in 1..k : f[i] = Base * f[i - 1]
              /\ Power(k) = f[k]
<1> DEFINE Multiplies(f) == f = [i \in 0..k |-> IF i = 0 THEN 1 ELSE Base * f[i - 1]]
           power == CHOOSE f : Multiplies(f)
           D == Nat \ {0}
<1>0. Base \in D
  BY PaymentAssumption
<1>1. \E f : Multiplies(f)
  <2>1. PICK g : g = [x \in D \X (1..k) |-> Base * x[1]]
    OBVIOUS
  <2>2. g \in [D \X (1..k) -> D]
    <3>1. ASSUME NEW x \in D \X (1..k)
          PROVE  Base * x[1] \in D
      BY <1>0
    <3>2. QED
      BY <2>1, <3>1
  <2>3. 1 \in D
    OBVIOUS
  <2>4. \A s \in D, i \in 1..k : g[<<s, i>>] = Base * s
    BY <2>1
  <2> HIDE DEF D
  <2>5. PICK f \in [0..k -> D] : Iterates(f, 1, k, g)
    BY <2>2, <2>3, Iteration
  <2>6. ASSUME NEW i \in 1..k
        PROVE  f[i] = Base * f[i - 1]
    <3>1. i - 1 \in 0..k
      OBVIOUS
    <3>2. f[i - 1] \in D
      BY <3>1
    <3>3. QED
      BY <2>4, <2>5, <3>2 DEF Iterates
  <2>7. \A i \in 0..k : f[i] = IF i = 0 THEN 1 ELSE Base * f[i - 1]
    <3>1. \A i \in 0..k : i = 0 \/ i \in 1..k
      OBVIOUS
    <3>2. f[0] = 1
      BY <2>5 DEF Iterates
    <3>3. QED
      BY <2>6, <3>1, <3>2, Zenon
  <2>8. Multiplies(f)
    BY <2>7
  <2>9. QED
    BY <2>8
<1>2. Multiplies(power)
  BY <1>1, Zenon
<1>3. Power(k) = power[k]
  BY Zenon DEF Power
<1>4. PICK f : Multiplies(f) /\ Power(k) = f[k]
  BY <1>2, <1>3, Zenon
<1>5. f[0] = 1
  BY <1>4
<1>6. ASSUME NEW i \in 1..k
      PROVE  f[i] = Base * f[i - 1]
  <2>1. i \in 0..k /\ i # 0
    OBVIOUS
  <2>2. f[i] = IF i = 0 THEN 1 ELSE Base * f[i - 1]
    BY <1>4, <2>1, Zenon
  <2>3. QED
    BY <2>1, <2>2, Zenon
<1>7. \A i \in 0..k : f[i] \in D
  <2> DEFINE T == {i \in 0..k : f[i] \in D}
  <2>1. 0 \in T
    BY <1>5
  <2>2. ASSUME NEW i \in 1..k, i - 1 \in T
        PROVE  i \in T
    <3>1. f[i - 1] \in D /\ i \in 0..k
      BY <2>2
    <3>2. f[i] \in D
      BY <1>0, <1>6, <3>1
    <3>3. QED
      BY <3>1, <3>2
  <2> HIDE DEF T
  <2>3. \A i \in 0..k : i \in T
    BY <2>1, <2>2, IndexInduction
  <2>4. QED
    BY <2>3 DEF T
<1>8. f \in [0..k -> D]
  BY <1>4, <1>7
<1>9. QED
  BY <1>4, <1>5, <1>6, <1>8

LEMMA PowerFacts ==
    /\ Power(0) = 1
    /\ \A k \in Nat : /\ Power(k) \in Nat \ {0}
                      /\ Power(k + 1) = Base * Power(k)
<1>1. Power(0) = 1
  <2>1. PICK f \in [0..0 -> Nat \ {0}] : f[0] = 1 /\ Power(0) = f[0]
    BY PowerSteps
  <2>2. QED
    BY <2>1
<1>2. ASSUME NEW k \in Nat
      PROVE  /\ Power(k) \in Nat \ {0}
             /\ Power(k + 1) = Base * Power(k)
  <2>1. PICK f \in [0..k -> Nat \ {0}] : /\ f[0] = 1
                                         /\ \A i \in 1..k : f[i] = Base * f[i - 1]
                                         /\ Power(k) = f[k]
    BY PowerSteps
  <2>2. k + 1 \in Nat /\ k + 1 \in 1..(k + 1) /\ (k + 1) - 1 = k
    OBVIOUS
  <2>3. PICK h \in [0..(k + 1) -> Nat \ {0}] :
          /\ h[0] = 1
          /\ \A i \in 1..(k + 1) : h[i] = Base * h[i - 1]
          /\ Power(k + 1) = h[k + 1]
    BY <2>2, PowerSteps
  <2> DEFINE T == {i \in 0..k : h[i] = f[i]}
  <2>4. 0 \in T
    BY <2>1, <2>3
  <2>5. ASSUME NEW i \in 1..k, i - 1 \in T
        PROVE  i \in T
    <3>1. h[i - 1] = f[i - 1] /\ i \in 0..k /\ i \in 1..(k + 1)
      BY <2>5
    <3>2. h[i] = f[i]
      BY <2>1, <2>3, <3>1
    <3>3. QED
      BY <3>1, <3>2
  <2> HIDE DEF T
  <2>6. \A i \in 0..k : i \in T
    BY <2>4, <2>5, IndexInduction
  <2>7. h[k] = f[k]
    BY <2>6 DEF T
  <2>8. h[k + 1] = Base * h[k]
    BY <2>2, <2>3
  <2>9. QED
    BY <2>1, <2>3, <2>7, <2>8
<1>3. QED
  BY <1>1, <1>2

\* What the digits of a sum are: a quotient and a remainder are the only ones.
LEMMA Division ==
    ASSUME NEW b \in Nat \ {0}, NEW q \in Nat, NEW r \in 0..(b - 1)
    PROVE  (b * q + r) \div b = q /\ (b * q + r) % b = r
  OBVIOUS

LEMMA Quotient ==
    ASSUME NEW a \in Nat, NEW b \in Nat \ {0}
    PROVE  /\ a \div b \in Nat /\ a % b \in 0..(b - 1)
           /\ a = b * (a \div b) + (a % b)
  OBVIOUS

\* Dividing by the base again is dividing by the next power.
LEMMA NextQuotient ==
    ASSUME NEW a \in Nat, NEW b \in Nat \ {0}, NEW c \in Nat \ {0}
    PROVE  (a \div b) \div c = a \div (c * b)
<1>1. PICK q, r : q = a \div b /\ r = a % b
  OBVIOUS
<1>2. q \in Nat /\ r \in 0..(b - 1) /\ a = b * q + r
  BY <1>1, Quotient
<1>3. PICK s, t : s = q \div c /\ t = q % c
  OBVIOUS
<1>4. s \in Nat /\ t \in 0..(c - 1) /\ q = c * s + t
  BY <1>2, <1>3, Quotient
<1>5. PICK d \in Nat \ {0} : d = c * b
  OBVIOUS
<1>6. PICK e \in Nat : e = b * t + r
  BY <1>2, <1>4
<1>7. a = d * s + e
  <2>1. b * (c * s + t) = (c * b) * s + b * t
    BY <1>4
  <2>2. QED
    BY <1>2, <1>4, <1>5, <1>6, <2>1
<1>8. e <= d - 1
  <2>1. b * t <= b * (c - 1)
    BY <1>4
  <2>2. b * (c - 1) = c * b - b
    OBVIOUS
  <2>3. QED
    BY <1>2, <1>4, <1>5, <1>6, <2>1, <2>2
<1>9. e \in 0..(d - 1)
  BY <1>5, <1>6, <1>8
<1>10. a \div d = s
  BY <1>4, <1>5, <1>7, <1>9, Division
<1>11. QED
  BY <1>1, <1>3, <1>5, <1>10

-----------------------------------------------------------------------------
(* The value of an amount's text.                                          *)

LEMMA PaddedDigit ==
    ASSUME NEW digits \in Seq(Digit), NEW i \in Nat \ {0}
    PROVE  Padded(digits, i) \in Digit
<1>1. 0 \in Digit
  BY PaymentAssumption DEF Digit
<1>2. CASE i <= Len(digits)
  <2>1. i \in 1..Len(digits)
    BY <1>2
  <2>2. QED
    BY <1>2, <2>1 DEF Padded
<1>3. CASE ~(i <= Len(digits))
  BY <1>1, <1>3 DEF Padded
<1>4. QED
  BY <1>2, <1>3

LEMMA FractionSteps ==
    ASSUME NEW digits \in Seq(Digit)
    PROVE  \E f \in [0..Decimals -> Nat] :
              /\ f[0] = 0
              /\ \A i \in 1..Decimals : f[i] = Base * f[i - 1] + Padded(digits, i)
              /\ FractionValue(digits) = f[Decimals]
<1> DEFINE Adds(f) == f = [i \in 0..Decimals |->
                IF i = 0 THEN 0 ELSE Base * f[i - 1] + Padded(digits, i)]
           value == CHOOSE f : Adds(f)
<1>0. /\ Base \in Nat /\ Decimals \in Nat
      /\ \A i \in 1..Decimals : Padded(digits, i) \in Nat
  <2>1. Base \in Nat /\ Decimals \in Nat
    BY PaymentAssumption
  <2>2. \A i \in 1..Decimals : i \in Nat \ {0}
    BY <2>1
  <2>3. \A i \in 1..Decimals : Padded(digits, i) \in Digit
    BY <2>2, PaddedDigit
  <2>4. Digit \subseteq Nat
    BY <2>1 DEF Digit
  <2>5. QED
    BY <2>1, <2>3, <2>4
<1>1. \E f : Adds(f)
  <2>1. PICK g : g = [x \in Nat \X (1..Decimals) |-> Base * x[1] + Padded(digits, x[2])]
    OBVIOUS
  <2>2. g \in [Nat \X (1..Decimals) -> Nat]
    <3>1. ASSUME NEW x \in Nat \X (1..Decimals)
          PROVE  Base * x[1] + Padded(digits, x[2]) \in Nat
      <4>1. PICK s \in Nat, d \in Nat : s = x[1] /\ d = Padded(digits, x[2])
        BY <1>0
      <4>2. Base * s + d \in Nat
        BY <1>0
      <4>3. QED
        BY <4>1, <4>2
    <3>2. QED
      BY <2>1, <3>1
  <2>3. \A s \in Nat, i \in 1..Decimals : g[<<s, i>>] = Base * s + Padded(digits, i)
    BY <2>1
  <2>4. PICK f \in [0..Decimals -> Nat] : Iterates(f, 0, Decimals, g)
    BY <1>0, <2>2, Iteration
  <2>5. ASSUME NEW i \in 1..Decimals
        PROVE  f[i] = Base * f[i - 1] + Padded(digits, i)
    <3>1. i - 1 \in 0..Decimals
      BY <1>0
    <3>2. f[i - 1] \in Nat
      BY <3>1
    <3>3. QED
      BY <2>3, <2>4, <3>2 DEF Iterates
  <2>6. \A i \in 0..Decimals : f[i] = IF i = 0 THEN 0 ELSE Base * f[i - 1] + Padded(digits, i)
    <3>1. \A i \in 0..Decimals : i = 0 \/ i \in 1..Decimals
      BY <1>0
    <3>2. f[0] = 0
      BY <2>4 DEF Iterates
    <3>3. QED
      BY <2>5, <3>1, <3>2, Zenon
  <2>7. Adds(f)
    BY <2>6
  <2>8. QED
    BY <2>7
<1>2. Adds(value)
  BY <1>1, Zenon
<1>3. FractionValue(digits) = value[Decimals]
  BY Zenon DEF FractionValue
<1>4. PICK f : Adds(f) /\ FractionValue(digits) = f[Decimals]
  BY <1>2, <1>3, Zenon
<1>5. f[0] = 0
  BY <1>0, <1>4
<1>6. ASSUME NEW i \in 1..Decimals
      PROVE  f[i] = Base * f[i - 1] + Padded(digits, i)
  <2>1. i \in 0..Decimals /\ i # 0
    BY <1>0
  <2>2. f[i] = IF i = 0 THEN 0 ELSE Base * f[i - 1] + Padded(digits, i)
    BY <1>4, <2>1, Zenon
  <2>3. QED
    BY <2>1, <2>2, Zenon
<1>7. \A i \in 0..Decimals : f[i] \in Nat
  <2> DEFINE T == {i \in 0..Decimals : f[i] \in Nat}
  <2>1. 0 \in T
    BY <1>0, <1>5
  <2>2. ASSUME NEW i \in 1..Decimals, i - 1 \in T
        PROVE  i \in T
    <3>1. f[i - 1] \in Nat /\ i \in 0..Decimals
      BY <1>0, <2>2
    <3>2. f[i] \in Nat
      <4>1. PICK s \in Nat, d \in Nat : s = f[i - 1] /\ d = Padded(digits, i)
        BY <1>0, <3>1
      <4>2. Base * s + d \in Nat
        BY <1>0
      <4>3. QED
        BY <1>6, <4>1, <4>2
    <3>3. QED
      BY <3>1, <3>2
  <2> HIDE DEF T
  <2>3. \A i \in 0..Decimals : i \in T
    BY <1>0, <2>1, <2>2, IndexInduction
  <2>4. QED
    BY <2>3 DEF T
<1>8. f \in [0..Decimals -> Nat]
  BY <1>4, <1>7
<1>9. QED
  BY <1>4, <1>5, <1>6, <1>8

\* The digits of an amount are read from left to right, from its whole part on.
LEMMA AmountSteps ==
    ASSUME NEW whole \in Nat, NEW digits \in Seq(Digit)
    PROVE  \E t \in [0..Decimals -> Nat] :
              /\ t[0] = whole
              /\ \A i \in 1..Decimals : t[i] = Base * t[i - 1] + Padded(digits, i)
              /\ t[Decimals] = whole * Unit + FractionValue(digits)
<1>0. Base \in Nat /\ Decimals \in Nat
  BY PaymentAssumption
<1>1. PICK f \in [0..Decimals -> Nat] :
        /\ f[0] = 0
        /\ \A i \in 1..Decimals : f[i] = Base * f[i - 1] + Padded(digits, i)
        /\ FractionValue(digits) = f[Decimals]
  BY FractionSteps
<1>2. PICK t : t = [i \in 0..Decimals |-> whole * Power(i) + f[i]]
  OBVIOUS
<1>3. ASSUME NEW i \in 0..Decimals
      PROVE  t[i] = whole * Power(i) + f[i] /\ f[i] \in Nat /\ Power(i) \in Nat
  <2>1. i \in Nat
    BY <1>0
  <2>2. Power(i) \in Nat
    BY <2>1, PowerFacts
  <2>3. f[i] \in Nat
    OBVIOUS
  <2>4. t[i] = whole * Power(i) + f[i]
    BY <1>2
  <2>5. QED
    BY <2>2, <2>3, <2>4
<1>4. \A i \in 0..Decimals : whole * Power(i) + f[i] \in Nat
  BY <1>3
<1>5. t \in [0..Decimals -> Nat]
  BY <1>2, <1>4
<1>6. t[0] = whole
  <2>1. 0 \in 0..Decimals
    BY <1>0
  <2>2. t[0] = whole * 1 + 0
    BY <1>1, <1>3, <2>1, PowerFacts
  <2>3. QED
    BY <2>2
<1>7. ASSUME NEW i \in 1..Decimals
      PROVE  t[i] = Base * t[i - 1] + Padded(digits, i)
  <2>1. i \in 0..Decimals /\ i - 1 \in 0..Decimals /\ i - 1 \in Nat /\ (i - 1) + 1 = i
    BY <1>0
  <2>2. PICK p \in Nat : p = Power(i - 1)
    BY <2>1, PowerFacts
  <2>3. Power(i) = Base * p
    BY <2>1, <2>2, PowerFacts
  <2>4. PICK g \in Nat : g = f[i - 1]
    BY <1>3, <2>1
  <2>5. t[i - 1] = whole * p + g
    BY <1>3, <2>1, <2>2, <2>4
  <2>6. f[i] = Base * g + Padded(digits, i) /\ Padded(digits, i) \in Int
    <3>1. Padded(digits, i) \in Digit
      BY <1>0, PaddedDigit
    <3>2. QED
      BY <1>0, <1>1, <2>4, <3>1 DEF Digit
  <2>7. t[i] = whole * (Base * p) + (Base * g + Padded(digits, i))
    BY <1>3, <2>1, <2>3, <2>6
  <2>8. whole * (Base * p) + (Base * g + Padded(digits, i))
           = Base * (whole * p + g) + Padded(digits, i)
    BY <1>0, <2>6
  <2>9. QED
    BY <2>5, <2>7, <2>8
<1>8. t[Decimals] = whole * Unit + FractionValue(digits)
  BY <1>0, <1>1, <1>3 DEF Unit
<1>9. QED
  BY <1>5, <1>6, <1>7, <1>8

\* The number whose whole part and digits are those of a text.
Reads(n, whole, digits) ==
    /\ n \in Nat /\ n \div Unit = whole
    /\ \A i \in 1..Decimals : (n \div Power(Decimals - i)) % Base = Padded(digits, i)

LEMMA QuotientSteps ==
    ASSUME NEW n \in Nat, NEW k \in Nat \ {0}
    PROVE  n \div Power(k) = (n \div Power(k - 1)) \div Base
<1>1. PICK p \in Nat \ {0} : p = Power(k - 1)
  BY PowerFacts
<1>2. k - 1 \in Nat /\ (k - 1) + 1 = k
  OBVIOUS
<1>3. Power(k) = Base * p
  BY <1>1, <1>2, PowerFacts
<1>4. Base \in Nat \ {0}
  BY PaymentAssumption
<1>5. (n \div p) \div Base = n \div (Base * p)
  BY <1>4, NextQuotient
<1>6. QED
  BY <1>1, <1>3, <1>5

LEMMA ValueReads ==
    ASSUME NEW whole \in Nat, NEW digits \in Seq(Digit)
    PROVE  Reads(whole * Unit + FractionValue(digits), whole, digits)
<1>0. Base \in Nat \ {0} /\ Decimals \in Nat
  BY PaymentAssumption
<1>1. PICK t \in [0..Decimals -> Nat] :
        /\ t[0] = whole
        /\ \A i \in 1..Decimals : t[i] = Base * t[i - 1] + Padded(digits, i)
        /\ t[Decimals] = whole * Unit + FractionValue(digits)
  BY AmountSteps
<1>2. PICK n \in Nat : n = t[Decimals]
  BY <1>0
<1>3. ASSUME NEW i \in 1..Decimals
      PROVE  t[i] \div Base = t[i - 1] /\ t[i] % Base = Padded(digits, i)
  <2>1. t[i - 1] \in Nat
    BY <1>0
  <2>2. Padded(digits, i) \in 0..(Base - 1)
    BY <1>0, PaddedDigit DEF Digit
  <2>3. PICK s \in Nat, d \in 0..(Base - 1) : s = t[i - 1] /\ d = Padded(digits, i)
    BY <2>1, <2>2
  <2>4. (Base * s + d) \div Base = s /\ (Base * s + d) % Base = d
    BY <1>0, Division
  <2>5. QED
    BY <1>1, <2>3, <2>4
<1> DEFINE T == {k \in 0..Decimals : n \div Power(k) = t[Decimals - k]}
<1>4. 0 \in T
  <2>1. n \div 1 = n /\ Decimals - 0 = Decimals /\ 0 \in 0..Decimals
    BY <1>0
  <2>2. QED
    BY <1>2, <2>1, PowerFacts
<1>5. ASSUME NEW k \in 1..Decimals, k - 1 \in T
      PROVE  k \in T
  <2>1. PICK i \in 1..Decimals : i = Decimals - (k - 1)
    BY <1>0
  <2>2. k \in Nat \ {0} /\ i - 1 = Decimals - k /\ k \in 0..Decimals
    BY <1>0, <2>1
  <2>3. n \div Power(k - 1) = t[i]
    BY <1>5, <2>1
  <2>4. n \div Power(k) = t[i - 1]
    BY <1>3, <2>2, <2>3, QuotientSteps
  <2>5. QED
    BY <2>2, <2>4
<1> HIDE DEF T
<1>6. \A k \in 0..Decimals : n \div Power(k) = t[Decimals - k]
  <2>1. \A k \in 0..Decimals : k \in T
    BY <1>0, <1>4, <1>5, IndexInduction
  <2>2. QED
    BY <2>1 DEF T
<1>7. n \div Unit = whole
  <2>1. Decimals \in 0..Decimals /\ Decimals - Decimals = 0
    BY <1>0
  <2>2. QED
    BY <1>1, <1>6, <2>1 DEF Unit
<1>8. ASSUME NEW i \in 1..Decimals
      PROVE  (n \div Power(Decimals - i)) % Base = Padded(digits, i)
  <2>1. Decimals - i \in 0..Decimals /\ Decimals - (Decimals - i) = i
    BY <1>0
  <2>2. n \div Power(Decimals - i) = t[i]
    BY <1>6, <2>1
  <2>3. QED
    BY <1>3, <2>2
<1>9. QED
  BY <1>1, <1>2, <1>7, <1>8 DEF Reads

LEMMA ReadsValue ==
    ASSUME NEW whole \in Nat, NEW digits \in Seq(Digit), NEW n, Reads(n, whole, digits)
    PROVE  n = whole * Unit + FractionValue(digits)
<1>0. Base \in Nat \ {0} /\ Decimals \in Nat /\ n \in Nat
  BY PaymentAssumption DEF Reads
<1>1. PICK t \in [0..Decimals -> Nat] :
        /\ t[0] = whole
        /\ \A i \in 1..Decimals : t[i] = Base * t[i - 1] + Padded(digits, i)
        /\ t[Decimals] = whole * Unit + FractionValue(digits)
  BY AmountSteps
<1> DEFINE T == {i \in 0..Decimals : n \div Power(Decimals - i) = t[i]}
<1>2. 0 \in T
  <2>1. Decimals - 0 = Decimals /\ 0 \in 0..Decimals
    BY <1>0
  <2>2. QED
    BY <1>1, <2>1 DEF Reads, Unit
<1>3. ASSUME NEW i \in 1..Decimals, i - 1 \in T
      PROVE  i \in T
  <2>1. PICK k \in Nat \ {0} : k = Decimals - (i - 1)
    BY <1>0
  <2>2. k - 1 = Decimals - i /\ k - 1 \in Nat /\ i \in 0..Decimals
    BY <1>0, <2>1
  <2>3. n \div Power(k) = t[i - 1]
    BY <1>3, <2>1
  <2>4. PICK m \in Nat : m = n \div Power(k - 1)
    BY <1>0, <2>2, PowerFacts, Quotient
  <2>5. m \div Base = t[i - 1]
    BY <1>0, <2>3, <2>4, QuotientSteps
  <2>6. m % Base = Padded(digits, i)
    BY <2>2, <2>4 DEF Reads
  <2>7. m = t[i]
    BY <1>0, <1>1, <2>5, <2>6, Quotient
  <2>8. QED
    BY <2>2, <2>4, <2>7
<1> HIDE DEF T
<1>4. Decimals \in T
  <2>1. \A i \in 0..Decimals : i \in T
    BY <1>0, <1>2, <1>3, IndexInduction
  <2>2. QED
    BY <1>0, <2>1
<1>5. n \div Power(0) = t[Decimals]
  <2>1. Decimals - Decimals = 0
    BY <1>0
  <2>2. QED
    BY <1>4, <2>1 DEF T
<1>6. n \div 1 = n
  BY <1>0
<1>7. QED
  BY <1>1, <1>5, <1>6, PowerFacts

-----------------------------------------------------------------------------
(* The text of an amount.                                                  *)

\* The last place of a digit that is not zero; 0 if there is none.
LEMMA LastNonzero ==
    ASSUME NEW n \in Nat, NEW s \in [1..n -> Nat]
    PROVE  \E last \in 0..n : /\ TrimZeros(s) = SubSeq(s, 1, last)
                              /\ last # 0 => s[last] # 0
                              /\ \A i \in 1..n : i > last => s[i] = 0
<1>1. s \in Seq(Nat) /\ Len(s) = n
  OBVIOUS
<1> DEFINE I == {i \in 1..Len(s) : s[i] # 0}
           last == IF I # {} THEN Max(I) ELSE 0
<1>2. TrimZeros(s) = SubSeq(s, 1, last)
  BY DEF TrimZeros, SelectLastInSeq
<1>3. CASE I = {}
  <2>1. last = 0 /\ \A i \in 1..n : s[i] = 0
    BY <1>1, <1>3
  <2>2. 0 \in 0..n
    OBVIOUS
  <2>3. QED
    BY <1>2, <2>1, <2>2
<1>4. CASE I # {}
  <2> DEFINE J == {n - i : i \in I}
  <2>1. J \subseteq Nat /\ J # {}
    BY <1>1, <1>4
  <2> HIDE DEF J
  <2>2. PICK j \in J : \A k \in J : j <= k
    BY <2>1, LeastIndex
  <2>3. PICK m \in I : j = n - m
    BY <2>2 DEF J
  <2>4. \A i \in I : m >= i
    <3>1. ASSUME NEW i \in I
          PROVE  m >= i
      <4>1. n - m <= n - i
        BY <2>2, <2>3 DEF J
      <4>2. i \in Nat /\ m \in Nat
        BY <1>1
      <4>3. QED
        BY <4>1, <4>2
    <3>2. QED
      BY <3>1
  <2>5. Max(I) \in I /\ \A i \in I : Max(I) >= i
    <3> HIDE DEF I
    <3>1. QED
      BY <2>3, <2>4 DEF Max
  <2>6. PICK l \in I : l = last /\ \A i \in I : l >= i
    BY <1>4, <2>5
  <2>7. l \in 1..n /\ s[l] # 0
    BY <1>1, <2>6
  <2>8. ASSUME NEW i \in 1..n, i > l
        PROVE  s[i] = 0
    <3>1. ASSUME s[i] # 0
          PROVE  FALSE
      <4>1. i \in I
        BY <1>1, <3>1
      <4>2. l \in Nat
        BY <2>7
      <4>3. l >= i
        <5> HIDE DEF I
        <5>1. QED
          BY <2>6, <4>1
      <4>4. QED
        BY <2>8, <4>2, <4>3
    <3>2. QED
      BY <3>1
  <2>9. TrimZeros(s) = SubSeq(s, 1, l) /\ l \in 0..n
    BY <1>2, <2>6, <2>7
  <2>10. QED
    BY <2>7, <2>8, <2>9
<1>5. QED
  BY <1>3, <1>4

\* Trimmed, the padded digits are those that were padded, without the zeros at the
\* end.
LEMMA TrimPadded ==
    ASSUME NEW digits \in Seq(Digit), NEW n \in Nat, Len(digits) <= n,
           NEW s, s = [i \in 1..n |-> Padded(digits, i)]
    PROVE  /\ TrimZeros(s) \in Seq(Digit)
           /\ Len(TrimZeros(s)) <= Len(digits)
           /\ IsPrefix(TrimZeros(s), digits)
           /\ \A i \in 1..n : Padded(TrimZeros(s), i) = Padded(digits, i)
<1>1. Digit \subseteq Nat
  BY PaymentAssumption DEF Digit
<1>2. \A i \in 1..n : Padded(digits, i) \in Digit
  <2>1. \A i \in 1..n : i \in Nat \ {0}
    OBVIOUS
  <2>2. QED
    BY <2>1, PaddedDigit
<1>3. /\ s \in Seq(Digit) /\ Len(s) = n
      /\ s \in [1..n -> Nat]
      /\ \A i \in 1..n : s[i] = Padded(digits, i)
  <2>1. s \in [1..n -> Digit]
    BY <1>2
  <2>2. s \in [1..n -> Nat]
    BY <1>1, <2>1
  <2>3. s \in Seq(Digit) /\ Len(s) = n
    BY <2>1
  <2>4. \A i \in 1..n : s[i] = Padded(digits, i)
    OBVIOUS
  <2>5. QED
    BY <2>2, <2>3, <2>4
<1>4. PICK last \in 0..n : /\ TrimZeros(s) = SubSeq(s, 1, last)
                           /\ last # 0 => s[last] # 0
                           /\ \A i \in 1..n : i > last => s[i] = 0
  BY <1>3, LastNonzero
<1>5. last <= Len(digits)
  <2>1. CASE last = 0
    BY <2>1
  <2>2. CASE last # 0
    <3>1. last \in 1..n /\ s[last] # 0
      BY <1>4, <2>2
    <3>2. Padded(digits, last) # 0
      BY <1>3, <3>1
    <3>3. QED
      BY <3>2 DEF Padded
  <2>3. QED
    BY <2>1, <2>2
<1>6. PICK w : w = SubSeq(s, 1, last)
  OBVIOUS
<1>7. /\ w \in Seq(Digit) /\ Len(w) = last
      /\ \A i \in 1..last : w[i] = s[i]
  <2>1. \A i \in 1..last : i \in 1..n
    OBVIOUS
  <2>2. QED
    BY <1>3, <1>6, <2>1
<1>8. ASSUME NEW i \in 1..n
      PROVE  Padded(w, i) = Padded(digits, i)
  <2>1. CASE i <= last
    <3>1. i \in 1..last
      BY <2>1
    <3>2. w[i] = Padded(digits, i)
      BY <1>3, <1>7, <3>1
    <3>3. QED
      BY <1>7, <2>1, <3>2 DEF Padded
  <2>2. CASE i > last
    <3>1. Padded(digits, i) = 0
      BY <1>3, <1>4, <2>2
    <3>2. ~(i <= Len(w))
      BY <1>7, <2>2
    <3>3. QED
      BY <3>1, <3>2 DEF Padded
  <2>3. QED
    BY <2>1, <2>2
<1>9. IsPrefix(w, digits)
  <2>1. ASSUME NEW i \in 1..last
        PROVE  w[i] = digits[i]
    <3>1. i \in 1..n /\ i <= Len(digits)
      BY <1>5
    <3>2. s[i] = digits[i]
      BY <1>3, <3>1 DEF Padded
    <3>3. QED
      BY <1>7, <3>2
  <2>2. SubSeq(w, 1, last) \in Seq(Digit) /\ SubSeq(digits, 1, last) \in Seq(Digit)
    BY <1>5, <1>7
  <2>3. /\ Len(SubSeq(w, 1, last)) = last /\ Len(SubSeq(digits, 1, last)) = last
        /\ \A i \in 1..last : SubSeq(w, 1, last)[i] = w[i] /\ SubSeq(digits, 1, last)[i] = digits[i]
    BY <1>5, <1>7
  <2>4. PICK v, d : v = SubSeq(w, 1, last) /\ d = SubSeq(digits, 1, last)
    OBVIOUS
  <2>5. v = d
    <3>1. v \in Seq(Digit) /\ d \in Seq(Digit) /\ Len(v) = last /\ Len(d) = last
      BY <2>2, <2>3, <2>4
    <3>2. \A i \in 1..last : v[i] = d[i]
      BY <2>1, <2>3, <2>4
    <3>3. QED
      BY <3>1, <3>2, SeqEqual
  <2>6. QED
    BY <1>5, <1>7, <2>4, <2>5 DEF IsPrefix
<1>10. QED
  BY <1>4, <1>5, <1>6, <1>7, <1>8, <1>9

\* A text of at most Decimals digits that is a valid amount is its value; the value
\* is written as the text without its last zeros, which is the same amount.
LEMMA FormatParses ==
    ASSUME NEW whole \in Nat, NEW digits \in Seq(Digit), Len(digits) <= Decimals,
           NEW n, Reads(n, whole, digits), 0 < n, n < AmountBound
    PROVE  LET written == FormatStrkAmount(n)
           IN  /\ ParseStrkAmount(written) = n
               /\ written.whole = whole
               /\ IsPrefix(written.fraction, digits)
<1>0. Decimals \in Nat /\ n \in Nat
  BY PaymentAssumption DEF Reads
<1>1. PICK s : s = [i \in 1..Decimals |-> Padded(digits, i)]
  OBVIOUS
<1>2. [i \in 1..Decimals |-> (n \div Power(Decimals - i)) % Base] = s
  BY <1>1 DEF Reads
<1>3. PICK w : w = TrimZeros(s)
  OBVIOUS
<1>4. /\ w \in Seq(Digit) /\ Len(w) <= Len(digits) /\ IsPrefix(w, digits)
      /\ \A i \in 1..Decimals : Padded(w, i) = Padded(digits, i)
  BY <1>0, <1>1, <1>3, TrimPadded
<1>5. PICK written : written = FormatStrkAmount(n)
  OBVIOUS
<1>6. written = [whole |-> whole, fraction |-> w]
  BY <1>2, <1>3, <1>5 DEF FormatStrkAmount, Reads
<1>7. written.whole = whole /\ written.fraction = w
  BY <1>6
<1>8. Reads(n, whole, w)
  BY <1>4 DEF Reads
<1>9. n = whole * Unit + FractionValue(w)
  BY <1>4, <1>8, ReadsValue
<1>10. Len(w) <= Decimals
  BY <1>0, <1>4
<1>11. ParseStrkAmount(written) = n
  BY <1>7, <1>9, <1>10 DEF ParseStrkAmount
<1>12. QED
  BY <1>4, <1>5, <1>7, <1>11
=============================================================================
