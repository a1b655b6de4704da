-------------------------- MODULE BudgetRows_proofs --------------------------
(***************************************************************************)
(* Facts about the arithmetic of BudgetRows, for every n and every amount: *)
(* how Total changes when one summand changes, and what normalized_cost    *)
(* returns.                                                                *)
(*                                                                         *)
(* Total is a recursive function, so its facts need induction: this is     *)
(* NatSetInduction, from Lists_proofs.                                     *)
(***************************************************************************)
EXTENDS BudgetRows, Lists_proofs, TLAPS

-----------------------------------------------------------------------------
\* The equation the prefix sums of f satisfy.
IsPrefixSum(s, f, n) ==
  s = [i \in 0..n |-> IF i = 0 THEN 0 ELSE s[i - 1] + f[i]]

\* Prefix sums exist (so the recursive definition in Total defines something).
LEMMA PrefixSumExists ==
  ASSUME NEW n \in Nat, NEW f \in [1..n -> Int]
  PROVE  \E s \in [0..n -> Int] : IsPrefixSum(s, f, n)
<1> DEFINE S == {m \in Nat : m <= n => \E s \in [0..m -> Int] : IsPrefixSum(s, f, m)}
<1>1. 0 \in S
  <2>1. IsPrefixSum([i \in 0..0 |-> 0], f, 0)
    BY DEF IsPrefixSum
  <2> QED BY <2>1
<1>2. ASSUME NEW m \in Nat, m \in S PROVE m + 1 \in S
  <2> SUFFICES ASSUME m + 1 <= n
               PROVE  \E t \in [0..(m + 1) -> Int] : IsPrefixSum(t, f, m + 1)
    OBVIOUS
  <2>1. PICK s \in [0..m -> Int] : IsPrefixSum(s, f, m)
    BY <1>2
  <2> DEFINE t == [i \in 0..(m + 1) |-> IF i = m + 1 THEN s[m] + f[m + 1] ELSE s[i]]
  <2>2. t \in [0..(m + 1) -> Int]
    OBVIOUS
  <2>3. \A i \in 0..(m + 1) : t[i] = IF i = 0 THEN 0 ELSE t[i - 1] + f[i]
    BY <2>1 DEF IsPrefixSum
  <2>4. IsPrefixSum(t, f, m + 1)
    <3> HIDE DEF t
    <3> QED BY <2>2, <2>3 DEF IsPrefixSum
  <2> QED BY <2>2, <2>4
<1>3. \A m \in Nat : m \in S
  <2> HIDE DEF S
  <2> QED BY <1>1, <1>2, NatSetInduction
<1> QED BY <1>3

\* Total(f, n) is the last prefix sum, for some prefix sums of f.
LEMMA TotalIsPrefixSum ==
  ASSUME NEW n \in Nat, NEW f \in [1..n -> Int]
  PROVE  \E s \in [0..n -> Int] : IsPrefixSum(s, f, n) /\ Total(f, n) = s[n]
<1> DEFINE P(s) == s = [i \in 0..n |-> IF i = 0 THEN 0 ELSE s[i - 1] + f[i]]
           c == CHOOSE s : P(s)
<1>1. \E s : P(s)
  BY PrefixSumExists DEF IsPrefixSum
<1>2. P(c)
  BY <1>1
<1>3. Total(f, n) = c[n]
  BY DEF Total
<1>4. c \in [0..n -> Int]
  <2>0. c = [i \in 0..n |-> IF i = 0 THEN 0 ELSE c[i - 1] + f[i]]
    BY <1>2
  <2> HIDE DEF c
  <2> DEFINE S == {i \in Nat : i <= n => c[i] \in Int}
  <2>1. 0 \in S
    BY <2>0
  <2>2. ASSUME NEW i \in Nat, i \in S PROVE i + 1 \in S
    BY <2>0, <2>2
  <2>3. \A i \in Nat : i \in S
    <3> HIDE DEF S
    <3> QED BY <2>1, <2>2, NatSetInduction
  <2>4. \A i \in 0..n : c[i] \in Int
    BY <2>3
  <2> QED BY <2>0, <2>4
<1>5. IsPrefixSum(c, f, n)
  BY <1>2 DEF IsPrefixSum
<1> HIDE DEF c
<1> QED BY <1>3, <1>4, <1>5

\* Prefix sums are unique, so any of them computes Total.
LEMMA TotalOfPrefixSum ==
  ASSUME NEW n \in Nat, NEW f \in [1..n -> Int],
         NEW t \in [0..n -> Int], IsPrefixSum(t, f, n)
  PROVE  Total(f, n) = t[n]
<1>1. PICK s \in [0..n -> Int] : IsPrefixSum(s, f, n) /\ Total(f, n) = s[n]
  BY TotalIsPrefixSum
<1> DEFINE S == {i \in Nat : i <= n => s[i] = t[i]}
<1>2. 0 \in S
  BY <1>1 DEF IsPrefixSum
<1>3. ASSUME NEW i \in Nat, i \in S PROVE i + 1 \in S
  BY <1>1, <1>3 DEF IsPrefixSum
<1>4. \A i \in Nat : i \in S
  <2> HIDE DEF S
  <2> QED BY <1>2, <1>3, NatSetInduction
<1> QED BY <1>1, <1>4

\* Total of integers is an integer.
LEMMA TotalInt ==
  ASSUME NEW n \in Nat, NEW f \in [1..n -> Int]
  PROVE  Total(f, n) \in Int
BY TotalIsPrefixSum

\* Total of zeros is zero.
LEMMA TotalZero ==
  ASSUME NEW n \in Nat, NEW f \in [1..n -> Int], \A i \in 1..n : f[i] = 0
  PROVE  Total(f, n) = 0
<1> DEFINE t == [i \in 0..n |-> 0]
<1>1. t \in [0..n -> Int] /\ IsPrefixSum(t, f, n)
  BY DEF IsPrefixSum
<1>2. t[n] = 0
  OBVIOUS
<1> HIDE DEF t
<1> QED BY <1>1, <1>2, TotalOfPrefixSum

\* Adding d to one summand adds d to the total: what makes an operation that
\* writes one ledger row and moves the balance by the same amount keep them equal.
LEMMA TotalUpdate ==
  ASSUME NEW n \in Nat, NEW f \in [1..n -> Int], NEW g \in [1..n -> Int],
         NEW j \in 1..n, NEW d \in Int,
         g[j] = f[j] + d, \A i \in 1..n : i # j => g[i] = f[i]
  PROVE  Total(g, n) = Total(f, n) + d
<1>1. PICK s \in [0..n -> Int] : IsPrefixSum(s, f, n) /\ Total(f, n) = s[n]
  BY TotalIsPrefixSum
<1> DEFINE t == [i \in 0..n |-> IF i < j THEN s[i] ELSE s[i] + d]
<1>2. t \in [0..n -> Int]
  OBVIOUS
<1>3. \A i \in 0..n : t[i] = IF i = 0 THEN 0 ELSE t[i - 1] + g[i]
  <2> TAKE i \in 0..n
  <2>1. s[i] = IF i = 0 THEN 0 ELSE s[i - 1] + f[i]
    BY <1>1 DEF IsPrefixSum
  <2>2. CASE i < j
    <3>1. t[i] = s[i] /\ (i # 0 => i - 1 \in 0..n /\ i - 1 < j)
      BY <2>2
    <3>2. i # 0 => t[i - 1] = s[i - 1] /\ g[i] = f[i]
      BY <2>2, <3>1
    <3> HIDE DEF t
    <3> QED BY <2>1, <3>1, <3>2
  <2>3. CASE i = j
    <3>1. i \in 1..n /\ i - 1 \in 0..n /\ ~(i < j) /\ i - 1 < j /\ i # 0
      BY <2>3
    <3>2. t[i] = s[i] + d /\ t[i - 1] = s[i - 1]
      BY <3>1
    <3>3. g[i] = f[i] + d /\ s[i] \in Int /\ s[i - 1] \in Int /\ f[i] \in Int
      BY <2>3, <3>1
    <3> HIDE DEF t
    <3> QED BY <2>1, <3>1, <3>2, <3>3
  <2>4. CASE i > j
    <3>1. i \in 1..n /\ i - 1 \in 0..n /\ ~(i < j) /\ ~(i - 1 < j) /\ i # 0
      BY <2>4
    <3>2. t[i] = s[i] + d /\ t[i - 1] = s[i - 1] + d
      BY <3>1
    <3>3. g[i] = f[i] /\ s[i] \in Int /\ s[i - 1] \in Int /\ f[i] \in Int
      BY <2>4, <3>1
    <3> HIDE DEF t
    <3> QED BY <2>1, <3>1, <3>2, <3>3
  <2> QED BY <2>2, <2>3, <2>4
<1>4. t[n] = s[n] + d
  OBVIOUS
<1> HIDE DEF t
<1>5. IsPrefixSum(t, g, n)
  BY <1>2, <1>3 DEF IsPrefixSum
<1> QED BY <1>1, <1>2, <1>4, <1>5, TotalOfPrefixSum

\* A total of natural numbers is at least each summand.
LEMMA TotalCovers ==
  ASSUME NEW n \in Nat, NEW f \in [1..n -> Nat], NEW j \in 1..n
  PROVE  Total(f, n) >= f[j]
<1>1. PICK s \in [0..n -> Int] : IsPrefixSum(s, f, n) /\ Total(f, n) = s[n]
  BY TotalIsPrefixSum
<1> DEFINE S == {i \in Nat : i <= n => s[i] >= 0 /\ (i >= j => s[i] >= f[j])}
<1>2. 0 \in S
  BY <1>1 DEF IsPrefixSum
<1>3. ASSUME NEW i \in Nat, i \in S PROVE i + 1 \in S
  <2> SUFFICES ASSUME i + 1 <= n
               PROVE  s[i + 1] >= 0 /\ (i + 1 >= j => s[i + 1] >= f[j])
    OBVIOUS
  <2>1. s[i + 1] = s[i] + f[i + 1]
    BY <1>1 DEF IsPrefixSum
  <2>2. s[i] >= 0 /\ (i >= j => s[i] >= f[j]) /\ s[i] \in Int /\ f[i + 1] \in Nat
    BY <1>3
  <2>3. CASE i + 1 = j
    BY <2>1, <2>2, <2>3
  <2>4. CASE i + 1 # j
    <3>1. s[i + 1] >= s[i] /\ s[i + 1] \in Int
      BY <2>1, <2>2
    <3>2. i + 1 >= j => i >= j
      BY <2>4
    <3>3. f[j] \in Nat
      OBVIOUS
    <3> QED BY <2>2, <3>1, <3>2, <3>3
  <2> QED BY <2>3, <2>4
<1>4. \A i \in Nat : i \in S
  <2> HIDE DEF S
  <2> QED BY <1>2, <1>3, NatSetInduction
<1> QED BY <1>1, <1>4

-----------------------------------------------------------------------------
\* normalized_cost returns a whole number of micro-units within half a unit
\* (five tenths) of the raw amount, and returns an amount that is already a
\* whole number of micro-units unchanged: normalising twice, as create and
\* then reserve do, is normalising once.
LEMMA NormalizedCostRounds ==
  ASSUME NEW raw \in Int
  PROVE  /\ normalized_cost(raw) \in Int
         /\ 10 * normalized_cost(raw) - raw \in -5..5
         /\ normalized_cost(10 * raw) = raw
BY DEF normalized_cost

-----------------------------------------------------------------------------
\* What each operation leaves in the budget row.
LEMMA BudgetRowUpdates ==
  ASSUME NEW b \in BudgetRow, NEW x \in Int, NEW y \in Int
  PROVE  /\ AfterReserve(b, x) = [hard_limit |-> b.hard_limit, spent |-> b.spent,
                                  reserved |-> b.reserved + x]
         /\ AfterSettle(b, x, y) = [hard_limit |-> b.hard_limit, spent |-> b.spent + y,
                                    reserved |-> b.reserved - x]
         /\ AfterRelease(b, x) = [hard_limit |-> b.hard_limit, spent |-> b.spent,
                                  reserved |-> b.reserved - x]
         /\ AfterOverride(b, x) = [hard_limit |-> x, spent |-> b.spent,
                                   reserved |-> b.reserved]
         /\ b.hard_limit \in Int /\ b.spent \in Int /\ b.reserved \in Int
<1>1. b.hard_limit \in Int /\ b.spent \in Int /\ b.reserved \in Int
  BY DEF BudgetRow
<1>2. AfterReserve(b, x) = [hard_limit |-> b.hard_limit, spent |-> b.spent,
                            reserved |-> b.reserved + x]
  BY DEF BudgetRow, AfterReserve
<1>3. AfterRelease(b, x) = [hard_limit |-> b.hard_limit, spent |-> b.spent,
                            reserved |-> b.reserved - x]
  BY DEF BudgetRow, AfterRelease
<1>4. AfterOverride(b, x) = [hard_limit |-> x, spent |-> b.spent,
                             reserved |-> b.reserved]
  BY DEF BudgetRow, AfterOverride
<1> QED BY <1>1, <1>2, <1>3, <1>4 DEF AfterSettle

\* What each operation leaves in the ledger rows of its job.
LEMMA LedgerRowUpdates ==
  ASSUME NEW l \in LedgerRow, NEW x \in Int, NEW y \in Int
  PROVE  /\ LogReserve(l, x) = [reservation |-> l.reservation + x,
                                charge |-> l.charge, release |-> l.release]
         /\ LogSettle(l, x, y) = [reservation |-> l.reservation,
                                  charge |-> l.charge + y,
                                  release |-> l.release + (x - y)]
         /\ LogRelease(l, x) = [reservation |-> l.reservation,
                                charge |-> l.charge, release |-> l.release + x]
         /\ l.reservation \in Int /\ l.charge \in Int /\ l.release \in Int
<1>1. l.reservation \in Int /\ l.charge \in Int /\ l.release \in Int
  BY DEF LedgerRow
<1>2. LogReserve(l, x) = [reservation |-> l.reservation + x,
                          charge |-> l.charge, release |-> l.release]
  BY DEF LedgerRow, LogReserve
<1>3. LogRelease(l, x) = [reservation |-> l.reservation,
                          charge |-> l.charge, release |-> l.release + x]
  BY DEF LedgerRow, LogRelease
<1> QED BY <1>1, <1>2, <1>3 DEF LogSettle

\* The reservation rows the operations write are reservation rows.
LEMMA ReservationRowTypes ==
  ASSUME NEW r \in ReservationRow, NEW y \in Nat
  PROVE  /\ Reserved(y) \in ReservationRow
         /\ Settled(r, y) \in ReservationRow
         /\ Released(r) \in ReservationRow
BY DEF ReservationRow, Reserved, Settled, Released
=============================================================================
