------------------------- MODULE UsageBudget_proofs --------------------------
(***************************************************************************)
(* UsageBudget for every number of jobs, every limit and every amount: the *)
(* hard limit, the agreement of reservations, ledger and balances, and     *)
(* that a reservation is closed at most once.                              *)
(*                                                                         *)
(* HardLimit alone is not inductive: settle lowers reserved by the amount  *)
(* of the reservation and raises spent by what was charged, and only the   *)
(* agreement of the rows keeps the two in step.  IInv adds it.             *)
(***************************************************************************)
EXTENDS UsageBudget, BudgetRows_proofs

USE NAssumption, LimitAssumption, AmountsAssumption DEF Jobs

\* Costs, actual amounts and limits are integers once normalised.
LEMMA NormalizedInt ==
  \A raw \in Costs \cup Actuals \cup Limits : normalized_cost(raw) \in Int
BY NormalizedCostRounds

\* The ledger columns that LedgerReconciles sums.
HeldColumn   == [j \in Jobs |-> Held(j)]
ChargeColumn == [j \in Jobs |-> ledger[j].charge]

\* The columns are integer functions of the jobs.
LEMMA ColumnTypes ==
  ASSUME TypeOK
  PROVE  HeldColumn \in [1..N -> Int] /\ ChargeColumn \in [1..N -> Int]
BY DEF TypeOK, LedgerRow, HeldColumn, ChargeColumn, Held

\* A new workspace satisfies the invariant: its ledger is empty.
LEMMA InitInv == Init => IInv
<1> SUFFICES ASSUME Init PROVE IInv
  OBVIOUS
<1>1. TypeOK
  BY DEF Init, TypeOK, BudgetRow, ReservationRow, LedgerRow, NoReservation, NoEntries
<1>2. HardLimit /\ NoRowIsEmpty /\ ActiveNotSettled /\ ReservationMatchesLedger
  BY DEF Init, HardLimit, NoRowIsEmpty, ActiveNotSettled, ReservationMatchesLedger, Held, Active,
         NoReservation, NoEntries
<1>3. LedgerReconciles
  <2>1. \A i \in 1..N : HeldColumn[i] = 0 /\ ChargeColumn[i] = 0
    BY DEF Init, HeldColumn, ChargeColumn, Held, NoEntries
  <2>2. Total(HeldColumn, N) = 0 /\ Total(ChargeColumn, N) = 0
    BY <1>1, <2>1, ColumnTypes, TotalZero
  <2> QED BY <2>2 DEF Init, LedgerReconciles, HeldColumn, ChargeColumn
<1> QED BY <1>1, <1>2, <1>3 DEF IInv

\* A step that changes what job j holds by dh and what it was charged by dc,
\* and the balances by the same amounts, keeps ledger and balances reconciled.
LEMMA ReconcileStep ==
  ASSUME TypeOK, TypeOK', LedgerReconciles, UNCHANGED overrides,
         NEW j \in Jobs, NEW dh \in Int, NEW dc \in Int,
         \A i \in Jobs : i # j => ledger'[i] = ledger[i],
         Held(j)' = Held(j) + dh, ledger'[j].charge = ledger[j].charge + dc,
         budget'.reserved = budget.reserved + dh,
         budget'.spent = budget.spent + dc,
         budget'.hard_limit = budget.hard_limit
  PROVE  LedgerReconciles'
<1>1. /\ HeldColumn \in [1..N -> Int] /\ ChargeColumn \in [1..N -> Int]
      /\ HeldColumn' \in [1..N -> Int] /\ ChargeColumn' \in [1..N -> Int]
  <2>1. HeldColumn \in [1..N -> Int] /\ ChargeColumn \in [1..N -> Int]
    BY ColumnTypes
  <2>2. \A i \in Jobs : ledger'[i] \in LedgerRow
    BY DEF TypeOK
  <2>3. \A i \in Jobs : Held(i)' \in Int /\ ledger'[i].charge \in Int
    BY <2>2 DEF LedgerRow, Held
  <2>4. HeldColumn' \in [1..N -> Int] /\ ChargeColumn' \in [1..N -> Int]
    BY <2>3 DEF HeldColumn, ChargeColumn
  <2> QED BY <2>1, <2>4
<1>2. /\ HeldColumn'[j] = HeldColumn[j] + dh
      /\ ChargeColumn'[j] = ChargeColumn[j] + dc
      /\ \A i \in 1..N : i # j => /\ HeldColumn'[i] = HeldColumn[i]
                                  /\ ChargeColumn'[i] = ChargeColumn[i]
  BY DEF HeldColumn, ChargeColumn, Held
<1>3. Total(HeldColumn', N) = Total(HeldColumn, N) + dh
  BY <1>1, <1>2, TotalUpdate
<1>4. Total(ChargeColumn', N) = Total(ChargeColumn, N) + dc
  BY <1>1, <1>2, TotalUpdate
<1> QED BY <1>3, <1>4 DEF LedgerReconciles, HeldColumn, ChargeColumn

(***************************************************************************)
(* The three operations on a reservation replace the budget row, and the   *)
(* reservation and ledger rows of one job.  Such a step keeps IInv when    *)
(* the new rows satisfy what IInv says of them.                            *)
(***************************************************************************)
LEMMA RowStepInv ==
  ASSUME IInv, TypeOK', HardLimit', UNCHANGED overrides,
         NEW j \in Jobs, NEW dh \in Int, NEW dc \in Int,
         \A i \in Jobs : i # j => /\ reservation'[i] = reservation[i]
                                /\ ledger'[i] = ledger[i],
         reservation'[j].state # "none",
         Active(reservation'[j]) => reservation'[j].settled_amount = 0,
         Held(j)' = Held(j) + dh, ledger'[j].charge = ledger[j].charge + dc,
         budget'.reserved = budget.reserved + dh,
         budget'.spent = budget.spent + dc,
         budget'.hard_limit = budget.hard_limit,
         Held(j)' = (IF Active(reservation'[j]) THEN reservation'[j].amount ELSE 0),
         ledger'[j].charge = reservation'[j].settled_amount,
         ledger'[j].charge \in 0..reservation'[j].amount
  PROVE  IInv'
<1>0. TypeOK /\ NoRowIsEmpty /\ ActiveNotSettled /\ ReservationMatchesLedger
      /\ LedgerReconciles
  BY DEF IInv
<1>1. NoRowIsEmpty' /\ ActiveNotSettled'
  BY <1>0 DEF NoRowIsEmpty, ActiveNotSettled, Active
<1>2. ReservationMatchesLedger'
  <2> SUFFICES ASSUME NEW i \in Jobs
               PROVE  /\ Held(i)' = (IF Active(reservation'[i])
                                       THEN reservation'[i].amount ELSE 0)
                      /\ ledger'[i].charge = reservation'[i].settled_amount
                      /\ ledger'[i].charge \in 0..reservation'[i].amount
    BY DEF ReservationMatchesLedger, Active
  <2>1. CASE i = j
    BY <2>1
  <2>2. CASE i # j
    BY <1>0, <2>2 DEF ReservationMatchesLedger, Held
  <2> QED BY <2>1, <2>2
<1>3. LedgerReconciles'
  BY <1>0, ReconcileStep
<1> QED BY <1>1, <1>2, <1>3 DEF IInv

\* What the rows of a job and of the budget are before a step.
LEMMA RowFacts ==
  ASSUME IInv, NEW j \in Jobs
  PROVE  /\ budget \in BudgetRow /\ ledger[j] \in LedgerRow
         /\ reservation[j] \in ReservationRow
         /\ reservation[j].amount \in Nat /\ reservation[j].settled_amount \in Nat
         /\ budget.hard_limit \in Int /\ budget.spent \in Int /\ budget.reserved \in Int
         /\ ledger[j].reservation \in Int /\ ledger[j].charge \in Int
         /\ ledger[j].release \in Int
         /\ budget.spent + budget.reserved <= budget.hard_limit
         /\ Held(j) = (IF Active(reservation[j]) THEN reservation[j].amount ELSE 0)
         /\ ledger[j].charge = reservation[j].settled_amount
         /\ ledger[j].charge \in 0..reservation[j].amount
<1>1. budget \in BudgetRow /\ ledger[j] \in LedgerRow /\ reservation[j] \in ReservationRow
  BY DEF IInv, TypeOK
<1>2. /\ reservation[j].amount \in Nat /\ reservation[j].settled_amount \in Nat
      /\ budget.hard_limit \in Int /\ budget.spent \in Int /\ budget.reserved \in Int
      /\ ledger[j].reservation \in Int /\ ledger[j].charge \in Int
      /\ ledger[j].release \in Int
  BY <1>1 DEF BudgetRow, LedgerRow, ReservationRow
<1> QED BY <1>1, <1>2 DEF IInv, HardLimit, ReservationMatchesLedger

\* reserve adds the cost to the balance and to the ledger of its job.
LEMMA ReserveInv ==
  ASSUME IInv, NEW j \in Jobs, NEW cost \in Int, reserve(j, cost)
  PROVE  IInv'
<1>0. cost \in Nat /\ UNCHANGED overrides
  BY DEF reserve
<1>1. /\ budget' = AfterReserve(budget, cost)
      /\ reservation' = [reservation EXCEPT ![j] = Reserved(cost)]
      /\ ledger' = [ledger EXCEPT ![j] = LogReserve(ledger[j], cost)]
  BY DEF reserve
<1>2. budget' = [hard_limit |-> budget.hard_limit, spent |-> budget.spent,
                 reserved |-> budget.reserved + cost]
  BY <1>1, RowFacts, BudgetRowUpdates
<1>3. LogReserve(ledger[j], cost)
        = [reservation |-> ledger[j].reservation + cost,
           charge |-> ledger[j].charge, release |-> ledger[j].release]
  BY RowFacts, LedgerRowUpdates
<1>4. /\ reservation'[j] = Reserved(cost) /\ ledger'[j] = LogReserve(ledger[j], cost)
      /\ \A i \in Jobs : i # j => /\ reservation'[i] = reservation[i]
                                 /\ ledger'[i] = ledger[i]
  BY <1>1 DEF IInv, TypeOK
<1>5. TypeOK'
  <2>1. budget' \in BudgetRow
    BY <1>2, <1>0, RowFacts DEF BudgetRow
  <2>2. LogReserve(ledger[j], cost) \in LedgerRow /\ Reserved(cost) \in ReservationRow
    BY <1>0, <1>3, RowFacts, ReservationRowTypes DEF LedgerRow
  <2> QED BY <1>0, <1>1, <2>1, <2>2 DEF TypeOK, IInv
<1>6. HardLimit'
  BY <1>2, RowFacts DEF HardLimit, reserve, FitsLimit
<1>7. Held(j) = 0 /\ ledger[j].charge = 0
  BY RowFacts DEF IInv, reserve, NoRowIsEmpty, NoReservation, Active
<1>8. /\ Held(j)' = Held(j) + cost /\ ledger'[j].charge = ledger[j].charge + 0
      /\ budget'.reserved = budget.reserved + cost
      /\ budget'.spent = budget.spent + 0 /\ budget'.hard_limit = budget.hard_limit
  BY <1>2, <1>3, <1>4, RowFacts DEF Held
<1>9. /\ reservation'[j].state # "none" /\ Active(reservation'[j])
      /\ reservation'[j].amount = cost /\ reservation'[j].settled_amount = 0
  BY <1>4 DEF Reserved, Active
<1>10. /\ Held(j)' = (IF Active(reservation'[j]) THEN reservation'[j].amount ELSE 0)
       /\ ledger'[j].charge = reservation'[j].settled_amount
       /\ ledger'[j].charge \in 0..reservation'[j].amount
  BY <1>0, <1>7, <1>8, <1>9
<1> QED BY <1>0, <1>4, <1>5, <1>6, <1>8, <1>9, <1>10, RowStepInv

\* settle moves the actual cost to spent and gives the rest back.
LEMMA SettleInv ==
  ASSUME IInv, NEW j \in Jobs, NEW actual \in Int, settle(j, actual)
  PROVE  IInv'
<1> DEFINE amount == reservation[j].amount
<1>0. actual \in Nat /\ UNCHANGED overrides /\ actual <= amount
  BY DEF settle, WithinReservation
<1>1. /\ budget' = AfterSettle(budget, amount, actual)
      /\ reservation' = [reservation EXCEPT ![j] = Settled(reservation[j], actual)]
      /\ ledger' = [ledger EXCEPT ![j] = LogSettle(ledger[j], amount, actual)]
  BY DEF settle
<1>2. budget' = [hard_limit |-> budget.hard_limit, spent |-> budget.spent + actual,
                 reserved |-> budget.reserved - amount]
  BY <1>1 DEF AfterSettle
<1>3. LogSettle(ledger[j], amount, actual)
        = [reservation |-> ledger[j].reservation, charge |-> ledger[j].charge + actual,
           release |-> ledger[j].release + (amount - actual)]
  BY DEF LogSettle
<1>4. /\ reservation'[j] = Settled(reservation[j], actual)
      /\ ledger'[j] = LogSettle(ledger[j], amount, actual)
      /\ \A i \in Jobs : i # j => /\ reservation'[i] = reservation[i]
                                 /\ ledger'[i] = ledger[i]
  BY <1>1 DEF IInv, TypeOK
<1>5. TypeOK'
  <2>1. budget' \in BudgetRow
    BY <1>2, <1>0, RowFacts DEF BudgetRow
  <2>2. LogSettle(ledger[j], amount, actual) \in LedgerRow
    <3>1. /\ ledger[j].reservation \in Int /\ ledger[j].charge + actual \in Int
          /\ ledger[j].release + (amount - actual) \in Int
      BY <1>0, RowFacts
    <3> QED BY <1>3, <3>1 DEF LedgerRow
  <2>3. Settled(reservation[j], actual) \in ReservationRow
    BY <1>0, RowFacts, ReservationRowTypes
  <2> QED BY <1>0, <1>1, <2>1, <2>2, <2>3 DEF TypeOK, IInv
<1>6. HardLimit'
  BY <1>0, <1>2, RowFacts DEF HardLimit
<1>7. Held(j) = amount /\ ledger[j].charge = 0
  BY RowFacts DEF settle, IInv, ActiveNotSettled
<1>8. /\ Held(j)' = Held(j) + (0 - amount)
      /\ ledger'[j].charge = ledger[j].charge + actual
      /\ budget'.reserved = budget.reserved + (0 - amount)
      /\ budget'.spent = budget.spent + actual
      /\ budget'.hard_limit = budget.hard_limit
  BY <1>0, <1>2, <1>3, <1>4, RowFacts DEF Held
<1>9. /\ reservation'[j].state # "none" /\ ~Active(reservation'[j])
      /\ reservation'[j].amount = amount /\ reservation'[j].settled_amount = actual
  BY <1>4 DEF Settled, Active
<1>10. /\ Held(j)' = (IF Active(reservation'[j]) THEN reservation'[j].amount ELSE 0)
       /\ ledger'[j].charge = reservation'[j].settled_amount
       /\ ledger'[j].charge \in 0..reservation'[j].amount
  BY <1>0, <1>7, <1>8, <1>9, RowFacts
<1>11. 0 - amount \in Int
  BY RowFacts
<1> QED BY <1>0, <1>4, <1>5, <1>6, <1>8, <1>9, <1>10, <1>11, RowStepInv

\* release gives the whole amount back.
LEMMA ReleaseInv ==
  ASSUME IInv, NEW j \in Jobs, release(j)
  PROVE  IInv'
<1> DEFINE amount == reservation[j].amount
<1>0. UNCHANGED overrides /\ Active(reservation[j])
  BY DEF release
<1>1. /\ budget' = AfterRelease(budget, amount)
      /\ reservation' = [reservation EXCEPT ![j] = Released(reservation[j])]
      /\ ledger' = [ledger EXCEPT ![j] = LogRelease(ledger[j], amount)]
  BY DEF release
<1>2. budget' = [hard_limit |-> budget.hard_limit, spent |-> budget.spent,
                 reserved |-> budget.reserved - amount]
  BY <1>1, RowFacts, BudgetRowUpdates
<1>3. LogRelease(ledger[j], amount)
        = [reservation |-> ledger[j].reservation, charge |-> ledger[j].charge,
           release |-> ledger[j].release + amount]
  BY RowFacts, LedgerRowUpdates
<1>4. /\ reservation'[j] = Released(reservation[j])
      /\ ledger'[j] = LogRelease(ledger[j], amount)
      /\ \A i \in Jobs : i # j => /\ reservation'[i] = reservation[i]
                                 /\ ledger'[i] = ledger[i]
  BY <1>1 DEF IInv, TypeOK
<1>5. TypeOK'
  <2>1. budget' \in BudgetRow
    BY <1>2, RowFacts DEF BudgetRow
  <2>2. /\ LogRelease(ledger[j], amount) \in LedgerRow
        /\ Released(reservation[j]) \in ReservationRow
    BY <1>3, RowFacts, ReservationRowTypes DEF LedgerRow
  <2> QED BY <1>0, <1>1, <2>1, <2>2 DEF TypeOK, IInv
<1>6. HardLimit'
  BY <1>2, RowFacts DEF HardLimit
<1>7. Held(j) = amount
  BY <1>0, RowFacts
<1>8. /\ Held(j)' = Held(j) + (0 - amount)
      /\ ledger'[j].charge = ledger[j].charge + 0
      /\ budget'.reserved = budget.reserved + (0 - amount)
      /\ budget'.spent = budget.spent + 0
      /\ budget'.hard_limit = budget.hard_limit
  BY <1>2, <1>3, <1>4, RowFacts DEF Held
<1>9. /\ reservation'[j].state # "none" /\ ~Active(reservation'[j])
      /\ reservation'[j].amount = amount
      /\ reservation'[j].settled_amount = reservation[j].settled_amount
  BY <1>4 DEF Released, Active
<1>10. /\ Held(j)' = (IF Active(reservation'[j]) THEN reservation'[j].amount ELSE 0)
       /\ ledger'[j].charge = reservation'[j].settled_amount
       /\ ledger'[j].charge \in 0..reservation'[j].amount
  BY <1>7, <1>8, <1>9, RowFacts
<1>11. 0 - amount \in Int
  BY RowFacts
<1> QED BY <1>0, <1>4, <1>5, <1>6, <1>8, <1>9, <1>10, <1>11, RowStepInv

\* override_limit changes the limit and logs the difference.
LEMMA OverrideInv ==
  ASSUME IInv, NEW new \in Int, override_limit(new)
  PROVE  IInv'
<1>1. budget \in BudgetRow /\ UNCHANGED <<reservation, ledger>>
  BY DEF IInv, TypeOK, override_limit
<1>2. /\ budget' = [hard_limit |-> new, spent |-> budget.spent,
                    reserved |-> budget.reserved]
      /\ budget.hard_limit \in Int /\ budget.spent \in Int /\ budget.reserved \in Int
  BY <1>1, BudgetRowUpdates DEF override_limit
<1>3. TypeOK'
  BY <1>1, <1>2 DEF IInv, TypeOK, override_limit, BudgetRow
<1>4. HardLimit'
  BY <1>2 DEF HardLimit, override_limit, CoversCommitments
<1>5. (NoRowIsEmpty /\ ActiveNotSettled /\ ReservationMatchesLedger)'
  BY <1>1 DEF IInv, NoRowIsEmpty, ActiveNotSettled, ReservationMatchesLedger, Held
<1>6. LedgerReconciles'
  <2>1. budget'.hard_limit = InitialLimit + overrides'
    BY <1>2 DEF IInv, TypeOK, LedgerReconciles, override_limit
  <2>2. HeldColumn' = HeldColumn /\ ChargeColumn' = ChargeColumn
    BY <1>1 DEF HeldColumn, ChargeColumn, Held
  <2> QED BY <1>2, <2>1, <2>2 DEF IInv, LedgerReconciles, HeldColumn, ChargeColumn
<1> QED BY <1>3, <1>4, <1>5, <1>6 DEF IInv

\* IInv is inductive.
LEMMA NextInv == IInv /\ [Next]_vars => IInv'
<1> SUFFICES ASSUME IInv, [Next]_vars PROVE IInv'
  OBVIOUS
<1>1. ASSUME NEW j \in Jobs, NEW raw \in Costs, reserve(j, normalized_cost(raw))
      PROVE  IInv'
  BY <1>1, NormalizedInt, ReserveInv
<1>2. ASSUME NEW j \in Jobs, NEW raw \in Actuals, settle(j, normalized_cost(raw))
      PROVE  IInv'
  BY <1>2, NormalizedInt, SettleInv
<1>3. ASSUME NEW j \in Jobs, release(j) PROVE IInv'
  BY <1>3, ReleaseInv
<1>4. ASSUME NEW raw \in Limits, override_limit(normalized_cost(raw)) PROVE IInv'
  BY <1>4, NormalizedInt, OverrideInv
<1>5. CASE UNCHANGED vars
  <2>1. HeldColumn' = HeldColumn /\ ChargeColumn' = ChargeColumn
    BY <1>5 DEF vars, HeldColumn, ChargeColumn, Held
  <2> QED BY <1>5, <2>1 DEF vars, IInv, TypeOK, HardLimit, NoRowIsEmpty,
             ActiveNotSettled, ReservationMatchesLedger, LedgerReconciles, Held, HeldColumn, ChargeColumn
<1> QED BY <1>1, <1>2, <1>3, <1>4, <1>5 DEF Next

-----------------------------------------------------------------------------
\* The inductive invariant holds in every reachable state.
THEOREM Invariance == Spec => []IInv
BY InitInv, NextInv, PTL DEF Spec

\* The balances never exceed the hard limit, whatever the amounts and the order
\* of reserve, settle, release and override_limit.
THEOREM HardLimitHolds == Spec => []HardLimit
<1>1. IInv => HardLimit
  BY DEF IInv
<1> QED BY <1>1, Invariance, PTL

\* The rows of the budget, the reservations and the ledger keep the types of
\* their columns: no balance is ever negative.
THEOREM TypeCorrect == Spec => []TypeOK
<1>1. IInv => TypeOK
  BY DEF IInv
<1> QED BY <1>1, Invariance, PTL

\* The ledger rows alone determine the three balances of the budget row.
THEOREM LedgerIsTheRecord == Spec => []LedgerReconciles
<1>1. IInv => LedgerReconciles
  BY DEF IInv
<1> QED BY <1>1, Invariance, PTL

\* The ledger rows of each job add up to what its reservation says was held,
\* spent and given back.
THEOREM ReservationIsItsRows == Spec => []ReservationMatchesLedger
<1>1. IInv => ReservationMatchesLedger
  BY DEF IInv
<1> QED BY <1>1, Invariance, PTL

\* The reserved balance covers every active reservation: a settle or a release
\* never drives it below zero.
THEOREM ReservedNeverNegative == Spec => []ReservedCoversActive
<1>1. IInv => ReservedCoversActive
  <2> SUFFICES ASSUME IInv, NEW j \in Jobs, Active(reservation[j])
               PROVE  budget.reserved >= reservation[j].amount
    BY DEF ReservedCoversActive
  <2>1. \A i \in Jobs : Held(i) \in Nat
    BY RowFacts
  <2>2. HeldColumn \in [1..N -> Nat] /\ HeldColumn[j] = reservation[j].amount
    BY <2>1, RowFacts DEF HeldColumn
  <2>3. Total(HeldColumn, N) >= HeldColumn[j]
    BY <2>2, TotalCovers
  <2> QED BY <2>2, <2>3 DEF IInv, LedgerReconciles, HeldColumn
<1> QED BY <1>1, Invariance, PTL

\* A settled or released reservation, and its ledger rows, never change again.
THEOREM ReservationClosedOnce == Spec => ClosedOnce
<1>1. IInv /\ [Next]_vars =>
        [\A j \in Jobs : reservation[j].state \in {"settled", "released"} =>
           reservation'[j] = reservation[j] /\ ledger'[j] = ledger[j]]_vars
  <2> SUFFICES ASSUME TypeOK, Next, NEW j \in Jobs,
                      reservation[j].state \in {"settled", "released"}
               PROVE  reservation'[j] = reservation[j] /\ ledger'[j] = ledger[j]
    BY DEF IInv
  <2>1. ASSUME NEW i \in Jobs, NEW cost, reserve(i, cost)
        PROVE  reservation'[j] = reservation[j] /\ ledger'[j] = ledger[j]
    BY <2>1 DEF reserve, TypeOK
  <2>2. ASSUME NEW i \in Jobs, NEW actual, settle(i, actual)
        PROVE  reservation'[j] = reservation[j] /\ ledger'[j] = ledger[j]
    BY <2>2 DEF settle, TypeOK, Active
  <2>3. ASSUME NEW i \in Jobs, release(i)
        PROVE  reservation'[j] = reservation[j] /\ ledger'[j] = ledger[j]
    BY <2>3 DEF release, TypeOK, Active
  <2>4. ASSUME NEW new, override_limit(new)
        PROVE  reservation'[j] = reservation[j] /\ ledger'[j] = ledger[j]
    BY <2>4 DEF override_limit
  <2> QED BY <2>1, <2>2, <2>3, <2>4 DEF Next
<1> QED BY <1>1, Invariance, PTL DEF Spec, ClosedOnce
=============================================================================
