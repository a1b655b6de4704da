---------------------------- MODULE UsageBudget -----------------------------
(***************************************************************************)
(* What BudgetService promises: the hard budget of one workspace, with     *)
(* every operation a single step.  JobProcessing, where an operation is a  *)
(* database transaction that interleaves with others, implements it.       *)
(*                                                                         *)
(* An operation that raises leaves no trace (its transaction rolls back),  *)
(* so a refused call is not a step here.                                   *)
(***************************************************************************)
EXTENDS BudgetRows

CONSTANTS
  N,             \* the jobs of the workspace are numbered 1..N
  InitialLimit,  \* hard_limit the workspace was created with
  Costs,         \* raw estimated costs callers pass to reserve
  Actuals,       \* raw actual costs callers pass to settle
  Limits         \* raw limits an administrator passes to override_limit

ASSUME NAssumption == N \in Nat
ASSUME LimitAssumption == InitialLimit \in Nat
ASSUME AmountsAssumption == /\ Costs \subseteq Int
                            /\ Actuals \subseteq Int
                            /\ Limits \subseteq Int

VARIABLES
  budget,       \* the usage_budgets row of the workspace
  reservation,  \* the usage_reservations row of each job
  ledger,       \* the usage_ledger rows of each job, summed by entry_type
  overrides     \* the sum of the "override" ledger rows, which have no job

vars == <<budget, reservation, ledger, overrides>>

Jobs == 1..N

TypeOK ==
  /\ budget \in BudgetRow
  /\ reservation \in [Jobs -> ReservationRow]
  /\ ledger \in [Jobs -> LedgerRow]
  /\ overrides \in Int

\* The workspace has just been created, with its budget row.
Init ==
  /\ budget = [hard_limit |-> InitialLimit, spent |-> 0, reserved |-> 0]
  /\ reservation = [j \in Jobs |-> NoReservation]
  /\ ledger = [j \in Jobs |-> NoEntries]
  /\ overrides = 0

-----------------------------------------------------------------------------
\* Mutant of reserve: the negative amount is not refused.
reserve_any_sign(j, cost) ==
  /\ reservation[j].state = "none"
  /\ FitsLimit(budget, cost)
  /\ budget' = AfterReserve(budget, cost)
  /\ reservation' = [reservation EXCEPT ![j] = Reserved(cost)]
  /\ ledger' = [ledger EXCEPT ![j] = LogReserve(@, cost)]
  /\ UNCHANGED overrides

\* reserve(job_id = j, amount = cost).  usage_reservations.job_id is unique.
reserve(j, cost) ==
  /\ cost >= 0
  /\ reservation[j].state = "none"
  /\ FitsLimit(budget, cost)
  /\ budget' = AfterReserve(budget, cost)
  /\ reservation' = [reservation EXCEPT ![j] = Reserved(cost)]
  /\ ledger' = [ledger EXCEPT ![j] = LogReserve(@, cost)]
  /\ UNCHANGED overrides

\* Mutant of settle: only a missing reservation is refused, not a closed one.
settle_closed(j, actual) ==
  /\ actual >= 0
  /\ reservation[j].state # "none"
  /\ WithinReservation(reservation[j], actual)
  /\ budget' = AfterSettle(budget, reservation[j].amount, actual)
  /\ reservation' = [reservation EXCEPT ![j] = Settled(@, actual)]
  /\ ledger' = [ledger EXCEPT ![j] = LogSettle(@, reservation[j].amount, actual)]
  /\ UNCHANGED overrides

\* settle(job_id = j, actual_amount = actual).
settle(j, actual) ==
  /\ actual >= 0
  /\ Active(reservation[j])
  /\ WithinReservation(reservation[j], actual)
  /\ budget' = AfterSettle(budget, reservation[j].amount, actual)
  /\ reservation' = [reservation EXCEPT ![j] = Settled(@, actual)]
  /\ ledger' = [ledger EXCEPT ![j] = LogSettle(@, reservation[j].amount, actual)]
  /\ UNCHANGED overrides

\* release(job_id = j).
release(j) ==
  /\ Active(reservation[j])
  /\ budget' = AfterRelease(budget, reservation[j].amount)
  /\ reservation' = [reservation EXCEPT ![j] = Released(@)]
  /\ ledger' = [ledger EXCEPT ![j] = LogRelease(@, reservation[j].amount)]
  /\ UNCHANGED overrides

\* Mutant of override_limit: the entry holds the new limit, not the difference.
override_limit_logs_new(new) ==
  /\ new >= 0
  /\ CoversCommitments(budget, new)
  /\ budget' = AfterOverride(budget, new)
  /\ overrides' = overrides + new
  /\ UNCHANGED <<reservation, ledger>>

\* override_limit(new_limit = new).
override_limit(new) ==
  /\ new >= 0
  /\ CoversCommitments(budget, new)
  /\ budget' = AfterOverride(budget, new)
  /\ overrides' = overrides + (new - budget.hard_limit)
  /\ UNCHANGED <<reservation, ledger>>

Next ==
  \/ \E j \in Jobs, raw \in Costs : reserve(j, normalized_cost(raw))
  \/ \E j \in Jobs, raw \in Actuals : settle(j, normalized_cost(raw))
  \/ \E j \in Jobs : release(j)
  \/ \E raw \in Limits : override_limit(normalized_cost(raw))

Spec == Init /\ [][Next]_vars

-----------------------------------------------------------------------------
(* Properties *)

\* The hard stop: what was spent and what is promised to unfinished jobs never
\* exceed the limit, whatever sequence of reservations, settlements, releases
\* and limit changes led here (the check in reserve is against a balance that
\* all four operations move).
HardLimit == budget.spent + budget.reserved <= budget.hard_limit

\* What job j still holds of the budget, according to its ledger rows.
Held(j) == ledger[j].reservation - ledger[j].charge - ledger[j].release

\* The ledger is the financial record: from its rows alone a reader recomputes
\* the three balances of the budget row, so no operation moves a balance
\* without the matching entry or writes an entry twice.
LedgerReconciles ==
  /\ budget.reserved = Total([j \in Jobs |-> Held(j)], N)
  /\ budget.spent = Total([j \in Jobs |-> ledger[j].charge], N)
  /\ budget.hard_limit = InitialLimit + overrides

\* Job by job, reservation row and ledger tell the same story: an active
\* reservation holds its whole amount, a closed one holds nothing and was
\* charged what settle recorded, never more than was reserved.
ReservationMatchesLedger ==
  \A j \in Jobs :
    LET r == reservation[j]
    IN  /\ Held(j) = (IF Active(r) THEN r.amount ELSE 0)
        /\ ledger[j].charge = r.settled_amount
        /\ ledger[j].charge \in 0..r.amount

\* A job without a reservation row has an empty one (auxiliary).
NoRowIsEmpty ==
  \A j \in Jobs : reservation[j].state = "none" => reservation[j] = NoReservation

\* Nothing has been charged to an active reservation (auxiliary).
ActiveNotSettled ==
  \A j \in Jobs : Active(reservation[j]) => reservation[j].settled_amount = 0

\* The inductive invariant.
IInv ==
  /\ TypeOK
  /\ HardLimit
  /\ NoRowIsEmpty
  /\ ActiveNotSettled
  /\ ReservationMatchesLedger
  /\ LedgerReconciles

\* The check constraint `reserved >= 0` of usage_budgets can never refuse a
\* settle or a release: the row always covers each active reservation.
ReservedCoversActive ==
  \A j \in Jobs : Active(reservation[j]) =>
                    budget.reserved >= reservation[j].amount

\* A closed reservation is closed for good: no later step reopens it, charges
\* it or releases it again.
ClosedOnce ==
  [][\A j \in Jobs : reservation[j].state \in {"settled", "released"} =>
       reservation'[j] = reservation[j] /\ ledger'[j] = ledger[j]]_vars
=============================================================================
