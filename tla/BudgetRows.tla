----------------------------- MODULE BudgetRows -----------------------------
(***************************************************************************)
(* The rows BudgetService (src/src/application/budgets.py) reads and       *)
(* writes, and the arithmetic of its operations as functions from a row to *)
(* the row it is replaced by.  Money is an integer number of micro-units:  *)
(* the columns are Numeric(18, 6).                                         *)
(*                                                                         *)
(* The specifications UsageBudget (each operation one step) and            *)
(* JobProcessing (each operation a transaction of several steps) share     *)
(* these definitions; they differ in WHEN a row is read and written.       *)
(***************************************************************************)
EXTENDS Integers

\* A usage_budgets row; a usage_reservations row ("none": no row for the job
\* yet); and the usage_ledger rows of one job, summed by entry_type.
BudgetRow      == [hard_limit : Int, spent : Int, reserved : Int]
ReservationRow == [state : {"none", "active", "settled", "released"},
                   amount : Nat, settled_amount : Nat]
LedgerRow      == [reservation : Int, charge : Int, release : Int]

NoReservation == [state |-> "none", amount |-> 0, settled_amount |-> 0]
NoEntries     == [reservation |-> 0, charge |-> 0, release |-> 0]

-----------------------------------------------------------------------------
(***************************************************************************)
(* normalized_cost: Decimal.quantize to six places.  A raw amount is an    *)
(* integer number of tenths of a micro-unit, which is enough to tell a     *)
(* value below, at and above the half apart; the decimal context rounds    *)
(* half to even.  A negative RESULT is refused (InvalidCost), so a raw     *)
(* amount of less than half a micro-unit below zero counts as zero.        *)
(***************************************************************************)
normalized_cost(raw) ==
  LET whole == raw \div 10
      rest  == raw % 10
  IN  IF rest > 5 \/ (rest = 5 /\ whole % 2 = 1) THEN whole + 1 ELSE whole

\* The raw amounts normalized_cost accepts.
ValidCost(raw) == normalized_cost(raw) >= 0

-----------------------------------------------------------------------------
(***************************************************************************)
(* The checks of the four operations, each on the row it has just read.    *)
(***************************************************************************)

\* Mutant of FitsLimit: money promised to unfinished jobs is not counted.
FitsLimit_spent_only(b, cost) == b.spent + cost <= b.hard_limit

\* reserve: `spent + reserved + cost > hard_limit` raises BudgetExceeded.
FitsLimit(b, cost) == b.spent + b.reserved + cost <= b.hard_limit

\* settle: `actual > reservation.amount` raises BudgetExceeded.
WithinReservation(r, actual) == actual <= r.amount

\* override_limit: a limit below the current commitments raises ValueError.
CoversCommitments(b, new) == new >= b.spent + b.reserved

\* settle and release: a missing or closed reservation raises ValueError.
Active(r) == r.state = "active"

-----------------------------------------------------------------------------
(***************************************************************************)
(* What the four operations assign.                                        *)
(***************************************************************************)
AfterReserve(b, cost)          == [b EXCEPT !.reserved = @ + cost]
AfterSettle(b, amount, actual) == [hard_limit |-> b.hard_limit,
                                   spent |-> b.spent + actual,
                                   reserved |-> b.reserved - amount]
AfterRelease(b, amount)        == [b EXCEPT !.reserved = @ - amount]
AfterOverride(b, new)          == [b EXCEPT !.hard_limit = new]

Reserved(cost)     == [state |-> "active", amount |-> cost, settled_amount |-> 0]
Settled(r, actual) == [state |-> "settled", amount |-> r.amount,
                       settled_amount |-> actual]
Released(r)        == [state |-> "released", amount |-> r.amount,
                       settled_amount |-> r.settled_amount]

\* Mutant of LogSettle: the residual is given back without its ledger entry.
LogSettle_no_residual(l, amount, actual) == [l EXCEPT !.charge = @ + actual]

\* settle writes a release entry for the residual only when it is not zero;
\* an entry of zero adds nothing to the sum, so one definition covers both.
LogReserve(l, cost)           == [l EXCEPT !.reservation = @ + cost]
LogSettle(l, amount, actual)  == [reservation |-> l.reservation,
                                  charge |-> l.charge + actual,
                                  release |-> l.release + (amount - actual)]
LogRelease(l, amount)         == [l EXCEPT !.release = @ + amount]

-----------------------------------------------------------------------------
(***************************************************************************)
(* The sum of an integer function over 1..n (what a reader of the ledger   *)
(* computes with SELECT sum(amount)).                                      *)
(***************************************************************************)
Total(f, n) ==
  LET sum[i \in 0..n] == IF i = 0 THEN 0 ELSE sum[i - 1] + f[i]
  IN  sum[n]
=============================================================================
