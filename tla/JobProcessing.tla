---------------------------- MODULE JobProcessing ----------------------------
(***************************************************************************)
(* Persistent jobs of one workspace: JobService (application/jobs.py) and  *)
(* BudgetService (application/budgets.py) called by API requests, and the  *)
(* queue worker process_job (workers/broker.py), each in a PostgreSQL      *)
(* transaction of its own (infrastructure/database.py).                    *)
(*                                                                         *)
(* A process is an API request (a client) or a worker thread.  Its         *)
(* transaction advances one statement at a time; pc names the statement it *)
(* will execute next.  What it writes becomes visible when it commits, so  *)
(* the writes are all in the commit step; SELECT ... FOR UPDATE holds the  *)
(* row lock from the statement to the end of the transaction, so the locks *)
(* a process holds follow from its pc.  READ COMMITTED: a statement that   *)
(* obtained a lock reads the latest committed row.                         *)
(*                                                                         *)
(* The queue (Dramatiq on Redis, external) delivers at least once: a       *)
(* message is handed to a worker, put back if the worker dies, delivered   *)
(* again while a slow worker still has it, re-enqueued at most MaxRetries  *)
(* times when the actor raises, and then dead-lettered.                    *)
(***************************************************************************)
EXTENDS BudgetRows

CONSTANTS
  N, InitialLimit, Costs, Actuals, Limits,  \* as in UsageBudget
  Keys,        \* idempotency keys clients use, already stripped and of legal length
  NoKey,       \* not a key
  Clients,     \* concurrent API requests
  Workers,     \* worker threads
  Targets,     \* job states passed to JobService.transition
  Tainted,     \* jobs whose stored parameters were edited to hold a provider payload
  MaxRetries,  \* max_retries of the actor
  MaxCopies    \* bound on the deliveries of one message that exist at once

ASSUME SizesAssumption == N \in Nat /\ MaxRetries \in Nat /\ MaxCopies \in Nat \ {0}
ASSUME LimitAssumption == InitialLimit \in Nat
ASSUME AmountsAssumption == /\ Costs \subseteq Int
                            /\ Actuals \subseteq Int
                            /\ Limits \subseteq Int
ASSUME TargetsAssumption ==
  Targets \subseteq {"queued", "validating", "running", "completed", "partial",
                     "cancelled", "failed"}
ASSUME ProcessAssumption == Clients \cap Workers = {} /\ NoKey \notin Keys

VARIABLES
  budget, reservation, ledger, overrides,  \* committed rows, as in UsageBudget
  job,    \* the committed jobs row of each job
  pc,     \* the next statement of each process
  tx,     \* the arguments of each process's call
  saw,    \* the budget row each process read under its lock
  queue,  \* messages waiting in Redis
  held,   \* the message each worker is processing
  dead    \* jobs whose message was dead-lettered

rows == <<budget, reservation, ledger, overrides>>
bus  == <<queue, held, dead>>
vars == <<rows, job, pc, tx, saw, bus>>

Jobs  == 1..N
Procs == Clients \cup Workers

-----------------------------------------------------------------------------
(* domain/jobs.py *)

JobState == {"queued", "validating", "running", "completed", "partial",
             "cancelled", "failed"}

TERMINAL_JOB_STATES == {"completed", "partial", "cancelled", "failed"}

ALLOWED_JOB_TRANSITIONS ==
  [s \in JobState |->
     CASE s = "queued"     -> {"validating", "cancelled"}
       [] s = "validating" -> {"running", "cancelled", "failed"}
       [] s = "running"    -> {"completed", "partial", "cancelled", "failed"}
       [] OTHER            -> {}]

\* ensure_job_transition(current, target) returns (it raises otherwise).
ensure_job_transition(current, target) == target \in ALLOWED_JOB_TRANSITIONS[current]

-----------------------------------------------------------------------------
(* Rows, calls and messages *)

WorkerCodes == {"provider_payload_not_allowed", "pipeline_not_configured"}
ErrorCodes  == WorkerCodes \cup {"none", "caller_code"}

\* A jobs row; state "none": not in the table.
JobRow == [state : JobState \cup {"none"}, key : Keys \cup {NoKey},
           error_code : ErrorCodes]
NoJob  == [state |-> "none", key |-> NoKey, error_code |-> "none"]

\* The arguments of a call, normalised; fields a call does not use are unset.
Call   == [job : 0..N, key : Keys \cup {NoKey}, cost : Int,
           target : JobState \cup {"none"}, error_code : ErrorCodes]
Args(j, key, cost, target, code) ==
  [job |-> j, key |-> key, cost |-> cost, target |-> target, error_code |-> code]
NoCall == Args(0, NoKey, 0, "none", "none")
NoRow  == [hard_limit |-> 0, spent |-> 0, reserved |-> 0]

\* A message carries the job id only; copy tells deliveries of it apart.
Message   == [job : Jobs, copy : 1..MaxCopies, retries : 0..MaxRetries]
NoMessage == [job |-> 0, copy |-> 0, retries |-> 0]

ClientSteps == {"insert", "reserve", "commit_create", "publish", "commit_override",
                "settle_budget", "commit_settle", "commit_transition"}
WorkerSteps == {"lock_job", "lock_reservation", "lock_budget", "commit_job", "ack"}
Steps       == {"idle"} \cup ClientSteps \cup WorkerSteps

TypeOK ==
  /\ budget \in BudgetRow
  /\ reservation \in [Jobs -> ReservationRow]
  /\ ledger \in [Jobs -> LedgerRow]
  /\ overrides \in Int
  /\ job \in [Jobs -> JobRow]
  /\ pc \in [Procs -> Steps]
  /\ tx \in [Procs -> Call]
  /\ saw \in [Procs -> BudgetRow]
  /\ queue \subseteq Message
  /\ held \in [Workers -> Message \cup {NoMessage}]
  /\ dead \subseteq Jobs

Init ==
  /\ budget = [hard_limit |-> InitialLimit, spent |-> 0, reserved |-> 0]
  /\ reservation = [j \in Jobs |-> NoReservation]
  /\ ledger = [j \in Jobs |-> NoEntries]
  /\ overrides = 0
  /\ job = [j \in Jobs |-> NoJob]
  /\ pc = [p \in Procs |-> "idle"]
  /\ tx = [p \in Procs |-> NoCall]
  /\ saw = [p \in Procs |-> NoRow]
  /\ queue = {}
  /\ held = [w \in Workers |-> NoMessage]
  /\ dead = {}

-----------------------------------------------------------------------------
(* Row locks: who holds what follows from the statement reached. *)

BudgetSteps      == {"commit_create", "commit_override", "commit_settle", "commit_job"}
ReservationSteps == {"settle_budget", "commit_settle", "lock_budget", "commit_job"}
JobSteps         == {"commit_transition", "lock_reservation", "lock_budget", "commit_job"}
KeySteps         == {"reserve", "commit_create"}

HoldsBudget(p) == pc[p] \in BudgetSteps

\* Mutant of HoldsReservation: settle reads the row without FOR UPDATE.
HoldsReservation_not_settle(p, j) ==
  pc[p] \in {"lock_budget", "commit_job"} /\ tx[p].job = j

HoldsReservation(p, j) == pc[p] \in ReservationSteps /\ tx[p].job = j

HoldsJob(p, j) == pc[p] \in JobSteps /\ tx[p].job = j

\* An uncommitted insert makes another insert of the same key wait.
HoldsKey(p, k) == pc[p] \in KeySteps /\ tx[p].key = k

\* Mutant of BudgetFree: no statement waits for the budget row.
BudgetFree_always  == TRUE

BudgetFree         == \A p \in Procs : ~HoldsBudget(p)
ReservationFree(j) == \A p \in Procs : ~HoldsReservation(p, j)
JobFree(j)         == \A p \in Procs : ~HoldsJob(p, j)
KeyFree(k)         == \A p \in Procs : ~HoldsKey(p, k)

\* A committed job has this idempotency key.
KeyTaken(k) == \E j \in Jobs : job[j].state # "none" /\ job[j].key = k

\* Process p executes one statement, or starts a call, or returns.
Goto(p, from, to) == pc[p] = from /\ pc' = [pc EXCEPT ![p] = to]
Start(p, call, to) == Goto(p, "idle", to) /\ tx' = [tx EXCEPT ![p] = call]
Return(p) ==
  /\ pc' = [pc EXCEPT ![p] = "idle"]
  /\ tx' = [tx EXCEPT ![p] = NoCall]
  /\ saw' = [saw EXCEPT ![p] = NoRow]
See(p) == saw' = [saw EXCEPT ![p] = budget]

-----------------------------------------------------------------------------
(* JobService.create: POST /workspaces/{id}/jobs *)

\* The SELECT by key finds nothing: a JobModel with a fresh id is built.
create_lookup(c, k, raw) ==
  /\ ~KeyTaken(k)
  /\ ValidCost(raw)
  /\ \E j \in Jobs :
       /\ job[j].state = "none"
       /\ \A p \in Procs : tx[p].job # j
       /\ Start(c, Args(j, k, normalized_cost(raw), "none", "none"), "insert")
  /\ UNCHANGED <<rows, job, saw, bus>>

\* The SELECT finds the job: it is returned, and nothing else happens.
create_existing(c, k) ==
  /\ pc[c] = "idle"
  /\ KeyTaken(k)
  /\ UNCHANGED vars

\* Mutant of create_insert: no unique constraint on the key.
create_insert_not_unique(c) ==
  /\ Goto(c, "insert", "reserve")
  /\ UNCHANGED <<rows, job, tx, saw, bus>>

\* flush() inserts the jobs row, waiting for an uncommitted insert of the key.
create_insert(c) ==
  /\ Goto(c, "insert", "reserve")
  /\ KeyFree(tx[c].key)
  /\ ~KeyTaken(tx[c].key)
  /\ UNCHANGED <<rows, job, tx, saw, bus>>

\* The unique constraint refuses the insert: IntegrityError, rollback.
create_duplicate(c) ==
  /\ pc[c] = "insert"
  /\ KeyFree(tx[c].key)
  /\ KeyTaken(tx[c].key)
  /\ Return(c)
  /\ UNCHANGED <<rows, job, bus>>

\* Mutant of create_reserve: the message is sent at once, not after the commit.
create_reserve_publishes(c) ==
  /\ Goto(c, "reserve", "commit_create")
  /\ BudgetFree
  /\ FitsLimit(budget, tx[c].cost)
  /\ See(c)
  /\ queue' = queue \cup {[job |-> tx[c].job, copy |-> 1, retries |-> 0]}
  /\ UNCHANGED <<rows, job, tx, held, dead>>

\* BudgetService.reserve locks and reads the budget row, and accepts the cost.
create_reserve(c) ==
  /\ Goto(c, "reserve", "commit_create")
  /\ BudgetFree
  /\ FitsLimit(budget, tx[c].cost)
  /\ See(c)
  /\ UNCHANGED <<rows, job, tx, bus>>

\* Mutant of create_exceeded: the transaction commits, and the jobs row stays.
create_exceeded_commits(c) ==
  /\ pc[c] = "reserve"
  /\ BudgetFree
  /\ ~FitsLimit(budget, tx[c].cost)
  /\ job' = [job EXCEPT ![tx[c].job] = [state |-> "queued", key |-> tx[c].key,
                                        error_code |-> "none"]]
  /\ Return(c)
  /\ UNCHANGED <<rows, bus>>

\* Mutant of create_exceeded: the request waits for the budget to be raised.
create_exceeded_waits(c) ==
  /\ pc[c] = "reserve"
  /\ BudgetFree
  /\ ~FitsLimit(budget, tx[c].cost)
  /\ UNCHANGED vars

\* BudgetExceeded: 409, rollback; the jobs row goes with it.
create_exceeded(c) ==
  /\ pc[c] = "reserve"
  /\ BudgetFree
  /\ ~FitsLimit(budget, tx[c].cost)
  /\ Return(c)
  /\ UNCHANGED <<rows, job, bus>>

\* COMMIT: job, reservation, ledger entry and balance appear together.
create_commit(c) ==
  LET j == tx[c].job
      cost == tx[c].cost
  IN  /\ Goto(c, "commit_create", "publish")
      /\ job' = [job EXCEPT ![j] = [state |-> "queued", key |-> tx[c].key,
                                    error_code |-> "none"]]
      /\ budget' = AfterReserve(saw[c], cost)
      /\ reservation' = [reservation EXCEPT ![j] = Reserved(cost)]
      /\ ledger' = [ledger EXCEPT ![j] = LogReserve(@, cost)]
      /\ UNCHANGED <<overrides, tx, saw, bus>>

\* The after_commit listener sends the job id to the queue.
publish(c) ==
  /\ pc[c] = "publish"
  /\ queue' = queue \cup {[job |-> tx[c].job, copy |-> 1, retries |-> 0]}
  /\ Return(c)
  /\ UNCHANGED <<rows, job, held, dead>>

\* Redis refuses the message, or the process dies after COMMIT: the job is
\* stored and nothing was sent.
publish_fails(c) ==
  /\ pc[c] = "publish"
  /\ Return(c)
  /\ UNCHANGED <<rows, job, bus>>

-----------------------------------------------------------------------------
(* BudgetService.override_limit: PUT /workspaces/{id}/usage/budget *)

override_lock(c, raw) ==
  /\ BudgetFree
  /\ ValidCost(raw)
  /\ CoversCommitments(budget, normalized_cost(raw))
  /\ Start(c, Args(0, NoKey, normalized_cost(raw), "none", "none"), "commit_override")
  /\ See(c)
  /\ UNCHANGED <<rows, job, bus>>

override_commit(c) ==
  /\ pc[c] = "commit_override"
  /\ budget' = AfterOverride(saw[c], tx[c].cost)
  /\ overrides' = overrides + (tx[c].cost - saw[c].hard_limit)
  /\ Return(c)
  /\ UNCHANGED <<reservation, ledger, job, bus>>

-----------------------------------------------------------------------------
(* BudgetService.settle, in a transaction of its own *)

settle_lock(c, j, raw) ==
  /\ ReservationFree(j)
  /\ ValidCost(raw)
  /\ Active(reservation[j])
  /\ WithinReservation(reservation[j], normalized_cost(raw))
  /\ Start(c, Args(j, NoKey, normalized_cost(raw), "none", "none"), "settle_budget")
  /\ UNCHANGED <<rows, job, saw, bus>>

settle_budget(c) ==
  /\ Goto(c, "settle_budget", "commit_settle")
  /\ BudgetFree
  /\ See(c)
  /\ UNCHANGED <<rows, job, tx, bus>>

\* The flush inserts ledger rows, whose foreign key needs a share lock on the
\* jobs row: it waits for a transaction that holds that row FOR UPDATE.
settle_commit(c) ==
  LET j == tx[c].job
      amount == reservation[j].amount
  IN  /\ pc[c] = "commit_settle"
      /\ JobFree(j)
      /\ budget' = AfterSettle(saw[c], amount, tx[c].cost)
      /\ reservation' = [reservation EXCEPT ![j] = Settled(@, tx[c].cost)]
      /\ ledger' = [ledger EXCEPT ![j] = LogSettle(@, amount, tx[c].cost)]
      /\ Return(c)
      /\ UNCHANGED <<overrides, job, bus>>

\* process_job locks the job and then the reservation, settle the reservation
\* and then the job: each may wait for the other.
Deadlocked(c, w) ==
  /\ pc[c] = "commit_settle"
  /\ pc[w] = "lock_reservation"
  /\ tx[c].job = tx[w].job

\* PostgreSQL aborts one of the two: here the settlement.
settle_deadlock(c) ==
  /\ \E w \in Workers : Deadlocked(c, w)
  /\ Return(c)
  /\ UNCHANGED <<rows, job, bus>>

-----------------------------------------------------------------------------
(* JobService.transition, in a transaction of its own *)

transition_lock(c, j, target, code) ==
  /\ JobFree(j)
  /\ job[j].state # "none"
  /\ ensure_job_transition(job[j].state, target)
  /\ Start(c, Args(j, NoKey, 0, target, code), "commit_transition")
  /\ UNCHANGED <<rows, job, saw, bus>>

transition_commit(c) ==
  /\ pc[c] = "commit_transition"
  /\ job' = [job EXCEPT ![tx[c].job] = [state |-> tx[c].target, key |-> @.key,
                                        error_code |-> tx[c].error_code]]
  /\ Return(c)
  /\ UNCHANGED <<rows, bus>>

\* Database.session: an exception or a dead process before COMMIT rolls back.
client_rollback(c) ==
  /\ pc[c] \in ClientSteps \ {"publish"}
  /\ Return(c)
  /\ UNCHANGED <<rows, job, bus>>

-----------------------------------------------------------------------------
(* process_job: one transaction per delivery *)

\* The broker hands a message to an idle worker thread.
receive(w, m) ==
  /\ m \in queue
  /\ Start(w, Args(m.job, NoKey, 0, "none", "none"), "lock_job")
  /\ queue' = queue \ {m}
  /\ held' = [held EXCEPT ![w] = m]
  /\ UNCHANGED <<rows, job, saw, dead>>

\* Mutant of process_lock_job: the state of the job is not checked again.
process_lock_job_any_state(w) ==
  /\ Goto(w, "lock_job", "lock_reservation")
  /\ JobFree(tx[w].job)
  /\ UNCHANGED <<rows, job, tx, saw, bus>>

\* The job is locked and still queued: its parameters are validated.
process_lock_job(w) ==
  /\ Goto(w, "lock_job", "lock_reservation")
  /\ JobFree(tx[w].job)
  /\ job[tx[w].job].state = "queued"
  /\ UNCHANGED <<rows, job, tx, saw, bus>>

\* The job is missing or was already processed: the actor returns.
process_skip(w) ==
  /\ Goto(w, "lock_job", "ack")
  /\ JobFree(tx[w].job)
  /\ job[tx[w].job].state # "queued"
  /\ UNCHANGED <<rows, job, tx, saw, bus>>

\* Mutant of process_lock_reservation: release accepts a closed reservation.
process_lock_reservation_closed(w) ==
  /\ Goto(w, "lock_reservation", "lock_budget")
  /\ ReservationFree(tx[w].job)
  /\ UNCHANGED <<rows, job, tx, saw, bus>>

\* BudgetService.release locks the reservation, which must be active ...
process_lock_reservation(w) ==
  /\ Goto(w, "lock_reservation", "lock_budget")
  /\ ReservationFree(tx[w].job)
  /\ Active(reservation[tx[w].job])
  /\ UNCHANGED <<rows, job, tx, saw, bus>>

\* ... and then the budget row.
process_lock_budget(w) ==
  /\ Goto(w, "lock_budget", "commit_job")
  /\ BudgetFree
  /\ See(w)
  /\ UNCHANGED <<rows, job, tx, bus>>

\* COMMIT: queued -> validating -> failed, and the reservation is released.
\* The two branches of the actor differ in the error code only.
process_commit(w) ==
  LET j == tx[w].job
      amount == reservation[j].amount
  IN  /\ Goto(w, "commit_job", "ack")
      /\ job' = [job EXCEPT ![j] = [state |-> "failed", key |-> @.key,
                                    error_code |-> IF j \in Tainted
                                                   THEN "provider_payload_not_allowed"
                                                   ELSE "pipeline_not_configured"]]
      /\ budget' = AfterRelease(saw[w], amount)
      /\ reservation' = [reservation EXCEPT ![j] = Released(@)]
      /\ ledger' = [ledger EXCEPT ![j] = LogRelease(@, amount)]
      /\ UNCHANGED <<overrides, tx, saw, bus>>

\* The message is acknowledged.
ack(w) ==
  /\ pc[w] = "ack"
  /\ held' = [held EXCEPT ![w] = NoMessage]
  /\ Return(w)
  /\ UNCHANGED <<rows, job, queue, dead>>

\* The actor raised: rollback; the Retries middleware re-enqueues the message
\* or, after MaxRetries attempts, dead-letters it.
Raise(w) ==
  LET m == held[w]
  IN  /\ IF m.retries < MaxRetries
         THEN /\ queue' = queue \cup {[m EXCEPT !.retries = @ + 1]}
              /\ UNCHANGED dead
         ELSE /\ dead' = dead \cup {m.job}
              /\ UNCHANGED queue
      /\ held' = [held EXCEPT ![w] = NoMessage]
      /\ Return(w)
      /\ UNCHANGED <<rows, job>>

\* release raises ValueError: the reservation is not active.
process_inactive(w) ==
  /\ pc[w] = "lock_reservation"
  /\ ReservationFree(tx[w].job)
  /\ ~Active(reservation[tx[w].job])
  /\ Raise(w)

\* The victim of the deadlock with a settlement is the worker.
process_deadlock(w) ==
  /\ \E c \in Clients : Deadlocked(c, w)
  /\ Raise(w)

\* A database error before COMMIT.
process_error(w) ==
  /\ pc[w] \in WorkerSteps \ {"ack"}
  /\ Raise(w)

\* Mutant of worker_dies: the message was acknowledged on receipt.
worker_dies_acked(w) ==
  /\ pc[w] \in WorkerSteps
  /\ held' = [held EXCEPT ![w] = NoMessage]
  /\ Return(w)
  /\ UNCHANGED <<rows, job, queue, dead>>

\* The worker process dies: its transaction rolls back, and the broker puts the
\* unacknowledged message back, also when the transaction had committed.
worker_dies(w) ==
  /\ pc[w] \in WorkerSteps
  /\ queue' = queue \cup {held[w]}
  /\ held' = [held EXCEPT ![w] = NoMessage]
  /\ Return(w)
  /\ UNCHANGED <<rows, job, dead>>

\* The broker takes a slow worker for dead and delivers its message again.
redeliver(w) ==
  /\ pc[w] \in WorkerSteps
  /\ held[w].copy < MaxCopies
  /\ queue' = queue \cup {[held[w] EXCEPT !.copy = @ + 1]}
  /\ UNCHANGED <<rows, job, pc, tx, saw, held, dead>>

-----------------------------------------------------------------------------
ClientNext(c) ==
  \/ \E k \in Keys, raw \in Costs : create_lookup(c, k, raw)
  \/ \E k \in Keys : create_existing(c, k)
  \/ create_insert(c)
  \/ create_duplicate(c)
  \/ create_reserve(c)
  \/ create_exceeded(c)
  \/ create_commit(c)
  \/ publish(c)
  \/ publish_fails(c)
  \/ \E raw \in Limits : override_lock(c, raw)
  \/ override_commit(c)
  \/ \E j \in Jobs, raw \in Actuals : settle_lock(c, j, raw)
  \/ settle_budget(c)
  \/ settle_commit(c)
  \/ settle_deadlock(c)
  \/ \E j \in Jobs, t \in Targets, code \in {"none", "caller_code"} :
       transition_lock(c, j, t, code)
  \/ transition_commit(c)
  \/ client_rollback(c)

WorkerNext(w) ==
  \/ \E m \in queue : receive(w, m)
  \/ process_lock_job(w)
  \/ process_skip(w)
  \/ process_lock_reservation(w)
  \/ process_inactive(w)
  \/ process_deadlock(w)
  \/ process_lock_budget(w)
  \/ process_commit(w)
  \/ ack(w)
  \/ process_error(w)
  \/ worker_dies(w)
  \/ redeliver(w)

Next == (\E c \in Clients : ClientNext(c)) \/ (\E w \in Workers : WorkerNext(w))

Spec == Init /\ [][Next]_vars

(***************************************************************************)
(* Fairness.  A transaction executes its next statement (the server        *)
(* schedules every thread) and PostgreSQL grants a contended row lock in   *)
(* arrival order, hence strong fairness of the statements that may wait.   *)
(* PostgreSQL's deadlock detector aborts one of two deadlocked sessions.   *)
(* The queue is a FIFO list: a job's messages are not overtaken for ever.  *)
(* Workers do not die for ever.  Nothing is assumed of the other steps     *)
(* that model failures, and a client is never obliged to start a call.     *)
(***************************************************************************)
ClientStatement(c) ==
  \/ create_insert(c) \/ create_duplicate(c) \/ create_reserve(c)
  \/ create_exceeded(c) \/ create_commit(c) \/ publish(c) \/ publish_fails(c)
  \/ override_commit(c) \/ settle_budget(c) \/ settle_commit(c)
  \/ transition_commit(c)

WorkerStatement(w) ==
  \/ process_lock_job(w) \/ process_skip(w) \/ process_lock_reservation(w)
  \/ process_inactive(w) \/ process_lock_budget(w) \/ process_commit(w) \/ ack(w)

DeadlockDetector == \/ \E c \in Clients : settle_deadlock(c)
                    \/ \E w \in Workers : process_deadlock(w)

Delivery(j) == \E m \in queue, w \in Workers : m.job = j /\ receive(w, m)

FairSpec ==
  /\ Spec
  /\ \A c \in Clients : SF_vars(ClientStatement(c))
  /\ \A w \in Workers : SF_vars(WorkerStatement(w))
  /\ WF_vars(DeadlockDetector)
  /\ \A j \in Jobs : SF_vars(Delivery(j))
  /\ <>[][\A w \in Workers : ~worker_dies(w)]_vars

-----------------------------------------------------------------------------
(* Safety *)

\* The interleaved transactions implement UsageBudget: every commit is one of
\* its four atomic operations on the CURRENT rows, though the balance it writes
\* was computed from rows read several steps earlier.
Budget == INSTANCE UsageBudget WITH
  budget <- budget, reservation <- reservation, ledger <- ledger, overrides <- overrides
ImplementsUsageBudget == Budget!Spec

\* A balance read by reserve, settle, release or override_limit is still the
\* committed one when the transaction writes it back.
ReadIsCurrent == \A p \in Procs : HoldsBudget(p) => saw[p] = budget

\* Idempotency: two stored jobs never share a key, however requests with the
\* same key interleave between create's SELECT and its INSERT.
OneJobPerKey ==
  \A i, j \in Jobs : /\ job[i].state # "none" /\ job[j].state # "none"
                     /\ job[i].key = job[j].key
                     => i = j

\* A stored job always has its reservation, and a reservation its job: a request
\* refused or interrupted half-way leaves neither behind.
JobHasReservation ==
  \A j \in Jobs : (job[j].state = "none") = (reservation[j].state = "none")

\* A job the worker failed has had its money released, in the same commit: no
\* redelivery, retry, settlement or transition separates the two.
WorkerFailureReleases ==
  \A j \in Jobs : job[j].error_code \in WorkerCodes =>
                     job[j].state = "failed" /\ reservation[j].state = "released"

\* A worker never receives the id of a job that is not committed: publication
\* is tied to after_commit, also when the request is interrupted.
MessagesNameStoredJobs ==
  \A j \in Jobs : (\/ \E m \in queue : m.job = j
                   \/ \E w \in Workers : held[w].job = j
                   \/ j \in dead) => job[j].state # "none"

\* A finished job stays as it is: neither a worker that read it before it was
\* finished nor a second delivery overwrites it.
FinishedForGood ==
  [][\A j \in Jobs : job[j].state \in TERMINAL_JOB_STATES => job'[j] = job[j]]_vars

-----------------------------------------------------------------------------
(* The inductive invariant: what each process may rely on between its      *)
(* statements, and that no two hold the same lock.                         *)

CreateSteps  == {"insert", "reserve", "commit_create"}
SettleSteps  == {"settle_budget", "commit_settle"}
ProcessSteps == {"lock_reservation", "lock_budget", "commit_job"}

Exclusive ==
  /\ \A p, q \in Procs : HoldsBudget(p) /\ HoldsBudget(q) => p = q
  /\ \A p, q \in Procs, j \in Jobs :
       HoldsReservation(p, j) /\ HoldsReservation(q, j) => p = q
  /\ \A p, q \in Procs, j \in Jobs : HoldsJob(p, j) /\ HoldsJob(q, j) => p = q
  /\ \A p, q \in Procs, k \in Keys : HoldsKey(p, k) /\ HoldsKey(q, k) => p = q

\* The job a creation is about to store is nobody else's.
CreateOK(p) ==
  /\ pc[p] \in CreateSteps =>
       /\ tx[p].job \in Jobs
       /\ job[tx[p].job].state = "none"
       /\ tx[p].key \in Keys
       /\ tx[p].cost >= 0 /\ \E raw \in Costs : tx[p].cost = normalized_cost(raw)
       /\ \A q \in Procs : q # p => tx[q].job # tx[p].job
  /\ pc[p] \in KeySteps => ~KeyTaken(tx[p].key)
  /\ pc[p] = "commit_create" => FitsLimit(budget, tx[p].cost)

OverrideOK(p) ==
  pc[p] = "commit_override" =>
    /\ tx[p].cost >= 0 /\ \E raw \in Limits : tx[p].cost = normalized_cost(raw)
    /\ CoversCommitments(budget, tx[p].cost)

\* A locked reservation is active until its holder closes it.
ReservationOK(p) ==
  /\ pc[p] \in SettleSteps =>
       /\ tx[p].cost >= 0 /\ \E raw \in Actuals : tx[p].cost = normalized_cost(raw)
       /\ WithinReservation(reservation[tx[p].job], tx[p].cost)
  /\ pc[p] \in ReservationSteps =>
       tx[p].job \in Jobs /\ Active(reservation[tx[p].job])

\* A locked job keeps its state until its holder changes it.
JobOK(p) ==
  /\ pc[p] \in WorkerSteps \cup {"publish", "commit_transition"} =>
       tx[p].job \in Jobs /\ job[tx[p].job].state # "none"
  /\ pc[p] = "commit_transition" =>
       /\ tx[p].target \in JobState
       /\ ensure_job_transition(job[tx[p].job].state, tx[p].target)
       /\ tx[p].error_code \notin WorkerCodes
  /\ pc[p] \in ProcessSteps => job[tx[p].job].state = "queued"

WorkerOK(w) ==
  pc[w] \in WorkerSteps => held[w] \in Message /\ held[w].job = tx[w].job

IInv ==
  /\ TypeOK
  /\ Exclusive
  /\ ReadIsCurrent
  /\ \A p \in Procs : CreateOK(p) /\ OverrideOK(p) /\ ReservationOK(p) /\ JobOK(p)
  /\ \A w \in Workers : WorkerOK(w)
  /\ MessagesNameStoredJobs
  /\ JobHasReservation
  /\ OneJobPerKey
  /\ WorkerFailureReleases

-----------------------------------------------------------------------------
(* Liveness *)

\* A message for job j is in the queue or with a worker.
Pending(j) == (\E m \in queue : m.job = j) \/ (\E w \in Workers : held[w].job = j)

\* A job whose id reached the queue leaves "queued", unless its message
\* exhausts its retries: redeliveries and deaths of workers do not strand it.
DeliveredJobsFinish ==
  \A j \in Jobs : Pending(j) ~> (job[j].state # "queued" \/ j \in dead)

\* Every call returns: the orders in which create, settle, override_limit and
\* process_job take their row locks cannot block each other for ever.
CallsReturn == \A p \in Procs : pc[p] # "idle" ~> pc[p] = "idle"

\* README.md, "Unsupported jobs deliberately fail with `pipeline_not_configured`
\* and release their budget reservation": every stored job does.
QueuedJobsRelease ==
  \A j \in Jobs : job[j].state = "queued" ~> reservation[j].state = "released"
=============================================================================
