--------------------------- MODULE RetentionService ---------------------------
(***************************************************************************)
(* Retention as it is deployed: schedulers that take turns with a lock in  *)
(* Redis and enqueue the workspace, the queue, and the workers that        *)
(* receive a message, run one batch of PrivacyContacts and send the next   *)
(* message if the batch was full.  The API calls of PrivacyContacts go on  *)
(* beside them.                                                            *)
(*                                                                         *)
(* Time passes in ticks: the lock expires `interval` after it was taken,   *)
(* and a scheduler waits `interval` after it has enqueued or failed to     *)
(* take the lock.  A step takes any number of ticks.                       *)
(***************************************************************************)
EXTENDS PrivacyContacts

CONSTANTS
  Schedulers,  \* processes that execute run_scheduler
  Interval,    \* ticks of LEADHUNTER_RETENTION_SCHEDULE_SECONDS
  MaxRetries,  \* max_retries of enforce_workspace_retention
  MaxQueued    \* bound: further messages of the same kind are not told apart

ASSUME RetentionAssumption ==
  Interval \in Nat \ {0} /\ MaxRetries \in Nat /\ MaxQueued \in Nat \ {0}

VARIABLES
  ttl,      \* ticks until the scheduler lock expires, 0 if it is not set
  sched,    \* what each scheduler is doing, and the ticks it still waits
  queue,    \* messages in the queue, by how often they were retried
  delivery  \* the message each worker has, and how far it is

bus   == <<queue, delivery>>
clock == <<ttl, sched>>
all   == <<vars, bus, clock>>

\* more: has_more of the batch.
Delivery   == [step : {"none", "received", "running", "committed"},
               retries : 0..MaxRetries, more : BOOLEAN]
NoDelivery == [step |-> "none", retries |-> 0, more |-> FALSE]

ServiceInit ==
  /\ Init
  /\ ttl = 0
  /\ sched = [s \in Schedulers |-> [step |-> "try", wait |-> 0]]
  /\ queue = [n \in 0..MaxRetries |-> 0]
  /\ delivery = [w \in Workers |-> NoDelivery]

Sent(n) == IF queue[n] < MaxQueued THEN [queue EXCEPT ![n] = @ + 1] ELSE queue

-----------------------------------------------------------------------------
(* run_scheduler *)

Scheduler(s, from, to, wait) ==
  /\ sched[s].step = from
  /\ sched' = [sched EXCEPT ![s] = [step |-> to, wait |-> wait]]

\* Mutant of try_lock: the lock is set without an expiry.
try_lock_no_expiry(s) ==
  /\ ttl = 0
  /\ Scheduler(s, "try", "enqueue", 0)
  /\ ttl' = -1
  /\ UNCHANGED <<vars, bus>>

\* SET NX EX: the lock is taken if it is not set, and never given back.
try_lock(s) ==
  /\ ttl = 0
  /\ Scheduler(s, "try", "enqueue", 0)
  /\ ttl' = Interval
  /\ UNCHANGED <<vars, bus>>

lock_taken(s) ==
  /\ ttl # 0
  /\ Scheduler(s, "try", "wait", Interval)
  /\ UNCHANGED <<vars, bus, ttl>>

\* enqueue_active_workspaces sends the message of this workspace.
enqueue(s) ==
  /\ Scheduler(s, "enqueue", "wait", Interval)
  /\ queue' = Sent(0)
  /\ UNCHANGED <<vars, delivery, ttl>>

wake(s) ==
  /\ sched[s].wait = 0
  /\ Scheduler(s, "wait", "try", 0)
  /\ UNCHANGED <<vars, bus, ttl>>

\* Redis, the database or the broker refuses a call, or the process is killed:
\* nothing catches the exception, and the lock stays until it expires.
scheduler_exits(s) ==
  /\ sched[s].step # "down"
  /\ crashes < MaxCrashes
  /\ crashes' = crashes + 1
  /\ sched' = [sched EXCEPT ![s] = [step |-> "down", wait |-> 0]]
  /\ UNCHANGED <<tables, pc, tx, bus, ttl>>

\* Somebody starts the service again.
scheduler_starts(s) ==
  /\ Scheduler(s, "down", "try", 0)
  /\ UNCHANGED <<vars, bus, ttl>>

Less(n) == IF n > 0 THEN n - 1 ELSE n

tick ==
  /\ ttl > 0 \/ \E s \in Schedulers : sched[s].wait > 0
  /\ ttl' = Less(ttl)
  /\ sched' = [s \in Schedulers |-> [sched[s] EXCEPT !.wait = Less(@)]]
  /\ UNCHANGED <<vars, bus>>

-----------------------------------------------------------------------------
(* enforce_workspace_retention *)

Reach(w, from, d) ==
  /\ delivery[w].step = from
  /\ delivery' = [delivery EXCEPT ![w] = d]

receive(w, n) ==
  /\ queue[n] > 0
  /\ queue' = [queue EXCEPT ![n] = @ - 1]
  /\ Reach(w, "none", [step |-> "received", retries |-> n, more |-> FALSE])
  /\ UNCHANGED <<vars, clock>>

\* The batch selects its rows.
begin_batch(w, rows) ==
  /\ run_retention_batch(w, rows)
  /\ Reach(w, "received", [delivery[w] EXCEPT !.step = "running",
                                              !.more = Cardinality(rows) = BatchSize])
  /\ UNCHANGED <<queue, clock>>

\* Nothing has expired: the batch only records that it ran.
empty_batch(w) ==
  /\ Expired = {}
  /\ Reach(w, "received", [delivery[w] EXCEPT !.step = "committed"])
  /\ UNCHANGED <<vars, queue, clock>>

batch_row(w, i) ==
  /\ delete_row(w, i)
  /\ UNCHANGED <<bus, clock>>

batch_commit(w) ==
  /\ commit(w)
  /\ Reach(w, "running", [delivery[w] EXCEPT !.step = "committed"])
  /\ UNCHANGED <<queue, clock>>

\* The actor raises: the message is enqueued again, or dead-lettered once it has
\* been retried MaxRetries times.
Raise(w) ==
  /\ queue' = IF delivery[w].retries < MaxRetries THEN Sent(delivery[w].retries + 1)
              ELSE queue
  /\ delivery' = [delivery EXCEPT ![w] = NoDelivery]
  /\ UNCHANGED clock

\* A statement fails, as the victim of a deadlock with a client too, or the
\* connection or the send of the next message does.
batch_fails(w) ==
  /\ delivery[w].step # "none"
  /\ crashes < MaxCrashes
  /\ crashes' = crashes + 1
  /\ End(w)
  /\ Raise(w)
  /\ UNCHANGED tables

\* The batch was full: the actor sends the message of the next one.
send_next(w) ==
  /\ delivery[w].more
  /\ Reach(w, "committed", [delivery[w] EXCEPT !.more = FALSE])
  /\ queue' = Sent(0)
  /\ UNCHANGED <<vars, clock>>

acknowledge(w) ==
  /\ ~delivery[w].more
  /\ Reach(w, "committed", NoDelivery)
  /\ UNCHANGED <<vars, queue, clock>>

\* The worker dies: its transaction is rolled back and its message comes back.
worker_dies(w) ==
  /\ delivery[w].step # "none"
  /\ crashes < MaxCrashes
  /\ crashes' = crashes + 1
  /\ End(w)
  /\ queue' = Sent(delivery[w].retries)
  /\ delivery' = [delivery EXCEPT ![w] = NoDelivery]
  /\ UNCHANGED <<tables, clock>>

-----------------------------------------------------------------------------
(* The composition *)

SchedulerNext(s) == try_lock(s) \/ lock_taken(s) \/ enqueue(s) \/ wake(s)

WorkerNext(w) ==
  \/ \E n \in 0..MaxRetries : receive(w, n)
  \/ \E rows \in SUBSET Ids : begin_batch(w, rows)
  \/ empty_batch(w)
  \/ \E i \in Ids : batch_row(w, i)
  \/ batch_commit(w)
  \/ send_next(w) \/ acknowledge(w)

\* The calls of PrivacyContacts and the passing of expires_at.  Retention does not
\* read the workspace's policy: it stays as it is.
api_call(p)  == Request(p) /\ UNCHANGED <<bus, clock>>
api_work(p)  == Work(p) /\ UNCHANGED <<bus, clock>>
api_crash(p) == crash(p) /\ UNCHANGED <<bus, clock>>
expiry(i)    == expire(i) /\ UNCHANGED <<bus, clock>>

ServiceNext ==
  \/ \E p \in Clients : api_call(p) \/ api_work(p) \/ api_crash(p)
  \/ \E i \in Ids : expiry(i)
  \/ \E w \in Workers : WorkerNext(w) \/ batch_fails(w) \/ worker_dies(w)
  \/ \E s \in Schedulers : SchedulerNext(s) \/ scheduler_exits(s) \/ scheduler_starts(s)
  \/ tick

ServiceSpec == ServiceInit /\ [][ServiceNext]_all

\* Transactions go on as in PrivacyContacts; schedulers, workers and time do not
\* stop.  compose.yml does not restart a scheduler that exits: that one runs from
\* some time on is an assumption about whoever operates the service.
ServiceFairSpec ==
  /\ ServiceSpec
  /\ \A p \in Clients : SF_all(api_work(p))
  /\ \A w \in Workers : SF_all(WorkerNext(w))
  /\ \A s \in Schedulers : WF_all(SchedulerNext(s))
  /\ WF_all(tick)
  /\ <>[](\E s \in Schedulers : sched[s].step # "down")
=============================================================================
