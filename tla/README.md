# Lead Hunter AI: TLA+ models, model checks and proofs

This directory holds a verification development for Lead Hunter AI, its platform
core and its direct pipeline: TLA+ specifications translated from the Python source, TLC
configurations that check them on small instances, and TLAPS proofs for all
instances. Paths below are relative to the repository.

## 1. The system and its parts

Lead Hunter AI has two halves that share a domain layer.

**Platform core** (`src/application`, `src/infrastructure`, `src/web`,
`src/workers`). A FastAPI application whose requests each run in one PostgreSQL
transaction; a Dramatiq worker and a retention scheduler fed through Redis.

| Component | State | Operations | Interacts with | What makes it correct |
|---|---|---|---|---|
| Budget service (`application/budgets.py`, `domain/usage.py`) | one `usage_budgets` row per workspace, one `usage_reservations` row per job, the append-only `usage_ledger` | `reserve`, `settle`, `release`, `override_limit` | called by the job service, the worker and the budget API, always inside the caller's transaction | spent + reserved never exceed the hard limit; the ledger explains every balance; a reservation closes once |
| Job service (`application/jobs.py`, `domain/jobs.py`) | the `jobs` rows | `create`, `transition` | reserves budget in its own transaction; publishes the job id from an `after_commit` listener | one job per idempotency key; job and reservation appear together; finished jobs do not change |
| Job worker (`workers/broker.py`, `workers/jobs.py`) | the message it holds | `process_job` | reads the queue, locks job, reservation and budget, fails the job and releases its money | a redelivered, retried or interrupted message has the effect of one |
| Database sessions (`infrastructure/database.py`) | open transactions, row locks, workspace context | commit, rollback | everything above | all-or-nothing requests; row-level isolation of workspaces |
| Authentication and MFA (`application/authentication.py`) | sessions, session versions, MFA credentials, recovery codes | login, refresh, logout, revoke_all, MFA enrolment and verification | every request | revoked sessions stay revoked; a token or a recovery code is used once |
| Authorization (`application/authorization.py`) | memberships and roles | `require_permission` | every route | administrative actions need the role and a verified MFA |
| Privacy (`application/contacts.py`, `suppression.py`, `data_subject_requests.py`, `privacy_policy.py`, `export_policy.py`) | contacts, suppression fingerprints, requests, policies | persist, suppress, erase, rectify, access, export | the worker, the API | an erased or suppressed subject is never stored or exported again |
| Retention (`application/retention.py`, `workers/retention.py`, `workers/retention_scheduler.py`) | expiry dates, the scheduler lock in Redis | batches, re-enqueueing, scheduling | the queue | every expired contact is deleted in the end |
| Secrets, audit log, rate limiter, workspaces | encrypted credentials, audit rows, counters | put/resolve, append, require, create | the API | see `PROJECT.json` |

**Direct pipeline** (`main.py`, `src/crawler.py`, `src/auditor.py`,
`src/providers`, `src/security/url_policy.py`, `src/filters.py`,
`src/exporter.py`). One process that discovers businesses, crawls their sites
under a URL policy with pinned DNS answers, audits the evidence with a language
model in a thread pool and writes a spreadsheet. Hard parts: futures completing
in any order, interruption, page and retry limits, the pin race.

| Component | State | Operations | Interacts with | What makes it correct |
|---|---|---|---|---|
| Orchestrator (`main.py`, `src/scraper.py`) | candidates, audit futures, counters, leads | the two runs, poll, drain, export, Ctrl-C | provider, crawler, auditor pool, exporter | no lead lost, duplicated or mixed up; the command ends |
| Discovery provider (`providers/discovery/google_places.py`) | grid point, attempt | `discover`, `_fetch` | HTTP | bounded attempts; a failure raises |
| Crawler (`crawler.py`, `domain/crawl.py`) | frontier, pages, evidence, contacts, refused requests | `crawl`, `_secure_route`, `_validate_navigation`, `close` | browser, URL policy | what is audited is evidenced and of the site; limits hold; every crawl returns |
| URL policy (`security/url_policy.py`) | pinned addresses per host | `validate`, `reset_dns_pins` | resolver, called by the crawler and by the browser's handlers | one answer per host and crawl |
| Auditor (`auditor.py`, `domain/audit.py`) | attempts of each page and audit | `audit_website`, page cleaning | the model's API, a pool of threads per site | retries run out; a fallback, never a hang |
| Export policy and reports (`application/export_policy.py`, `exporter.py`) | the file | `require_exportable`, `export_to_excel` | orchestrator | complete and checked, or not written |

The hazards each part is exposed to are in `PROJECT.json`, at the line where
they bite, with the properties that would catch them.

## 2. Modules

    BudgetRows            the rows and the arithmetic of the budget service
      UsageBudget         abstract: each budget operation is one atomic step
      JobProcessing       detailed: requests and workers as transactions of
                          several statements, row locks, the queue, failures
    PrivacyContacts       contacts, suppression, data-subject requests, export
                          and retention batches as interleaved transactions
      RetentionService    composes it with schedulers, their lock and the queue
    RevocableSessions     abstract: what a session of a user may do
      AuthSessions        detailed: sessions, MFA and linked identities, requests
                          as transactions, failing commits (refinement)
    Crawl                 the crawler, the browser's request handlers, URL policy
    Pipeline              one run of the command: discovery, crawl loop, audit
                          threads, drain, export, interruption
    Lists                 the filtering list comprehension, used by Pipeline
    MC<module>            small instances for TLC
    <module>_proofs       TLAPS proofs: BudgetRows, UsageBudget, JobProcessing,
                          PrivacyContacts (with RetentionService), AuthSessions,
                          Crawl, Pipeline, Lists

**BudgetRows.** Money is an integer number of micro-units (`Numeric(18, 6)`).
`normalized_cost` takes tenths of a micro-unit and rounds half to even, as
`Decimal.quantize` does; the sign is tested after rounding, as in the code. The
checks (`FitsLimit`, `WithinReservation`, `CoversCommitments`, `Active`) and the
assignments (`AfterReserve`, `LogSettle`, ...) of the four operations are each an
operator on a row, so the atomic and the interleaved specification use the very
same arithmetic and differ only in *when* a row is read and written.

**UsageBudget.** State: `budget`, `reservation[j]`, `ledger[j]` (the ledger rows
of a job summed by `entry_type`: the table is append-only and only sums are ever
meaningful), `overrides` (the sum of the rows that belong to no job). One action
per operation. A call that raises rolls back and is no step.

**JobProcessing.** A process is an API request (`Clients`) or a worker thread
(`Workers`). `pc[p]` is the statement its transaction executes next, `tx[p]` the
arguments of its call, `saw[p]` the budget row it read under its lock.

* What a transaction writes becomes visible at COMMIT, so all its writes are in
  the commit action; a rollback (`client_rollback`, `process_error`,
  `worker_dies`) is possible before every commit.
* Row locks are not variables: a `SELECT ... FOR UPDATE` holds its lock until the
  end of the transaction, so who holds what follows from `pc` (`HoldsBudget`,
  `HoldsReservation`, `HoldsJob`, `HoldsKey` for an uncommitted insert into the
  unique index). `settle`'s ledger rows reference the job, and PostgreSQL takes a
  share lock on the referenced row, which waits for a `FOR UPDATE` holder: the
  crossing of that order with `process_job`'s is `Deadlocked`, resolved by
  PostgreSQL's deadlock detector on either side.
* `create` is `create_lookup` (SELECT by key) / `create_existing`, then
  `create_insert` / `create_duplicate` (unique constraint), then
  `create_reserve` / `create_exceeded`, then `create_commit`, then `publish` or
  `publish_fails` (the `after_commit` listener).
* `process_job` is `receive`, `process_lock_job` / `process_skip`,
  `process_lock_reservation` / `process_inactive`, `process_lock_budget`,
  `process_commit`, `ack`. Its two branches differ in the error code only
  (`Tainted` jobs).
* The queue (Dramatiq on Redis) is external: at-least-once delivery, messages
  put back when a worker dies, redelivered while a slow worker still has them
  (`redeliver`), re-enqueued up to `MaxRetries` times and then dead-lettered.
* `settle` and `transition` have no caller in the repository but its tests; they
  are modelled as requests with a transaction of their own, and switched off
  with empty `Actuals` and `Targets` where a property speaks of the system as it
  is wired today.

Left out as data no property tells apart: job kind and parameters, reasons,
providers and units, audit rows (they are inserted in the same transaction and
share its fate), timestamps, the 80% warning flag.

**PrivacyContacts.** One workspace. A process is an API request (`Clients`) or a
retention worker thread (`Workers`). The tables are `contact[i]` (a row per
primary key), `supp` (pairs of scope and fingerprint), `request[r]` and `policy`
(whether the stored policy admits named contacts, which is all the gate takes
from it). `tx[p]` has the arguments of the call, what it read and what it wrote
and has not committed; row, key and request locks follow from its writes
(`HoldsRow`, `HoldsKey`, `HoldsRequest`).

* `persist` reads the policy once, then takes each contact through the gate and
  the suppression list (`persist_check`, `persist_skip`), and inserts at COMMIT.
* `erase_and_suppress` (erasure and opposition) is `erase_select`, a `delete_row`
  for each id it selected, `suppress_lookup`, `suppress_insert` /
  `suppress_duplicate`, `request_insert` / `request_duplicate`, `commit`.
* `rectify` is `rectify_select` (no lock), `read_policy`, `request_insert`,
  `rectify_check` / `rectify_refused`, `suppress_lookup`, `rectify_flush` /
  `rectify_stale` for each row, `suppress_insert`, `commit`. Sessions have
  autoflush off, so the rows assigned in the loop are written by the flush inside
  `suppress`, in the order of their keys and before its own insert; when there is
  nothing to insert they are written at COMMIT. An UPDATE sets only the columns
  that differ from what the session loaded (`Rectified`), and one that meets a
  deleted row raises `StaleDataError`.
* `exportable_contacts` is a DELETE of the expired rows, which PostgreSQL checks
  again after it waited for a row (`Doomed`), then `export_select`,
  `read_policy`, and `export_check` / `export_blocked` for each row.
* `run_retention_batch` selects at most `BatchSize` expired rows `ORDER BY
  expires_at` (`older` keeps that order) and deletes them by id.
* `deadlock_victim` is PostgreSQL's detector, on cycles of two or three;
  `crash` is any failure from outside before COMMIT.

Left out: `subject_data` (reads only), audit and retention event rows (inserted
in the same transaction), telephone numbers (`rectify` refuses them before its
first statement; otherwise they behave as addresses), the fields of a policy
other than the answer of the gate. `put` is a single step.

**RetentionService.** `PrivacyContacts` with what makes its batches run:
schedulers that `SET NX EX` a lock they never give back, enqueue the workspace and
wait the same interval (`try_lock`, `lock_taken`, `enqueue`, `wake`, and `tick` for
time), a queue counted by retries, and workers that run one batch per message and
send the next message if the batch was full (`send_next`), after its COMMIT. A
scheduler, a worker or a batch may fail between any two steps.

**AuthSessions.** One user of one workspace, `Procs` concurrent requests. No
operation of `authentication.py` takes a lock, so a request is: what it loaded and
decided (`login`, `refresh`, `authenticate`, `present_code`, ...), kept in `tx`,
then its writes at COMMIT, column by column as the ORM's UPDATE does (`RotatedRow`
writes the token and not `revoked_at`). `commit_fails` is the COMMIT that fails
when the dependency is closed, after the response was made: the tokens were
delivered (`deliver`) although nothing was stored. Refresh and CSRF token are one
number, since they always change together. A code is a TOTP code (`index` 0) or a
recovery code of an enrolment. A request that presents a code keeps the session row it
was admitted with, which is changed and not flushed, and loads the user again after
the credential (`present_code_user`), since nothing refers to the first copy: its
tokens may carry a newer session version. History variables record revocations
(`ended`), accepted codes (`uses`) and administrative actions (`managed`).
`RevocableSessions` is the same with each request one step.

**Crawl.** One `HybridCrawler` used for site after site. `pc` is the next await of
`crawl`. The browser calls `_secure_route` for each request of a page (`route_begin`,
`route_validate`, `route_continue`, `route_abort`), also after the crawl it belongs
to has returned, on the policy and the list of refusals of the next one. A URL is a
record of scheme, host, port, path and fragment, and of whether the policy's syntactic
checks accept it, refuse it or raise a `ValueError`. A normalized URL names its port
only when it is not the scheme's own, so the `http` and the `https` pages of a host
have one `netloc` and are one site. The resolver may answer with
another set of addresses at each call; that it is called outside the pin lock then
makes no difference, so resolve-and-pin is one step. A text is the fetch it came
from and its length, which the thresholds 120 and 200 tell apart; a contact is the
method it was found by, which decides the merge.

**Pipeline.** The main thread (`pc`) and one process per audit. Discovery is
`fetch`, `fetch_retry`, `fetch_error` per point of the grid and `keyword_done`,
which merges a keyword's candidates. The loop is `submit`, `crawl_rejected`
(`continue`, which skips the poll as in the code) or `crawl_raises`, then `poll`,
`collect` for each future that was done at the poll, `next_candidate`; after it
`drain` and `run_returns`. The crawl itself is `Crawl`: here it is auditable or
not, with contacts or without. An audit is `audit_start` (pool of `PoolSize`, FIFO),
the cleaning of each page in its own thread, then the attempts of the audit.
`interrupt` may come before any step up to the export; the pool goes on, and the
interpreter waits for it (`exit`). From then on an executor takes no more work, and an
audit that has pages to submit raises instead (`audit_refused`).

Definitions named `<operation>_<something>` and commented *Mutant of ...* are
plausible bugs; with one of them in place of the original, the property paired
with it in `PROJECT.json` must be violated. No specification uses them.

## 3. Runs

| Run | Instance | What it shows |
|---|---|---|
| `usage_budget` | 3 jobs, limit 6, costs that round to 0, 2, 4 and one refused, limits 0, 5, 8 | the properties of the abstract budget |
| `job_safety` | 2 jobs, 2 keys, 2 requests, 2 workers, 2 copies of a message, limit 4 lowered to 3, costs 2 and 3 | statement-level interleavings of creation, override and two workers on the same message: no lost update, idempotency, job and reservation together, publication after commit |
| `job_liveness` | 1 job that fits only once the limit is raised, 2 requests, 1 worker, 2 copies, 1 retry, settlement and transitions | the transactions implement `UsageBudget`; a finished job stays finished; a delivered job is finished or dead-lettered; every call returns: lock orders block nobody for ever |
| `lost_publication` | 1 job (violation) | a job whose publication fails after COMMIT stays queued and keeps its money |
| `privacy` | 2 clients, 1 contact that can expire, 1 named value, 1 request id, 1 crash | erasures, rectifications, suppressions, collection and exports interleaved: completed requests are suppressed, recorded once and have erased what they found; exports respect suppression and spare renewed rows; every call returns, deadlocks included |
| `retention` | 1 client, 1 worker, 2 schedulers, batches of 1, interval 1, 1 retry, 1 failure | every expired contact is deleted or renewed |
| `reacquisition` | 2 clients, 1 value (violation) | a contact suppressed between the check and the COMMIT of `persist` is stored |
| `named_export` | 2 clients, 3 values (violation) | two rectifications leave a named value classified as generic, which is exported without a policy |
| `auth_safety` | 2 requests, 1 session, 3 tokens, 2 enrolments with 1 recovery code, 2 session versions, 1 identity, 2 users | revocation is final for every later request; management needs a second factor; identities stay; the requests implement `RevocableSessions` |
| `recovery_code` | 2 requests, 2 sessions (violation) | a recovery code is accepted twice |
| `crawl` | 2 crawls, 7 URLs on 3 hosts, 2 answers of the resolver, lengths 119, 120, 200, 2 links, `max_pages` 2, 1 browser request | evidence, site, limits, pins, refusals and contacts of a crawl; every crawl returns |
| `pipeline` | 4 places (2 sites, 1 social page, 1 without), 2 keywords, 2 candidates per answer, 2 attempts, pool of 2 | counting, identity and order of the results, the report, termination |

*Why the bounds are enough.* The conflicts are pairwise: two requests on one key,
two transactions on the budget row, two workers on one message, a settlement or
a transition against a worker. Two of each with a limit that one job fits and two
do not reach every branch (`BudgetExceeded`, duplicate key, inactive
reservation, deadlock, dead letter). `MaxRetries` is 3 in the code; 0 and 1
reach both sides of the comparison. `MaxCopies` bounds how many deliveries of a
message exist at once. `usage_budget` has three jobs so that an error in one
balance can hide behind the other two. In `PrivacyContacts` the conflicts are
two calls on one row, one fingerprint or one request id. `Ids` bounds the rows
that exist at once, not how many are ever stored: a key is free again once nothing
refers to it. `Kinds`, `Scopes` and `Expiring` select which calls and expiries a
run has; a suppression or an erasure has the scope of its argument, a
rectification `workspace`, so both occur. `MaxCrashes` bounds failures from
outside; the proofs cover any number. In `AuthSessions` the races are between two
requests on one session row, one credential or one identity; three tokens make a
rotation, the replay of the old token and a further rotation possible, two
enrolments a re-enrolment under way, two versions a token older than
`revoke_all`. `MaxTokens`, `MaxEnrolments` and `MaxVersion` stop the counters, so a
behaviour may end there and deadlock is not checked. In `Crawl` the URLs are those
the branches tell apart: a home page, a priority page with and without a fragment (two
URLs that normalise to one), another one under `http`, another host, a refused and a malformed
URL; two crawls let a handler outlive its crawl. In `Pipeline` two sites are the
least for which audits finish out of order and one is collected while the other is
crawled; the code's pool has 6 threads, and a pool of 2 is never full with two
audits, but the queue order is in the guard of `audit_start`.

*Fairness* (`FairSpec`). A transaction executes its next statement, and a
statement that waits for a row lock is strongly fair, because PostgreSQL grants
a contended lock in arrival order; deadlocks are detected; a queued message is
eventually received (FIFO list); workers do not die for ever. Nothing is assumed
of rollbacks, failed publications or redeliveries, and no client need start a
call. In `PrivacyContacts` a transaction that is able to go on again and again
does (strong fairness, for the same reason). In `RetentionService` schedulers, workers
and time go on; a scheduler that exits is not restarted by `compose.yml`, so that
one runs from some time on is an assumption about whoever operates the service,
stated as such in `ServiceFairSpec`. In `Crawl` only the task of the crawl is fair:
page loads and resolutions have timeouts; nothing is assumed of the browser's
handlers. In `Pipeline` the main thread and the audit threads are weakly fair: HTTP
calls have timeouts and every wait is for a thread. `AuthSessions` needs none.

*The disagreements.* (a) `README.md:85` says unsupported jobs fail and
release their reservation. The id is sent once, by an `after_commit` listener;
if Redis refuses it nothing sends it again, and a retry with the same
`Idempotency-Key` returns the stored job without publishing. (b) The plan (section
on privacy) has suppression block reacquisition. `persist` looks at the suppression
list without a lock: an erasure that selects, suppresses and commits between that
look and the COMMIT of `persist` finds no row, and the contact is stored after it.
(c) The plan has named contacts without a policy neither kept nor exported.
Rectification A of a row from one named value to another has loaded it;
rectification B to a generic value commits; A then writes its named value, but not
the classification, which it did not change: the row is `generic_business` with a
named value. (d) The plan has recovery codes stored as single-use hashes. The list
is read without a lock and written back at COMMIT: two requests with the same code
are both accepted.

*Behaviours in the models that contradict no document*, or that nothing exercises:

* `JobService.transition` ends a job and releases nothing; only tests call it.
* A retention batch deletes by id a contact that was rectified, and so renewed,
  after the batch selected it.
* A contact can be rectified only once: the replacement has no `source_url`, and a
  second call requires one.
* With batches of two rows or more, a batch and an export that take the rows in
  opposite orders may deadlock with the batch as victim each time, until its
  message is dead-lettered; repeated at every interval, this delays an expired
  row for ever. `retention` has batches of one row, where it cannot; a batch fails
  at most `MaxCrashes` times, for whatever reason.
* A confirmation of an MFA secret that races a new enrolment marks the new, unproved
  secret confirmed; a verification with a recovery code in the same race writes the
  old list back onto the new secret. Two racing `revoke_all` raise
  `session_version` once (the sessions are revoked either way).
* The revocation of an inactive user's session in `refresh` is undone by the
  exception that follows it; the user is refused at every use all the same.
* A browser request of one crawl whose handler ends in the next one may set a pin
  there or add to its refusals, so that crawl may be refused an answer or end as
  `partial` for a page that is not its own. The browser resolves names itself: a pin
  binds what the policy accepts, not what the browser connects to.
* The command and the console call `export_to_excel` without a suppression checker,
  so one lead with a contact costs the whole report, that of an interruption too.

## 4. Proofs

Every safety property of every passing run, invariant or action property, is also a
theorem, for every value of the constants: any number of jobs, requests, workers,
sessions, places or pages, any limit and any amount. The runs show each on a small
instance first, and each `IInv` below was an invariant of a run before it was
proved.

`BudgetRows_proofs` proves the lemmas about rows: each assignment maps rows to
rows and changes the fields it should, `normalized_cost` rounds to within half
a unit, and `Total` (a recursive function) behaves as a sum: it is zero for the
zero function, changes by the difference when one entry changes, and covers each
of its entries. Sums over `1..n` need induction; `NatSetInduction` (in
`Lists_proofs`) derives it for *sets* of naturals from the well-foundedness of `<`,
which the provers can instantiate.

`UsageBudget_proofs` proves the inductive invariant `IInv` and from it

* `HardLimitHolds`: `Spec => []HardLimit`;
* `TypeCorrect`, `LedgerIsTheRecord` (balances are ledger sums) and
  `ReservationIsItsRows` (reservations match their ledger rows);
* `ReservedNeverNegative`: the check constraint on `reserved` never fires;
* `ReservationClosedOnce`: the action property `ClosedOnce`.

Why the strengthening is needed: `HardLimit` alone is not preserved by `settle`,
which moves `actual` from reserved to spent, unless `actual` is at most the
reserved amount and the balance contains that amount. That the balance contains
it is `LedgerReconciles` plus `ReservationMatchesLedger` (a sum covers each of
its terms); and these need to know that a job without a reservation has no
entries (`NoRowIsEmpty`) and an active one has no charge yet
(`ActiveNotSettled`).

Assumptions: `N \in Nat`, `InitialLimit \in Nat`, amounts are integers.

`JobProcessing_proofs` proves, for any number of jobs, keys, requests and
workers, the inductive invariant of the interleaved transactions and from it

* `Refinement`: `Spec => Budget!Spec`. Every commit is one of the four budget
  operations on the current rows, and every other step a stutter, so the theorems
  of `UsageBudget_proofs` carry over to the interleaved system;
* `TypeCorrect`, `NoLostUpdate`, `IdempotentCreation`, `AtomicCreation`, `PublishedAfterCommit`,
  `FailureReleases` and the action property behind `TerminalStates`.

Its `IInv` has the types; lock exclusion (no two transactions hold the budget
row, a reservation, a job or a key); `ReadIsCurrent`; what each transaction may
rely on at its statement (`CreateOK`, `OverrideOK`, `ReservationOK`, `JobOK`,
`WorkerOK`: the rows it locked are as it checked them); and the relations between
the tables. Each conjunct is needed because the checks and the writes of an
operation are statements apart: only what was checked under a lock still holds at
COMMIT, and only the lock exclusion says so. A step either changes one process
and no table (`LocalStep`) or is a commit (`CommitStep`), which must preserve what
all the others rely on.

`PrivacyContacts_proofs` has the same shape, for any number of clients, workers,
contacts, values and requests: `CallOK` is what one call may rely on (`ArgsOK`,
`StepOK`, `RowsOK`, `ExportOK`), `Apart` keeps two calls apart (disjoint locks,
distinct request ids, fresh primary keys). It yields `CompletedIsSuppressed`,
`ExportIsFiltered`, `ExportSparesRenewed`, `TypeCorrect` and the action
properties `RequestsAreFinal` and `ErasureIsComplete`. For the last, the
strengthening says that each row an erasure has dealt with is either in its
uncommitted deletes or not stored, and that no insert of another call can bring
such a row back.

The last part of the module is about `RetentionService`. It does not implement
`PrivacyContacts` step for step (a scheduler that exits, or a worker that dies with
no transaction open, counts a failure where `PrivacyContacts` has none), so
`ServiceStep` shows instead that each of its steps is a step of `PrivacyContacts` or
a failure that writes nothing, and that such a failure preserves `IInv`. Hence
`ServiceKeepsPromises` and `ServiceErases`: the properties above hold beside
schedulers, dying workers and redelivered messages. `ServiceOK` adds the bounds of
lock, queue and retries, and `BatchHasMessage`: a worker has a transaction open
exactly while its message is being run (`BatchesHaveMessages`).

`AuthSessions_proofs`. No request takes a lock, so the invariant cannot say that what
a request loaded is still so. `CallOK` says what remains true of it: the row of its
session exists; if it was admitted as verified, that row has the flag and a traded
code is recorded; a row that a login is going to insert is nobody else's
(`LoginsFresh`); each session a `revoke_all` has to end is in its UPDATE or revoked.
`RowsOK` relates rows and history: a session with the flag has traded a code, and an
ended session is revoked, which no write undoes because an UPDATE sets only the
columns that changed. From it `SecondFactorForManagement`, `RevokedIsNotServed`,
`IdentityStays` and `SessionsRefinement` (every commit is one step of
`RevocableSessions`, every other step a stutter).

`Lists_proofs` holds the lemmas about `SelectAt`, the comprehension with a filter: it
returns the elements at the selected indices, in their order (`SelectAtFacts`).
`Pipeline_proofs` uses them for the merge of keywords, the filter on web sites and the
results, and proves what `unique_candidates` returns for every batch: each candidate
once, none lost, in the order of first occurrence (`UniqueCandidates`; that a
candidate's first occurrence exists is the least-element principle). Its `IInv` says that the places found are distinct
(`PlacesDistinct`); that what is left to crawl is in the order of discovery
(`TodoOK`) and behind what was submitted, which is in that order too
(`SubmittedFirst`); that a future carries the crawl of its own place (`FuturesOK`), and
so does the lead made from it (`LeadsOK`); that a place no longer in `audit_futures`
has its audit behind it, and a lead unless the audit raised (`CollectedOK`); that
what may be tried again has attempts left (`AttemptsOK`); that the results of an
uninterrupted run are in order and all the leads (`ResultsOK`). `EveryAuditCounted` is
an equation of a counter and a cardinality, so its proof needs the set to be finite,
which follows from one submission at a time. The invariant holds at `interrupt` in
any phase.

`Crawl_proofs` has an invariant in three parts, as three things interleave.
`PolicyInv`: what the policy admitted during this crawl is what it has pinned, so that
two admitted answers for a host are equal. `RouteInv`: what a request handler holds,
also one left over from an earlier crawl, and that a refused request of this crawl is
in the list of refusals. `CrawlInv`: what holds at each await (`PhaseOK`), the pages
stored and the fetches made are within the budget of pages (`Budgeted`,
`PagesCounted`), each stored text is the newest valid evidence of its URL
(`Evidenced`), pages are of the site, and contacts have evidence (`Traceable`). A
step of a handler leaves `CrawlInv` alone and one of the crawl leaves other handlers
alone; `reset_dns_pins` at the start of a crawl restores `PolicyInv` whatever a
left-over handler did before.

Assumptions: those named `...Assumption` in the modules: constants have their
types, clients and workers are disjoint, the null values are not real ones, dropping a
URL's fragment leaves a URL, and there is a longest page text (texts are finite, and
`Crawl` distinguishes them by length only).

Only model-checked:

* the liveness properties (`DeliveredJobsFinish`, `CallsReturn`, `TransactionsEnd`,
  `ExpiredDeleted`, `CrawlReturns`, `RunEnds`): the provers have neither fairness nor
  `ENABLED`;
* the properties that the four violation runs refute.

## 5. Plan

1. *Done*: budget, jobs and worker, with the refinement checked and proved.
2. *Done*: `PrivacyContacts` with its proofs; `RetentionService` composed from it.
3. *Done*: `AuthSessions` and its abstraction, `Crawl`, `Pipeline`, model-checked.
4. *Done*: proofs for `AuthSessions` with its refinement, `Crawl` and `Pipeline`; the
   theorems of `PrivacyContacts` carried over to `RetentionService`.
5. Next: what the proofs could still say beyond the runs. For `JobProcessing`, that the
   lock orders admit no cycle of waiting other than `Deadlocked` (today
   model-checked through `CallsReturn`); for `Pipeline`, that an interrupted run
   exports a subset of what the full run would; for `UsageBudget`, that a closed
   reservation accounts for its whole amount (charged plus given back).

## 6. Not modelled

Spreadsheet formatting and text filters (pure functions of text), the Streamlit
console (presentation over the same orchestrator), configuration loading,
prompts, cryptographic primitives (a secret, a token or a signature is the right
one or it is not), workspaces and memberships (written once, they give the initial
states), the credential store and the audit log (single writes in a modelled
transaction), the rate limiter (one atomic step of Redis), row-level security and
migrations (configuration of the server), `purge_expired_attributes` and the
auditor's batch entry points (called by tests only, or by nothing), the API's request schemas.
