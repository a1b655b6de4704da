--------------------------- MODULE PrivacyContacts ---------------------------
(***************************************************************************)
(* The contacts of one workspace and the rights of the people in them:     *)
(* ContactService.persist, SuppressionService.suppress,                    *)
(* DataSubjectRequestService (erase_and_suppress, rectify, record_access), *)
(* WorkspacePrivacyPolicyService.put and PrivacyExportService, called by   *)
(* clients, and the retention batch of the workers.                        *)
(*                                                                         *)
(* Each is a READ COMMITTED transaction of several statements; pc names    *)
(* the next one.  What a transaction wrote is in tx until it commits, and  *)
(* stays locked until then, so the locks follow from tx.  Sessions have    *)
(* autoflush off: a row that was added or assigned reaches the database at *)
(* an explicit flush() or at COMMIT, and an UPDATE sets only the columns   *)
(* whose new value differs from the one the session loaded.                *)
(*                                                                         *)
(* A value stands for a normalised e-mail address and for its HMAC         *)
(* fingerprint, which tells addresses apart.  Telephone numbers differ     *)
(* only in that rectify refuses them before its first statement.           *)
(***************************************************************************)
EXTENDS Integers, FiniteSets

CONSTANTS
  Clients,    \* concurrent API requests
  Workers,    \* retention worker threads
  Values,     \* identifiers
  NoValue,    \* not an identifier
  Named,      \* the identifiers classify_email finds to be named_professional
  Requests,   \* request ids that callers use
  NoRequest,  \* not a request id
  Scopes,     \* suppression scopes that callers pass
  Kinds,      \* request kinds that callers pass
  Ids,        \* primary keys: bounds the contacts rows that exist at once
  Expiring,   \* the rows whose retention can run out
  BatchSize,  \* batch_size of run_retention_batch
  MaxBatch,   \* bound on the contacts one call of persist is given
  MaxCrashes  \* bound on the transactions that fail from outside

ASSUME ProcessAssumption == Clients \cap Workers = {}
ASSUME ValuesAssumption == NoValue \notin Values /\ Named \subseteq Values
ASSUME RequestsAssumption == NoRequest \notin Requests
ASSUME KindsAssumption ==
  /\ Scopes \subseteq {"workspace", "global"}
  /\ Kinds \subseteq {"access", "rectification", "erasure", "opposition"}
ASSUME IdsAssumption == Ids \subseteq Nat /\ Expiring \subseteq Ids
ASSUME BoundsAssumption == BatchSize \in Nat \ {0} /\ MaxBatch \in Nat /\ MaxCrashes \in Nat

VARIABLES
  contact,  \* the contacts rows
  older,    \* the expired rows in order of expires_at, as pairs
  supp,     \* the suppression_entries, as pairs <<scope, value>>
  request,  \* the data_subject_requests rows
  policy,   \* the workspace_privacy_policies row admits named contacts
  pc,       \* the next statement of each process
  tx,       \* the arguments, reads and uncommitted writes of each process
  crashes   \* how many transactions failed from outside

tables == <<contact, older, supp, request, policy>>
vars   == <<tables, pc, tx, crashes>>

Procs == Clients \cup Workers

-----------------------------------------------------------------------------
(* Rows *)

\* age: "none" if there is no such row, "expired" once expires_at has passed.
\* named: the classification column.  source: source_request_id; it is set
\* exactly when source_url is NULL.
ContactRow == [age : {"none", "fresh", "expired"}, value : Values \cup {NoValue},
               named : BOOLEAN, source : Requests \cup {NoRequest}]
NoContact  == [age |-> "none", value |-> NoValue, named |-> FALSE, source |-> NoRequest]

RequestRow == [kind : {"none", "access", "rectification", "erasure", "opposition"},
               value : Values \cup {NoValue}]
NoRow      == [kind |-> "none", value |-> NoValue]

Stored(i) == contact[i].age # "none"
Expired   == {i \in Ids : contact[i].age = "expired"}
Holding(v) == {i \in Ids : Stored(i) /\ contact[i].value = v}

\* Mutant of is_suppressed: the global scope is forgotten.
is_suppressed_workspace(v) == <<"workspace", v>> \in supp

\* SuppressionService.is_suppressed: one SELECT over both scopes.
is_suppressed(v) == \E s \in {"workspace", "global"} : <<s, v>> \in supp

\* PrivacyPolicyGate.require_contact_allowed on a contact that has not expired,
\* under the policy `allows` that was read.
require_contact_allowed(v, allows) == v \in Named => allows

Steps == {"idle", "persist_check", "erase_select", "delete_rows", "suppress_lookup",
          "suppress_insert", "request_insert", "rectify_select", "read_policy",
          "rectify_check", "rectify_flush", "export_select", "export_check", "commit"}

\* The state of a call.  Arguments: op, value, new (the replacement value), scope,
\* request, todo (persist).  Reads: policy, found and named (the rows loaded, and
\* those classified named), again (one of them was rectified before), ids (those
\* still to be deleted or updated), seen (export: the rows still to be checked),
\* absent (no suppression entry was found).  Writes: ins, del, upd, entry, log.
\* out: what export will return; barred: what was suppressed when it read the rows.
Call == [op : {"none", "persist", "suppress", "access", "rectification", "erasure",
               "opposition", "export", "retention"},
         value : Values \cup {NoValue}, new : Values \cup {NoValue},
         scope : {"workspace", "global"}, request : Requests \cup {NoRequest},
         todo : SUBSET (Ids \X Values), policy : BOOLEAN,
         found : SUBSET Ids, named : SUBSET Ids, again : BOOLEAN, ids : SUBSET Ids,
         seen : SUBSET (Values \X BOOLEAN), absent : BOOLEAN,
         ins : SUBSET (Ids \X Values), del : SUBSET Ids, upd : SUBSET Ids,
         entry : BOOLEAN, log : BOOLEAN,
         out : SUBSET Values, barred : SUBSET Values]
NoCall == [op |-> "none", value |-> NoValue, new |-> NoValue, scope |-> "workspace",
           request |-> NoRequest, todo |-> {}, policy |-> FALSE,
           found |-> {}, named |-> {}, again |-> FALSE, ids |-> {},
           seen |-> {}, absent |-> FALSE,
           ins |-> {}, del |-> {}, upd |-> {}, entry |-> FALSE, log |-> FALSE,
           out |-> {}, barred |-> {}]

\* The state is made of rows and of calls.
TypeOK ==
  /\ contact \in [Ids -> ContactRow]
  /\ older \subseteq Ids \X Ids
  /\ supp \subseteq {"workspace", "global"} \X Values
  /\ request \in [Requests -> RequestRow]
  /\ policy \in BOOLEAN
  /\ pc \in [Procs -> Steps]
  /\ tx \in [Procs -> Call]
  /\ crashes \in 0..MaxCrashes

Init ==
  /\ contact = [i \in Ids |-> NoContact]
  /\ older = {}
  /\ supp = {}
  /\ request = [r \in Requests |-> NoRow]
  /\ policy = FALSE
  /\ pc = [p \in Procs |-> "idle"]
  /\ tx = [p \in Procs |-> NoCall]
  /\ crashes = 0

-----------------------------------------------------------------------------
(* Locks: a row deleted or updated, a key inserted, until the end of the    *)
(* transaction.                                                             *)

Entry(p) == <<tx[p].scope, tx[p].value>>

HoldsRow(p, i)     == i \in tx[p].del \cup tx[p].upd
HoldsKey(p, k)     == tx[p].entry /\ Entry(p) = k
HoldsRequest(p, r) == tx[p].log /\ tx[p].request = r

RowFree(p, i)  == \A q \in Procs \ {p} : ~HoldsRow(q, i)
KeyFree(p)     == \A q \in Procs \ {p} : ~HoldsKey(q, Entry(p))
RequestFree(p) == \A q \in Procs \ {p} : ~HoldsRequest(q, tx[p].request)

\* The unit of work updates rows in the order of their primary keys.
NextRow(p, i) == i \in tx[p].ids /\ \A j \in tx[p].ids : i <= j

\* Process p cannot go on before q ends.  A DELETE takes its rows in any order,
\* and waits once every row left is taken.
WaitsFor(p, q) ==
  /\ p # q
  /\ \/ /\ pc[p] = "delete_rows"
        /\ \A i \in tx[p].ids : ~RowFree(p, i)
        /\ \E i \in tx[p].ids : HoldsRow(q, i)
     \/ pc[p] = "rectify_flush" /\ \E i \in tx[p].ids : NextRow(p, i) /\ HoldsRow(q, i)
     \/ pc[p] = "suppress_insert" /\ HoldsKey(q, Entry(p))
     \/ pc[p] = "request_insert" /\ HoldsRequest(q, tx[p].request)

-----------------------------------------------------------------------------
(* Statements *)

Start(p, call, to) ==
  /\ pc[p] = "idle"
  /\ pc' = [pc EXCEPT ![p] = to]
  /\ tx' = [tx EXCEPT ![p] = call]
  /\ UNCHANGED <<tables, crashes>>

\* Process p executes a statement: its transaction is then t.
Step(p, from, to, t) ==
  /\ pc[p] = from
  /\ pc' = [pc EXCEPT ![p] = to]
  /\ tx' = [tx EXCEPT ![p] = t]
  /\ UNCHANGED <<tables, crashes>>

\* The transaction of p is over, and its request or batch with it.
End(p) == pc' = [pc EXCEPT ![p] = "idle"] /\ tx' = [tx EXCEPT ![p] = NoCall]

\* Database.session rolls back when an exception is raised.
Rollback(p) == End(p) /\ UNCHANGED <<tables, crashes>>

\* policies.get, in rectify and in exportable_contacts.
read_policy(p) ==
  Step(p, "read_policy",
       IF tx[p].op = "rectification" THEN "request_insert"
       ELSE IF tx[p].seen = {} THEN "commit" ELSE "export_check",
       [tx[p] EXCEPT !.policy = policy])

\* Where a DELETE of the rows in ids leads.
AfterDelete(op, ids) ==
  IF ids # {} THEN "delete_rows"
  ELSE IF op = "export" THEN "export_select"
  ELSE IF op = "retention" THEN "commit"
  ELSE "suppress_lookup"

\* Mutant of Doomed: export deletes what its DELETE found, renewed or not.
Doomed_unchecked(p, i) == Stored(i)

\* Export deletes by expires_at, and looks at it again after waiting for the
\* row; erasure and retention delete by the ids they selected.
Doomed(p, i) ==
  Stored(i) /\ (tx[p].op = "export" => contact[i].age = "expired")

\* Mutant of delete_row: rows that others have locked are skipped.
delete_row_skip_locked(p, i) ==
  /\ i \in tx[p].ids
  /\ Step(p, "delete_rows", AfterDelete(tx[p].op, tx[p].ids \ {i}),
          [tx[p] EXCEPT !.ids = @ \ {i},
                        !.del = IF Doomed(p, i) /\ RowFree(p, i) THEN @ \cup {i} ELSE @])

\* Mutant of delete_row: it waits until it has deleted every row it selected.
delete_row_all(p, i) ==
  /\ i \in tx[p].ids
  /\ RowFree(p, i)
  /\ Doomed(p, i)
  /\ Step(p, "delete_rows", AfterDelete(tx[p].op, tx[p].ids \ {i}),
          [tx[p] EXCEPT !.ids = @ \ {i}, !.del = @ \cup {i}])

\* The DELETE reaches row i, which a concurrent transaction may have deleted.
delete_row(p, i) ==
  /\ i \in tx[p].ids
  /\ RowFree(p, i)
  /\ Step(p, "delete_rows", AfterDelete(tx[p].op, tx[p].ids \ {i}),
          [tx[p] EXCEPT !.ids = @ \ {i}, !.del = IF Doomed(p, i) THEN @ \cup {i} ELSE @])

-----------------------------------------------------------------------------
(* ContactService.persist *)

\* Primary keys are fresh: never a key that some transaction still knows.
Unused == {i \in Ids : /\ ~Stored(i)
                       /\ \A q \in Procs : /\ i \notin tx[q].found \cup tx[q].del
                                           /\ \A v \in Values : <<i, v>> \notin tx[q].todo \cup tx[q].ins}

\* The policy is read once, for all the contacts of the call.
persist(p, contacts) ==
  /\ \A c \in contacts : c[1] \in Unused
  /\ Start(p, [NoCall EXCEPT !.op = "persist", !.todo = contacts, !.policy = policy],
           "persist_check")

AfterCheck(left) == IF left = {} THEN "commit" ELSE "persist_check"

\* Contact c = <<id, value>> passes the gate and the suppression list: it is added.
persist_check(p, c) ==
  LET left == tx[p].todo \ {c}
  IN  /\ c \in tx[p].todo
      /\ require_contact_allowed(c[2], tx[p].policy)
      /\ ~is_suppressed(c[2])
      /\ Step(p, "persist_check", AfterCheck(left),
              [tx[p] EXCEPT !.todo = left, !.ins = @ \cup {c}])

\* It had expired already, is refused or is suppressed: it is only counted.
persist_skip(p, c) ==
  LET left == tx[p].todo \ {c}
  IN  /\ c \in tx[p].todo
      /\ Step(p, "persist_check", AfterCheck(left), [tx[p] EXCEPT !.todo = left])

-----------------------------------------------------------------------------
(* SuppressionService.suppress: POST .../privacy/suppressions, and a part of *)
(* erase_and_suppress and of rectify.                                        *)

suppress(p, s, v) ==
  Start(p, [NoCall EXCEPT !.op = "suppress", !.scope = s, !.value = v], "suppress_lookup")

\* What follows suppress() in its caller.
AfterSuppress(t) ==
  IF t.op \in {"erasure", "opposition"} THEN "request_insert" ELSE "commit"

\* The new entry is flushed, if there is one: after rectify's rows.
Flush(t) ==
  IF t.op = "rectification" /\ t.ids # {} THEN "rectify_flush"
  ELSE IF t.absent THEN "suppress_insert" ELSE AfterSuppress(t)

suppress_lookup(p) ==
  LET t == [tx[p] EXCEPT !.absent = Entry(p) \notin supp]
  IN  Step(p, "suppress_lookup", Flush(t), t)

\* Mutant of suppress_insert: the entry is built but not added to the session.
suppress_insert_unadded(p) ==
  /\ KeyFree(p)
  /\ Entry(p) \notin supp
  /\ Step(p, "suppress_insert", AfterSuppress(tx[p]), tx[p])

suppress_insert(p) ==
  /\ KeyFree(p)
  /\ Entry(p) \notin supp
  /\ Step(p, "suppress_insert", AfterSuppress(tx[p]), [tx[p] EXCEPT !.entry = TRUE])

\* A concurrent call stored the entry after the lookup: IntegrityError.
suppress_duplicate(p) ==
  /\ pc[p] = "suppress_insert"
  /\ KeyFree(p)
  /\ Entry(p) \in supp
  /\ Rollback(p)

-----------------------------------------------------------------------------
(* DataSubjectRequestService.  A request id that is known has no effect: the *)
(* request is returned, or refused if its parameters differ.                 *)

erase_and_suppress(p, k, r, s, v) ==
  /\ request[r].kind = "none"
  /\ Start(p, [NoCall EXCEPT !.op = k, !.request = r, !.scope = s, !.value = v],
           "erase_select")

erase_select(p) ==
  Step(p, "erase_select", AfterDelete(tx[p].op, Holding(tx[p].value)),
       [tx[p] EXCEPT !.found = Holding(tx[p].value), !.ids = Holding(tx[p].value)])

record_access(p, r, v) ==
  /\ request[r].kind = "none"
  /\ Start(p, [NoCall EXCEPT !.op = "access", !.request = r, !.value = v],
           "request_insert")

rectify(p, r, v, new) ==
  /\ request[r].kind = "none"
  /\ Start(p, [NoCall EXCEPT !.op = "rectification", !.request = r, !.value = v,
                             !.new = new],
           "rectify_select")

\* The session keeps the rows as they were loaded here.
rectify_select(p) ==
  LET rows == Holding(tx[p].value)
  IN  Step(p, "rectify_select", "read_policy",
           [tx[p] EXCEPT !.found = rows, !.ids = rows,
                         !.named = {i \in rows : contact[i].named},
                         !.again = \E i \in rows : contact[i].source # NoRequest])

\* What follows the INSERT of the data_subject_requests row.
AfterRequest(t) ==
  IF t.op # "rectification" THEN "commit"
  ELSE IF t.found # {} THEN "rectify_check" ELSE "suppress_lookup"

\* Mutant of request_insert: an upsert, which a stored request does not refuse.
request_insert_upsert(p) ==
  /\ RequestFree(p)
  /\ Step(p, "request_insert", AfterRequest(tx[p]), [tx[p] EXCEPT !.log = TRUE])

request_insert(p) ==
  /\ pc[p] = "request_insert"
  /\ RequestFree(p)
  /\ request[tx[p].request].kind = "none"
  /\ Step(p, "request_insert", AfterRequest(tx[p]), [tx[p] EXCEPT !.log = TRUE])

\* A concurrent call stored the request: the primary key refuses this one.
request_duplicate(p) ==
  /\ pc[p] = "request_insert"
  /\ RequestFree(p)
  /\ request[tx[p].request].kind # "none"
  /\ Rollback(p)

\* The loop of rectify over the rows.  A row rectified before has no source_url,
\* which the ContactPoint of the replacement requires.
Replaceable(p) ==
  /\ ~tx[p].again
  /\ require_contact_allowed(tx[p].new, tx[p].policy)
  /\ ~is_suppressed(tx[p].new)

rectify_check(p) ==
  /\ Replaceable(p)
  /\ Step(p, "rectify_check", "suppress_lookup", tx[p])

rectify_refused(p) ==
  /\ pc[p] = "rectify_check"
  /\ ~Replaceable(p)
  /\ Rollback(p)

\* UPDATE of row i.
rectify_flush(p, i) ==
  LET t == [tx[p] EXCEPT !.ids = @ \ {i}, !.upd = @ \cup {i}]
  IN  /\ NextRow(p, i)
      /\ RowFree(p, i)
      /\ Stored(i)
      /\ Step(p, "rectify_flush", Flush(t), t)

\* The row was deleted since it was loaded: StaleDataError.
rectify_stale(p, i) ==
  /\ pc[p] = "rectify_flush"
  /\ NextRow(p, i)
  /\ RowFree(p, i)
  /\ ~Stored(i)
  /\ Rollback(p)

-----------------------------------------------------------------------------
(* WorkspacePrivacyPolicyService.put, PrivacyExportService, retention *)

put_policy(allows) ==
  /\ policy' = allows
  /\ policy # allows
  /\ UNCHANGED <<contact, older, supp, request, pc, tx, crashes>>

\* exportable_contacts begins with a DELETE of the expired rows.
export(p) ==
  Start(p, [NoCall EXCEPT !.op = "export", !.found = Expired, !.ids = Expired],
        AfterDelete("export", Expired))

export_select(p) ==
  LET rows == {i \in Ids : Stored(i)} \ tx[p].del
  IN  Step(p, "export_select", "read_policy",
           [tx[p] EXCEPT !.seen = {<<contact[i].value, contact[i].named>> : i \in rows},
                         !.barred = {e[2] : e \in supp}])

\* Row x = <<value, named>> is returned or, if it is suppressed, left out.
export_check(p, x) ==
  LET left == tx[p].seen \ {x}
  IN  /\ x \in tx[p].seen
      /\ is_suppressed(x[1]) \/ ~x[2] \/ tx[p].policy
      /\ Step(p, "export_check", IF left = {} THEN "commit" ELSE "export_check",
              [tx[p] EXCEPT !.seen = left,
                            !.out = IF is_suppressed(x[1]) THEN @ ELSE @ \cup {x[1]}])

\* The policy does not admit a named contact: PrivacyPolicyError.
export_blocked(p, x) ==
  /\ pc[p] = "export_check"
  /\ x \in tx[p].seen
  /\ ~is_suppressed(x[1]) /\ x[2] /\ ~tx[p].policy
  /\ Rollback(p)

\* ORDER BY expires_at.
Oldest(rows) ==
  rows \subseteq Expired /\ \A i \in rows, j \in Expired \ rows : <<i, j>> \in older

\* run_retention_batch selects at most BatchSize rows.
run_retention_batch(p, rows) ==
  /\ rows # {}
  /\ Oldest(rows)
  /\ Cardinality(rows) = BatchSize \/ (Cardinality(rows) < BatchSize /\ rows = Expired)
  /\ Start(p, [NoCall EXCEPT !.op = "retention", !.found = rows, !.ids = rows],
           "delete_rows")

-----------------------------------------------------------------------------
(* The end of a transaction; time *)

\* UPDATE sets value and classification only where the replacement differs from
\* the row that was loaded.
Rectified(p, i) ==
  [age    |-> "fresh",
   value  |-> IF tx[p].new = tx[p].value THEN contact[i].value ELSE tx[p].new,
   named  |-> IF (tx[p].new \in Named) = (i \in tx[p].named)
              THEN contact[i].named ELSE tx[p].new \in Named,
   source |-> tx[p].request]

\* A row that persist adds.
Collected(v) == [age |-> "fresh", value |-> v, named |-> v \in Named, source |-> NoRequest]

\* The contacts row i once the writes of p are committed.
After(p, i) ==
  IF i \in tx[p].del THEN NoContact
  ELSE IF i \in tx[p].upd THEN Rectified(p, i)
  ELSE IF \E v \in Values : <<i, v>> \in tx[p].ins
  THEN Collected(CHOOSE v \in Values : <<i, v>> \in tx[p].ins)
  ELSE contact[i]

commit(p) ==
  /\ pc[p] = "commit"
  /\ contact' = [i \in Ids |-> After(p, i)]
  /\ older' = {e \in older : ~HoldsRow(p, e[1]) /\ ~HoldsRow(p, e[2])}
  /\ supp' = IF tx[p].entry THEN supp \cup {Entry(p)} ELSE supp
  /\ request' = [r \in Requests |->
                   IF HoldsRequest(p, r) THEN [kind |-> tx[p].op, value |-> tx[p].value]
                   ELSE request[r]]
  /\ End(p)
  /\ UNCHANGED <<policy, crashes>>

\* The connection, the process or the caller fails before the commit.
crash(p) ==
  /\ pc[p] # "idle"
  /\ crashes < MaxCrashes
  /\ crashes' = crashes + 1
  /\ End(p)
  /\ UNCHANGED tables

\* The server breaks a cycle of two or of three waiting transactions.
deadlock_victim(p) ==
  /\ \E q \in Procs :
       /\ WaitsFor(p, q)
       /\ WaitsFor(q, p) \/ \E r \in Procs : WaitsFor(q, r) /\ WaitsFor(r, p)
  /\ Rollback(p)

\* expires_at of row i passes.
expire(i) ==
  /\ i \in Expiring
  /\ contact[i].age = "fresh"
  /\ contact' = [contact EXCEPT ![i].age = "expired"]
  /\ older' = older \cup {<<j, i>> : j \in Expired}
  /\ UNCHANGED <<supp, request, policy, pc, tx, crashes>>

\* The batches of contacts persist can be given.
Batches == {b \in SUBSET (Unused \X Values) :
              /\ b # {} /\ Cardinality(b) <= MaxBatch
              /\ \A c, d \in b : c[1] = d[1] => c = d}

\* A call begins.
Request(p) ==
  \/ \E b \in Batches : persist(p, b)
  \/ \E s \in Scopes, v \in Values : suppress(p, s, v)
  \/ \E k \in Kinds \cap {"erasure", "opposition"}, r \in Requests, s \in Scopes,
        v \in Values : erase_and_suppress(p, k, r, s, v)
  \/ "access" \in Kinds /\ \E r \in Requests, v \in Values : record_access(p, r, v)
  \/ "rectification" \in Kinds
     /\ \E r \in Requests, v, new \in Values : rectify(p, r, v, new)
  \/ export(p)

\* A call goes on, or fails.
Work(p) ==
  \/ \E c \in tx[p].todo : persist_check(p, c) \/ persist_skip(p, c)
  \/ erase_select(p) \/ \E i \in Ids : delete_row(p, i)
  \/ suppress_lookup(p) \/ suppress_insert(p) \/ suppress_duplicate(p)
  \/ rectify_select(p) \/ read_policy(p)
  \/ request_insert(p) \/ request_duplicate(p)
  \/ rectify_check(p) \/ rectify_refused(p)
  \/ \E i \in Ids : rectify_flush(p, i) \/ rectify_stale(p, i)
  \/ export_select(p)
  \/ \E x \in tx[p].seen : export_check(p, x) \/ export_blocked(p, x)
  \/ commit(p)
  \/ deadlock_victim(p)

Retention(w) == \E rows \in SUBSET Ids : run_retention_batch(w, rows)

Next ==
  \/ \E p \in Clients : Request(p)
  \/ \E w \in Workers : Retention(w)
  \/ \E p \in Procs : Work(p) \/ crash(p)
  \/ \E allows \in BOOLEAN : put_policy(allows)
  \/ \E i \in Ids : expire(i)

Spec == Init /\ [][Next]_vars

\* A transaction that can go on does: requests run on server threads, and a lock
\* that is released goes to the one who waited first, so that nobody who takes
\* and releases it again and again keeps a waiting transaction out.  The scheduler
\* starts retention again and again.
Fairness == /\ \A p \in Procs : SF_vars(Work(p))
            /\ \A w \in Workers : WF_vars(Retention(w))

FairSpec == Spec /\ Fairness

-----------------------------------------------------------------------------
(* Properties *)

Done == {"rectification", "erasure", "opposition"}

\* The value of a completed erasure, opposition or rectification is suppressed:
\* neither a duplicate entry, nor a failure between the statements, leaves a
\* completed request behind without its suppression.
RequestSuppresses ==
  \A r \in Requests :
    request[r].kind \in Done => \E s \in {"workspace", "global"} : <<s, request[r].value>> \in supp

\* Export never returns a value that was suppressed, in either scope, when it
\* read the contacts.
ExportHonoursSuppression == \A p \in Procs : tx[p].out \cap tx[p].barred = {}

\* The rows an export deletes are expired, also when a rectification renewed one
\* of them while the DELETE waited for it.
ExportDeletesOnlyExpired ==
  \A p \in Procs : tx[p].op = "export" => \A i \in tx[p].del : contact[i].age = "expired"

\* A request id is used once: the request recorded under it never changes, even if
\* two calls with the same id and different parameters run at the same time.
RequestRecordedOnce ==
  [][\A r \in Requests : request[r].kind # "none" => request'[r] = request[r]]_vars

\* When an erasure or an opposition is recorded as completed, none of the rows it
\* selected is stored, whatever the transactions that had them locked did.
SubjectErased ==
  [][\A r \in Requests, p \in Procs :
       /\ request[r].kind = "none"
       /\ request'[r].kind \in {"erasure", "opposition"}
       /\ HoldsRequest(p, r)
       => \A i \in tx[p].found : contact'[i].age = "none"]_vars

\* Every call returns: no transaction waits for ever, as locks are released at the
\* end of others and cycles are broken.
TransactionsEnd == \A p \in Procs : pc[p] # "idle" ~> pc[p] = "idle"

\* An expired contact is deleted (or renewed by a rectification): the bounded
\* batches of the retention worker reach every row.
ExpiredDeleted == \A i \in Ids : contact[i].age = "expired" ~> contact[i].age # "expired"

\* Suppression blocks reacquisition: no step stores a contact with a new value
\* that is suppressed.
ReacquisitionBlocked ==
  [][\A i \in Ids : contact'[i].value \notin {contact[i].value, NoValue}
                    => ~is_suppressed(contact'[i].value)]_vars

\* Named contacts are exported only under a policy that admits them.
NamedExportNeedsPolicy ==
  \A p \in Procs : tx[p].out \cap Named # {} => tx[p].policy
=============================================================================
