----------------------- MODULE PrivacyContacts_proofs -----------------------
(***************************************************************************)
(* Theorems of PrivacyContacts, for any number of clients, workers,        *)
(* contacts, values and requests.                                          *)
(*                                                                         *)
(* The inductive invariant IInv says what each call may rely on between    *)
(* its statements (CallOK) and what keeps the calls of two processes apart *)
(* (Apart: locks exclude one another, and primary keys are fresh).  A      *)
(* statement changes one call and no table (LocalStep), so that it only    *)
(* has to re-establish the conditions of that call.                        *)
(*                                                                         *)
(* The last part carries the theorems over to RetentionService, whose      *)
(* steps are those of PrivacyContacts and failures that write nothing      *)
(* (ServiceStep).                                                          *)
(***************************************************************************)
EXTENDS RetentionService, TLAPS

Sup(t) == t.entry \/ <<t.scope, t.value>> \in supp

Erasing == {"erasure", "opposition"}
Subject == Erasing \cup {"suppress", "rectification"}

\* The operation a call belongs to tells which of its arguments are set.
ArgsOK(s, t) ==
  /\ t.op \in Subject => t.value \in Values
  /\ t.op = "rectification" => t.new \in Values
  /\ t.upd # {} => t.op = "rectification"
  /\ t.entry => t.op \in Subject
  /\ s \in {"suppress_lookup", "suppress_insert"} => t.op \in Subject
  /\ s = "delete_rows" => t.op \in Erasing \cup {"export", "retention"}
  /\ s \in {"rectify_select", "rectify_check"} => t.op = "rectification"
  /\ s = "request_insert" => t.op \in Erasing \cup {"access", "rectification"}
  /\ t.log => t.op \in Erasing \cup {"access", "rectification"}

\* Which operation a call at a statement belongs to, and what it has done.
StepOK(s, t) ==
  /\ s = "persist_check" => t.op = "persist"
  /\ s \in {"export_select", "export_check"} => t.op = "export"
  /\ s = "read_policy" => t.op \in {"export", "rectification"}
  /\ s = "rectify_flush" => t.op = "rectification"
  /\ s = "erase_select" => t.op \in Erasing
  /\ s \in {"suppress_lookup", "suppress_insert", "request_insert", "commit"}
     => (t.op \in Erasing => t.ids = {})
  /\ s = "commit" => (t.op \in Done => Sup(t))
  /\ s = "request_insert" => (t.op \in Erasing => Sup(t))
  /\ s = "rectify_flush" => (~t.absent => Sup(t))
  /\ t.out # {} => s \in {"export_check", "commit"}
  /\ t.op # "persist" => t.todo = {} /\ t.ins = {}

\* What a call knows of the rows.
RowsOK(t) ==
  /\ \A i \in t.del \cup t.upd : Stored(i)
  /\ t.op = "export" => \A i \in t.del : contact[i].age = "expired"
  /\ \A i \in Ids, v \in Values : <<i, v>> \in t.todo \cup t.ins => ~Stored(i)
  /\ t.op \in Erasing => \A i \in t.found \ t.ids : i \in t.del \/ ~Stored(i)
  /\ \A r \in Requests : t.log /\ t.request = r => request[r].kind = "none"

\* What an export knows of the suppression list.
ExportOK(t) ==
  /\ t.out \cap t.barred = {}
  /\ \A v \in t.barred : is_suppressed(v)

CallOK(s, t) ==
  s \in Steps /\ t \in Call /\ ArgsOK(s, t) /\ StepOK(s, t) /\ RowsOK(t) /\ ExportOK(t)

\* Row i is a new row of call t.
Adds(t, i) == \E v \in Values : <<i, v>> \in t.todo \cup t.ins

Apart(t, u) ==
  /\ (t.del \cup t.upd) \cap (u.del \cup u.upd) = {}
  /\ t.log /\ u.log => t.request # u.request
  /\ \A i \in Ids : ~(Adds(t, i) /\ Adds(u, i))
  /\ \A i \in Ids : Adds(t, i) => i \notin u.found
  /\ \A i \in Ids : Adds(u, i) => i \notin t.found

TablesOK ==
  /\ contact \in [Ids -> ContactRow]
  /\ \A i \in Ids : Stored(i) => contact[i].value \in Values
  /\ older \subseteq Ids \X Ids
  /\ supp \subseteq {"workspace", "global"} \X Values
  /\ request \in [Requests -> RequestRow]
  /\ policy \in BOOLEAN
  /\ crashes \in 0..MaxCrashes
  /\ RequestSuppresses

CallsOK ==
  /\ pc \in [Procs -> Steps]
  /\ tx \in [Procs -> Call]
  /\ \A p \in Procs : CallOK(pc[p], tx[p])
  /\ \A p, q \in Procs : p # q => Apart(tx[p], tx[q])

IInv == TablesOK /\ CallsOK

-----------------------------------------------------------------------------

\* A call that has not begun is as it should be, and apart from every other.
LEMMA NoCallOK ==
  /\ NoCall \in Call
  /\ CallOK("idle", NoCall)
  /\ \A t \in Call : Apart(NoCall, t)
<1>1. NoCall \in Call
  BY DEF NoCall, Call
<1>2. CallOK("idle", NoCall)
  BY <1>1 DEF CallOK, ArgsOK, StepOK, RowsOK, ExportOK, NoCall, Steps, Erasing, Done, Subject
<1>3. \A t \in Call : Apart(NoCall, t)
  BY DEF Apart, Adds, NoCall
<1> QED BY <1>1, <1>2, <1>3

\* Apart does not depend on the order of the two calls.
LEMMA ApartSymmetric == \A t, u : Apart(t, u) => Apart(u, t)
BY DEF Apart

\* A step that changes the call of one process and no table preserves IInv if the
\* new call is as it should be and apart from the others.
LEMMA LocalStep ==
  ASSUME IInv, NEW p \in Procs, NEW s, NEW t,
         CallOK(s, t), \A q \in Procs \ {p} : Apart(t, tx[q]),
         pc' = [pc EXCEPT ![p] = s], tx' = [tx EXCEPT ![p] = t],
         UNCHANGED tables, crashes' \in 0..MaxCrashes
  PROVE  IInv'
<1>1. TablesOK'
  BY DEF IInv, TablesOK, tables, RequestSuppresses, Stored
<1>2. s \in Steps /\ t \in Call
  BY DEF CallOK
<1>3. pc' \in [Procs -> Steps] /\ tx' \in [Procs -> Call]
  BY <1>2 DEF IInv, CallsOK
<1>4. /\ pc'[p] = s /\ tx'[p] = t
      /\ \A q \in Procs \ {p} : pc'[q] = pc[q] /\ tx'[q] = tx[q]
  BY DEF IInv, CallsOK
<1>5. ASSUME NEW q \in Procs PROVE CallOK(pc[q], tx[q])'
  <2>1. ASSUME NEW a, NEW u, CallOK(a, u) PROVE CallOK(a, u)'
    BY <2>1 DEF CallOK, ArgsOK, StepOK, RowsOK, ExportOK, Sup, Stored, is_suppressed, tables
  <2>2. CASE q = p
    BY <2>1, <2>2, <1>4
  <2>3. CASE q # p
    <3>1. CallOK(pc[q], tx[q])
      BY DEF IInv, CallsOK
    <3> QED BY <3>1, <2>1, <2>3, <1>4
  <2> QED BY <2>2, <2>3
<1>6. ASSUME NEW q \in Procs, NEW r \in Procs, q # r PROVE Apart(tx[q], tx[r])'
  <2>1. Apart(tx'[q], tx'[r])
    BY <1>4, <1>6, ApartSymmetric DEF IInv, CallsOK
  <2> QED BY <2>1 DEF Apart, Adds
<1> QED BY <1>1, <1>3, <1>5, <1>6 DEF IInv, CallsOK

\* A statement and the start of a call are local steps.
LEMMA StepLocal ==
  ASSUME IInv, NEW p \in Procs, NEW from, NEW to, NEW t,
         Step(p, from, to, t) \/ Start(p, t, to),
         CallOK(to, t), \A q \in Procs \ {p} : Apart(t, tx[q])
  PROVE  IInv'
<1>1. /\ pc' = [pc EXCEPT ![p] = to] /\ tx' = [tx EXCEPT ![p] = t]
      /\ UNCHANGED tables /\ crashes' = crashes
  BY DEF Step, Start
<1>2. crashes' \in 0..MaxCrashes
  BY <1>1 DEF IInv, TablesOK
<1> QED BY <1>1, <1>2, LocalStep

\* So is a rollback.
LEMMA EndLocal ==
  ASSUME IInv, NEW p \in Procs, End(p), UNCHANGED tables, crashes' \in 0..MaxCrashes
  PROVE  IInv'
<1>1. \A q \in Procs \ {p} : Apart(NoCall, tx[q])
  BY NoCallOK DEF IInv, CallsOK
<1> QED BY <1>1, NoCallOK, LocalStep DEF End

\* A rollback for a reason inside the call is one too.
LEMMA RollbackLocal ==
  ASSUME IInv, NEW p \in Procs, Rollback(p)
  PROVE  IInv'
BY EndLocal DEF Rollback, IInv, TablesOK

\* A field of a call is given a value of its type.
LEMMA FieldTypes ==
  ASSUME NEW t \in Call
  PROVE  /\ \A x \in {"none", "persist", "suppress", "access", "rectification", "erasure",
                "opposition", "export", "retention"} : [t EXCEPT !.op = x] \in Call
         /\ \A x \in Values \cup {NoValue} : [t EXCEPT !.value = x] \in Call
         /\ \A x \in Values \cup {NoValue} : [t EXCEPT !.new = x] \in Call
         /\ \A x \in {"workspace", "global"} : [t EXCEPT !.scope = x] \in Call
         /\ \A x \in Requests \cup {NoRequest} : [t EXCEPT !.request = x] \in Call
         /\ \A x \in SUBSET (Ids \X Values) : [t EXCEPT !.todo = x] \in Call
         /\ \A x \in BOOLEAN : [t EXCEPT !.policy = x] \in Call
         /\ \A x \in SUBSET Ids : [t EXCEPT !.found = x] \in Call
         /\ \A x \in SUBSET Ids : [t EXCEPT !.named = x] \in Call
         /\ \A x \in BOOLEAN : [t EXCEPT !.again = x] \in Call
         /\ \A x \in SUBSET Ids : [t EXCEPT !.ids = x] \in Call
         /\ \A x \in SUBSET (Values \X BOOLEAN) : [t EXCEPT !.seen = x] \in Call
         /\ \A x \in BOOLEAN : [t EXCEPT !.absent = x] \in Call
         /\ \A x \in SUBSET (Ids \X Values) : [t EXCEPT !.ins = x] \in Call
         /\ \A x \in SUBSET Ids : [t EXCEPT !.del = x] \in Call
         /\ \A x \in SUBSET Ids : [t EXCEPT !.upd = x] \in Call
         /\ \A x \in BOOLEAN : [t EXCEPT !.entry = x] \in Call
         /\ \A x \in BOOLEAN : [t EXCEPT !.log = x] \in Call
         /\ \A x \in SUBSET Values : [t EXCEPT !.out = x] \in Call
         /\ \A x \in SUBSET Values : [t EXCEPT !.barred = x] \in Call
<1>1. \A x \in {"none", "persist", "suppress", "access", "rectification", "erasure", "opposition", "export", "retention"} : [t EXCEPT !.op = x] \in Call
  BY DEF Call
<1>2. \A x \in Values \cup {NoValue} : [t EXCEPT !.value = x] \in Call
  BY DEF Call
<1>3. \A x \in Values \cup {NoValue} : [t EXCEPT !.new = x] \in Call
  BY DEF Call
<1>4. \A x \in {"workspace", "global"} : [t EXCEPT !.scope = x] \in Call
  BY DEF Call
<1>5. \A x \in Requests \cup {NoRequest} : [t EXCEPT !.request = x] \in Call
  BY DEF Call
<1>6. \A x \in SUBSET (Ids \X Values) : [t EXCEPT !.todo = x] \in Call
  BY DEF Call
<1>7. \A x \in BOOLEAN : [t EXCEPT !.policy = x] \in Call
  BY DEF Call
<1>8. \A x \in SUBSET Ids : [t EXCEPT !.found = x] \in Call
  BY DEF Call
<1>9. \A x \in SUBSET Ids : [t EXCEPT !.named = x] \in Call
  BY DEF Call
<1>10. \A x \in BOOLEAN : [t EXCEPT !.again = x] \in Call
  BY DEF Call
<1>11. \A x \in SUBSET Ids : [t EXCEPT !.ids = x] \in Call
  BY DEF Call
<1>12. \A x \in SUBSET (Values \X BOOLEAN) : [t EXCEPT !.seen = x] \in Call
  BY DEF Call
<1>13. \A x \in BOOLEAN : [t EXCEPT !.absent = x] \in Call
  BY DEF Call
<1>14. \A x \in SUBSET (Ids \X Values) : [t EXCEPT !.ins = x] \in Call
  BY DEF Call
<1>15. \A x \in SUBSET Ids : [t EXCEPT !.del = x] \in Call
  BY DEF Call
<1>16. \A x \in SUBSET Ids : [t EXCEPT !.upd = x] \in Call
  BY DEF Call
<1>17. \A x \in BOOLEAN : [t EXCEPT !.entry = x] \in Call
  BY DEF Call
<1>18. \A x \in BOOLEAN : [t EXCEPT !.log = x] \in Call
  BY DEF Call
<1>19. \A x \in SUBSET Values : [t EXCEPT !.out = x] \in Call
  BY DEF Call
<1>20. \A x \in SUBSET Values : [t EXCEPT !.barred = x] \in Call
  BY DEF Call
<1> QED BY <1>1, <1>2, <1>3, <1>4, <1>5, <1>6, <1>7, <1>8, <1>9, <1>10, <1>11, <1>12, <1>13, <1>14, <1>15, <1>16, <1>17, <1>18, <1>19, <1>20

\* What is known of the call of a process.
LEMMA Known ==
  ASSUME IInv, NEW p \in Procs
  PROVE  /\ tx[p] \in Call /\ pc[p] \in Steps
         /\ ArgsOK(pc[p], tx[p]) /\ StepOK(pc[p], tx[p])
         /\ RowsOK(tx[p]) /\ ExportOK(tx[p])
         /\ \A q \in Procs \ {p} : Apart(tx[p], tx[q]) /\ tx[q] \in Call
BY DEF IInv, CallsOK, CallOK

-----------------------------------------------------------------------------
(* One lemma per group of actions *)

USE DEF Erasing, Done, Subject

\* persist starts with keys nobody knows, and goes through its contacts.
LEMMA PersistOK ==
  ASSUME IInv, NEW p \in Procs,
         \/ \E b \in Batches : persist(p, b)
         \/ \E c \in tx[p].todo : persist_check(p, c) \/ persist_skip(p, c)
  PROVE  IInv'
<1>1. ASSUME NEW b \in Batches, persist(p, b) PROVE IInv'
  <2> DEFINE t == [NoCall EXCEPT !.op = "persist", !.todo = b, !.policy = policy]
  <2>1. b \subseteq Ids \X Values
    BY DEF Batches, Unused
  <2>2. policy \in BOOLEAN
    BY DEF IInv, TablesOK
  <2>3. t \in Call
    <3>1. [NoCall EXCEPT !.op = "persist"] \in Call
      BY NoCallOK, FieldTypes
    <3>2. [NoCall EXCEPT !.op = "persist", !.todo = b] \in Call
      BY <3>1, <2>1, FieldTypes
    <3> QED BY <3>2, <2>2, FieldTypes
  <2>4. \A i \in Ids : Adds(t, i) => i \in Unused
    <3>1. t.todo = b /\ t.ins = {}
      BY DEF NoCall
    <3>2. \A i \in Ids, v \in Values : <<i, v>> \in b => i \in Unused
      BY <1>1 DEF persist
    <3> QED BY <3>1, <3>2 DEF Adds
  <2>5. CallOK("persist_check", t)
    BY <2>3, <2>4 DEF CallOK, ArgsOK, StepOK, RowsOK, ExportOK, NoCall, Steps, Unused, Adds
  <2>6. ASSUME NEW q \in Procs \ {p} PROVE Apart(t, tx[q])
    BY <2>4, <2>6 DEF Apart, Adds, Unused, NoCall
  <2> QED BY <1>1, <2>5, <2>6, StepLocal DEF persist
<1>2. ASSUME NEW c \in tx[p].todo, persist_check(p, c) \/ persist_skip(p, c)
      PROVE  IInv'
  <2> DEFINE left == tx[p].todo \ {c}
             added == [tx[p] EXCEPT !.todo = left, !.ins = @ \cup {c}]
             skipped == [tx[p] EXCEPT !.todo = left]
  <2>1. /\ tx[p] \in Call /\ pc[p] = "persist_check"
        /\ ArgsOK(pc[p], tx[p]) /\ StepOK(pc[p], tx[p])
      /\ RowsOK(tx[p]) /\ ExportOK(tx[p])
    BY <1>2, Known DEF persist_check, persist_skip, Step
  <2>2. added \in Call /\ skipped \in Call /\ AfterCheck(left) \in Steps
    <3>1. tx[p].todo \in SUBSET (Ids \X Values) /\ tx[p].ins \in SUBSET (Ids \X Values)
      BY <2>1 DEF Call
    <3>2. left \in SUBSET (Ids \X Values) /\ tx[p].ins \cup {c} \in SUBSET (Ids \X Values)
      BY <3>1
    <3>3. skipped \in Call
      BY <2>1, <3>2, FieldTypes
    <3>4. added \in Call
      BY <3>3, <3>2, FieldTypes
    <3> QED BY <3>3, <3>4 DEF AfterCheck, Steps
  <2>7. \A i \in Ids, v \in Values :
          /\ <<i, v>> \in added.todo \cup added.ins => <<i, v>> \in tx[p].todo \cup tx[p].ins
          /\ <<i, v>> \in skipped.todo \cup skipped.ins => <<i, v>> \in tx[p].todo \cup tx[p].ins
    BY <2>1 DEF Call
  <2>8. /\ ArgsOK(AfterCheck(left), added) /\ StepOK(AfterCheck(left), added)
        /\ ArgsOK(AfterCheck(left), skipped) /\ StepOK(AfterCheck(left), skipped)
    BY <2>1 DEF ArgsOK, StepOK, AfterCheck, Call
  <2>9. RowsOK(added) /\ RowsOK(skipped) /\ ExportOK(added) /\ ExportOK(skipped)
    BY <2>1, <2>7 DEF RowsOK, ExportOK, StepOK, Call
  <2>3. CallOK(AfterCheck(left), added) /\ CallOK(AfterCheck(left), skipped)
    BY <2>2, <2>8, <2>9 DEF CallOK
  <2>4. ASSUME NEW q \in Procs \ {p} PROVE Apart(added, tx[q]) /\ Apart(skipped, tx[q])
    <3>1. Apart(tx[p], tx[q])
      BY Known
    <3>2. \A i \in Ids : /\ Adds(added, i) => Adds(tx[p], i)
                         /\ Adds(skipped, i) => Adds(tx[p], i)
      BY <2>7 DEF Adds
    <3>3. /\ added.del = tx[p].del /\ added.upd = tx[p].upd /\ added.log = tx[p].log
          /\ added.request = tx[p].request /\ added.found = tx[p].found
          /\ skipped.del = tx[p].del /\ skipped.upd = tx[p].upd /\ skipped.log = tx[p].log
          /\ skipped.request = tx[p].request /\ skipped.found = tx[p].found
      BY <2>1 DEF Call
    <3> HIDE DEF added, skipped
    <3> QED BY <3>1, <3>2, <3>3 DEF Apart
  <2>5. CASE persist_check(p, c)
    BY <2>3, <2>4, <2>5, StepLocal DEF persist_check
  <2>6. CASE persist_skip(p, c)
    BY <2>3, <2>4, <2>6, StepLocal DEF persist_skip
  <2> QED BY <1>2, <2>5, <2>6
<1> QED BY <1>1, <1>2

\* A call that has written and selected nothing.
LEMMA FreshCall ==
  ASSUME NEW t \in Call, t.del = {}, t.upd = {}, t.log = FALSE, t.todo = {},
         t.ins = {}, t.found = {}, t.out = {}, t.barred = {}
  PROVE  RowsOK(t) /\ ExportOK(t) /\ \A u \in Call : Apart(t, u)
BY DEF RowsOK, ExportOK, Apart, Adds

\* suppress starts with a call that has written nothing.
LEMMA SuppressStarts ==
  ASSUME IInv, NEW p \in Procs, NEW s \in Scopes, NEW v \in Values, suppress(p, s, v)
  PROVE  IInv'
<1> DEFINE t == [NoCall EXCEPT !.op = "suppress", !.scope = s, !.value = v]
<1>1. s \in {"workspace", "global"}
  BY KindsAssumption
<1>2. t \in Call
  <2>1. [NoCall EXCEPT !.op = "suppress"] \in Call
    BY NoCallOK, FieldTypes
  <2>2. [NoCall EXCEPT !.op = "suppress", !.scope = s] \in Call
    BY <2>1, <1>1, FieldTypes
  <2> QED BY <2>2, FieldTypes
<1>3. /\ t.del = {} /\ t.upd = {} /\ t.log = FALSE /\ t.todo = {} /\ t.ins = {}
      /\ t.found = {} /\ t.out = {} /\ t.barred = {} /\ t.op = "suppress"
      /\ t.value = v /\ t.entry = FALSE
  BY DEF NoCall
<1>4. ArgsOK("suppress_lookup", t) /\ StepOK("suppress_lookup", t)
  BY <1>3 DEF ArgsOK, StepOK
<1>5. CallOK("suppress_lookup", t)
  BY <1>2, <1>3, <1>4, FreshCall DEF CallOK, Steps
<1>6. \A q \in Procs \ {p} : Apart(t, tx[q])
  BY <1>2, <1>3, FreshCall, Known
<1> QED BY <1>5, <1>6, StepLocal DEF suppress

\* So does erase_and_suppress.
LEMMA EraseStarts ==
  ASSUME IInv, NEW p \in Procs, NEW k \in {"erasure", "opposition"},
         NEW r \in Requests, NEW s \in Scopes, NEW v \in Values,
         erase_and_suppress(p, k, r, s, v)
  PROVE  IInv'
<1> DEFINE t == [NoCall EXCEPT !.op = k, !.request = r, !.scope = s, !.value = v]
<1>1. s \in {"workspace", "global"}
  BY KindsAssumption
<1>2. t \in Call
  <2>1. [NoCall EXCEPT !.op = k] \in Call
    BY NoCallOK, FieldTypes
  <2>2. [NoCall EXCEPT !.op = k, !.request = r] \in Call
    BY <2>1, FieldTypes
  <2>3. [NoCall EXCEPT !.op = k, !.request = r, !.scope = s] \in Call
    BY <2>2, <1>1, FieldTypes
  <2> QED BY <2>3, FieldTypes
<1>3. /\ t.del = {} /\ t.upd = {} /\ t.log = FALSE /\ t.todo = {} /\ t.ins = {}
      /\ t.found = {} /\ t.out = {} /\ t.barred = {} /\ t.op = k
      /\ t.value = v /\ t.entry = FALSE
  BY DEF NoCall
<1>4. ArgsOK("erase_select", t) /\ StepOK("erase_select", t)
  BY <1>3 DEF ArgsOK, StepOK
<1>5. CallOK("erase_select", t)
  BY <1>2, <1>3, <1>4, FreshCall DEF CallOK, Steps
<1>6. \A q \in Procs \ {p} : Apart(t, tx[q])
  BY <1>2, <1>3, FreshCall, Known
<1> QED BY <1>5, <1>6, StepLocal DEF erase_and_suppress

\* So does record_access.
LEMMA AccessStarts ==
  ASSUME IInv, NEW p \in Procs, NEW r \in Requests, NEW v \in Values,
         record_access(p, r, v)
  PROVE  IInv'
<1> DEFINE t == [NoCall EXCEPT !.op = "access", !.request = r, !.value = v]
<1>2. t \in Call
  <2>1. [NoCall EXCEPT !.op = "access"] \in Call
    BY NoCallOK, FieldTypes
  <2>2. [NoCall EXCEPT !.op = "access", !.request = r] \in Call
    BY <2>1, FieldTypes
  <2> QED BY <2>2, FieldTypes
<1>3. /\ t.del = {} /\ t.upd = {} /\ t.log = FALSE /\ t.todo = {} /\ t.ins = {}
      /\ t.found = {} /\ t.out = {} /\ t.barred = {} /\ t.op = "access"
      /\ t.value = v /\ t.entry = FALSE
  BY DEF NoCall
<1>4. ArgsOK("request_insert", t) /\ StepOK("request_insert", t)
  BY <1>3 DEF ArgsOK, StepOK
<1>5. CallOK("request_insert", t)
  BY <1>2, <1>3, <1>4, FreshCall DEF CallOK, Steps
<1>6. \A q \in Procs \ {p} : Apart(t, tx[q])
  BY <1>2, <1>3, FreshCall, Known
<1> QED BY <1>5, <1>6, StepLocal DEF record_access

\* So does rectify.
LEMMA RectifyStarts ==
  ASSUME IInv, NEW p \in Procs, NEW r \in Requests, NEW v \in Values, NEW w \in Values,
         rectify(p, r, v, w)
  PROVE  IInv'
<1> DEFINE t == [NoCall EXCEPT !.op = "rectification", !.request = r, !.value = v,
                               !.new = w]
<1>2. t \in Call
  <2>1. [NoCall EXCEPT !.op = "rectification"] \in Call
    BY NoCallOK, FieldTypes
  <2>2. [NoCall EXCEPT !.op = "rectification", !.request = r] \in Call
    BY <2>1, FieldTypes
  <2>3. [NoCall EXCEPT !.op = "rectification", !.request = r, !.value = v] \in Call
    BY <2>2, FieldTypes
  <2> QED BY <2>3, FieldTypes
<1>3. /\ t.del = {} /\ t.upd = {} /\ t.log = FALSE /\ t.todo = {} /\ t.ins = {}
      /\ t.found = {} /\ t.out = {} /\ t.barred = {} /\ t.op = "rectification"
      /\ t.value = v /\ t.new = w /\ t.entry = FALSE
  BY DEF NoCall
<1>4. ArgsOK("rectify_select", t) /\ StepOK("rectify_select", t)
  BY <1>3 DEF ArgsOK, StepOK
<1>5. CallOK("rectify_select", t)
  BY <1>2, <1>3, <1>4, FreshCall DEF CallOK, Steps
<1>6. \A q \in Procs \ {p} : Apart(t, tx[q])
  BY <1>2, <1>3, FreshCall, Known
<1> QED BY <1>5, <1>6, StepLocal DEF rectify

\* A call that begins with a DELETE or a SELECT of stored rows.
LEMMA SelectStarts ==
  ASSUME IInv, NEW p \in Procs, NEW k \in {"export", "retention"}, NEW rows \in SUBSET Ids,
         \A i \in rows : Stored(i), NEW to \in Steps,
         to \in {"export_select", "delete_rows"}, to = "export_select" => k = "export",
         Start(p, [NoCall EXCEPT !.op = k, !.found = rows, !.ids = rows], to)
  PROVE  IInv'
<1> DEFINE t == [NoCall EXCEPT !.op = k, !.found = rows, !.ids = rows]
<1>1. t \in Call
  <2>1. [NoCall EXCEPT !.op = k] \in Call
    BY NoCallOK, FieldTypes
  <2>2. [NoCall EXCEPT !.op = k, !.found = rows] \in Call
    BY <2>1, FieldTypes
  <2> QED BY <2>2, FieldTypes
<1>2. /\ t.del = {} /\ t.upd = {} /\ t.log = FALSE /\ t.todo = {} /\ t.ins = {}
      /\ t.found = rows /\ t.out = {} /\ t.barred = {} /\ t.op = k
      /\ t.entry = FALSE
  BY DEF NoCall
<1>3. CallOK(to, t)
  BY <1>1, <1>2 DEF CallOK, ArgsOK, StepOK, RowsOK, ExportOK
<1>4. ASSUME NEW q \in Procs \ {p} PROVE Apart(t, tx[q])
  <2>1. \A i \in Ids : Adds(tx[q], i) => ~Stored(i)
    BY Known DEF RowsOK, Adds
  <2> HIDE DEF t
  <2> QED BY <2>1, <1>2 DEF Apart, Adds
<1> QED BY <1>3, <1>4, StepLocal

\* export starts with a DELETE over the expired rows.
LEMMA ExportStarts ==
  ASSUME IInv, NEW p \in Procs, export(p)
  PROVE  IInv'
<1>1. Expired \in SUBSET Ids /\ \A i \in Expired : Stored(i)
  BY DEF Expired, Stored
<1>2. /\ AfterDelete("export", Expired) \in Steps
      /\ AfterDelete("export", Expired) \in {"export_select", "delete_rows"}
  BY DEF AfterDelete, Steps
<1> QED BY <1>1, <1>2, SelectStarts DEF export

\* Retention starts with the rows of its batch.
LEMMA RetentionStarts ==
  ASSUME IInv, NEW p \in Procs, Retention(p)
  PROVE  IInv'
<1>1. PICK rows \in SUBSET Ids : run_retention_batch(p, rows)
  BY DEF Retention
<1>2. \A i \in rows : Stored(i)
  BY <1>1 DEF run_retention_batch, Oldest, Expired, Stored
<1>3. "delete_rows" \in Steps
  BY DEF Steps
<1> QED BY <1>1, <1>2, <1>3, SelectStarts DEF run_retention_batch

\* A statement that reads, or inserts a suppression entry, changes nothing that
\* the rows and the other processes depend on.
LEMMA KeepsWrites ==
  ASSUME IInv, NEW p \in Procs, NEW t \in Call, t.op = tx[p].op,
         t.del = tx[p].del, t.upd = tx[p].upd, t.log = tx[p].log,
         t.request = tx[p].request, t.found = tx[p].found, t.ids = tx[p].ids,
         t.todo = tx[p].todo, t.ins = tx[p].ins
  PROVE  RowsOK(t) /\ \A q \in Procs \ {p} : Apart(t, tx[q])
BY Known DEF RowsOK, Apart, Adds

\* policies.get between two statements.
LEMMA ReadPolicyOK ==
  ASSUME IInv, NEW p \in Procs, read_policy(p)
  PROVE  IInv'
<1> DEFINE t == [tx[p] EXCEPT !.policy = policy]
           to == IF tx[p].op = "rectification" THEN "request_insert"
                 ELSE IF tx[p].seen = {} THEN "commit" ELSE "export_check"
<1>1. /\ tx[p] \in Call /\ pc[p] = "read_policy"
      /\ ArgsOK(pc[p], tx[p]) /\ StepOK(pc[p], tx[p]) /\ ExportOK(tx[p])
  BY Known DEF read_policy, Step
<1>2. t \in Call
  BY <1>1, FieldTypes DEF IInv, TablesOK
<1>3. /\ t.op = tx[p].op /\ t.del = tx[p].del /\ t.upd = tx[p].upd /\ t.log = tx[p].log
      /\ t.request = tx[p].request /\ t.found = tx[p].found /\ t.ids = tx[p].ids
      /\ t.todo = tx[p].todo /\ t.ins = tx[p].ins /\ t.out = tx[p].out
      /\ t.barred = tx[p].barred /\ t.value = tx[p].value /\ t.new = tx[p].new
      /\ t.entry = tx[p].entry /\ t.scope = tx[p].scope /\ t.absent = tx[p].absent
  BY <1>1 DEF Call
<1>4. ArgsOK(to, t) /\ StepOK(to, t) /\ ExportOK(t) /\ to \in Steps
  <2> HIDE DEF t
  <2> QED BY <1>1, <1>3 DEF ArgsOK, StepOK, ExportOK, Steps
<1>5. RowsOK(t) /\ \A q \in Procs \ {p} : Apart(t, tx[q])
  BY <1>2, <1>3, KeepsWrites
<1>6. CallOK(to, t)
  BY <1>2, <1>4, <1>5 DEF CallOK
<1>7. Step(p, "read_policy", to, t)
  BY DEF read_policy
<1> QED BY <1>5, <1>6, <1>7, StepLocal

\* A row that is deleted becomes locked, and a row that is gone stays gone.
LEMMA DeleteRowOK ==
  ASSUME IInv, NEW p \in Procs, NEW i \in Ids, delete_row(p, i)
  PROVE  IInv'
<1> DEFINE D == IF Doomed(p, i) THEN tx[p].del \cup {i} ELSE tx[p].del
           t == [tx[p] EXCEPT !.ids = @ \ {i}, !.del = D]
           to == AfterDelete(tx[p].op, tx[p].ids \ {i})
<1>1. /\ tx[p] \in Call /\ pc[p] = "delete_rows"
      /\ ArgsOK(pc[p], tx[p]) /\ StepOK(pc[p], tx[p])
      /\ RowsOK(tx[p]) /\ ExportOK(tx[p])
  BY Known DEF delete_row, Step
<1>2. t \in Call
  <2>1. tx[p].ids \ {i} \in SUBSET Ids /\ D \in SUBSET Ids
    BY <1>1 DEF Call
  <2>2. [tx[p] EXCEPT !.ids = @ \ {i}] \in Call
    BY <1>1, <2>1, FieldTypes
  <2> HIDE DEF D
  <2> QED BY <2>1, <2>2, FieldTypes
<1>3. /\ t.op = tx[p].op /\ t.del = D /\ t.upd = tx[p].upd /\ t.log = tx[p].log
      /\ t.request = tx[p].request /\ t.found = tx[p].found /\ t.ids = tx[p].ids \ {i}
      /\ t.todo = tx[p].todo /\ t.ins = tx[p].ins /\ t.out = tx[p].out
      /\ t.barred = tx[p].barred /\ t.value = tx[p].value /\ t.new = tx[p].new
      /\ t.entry = tx[p].entry /\ t.scope = tx[p].scope /\ t.absent = tx[p].absent
  BY <1>1 DEF Call
<1>4. ArgsOK(to, t) /\ StepOK(to, t) /\ ExportOK(t) /\ to \in Steps
  <2> HIDE DEF t, D
  <2> QED BY <1>1, <1>3 DEF ArgsOK, StepOK, ExportOK, Steps, AfterDelete, Call
<1>5. RowsOK(t)
  <2> HIDE DEF t
  <2> QED BY <1>1, <1>3 DEF RowsOK, Doomed
<1>6. ASSUME NEW q \in Procs \ {p} PROVE Apart(t, tx[q])
  <2>1. Apart(tx[p], tx[q]) /\ i \notin tx[q].del \cup tx[q].upd
    BY Known DEF delete_row, RowFree, HoldsRow
  <2>2. \A j \in Ids : Adds(t, j) <=> Adds(tx[p], j)
    BY <1>3 DEF Adds
  <2> HIDE DEF t
  <2> QED BY <2>1, <2>2, <1>3 DEF Apart
<1>7. CallOK(to, t)
  BY <1>2, <1>4, <1>5 DEF CallOK
<1>8. Step(p, "delete_rows", to, t)
  BY DEF delete_row
<1> QED BY <1>6, <1>7, <1>8, StepLocal

\* The lookup of the entry; what it found is remembered.
LEMMA SuppressLookupOK ==
  ASSUME IInv, NEW p \in Procs, suppress_lookup(p)
  PROVE  IInv'
<1> DEFINE t == [tx[p] EXCEPT !.absent = Entry(p) \notin supp]
<1>1. /\ tx[p] \in Call /\ pc[p] = "suppress_lookup"
      /\ ArgsOK(pc[p], tx[p]) /\ StepOK(pc[p], tx[p]) /\ ExportOK(tx[p])
  BY Known DEF suppress_lookup, Step
<1>2. t \in Call
  BY <1>1, FieldTypes
<1>3. /\ t.op = tx[p].op /\ t.del = tx[p].del /\ t.upd = tx[p].upd /\ t.log = tx[p].log
      /\ t.request = tx[p].request /\ t.found = tx[p].found /\ t.ids = tx[p].ids
      /\ t.todo = tx[p].todo /\ t.ins = tx[p].ins /\ t.out = tx[p].out
      /\ t.barred = tx[p].barred /\ t.scope = tx[p].scope /\ t.value = tx[p].value
      /\ t.new = tx[p].new /\ t.entry = tx[p].entry /\ t.absent = (Entry(p) \notin supp)
  BY <1>1 DEF Call
<1>4. t.absent \/ Sup(t)
  BY <1>3 DEF Sup, Entry
<1>5. ArgsOK(Flush(t), t) /\ StepOK(Flush(t), t) /\ ExportOK(t) /\ Flush(t) \in Steps
  <2> HIDE DEF t
  <2> QED BY <1>1, <1>3, <1>4 DEF ArgsOK, StepOK, ExportOK, Steps, Flush, AfterSuppress
<1>6. RowsOK(t) /\ \A q \in Procs \ {p} : Apart(t, tx[q])
  BY <1>2, <1>3, KeepsWrites
<1>7. CallOK(Flush(t), t)
  BY <1>2, <1>5, <1>6 DEF CallOK
<1>8. Step(p, "suppress_lookup", Flush(t), t)
  BY DEF suppress_lookup
<1> QED BY <1>6, <1>7, <1>8, StepLocal

\* The entry is inserted: the call may be recorded as completed.
LEMMA SuppressInsertOK ==
  ASSUME IInv, NEW p \in Procs, suppress_insert(p)
  PROVE  IInv'
<1> DEFINE t == [tx[p] EXCEPT !.entry = TRUE]
           to == AfterSuppress(tx[p])
<1>1. /\ tx[p] \in Call /\ pc[p] = "suppress_insert"
      /\ ArgsOK(pc[p], tx[p]) /\ StepOK(pc[p], tx[p]) /\ ExportOK(tx[p])
  BY Known DEF suppress_insert, Step
<1>2. t \in Call
  BY <1>1, FieldTypes
<1>3. /\ t.op = tx[p].op /\ t.del = tx[p].del /\ t.upd = tx[p].upd /\ t.log = tx[p].log
      /\ t.request = tx[p].request /\ t.found = tx[p].found /\ t.ids = tx[p].ids
      /\ t.todo = tx[p].todo /\ t.ins = tx[p].ins /\ t.out = tx[p].out
      /\ t.barred = tx[p].barred /\ t.value = tx[p].value /\ t.new = tx[p].new
      /\ t.entry = TRUE
  BY <1>1 DEF Call
<1>4. ArgsOK(to, t) /\ StepOK(to, t) /\ ExportOK(t) /\ to \in Steps
  <2> HIDE DEF t
  <2> QED BY <1>1, <1>3 DEF ArgsOK, StepOK, ExportOK, Steps, AfterSuppress, Sup
<1>5. RowsOK(t) /\ \A q \in Procs \ {p} : Apart(t, tx[q])
  BY <1>2, <1>3, KeepsWrites
<1>6. CallOK(to, t)
  BY <1>2, <1>4, <1>5 DEF CallOK
<1>7. Step(p, "suppress_insert", to, t)
  BY DEF suppress_insert
<1> QED BY <1>5, <1>6, <1>7, StepLocal

\* The rows an erasure selects are stored, so nobody is about to add them.
LEMMA EraseSelectOK ==
  ASSUME IInv, NEW p \in Procs, erase_select(p)
  PROVE  IInv'
<1> DEFINE H == Holding(tx[p].value)
           t == [tx[p] EXCEPT !.found = H, !.ids = H]
           to == AfterDelete(tx[p].op, H)
<1>1. /\ tx[p] \in Call /\ pc[p] = "erase_select"
      /\ ArgsOK(pc[p], tx[p]) /\ StepOK(pc[p], tx[p]) /\ RowsOK(tx[p]) /\ ExportOK(tx[p])
  BY Known DEF erase_select, Step
<1>9. H \in SUBSET Ids /\ \A i \in H : Stored(i)
  BY DEF Holding
<1> HIDE DEF H
<1>2. t \in Call
  <2>1. [tx[p] EXCEPT !.found = H] \in Call
    BY <1>1, <1>9, FieldTypes
  <2> QED BY <2>1, <1>9, FieldTypes
<1>3. /\ t.op = tx[p].op /\ t.value = tx[p].value /\ t.new = tx[p].new
      /\ t.scope = tx[p].scope /\ t.request = tx[p].request /\ t.todo = tx[p].todo
      /\ t.absent = tx[p].absent /\ t.ins = tx[p].ins /\ t.del = tx[p].del
      /\ t.upd = tx[p].upd /\ t.entry = tx[p].entry /\ t.log = tx[p].log
      /\ t.out = tx[p].out /\ t.barred = tx[p].barred /\ t.found = H /\ t.ids = H
  BY <1>1 DEF Call
<1>4. ArgsOK(to, t) /\ StepOK(to, t) /\ ExportOK(t) /\ to \in Steps
  <2> HIDE DEF t
  <2> QED BY <1>1, <1>3 DEF ArgsOK, StepOK, ExportOK, Steps, AfterDelete
<1>5. RowsOK(t)
  <2> HIDE DEF t
  <2> QED BY <1>1, <1>3 DEF RowsOK
<1>6. ASSUME NEW q \in Procs \ {p} PROVE Apart(t, tx[q])
  <2>1. Apart(tx[p], tx[q]) /\ \A j \in Ids : Adds(tx[q], j) => ~Stored(j)
    BY Known DEF RowsOK, Adds
  <2>2. \A j \in Ids : Adds(t, j) <=> Adds(tx[p], j)
    BY <1>3 DEF Adds
  <2> HIDE DEF t
  <2> QED BY <2>1, <2>2, <1>3, <1>9 DEF Apart
<1>7. CallOK(to, t)
  BY <1>2, <1>4, <1>5 DEF CallOK
<1>8. Step(p, "erase_select", to, t)
  BY DEF erase_select, H
<1> QED BY <1>6, <1>7, <1>8, StepLocal

\* The same for the rows a rectification loads.
LEMMA RectifySelectOK ==
  ASSUME IInv, NEW p \in Procs, rectify_select(p)
  PROVE  IInv'
<1> DEFINE H == Holding(tx[p].value)
           M == {i \in H : contact[i].named}
           g == \E i \in H : contact[i].source # NoRequest
           t == [tx[p] EXCEPT !.found = H, !.ids = H, !.named = M, !.again = g]
<1>1. /\ tx[p] \in Call /\ pc[p] = "rectify_select"
      /\ ArgsOK(pc[p], tx[p]) /\ StepOK(pc[p], tx[p]) /\ RowsOK(tx[p]) /\ ExportOK(tx[p])
  BY Known DEF rectify_select, Step
<1>9. H \in SUBSET Ids /\ \A i \in H : Stored(i)
  BY DEF Holding
<1>10. M \in SUBSET Ids /\ g \in BOOLEAN
  BY <1>9
<1>8. Step(p, "rectify_select", "read_policy", t)
  BY DEF rectify_select
<1> HIDE DEF H, M, g
<1>2. t \in Call
  <2>1. [tx[p] EXCEPT !.found = H] \in Call
    BY <1>1, <1>9, FieldTypes
  <2>2. [tx[p] EXCEPT !.found = H, !.ids = H] \in Call
    BY <2>1, <1>9, FieldTypes
  <2>3. [tx[p] EXCEPT !.found = H, !.ids = H, !.named = M] \in Call
    BY <2>2, <1>10, FieldTypes
  <2> QED BY <2>3, <1>10, FieldTypes
<1>3. /\ t.op = tx[p].op /\ t.value = tx[p].value /\ t.new = tx[p].new
      /\ t.scope = tx[p].scope /\ t.request = tx[p].request /\ t.todo = tx[p].todo
      /\ t.absent = tx[p].absent /\ t.ins = tx[p].ins /\ t.del = tx[p].del
      /\ t.upd = tx[p].upd /\ t.entry = tx[p].entry /\ t.log = tx[p].log
      /\ t.out = tx[p].out /\ t.barred = tx[p].barred /\ t.found = H /\ t.ids = H
  BY <1>1 DEF Call
<1>4. /\ ArgsOK("read_policy", t) /\ StepOK("read_policy", t) /\ ExportOK(t)
      /\ "read_policy" \in Steps
  <2> HIDE DEF t
  <2> QED BY <1>1, <1>3 DEF ArgsOK, StepOK, ExportOK, Steps
<1>5. RowsOK(t)
  <2> HIDE DEF t
  <2> QED BY <1>1, <1>3 DEF RowsOK
<1>6. ASSUME NEW q \in Procs \ {p} PROVE Apart(t, tx[q])
  <2>1. Apart(tx[p], tx[q]) /\ \A j \in Ids : Adds(tx[q], j) => ~Stored(j)
    BY Known DEF RowsOK, Adds
  <2>2. \A j \in Ids : Adds(t, j) <=> Adds(tx[p], j)
    BY <1>3 DEF Adds
  <2> HIDE DEF t
  <2> QED BY <2>1, <2>2, <1>3, <1>9 DEF Apart
<1>7. CallOK("read_policy", t)
  BY <1>2, <1>4, <1>5 DEF CallOK
<1> QED BY <1>6, <1>7, <1>8, StepLocal

\* The request is inserted if neither a committed nor a pending one has its id.
LEMMA RequestInsertOK ==
  ASSUME IInv, NEW p \in Procs, request_insert(p)
  PROVE  IInv'
<1> DEFINE t == [tx[p] EXCEPT !.log = TRUE]
           to == AfterRequest(tx[p])
<1>1. /\ tx[p] \in Call /\ pc[p] = "request_insert"
      /\ ArgsOK(pc[p], tx[p]) /\ StepOK(pc[p], tx[p]) /\ RowsOK(tx[p]) /\ ExportOK(tx[p])
  BY Known DEF request_insert
<1>2. t \in Call
  BY <1>1, FieldTypes
<1>3. /\ t.op = tx[p].op /\ t.value = tx[p].value /\ t.new = tx[p].new
      /\ t.scope = tx[p].scope /\ t.request = tx[p].request /\ t.todo = tx[p].todo
      /\ t.found = tx[p].found /\ t.ids = tx[p].ids /\ t.absent = tx[p].absent
      /\ t.ins = tx[p].ins /\ t.del = tx[p].del /\ t.upd = tx[p].upd
      /\ t.entry = tx[p].entry /\ t.out = tx[p].out /\ t.barred = tx[p].barred
      /\ t.log = TRUE
  BY <1>1 DEF Call
<1>4. ArgsOK(to, t) /\ StepOK(to, t) /\ ExportOK(t) /\ to \in Steps
  <2> HIDE DEF t
  <2> QED BY <1>1, <1>3 DEF ArgsOK, StepOK, ExportOK, Steps, AfterRequest, Sup
<1>5. RowsOK(t)
  <2>1. request[tx[p].request].kind = "none"
    BY DEF request_insert
  <2> HIDE DEF t
  <2> QED BY <2>1, <1>1, <1>3 DEF RowsOK
<1>6. ASSUME NEW q \in Procs \ {p} PROVE Apart(t, tx[q])
  <2>1. Apart(tx[p], tx[q]) /\ ~(tx[q].log /\ tx[q].request = tx[p].request)
    BY Known DEF request_insert, RequestFree, HoldsRequest
  <2>2. \A j \in Ids : Adds(t, j) <=> Adds(tx[p], j)
    BY <1>3 DEF Adds
  <2> HIDE DEF t
  <2> QED BY <2>1, <2>2, <1>3 DEF Apart
<1>7. CallOK(to, t)
  BY <1>2, <1>4, <1>5 DEF CallOK
<1>8. Step(p, "request_insert", to, t)
  BY DEF request_insert
<1> QED BY <1>6, <1>7, <1>8, StepLocal

\* The checks of rectify change nothing.
LEMMA RectifyCheckOK ==
  ASSUME IInv, NEW p \in Procs, rectify_check(p)
  PROVE  IInv'
<1>1. /\ tx[p] \in Call /\ pc[p] = "rectify_check"
      /\ ArgsOK(pc[p], tx[p]) /\ StepOK(pc[p], tx[p]) /\ RowsOK(tx[p]) /\ ExportOK(tx[p])
      /\ \A q \in Procs \ {p} : Apart(tx[p], tx[q])
  BY Known DEF rectify_check, Step
<1>2. CallOK("suppress_lookup", tx[p])
  BY <1>1 DEF CallOK, ArgsOK, StepOK, Steps
<1>3. Step(p, "rectify_check", "suppress_lookup", tx[p])
  BY DEF rectify_check
<1> QED BY <1>1, <1>2, <1>3, StepLocal

\* A row that is updated becomes locked.
LEMMA RectifyFlushOK ==
  ASSUME IInv, NEW p \in Procs, NEW i \in Ids, rectify_flush(p, i)
  PROVE  IInv'
<1> DEFINE t == [tx[p] EXCEPT !.ids = @ \ {i}, !.upd = @ \cup {i}]
<1>1. /\ tx[p] \in Call /\ pc[p] = "rectify_flush"
      /\ ArgsOK(pc[p], tx[p]) /\ StepOK(pc[p], tx[p]) /\ RowsOK(tx[p]) /\ ExportOK(tx[p])
  BY Known DEF rectify_flush, Step
<1>2. t \in Call
  <2>1. tx[p].ids \ {i} \in SUBSET Ids /\ tx[p].upd \cup {i} \in SUBSET Ids
    BY <1>1 DEF Call
  <2>2. [tx[p] EXCEPT !.ids = @ \ {i}] \in Call
    BY <1>1, <2>1, FieldTypes
  <2> QED BY <2>1, <2>2, FieldTypes
<1>3. /\ t.op = tx[p].op /\ t.value = tx[p].value /\ t.new = tx[p].new
      /\ t.scope = tx[p].scope /\ t.request = tx[p].request /\ t.todo = tx[p].todo
      /\ t.found = tx[p].found /\ t.absent = tx[p].absent /\ t.ins = tx[p].ins
      /\ t.del = tx[p].del /\ t.entry = tx[p].entry /\ t.log = tx[p].log
      /\ t.out = tx[p].out /\ t.barred = tx[p].barred /\ t.ids = tx[p].ids \ {i}
      /\ t.upd = tx[p].upd \cup {i}
  BY <1>1 DEF Call
<1>4. ArgsOK(Flush(t), t) /\ StepOK(Flush(t), t) /\ ExportOK(t) /\ Flush(t) \in Steps
  <2> HIDE DEF t
  <2> QED BY <1>1, <1>3 DEF ArgsOK, StepOK, ExportOK, Steps, Flush, AfterSuppress, Sup
<1>5. RowsOK(t)
  <2>1. Stored(i)
    BY DEF rectify_flush
  <2> HIDE DEF t
  <2> QED BY <2>1, <1>1, <1>3 DEF RowsOK, StepOK
<1>6. ASSUME NEW q \in Procs \ {p} PROVE Apart(t, tx[q])
  <2>1. Apart(tx[p], tx[q]) /\ i \notin tx[q].del \cup tx[q].upd
    BY Known DEF rectify_flush, RowFree, HoldsRow
  <2>2. \A j \in Ids : Adds(t, j) <=> Adds(tx[p], j)
    BY <1>3 DEF Adds
  <2> HIDE DEF t
  <2> QED BY <2>1, <2>2, <1>3 DEF Apart
<1>7. CallOK(Flush(t), t)
  BY <1>2, <1>4, <1>5 DEF CallOK
<1>8. Step(p, "rectify_flush", Flush(t), t)
  BY DEF rectify_flush
<1> QED BY <1>6, <1>7, <1>8, StepLocal

\* The rows an export loads, and what is suppressed at that moment.
LEMMA ExportSelectOK ==
  ASSUME IInv, NEW p \in Procs, export_select(p)
  PROVE  IInv'
<1> DEFINE R == {i \in Ids : Stored(i)} \ tx[p].del
           X == {<<contact[i].value, contact[i].named>> : i \in R}
           B == {e[2] : e \in supp}
           t == [tx[p] EXCEPT !.seen = X, !.barred = B]
<1>1. /\ tx[p] \in Call /\ pc[p] = "export_select"
      /\ ArgsOK(pc[p], tx[p]) /\ StepOK(pc[p], tx[p]) /\ ExportOK(tx[p])
  BY Known DEF export_select, Step
<1>9. X \in SUBSET (Values \X BOOLEAN)
  BY DEF IInv, TablesOK, ContactRow
<1>10. B \in SUBSET Values /\ \A v \in B : is_suppressed(v)
  BY DEF IInv, TablesOK, is_suppressed
<1>8. Step(p, "export_select", "read_policy", t)
  BY DEF export_select
<1> HIDE DEF R, X, B
<1>2. t \in Call
  <2>1. [tx[p] EXCEPT !.seen = X] \in Call
    BY <1>1, <1>9, FieldTypes
  <2> QED BY <2>1, <1>10, FieldTypes
<1>3. /\ t.op = tx[p].op /\ t.value = tx[p].value /\ t.new = tx[p].new
      /\ t.scope = tx[p].scope /\ t.request = tx[p].request /\ t.todo = tx[p].todo
      /\ t.found = tx[p].found /\ t.ids = tx[p].ids /\ t.absent = tx[p].absent
      /\ t.ins = tx[p].ins /\ t.del = tx[p].del /\ t.upd = tx[p].upd
      /\ t.entry = tx[p].entry /\ t.log = tx[p].log /\ t.out = tx[p].out
      /\ t.barred = B
  BY <1>1 DEF Call
<1>4. /\ ArgsOK("read_policy", t) /\ StepOK("read_policy", t) /\ ExportOK(t)
      /\ "read_policy" \in Steps
  <2> HIDE DEF t
  <2> QED BY <1>1, <1>3, <1>10 DEF ArgsOK, StepOK, ExportOK, Steps
<1>5. RowsOK(t) /\ \A q \in Procs \ {p} : Apart(t, tx[q])
  BY <1>2, <1>3, KeepsWrites
<1>7. CallOK("read_policy", t)
  BY <1>2, <1>4, <1>5 DEF CallOK
<1> QED BY <1>5, <1>7, <1>8, StepLocal

\* What is suppressed now is not returned, so neither is what was then.
LEMMA ExportCheckOK ==
  ASSUME IInv, NEW p \in Procs, NEW x \in tx[p].seen, export_check(p, x)
  PROVE  IInv'
<1> DEFINE left == tx[p].seen \ {x}
           O == IF is_suppressed(x[1]) THEN tx[p].out ELSE tx[p].out \cup {x[1]}
           t == [tx[p] EXCEPT !.seen = left, !.out = O]
           to == IF left = {} THEN "commit" ELSE "export_check"
<1>1. /\ tx[p] \in Call /\ pc[p] = "export_check"
      /\ ArgsOK(pc[p], tx[p]) /\ StepOK(pc[p], tx[p]) /\ ExportOK(tx[p])
  BY Known DEF export_check, Step
<1>9. left \in SUBSET (Values \X BOOLEAN) /\ O \in SUBSET Values
  BY <1>1 DEF Call
<1>10. O \cap tx[p].barred = {}
  BY <1>1 DEF ExportOK
<1>8. Step(p, "export_check", to, t)
  BY DEF export_check
<1>11. to \in {"commit", "export_check"} /\ to \in Steps
  BY DEF Steps
<1> HIDE DEF left, O, to
<1>2. t \in Call
  <2>1. [tx[p] EXCEPT !.seen = left] \in Call
    BY <1>1, <1>9, FieldTypes
  <2> QED BY <2>1, <1>9, FieldTypes
<1>3. /\ t.op = tx[p].op /\ t.value = tx[p].value /\ t.new = tx[p].new
      /\ t.scope = tx[p].scope /\ t.request = tx[p].request /\ t.todo = tx[p].todo
      /\ t.found = tx[p].found /\ t.ids = tx[p].ids /\ t.absent = tx[p].absent
      /\ t.ins = tx[p].ins /\ t.del = tx[p].del /\ t.upd = tx[p].upd
      /\ t.entry = tx[p].entry /\ t.log = tx[p].log /\ t.barred = tx[p].barred
      /\ t.out = O
  BY <1>1 DEF Call
<1>4. ArgsOK(to, t) /\ StepOK(to, t) /\ ExportOK(t)
  <2> HIDE DEF t
  <2> QED BY <1>1, <1>3, <1>10, <1>11 DEF ArgsOK, StepOK, ExportOK
<1>5. RowsOK(t) /\ \A q \in Procs \ {p} : Apart(t, tx[q])
  BY <1>2, <1>3, KeepsWrites
<1>7. CallOK(to, t)
  BY <1>2, <1>4, <1>5, <1>11 DEF CallOK
<1> QED BY <1>5, <1>7, <1>8, StepLocal

-----------------------------------------------------------------------------
(* The steps that change tables *)

\* What a commit does to a row.
LEMMA RowAfterCommit ==
  ASSUME IInv, NEW p \in Procs, commit(p), NEW i \in Ids
  PROVE  /\ contact'[i] \in ContactRow
         /\ contact'[i].age # "none" => contact'[i].value \in Values
         /\ i \in tx[p].del => contact'[i].age = "none"
         /\ i \in tx[p].upd \ tx[p].del => contact'[i].age = "fresh"
         /\ i \notin tx[p].del \cup tx[p].upd /\ ~Adds(tx[p], i) => contact'[i] = contact[i]
<1>1. /\ tx[p] \in Call /\ ArgsOK(pc[p], tx[p]) /\ RowsOK(tx[p])
  BY Known
<1>2. contact'[i] = After(p, i)
  BY DEF commit
<1>3. contact[i] \in ContactRow /\ (Stored(i) => contact[i].value \in Values)
  BY DEF IInv, TablesOK
<1>4. CASE i \in tx[p].del
  <2>1. After(p, i) = NoContact
    BY <1>4 DEF After
  <2> QED BY <2>1, <1>2, <1>4 DEF NoContact, ContactRow
<1>5. CASE i \in tx[p].upd \ tx[p].del
  <2>1. After(p, i) = Rectified(p, i)
    BY <1>5 DEF After
  <2>2. /\ Stored(i) /\ tx[p].new \in Values
        /\ tx[p].request \in Requests \cup {NoRequest} /\ contact[i].named \in BOOLEAN
    BY <1>1, <1>3, <1>5 DEF RowsOK, ArgsOK, Call, ContactRow
  <2> DEFINE n == IF (tx[p].new \in Named) = (i \in tx[p].named)
                  THEN contact[i].named ELSE tx[p].new \in Named
             v == IF tx[p].new = tx[p].value THEN contact[i].value ELSE tx[p].new
  <2>3. n \in BOOLEAN
    <3>1. CASE (tx[p].new \in Named) = (i \in tx[p].named)
      <4>1. n = contact[i].named
        BY <3>1
      <4> QED BY <4>1, <2>2
    <3>2. CASE (tx[p].new \in Named) # (i \in tx[p].named)
      <4>1. n = TRUE \/ n = FALSE
        BY <3>2
      <4> HIDE DEF n
      <4> QED BY <4>1
    <3> QED BY <3>1, <3>2
  <2>4. v \in Values
    BY <2>2, <1>3
  <2>5. Rectified(p, i) =
          [age |-> "fresh", value |-> v, named |-> n, source |-> tx[p].request]
    BY DEF Rectified
  <2> HIDE DEF n, v
  <2> QED BY <2>1, <2>2, <2>3, <2>4, <2>5, <1>2, <1>5 DEF ContactRow
<1>6. CASE i \notin tx[p].del \cup tx[p].upd /\ \E v \in Values : <<i, v>> \in tx[p].ins
  <2> DEFINE v == CHOOSE w \in Values : <<i, w>> \in tx[p].ins
  <2>1. v \in Values
    BY <1>6
  <2>2. After(p, i) = Collected(v)
    BY <1>6 DEF After
  <2>3. Adds(tx[p], i)
    BY <1>6 DEF Adds
  <2> HIDE DEF v
  <2> QED BY <2>1, <2>2, <2>3, <1>2, <1>6 DEF ContactRow, Collected
<1>7. CASE i \notin tx[p].del \cup tx[p].upd /\ ~\E v \in Values : <<i, v>> \in tx[p].ins
  <2>1. After(p, i) = contact[i]
    BY <1>7 DEF After
  <2> QED BY <2>1, <1>2, <1>3, <1>7 DEF Stored
<1> QED BY <1>4, <1>5, <1>6, <1>7

\* A commit keeps what the other calls rely on.
LEMMA CommitOthers ==
  ASSUME IInv, NEW p \in Procs, commit(p), NEW q \in Procs \ {p}
  PROVE  CallOK(pc[q], tx[q])'
<1>1. pc'[q] = pc[q] /\ tx'[q] = tx[q]
  BY DEF commit, End, IInv, CallsOK
<1>2. /\ tx[q] \in Call /\ pc[q] \in Steps
      /\ ArgsOK(pc[q], tx[q]) /\ StepOK(pc[q], tx[q]) /\ RowsOK(tx[q]) /\ ExportOK(tx[q])
      /\ Apart(tx[p], tx[q])
  BY Known
<1>3. RowsOK(tx[p])
  BY Known
<1>4. supp \subseteq supp'
  BY DEF commit
<1>5. \A i \in Ids : i \in tx[q].del \cup tx[q].upd => contact'[i] = contact[i]
  <2> SUFFICES ASSUME NEW i \in Ids, i \in tx[q].del \cup tx[q].upd
               PROVE  contact'[i] = contact[i]
    OBVIOUS
  <2>1. Stored(i) /\ i \notin tx[p].del \cup tx[p].upd
    BY <1>2 DEF RowsOK, Apart
  <2>2. ~Adds(tx[p], i)
    BY <2>1, <1>3 DEF RowsOK, Adds
  <2> QED BY <2>1, <2>2, RowAfterCommit
<1>6. \A i \in Ids : ~Stored(i) /\ ~Adds(tx[p], i) => contact'[i] = contact[i]
  BY <1>3, RowAfterCommit DEF RowsOK
<1>7. ArgsOK(pc[q], tx[q])' /\ StepOK(pc[q], tx[q])' /\ ExportOK(tx[q])'
  BY <1>1, <1>2, <1>4 DEF ArgsOK, StepOK, ExportOK, Sup, is_suppressed
<1>8. RowsOK(tx[q])'
  <2>1. tx[q].del \subseteq Ids /\ tx[q].upd \subseteq Ids /\ tx[q].found \subseteq Ids
    BY <1>2 DEF Call
  <2>2. \A i \in tx'[q].del \cup tx'[q].upd : Stored(i)'
    BY <1>1, <1>2, <1>5, <2>1 DEF RowsOK, Stored
  <2>3. tx'[q].op = "export" => \A i \in tx'[q].del : contact'[i].age = "expired"
    BY <1>1, <1>2, <1>5, <2>1 DEF RowsOK
  <2>4. \A i \in Ids, v \in Values : <<i, v>> \in tx'[q].todo \cup tx'[q].ins => ~Stored(i)'
    <3> SUFFICES ASSUME NEW i \in Ids, NEW v \in Values,
                        <<i, v>> \in tx[q].todo \cup tx[q].ins
                 PROVE  contact'[i].age = "none"
      BY <1>1 DEF Stored
    <3>1. Adds(tx[q], i)
      BY DEF Adds
    <3>2. ~Stored(i) /\ ~Adds(tx[p], i)
      BY <3>1, <1>2 DEF RowsOK, Apart
    <3> QED BY <3>2, <1>6 DEF Stored
  <2>5. tx'[q].op \in Erasing =>
          \A i \in tx'[q].found \ tx'[q].ids : i \in tx'[q].del \/ ~Stored(i)'
    <3> SUFFICES ASSUME tx[q].op \in Erasing, NEW i \in tx[q].found \ tx[q].ids,
                        i \notin tx[q].del
                 PROVE  contact'[i].age = "none"
      BY <1>1 DEF Stored
    <3>1. ~Stored(i) /\ ~Adds(tx[p], i)
      BY <1>2, <2>1 DEF RowsOK, Apart
    <3> QED BY <3>1, <2>1, <1>6 DEF Stored
  <2>6. \A r \in Requests : tx'[q].log /\ tx'[q].request = r => request'[r].kind = "none"
    BY <1>1, <1>2 DEF RowsOK, Apart, commit, HoldsRequest
  <2> QED BY <2>2, <2>3, <2>4, <2>5, <2>6 DEF RowsOK
<1> QED BY <1>1, <1>2, <1>7, <1>8 DEF CallOK

\* A commit preserves the invariant.
LEMMA CommitOK ==
  ASSUME IInv, NEW p \in Procs, commit(p)
  PROVE  IInv'
<1>1. /\ tx[p] \in Call /\ pc[p] = "commit"
      /\ ArgsOK(pc[p], tx[p]) /\ StepOK(pc[p], tx[p])
  BY Known DEF commit
<1>2. contact' \in [Ids -> ContactRow]
  <2>1. contact' = [i \in Ids |-> After(p, i)]
    BY DEF commit
  <2>2. \A i \in Ids : contact'[i] \in ContactRow
    BY RowAfterCommit
  <2> QED BY <2>1, <2>2
<1>3. \A i \in Ids : Stored(i)' => contact'[i].value \in Values
  BY RowAfterCommit DEF Stored
<1>4. supp' \subseteq {"workspace", "global"} \X Values /\ supp \subseteq supp'
  BY <1>1 DEF commit, Entry, ArgsOK, IInv, TablesOK, Call
<1>5. request' \in [Requests -> RequestRow]
  <2>1. \A r \in Requests : HoldsRequest(p, r) =>
          [kind |-> tx[p].op, value |-> tx[p].value] \in RequestRow
    BY <1>1 DEF HoldsRequest, ArgsOK, RequestRow, Call
  <2> QED BY <2>1 DEF commit, IInv, TablesOK
<1>6. RequestSuppresses'
  <2> SUFFICES ASSUME NEW r \in Requests, request'[r].kind \in Done
               PROVE  \E s \in {"workspace", "global"} : <<s, request'[r].value>> \in supp'
    BY DEF RequestSuppresses
  <2>1. CASE HoldsRequest(p, r)
    <3>1. request'[r] = [kind |-> tx[p].op, value |-> tx[p].value]
      BY <2>1 DEF commit
    <3>2. Sup(tx[p])
      BY <3>1, <1>1 DEF StepOK
    <3>3. <<tx[p].scope, tx[p].value>> \in supp'
      BY <3>2, <1>4 DEF Sup, commit, Entry
    <3> QED BY <3>1, <3>3, <1>1 DEF Call
  <2>2. CASE ~HoldsRequest(p, r)
    <3>1. request'[r] = request[r]
      BY <2>2 DEF commit
    <3> QED BY <3>1, <1>4 DEF IInv, TablesOK, RequestSuppresses
  <2> QED BY <2>1, <2>2
<1>7. TablesOK'
  BY <1>2, <1>3, <1>4, <1>5, <1>6 DEF TablesOK, IInv, commit
<1>8. /\ pc' \in [Procs -> Steps] /\ tx' \in [Procs -> Call]
      /\ pc'[p] = "idle" /\ tx'[p] = NoCall
      /\ \A q \in Procs \ {p} : tx'[q] = tx[q]
  BY NoCallOK DEF commit, End, IInv, CallsOK, Steps
<1>9. CallOK(pc[p], tx[p])'
  BY <1>8, NoCallOK
     DEF CallOK, ArgsOK, StepOK, RowsOK, ExportOK, NoCall, Steps
<1>10. ASSUME NEW q \in Procs, NEW r \in Procs, q # r PROVE Apart(tx[q], tx[r])'
  <2>1. Apart(tx'[q], tx'[r])
    BY <1>8, <1>10, NoCallOK, ApartSymmetric DEF IInv, CallsOK
  <2> QED BY <2>1 DEF Apart, Adds
<1>11. \A q \in Procs : CallOK(pc[q], tx[q])'
  BY <1>9, CommitOthers
<1> QED BY <1>7, <1>8, <1>10, <1>11 DEF IInv, CallsOK

\* The passing of time makes fresh rows expired and changes nothing else.
LEMMA ExpireOK ==
  ASSUME IInv, NEW i \in Ids, expire(i)
  PROVE  IInv'
<1>1. /\ contact[i].age = "fresh" /\ contact' = [contact EXCEPT ![i].age = "expired"]
      /\ UNCHANGED <<supp, request, policy, pc, tx, crashes>>
      /\ older' = older \cup {<<j, i>> : j \in Expired}
  BY DEF expire
<1>2. contact \in [Ids -> ContactRow]
  BY DEF IInv, TablesOK
<1>3. /\ \A j \in Ids : contact'[j].value = contact[j].value
      /\ \A j \in Ids : contact'[j].age # "none" <=> contact[j].age # "none"
      /\ \A j \in Ids : contact[j].age = "expired" => contact'[j].age = "expired"
      /\ contact' \in [Ids -> ContactRow]
  BY <1>1, <1>2 DEF ContactRow
<1>4. TablesOK'
  <2>1. older' \subseteq Ids \X Ids
    BY <1>1 DEF IInv, TablesOK, Expired
  <2>2. RequestSuppresses'
    BY <1>1 DEF IInv, TablesOK, RequestSuppresses
  <2> QED BY <1>1, <1>3, <2>1, <2>2 DEF IInv, TablesOK, Stored
<1>5. ASSUME NEW q \in Procs PROVE CallOK(pc[q], tx[q])'
  <2>1. CallOK(pc[q], tx[q])
    BY DEF IInv, CallsOK
  <2>2. tx[q].del \subseteq Ids /\ tx[q].upd \subseteq Ids /\ tx[q].found \subseteq Ids
    BY <2>1 DEF CallOK, Call
  <2>3. RowsOK(tx[q])'
    BY <1>1, <1>3, <2>1, <2>2 DEF CallOK, RowsOK, Stored
  <2>4. ArgsOK(pc[q], tx[q])' /\ StepOK(pc[q], tx[q])' /\ ExportOK(tx[q])'
    BY <1>1, <2>1 DEF CallOK, ArgsOK, StepOK, ExportOK, Sup, is_suppressed
  <2> QED BY <1>1, <2>1, <2>3, <2>4 DEF CallOK
<1>6. ASSUME NEW q \in Procs, NEW r \in Procs, q # r PROVE Apart(tx[q], tx[r])'
  BY <1>1, <1>6 DEF IInv, CallsOK, Apart, Adds
<1>7. pc' \in [Procs -> Steps] /\ tx' \in [Procs -> Call]
  BY <1>1 DEF IInv, CallsOK
<1> QED BY <1>4, <1>5, <1>6, <1>7 DEF IInv, CallsOK

\* Steps that leave everything but the policy alone, stuttering included.
LEMMA PolicyOK ==
  ASSUME IInv, UNCHANGED <<contact, older, supp, request, pc, tx, crashes>>,
         policy' \in BOOLEAN
  PROVE  IInv'
<1>1. TablesOK'
  BY DEF IInv, TablesOK, RequestSuppresses, Stored
<1>2. ASSUME NEW q \in Procs PROVE CallOK(pc[q], tx[q])'
  BY DEF IInv, CallsOK, CallOK, ArgsOK, StepOK, RowsOK, ExportOK, Sup, Stored, is_suppressed
<1>3. ASSUME NEW q \in Procs, NEW r \in Procs, q # r PROVE Apart(tx[q], tx[r])'
  BY <1>3 DEF IInv, CallsOK, Apart, Adds
<1> QED BY <1>1, <1>2, <1>3 DEF IInv, CallsOK

\* Every statement of a call.
LEMMA WorkOK ==
  ASSUME IInv, NEW p \in Procs, Work(p)
  PROVE  IInv'
<1>1. CASE \E c \in tx[p].todo : persist_check(p, c) \/ persist_skip(p, c)
  BY <1>1, PersistOK
<1>2. CASE \E i \in Ids : delete_row(p, i)
  BY <1>2, DeleteRowOK
<1>3. CASE \E i \in Ids : rectify_flush(p, i)
  BY <1>3, RectifyFlushOK
<1>4. CASE \E x \in tx[p].seen : export_check(p, x)
  BY <1>4, ExportCheckOK
<1>5. CASE \/ erase_select(p) \/ suppress_lookup(p) \/ suppress_insert(p)
           \/ rectify_select(p) \/ read_policy(p) \/ request_insert(p)
           \/ rectify_check(p) \/ export_select(p) \/ commit(p)
  BY <1>5, EraseSelectOK, SuppressLookupOK, SuppressInsertOK, RectifySelectOK,
     ReadPolicyOK, RequestInsertOK, RectifyCheckOK, ExportSelectOK, CommitOK
<1>6. CASE \/ suppress_duplicate(p) \/ request_duplicate(p) \/ rectify_refused(p)
           \/ (\E i \in Ids : rectify_stale(p, i))
           \/ (\E x \in tx[p].seen : export_blocked(p, x)) \/ deadlock_victim(p)
  <2>1. Rollback(p)
    BY <1>6 DEF suppress_duplicate, request_duplicate, rectify_refused, rectify_stale,
                export_blocked, deadlock_victim
  <2> QED BY <2>1, RollbackLocal
<1> QED BY <1>1, <1>2, <1>3, <1>4, <1>5, <1>6 DEF Work

\* Every start of a call.
LEMMA RequestOK ==
  ASSUME IInv, NEW p \in Procs, Request(p)
  PROVE  IInv'
<1>1. CASE \E b \in Batches : persist(p, b)
  BY <1>1, PersistOK
<1>2. CASE \E s \in Scopes, v \in Values : suppress(p, s, v)
  BY <1>2, SuppressStarts
<1>3. CASE \E k \in Kinds \cap {"erasure", "opposition"}, r \in Requests, s \in Scopes,
             v \in Values : erase_and_suppress(p, k, r, s, v)
  BY <1>3, EraseStarts
<1>4. CASE \E r \in Requests, v \in Values : record_access(p, r, v)
  BY <1>4, AccessStarts
<1>5. CASE \E r \in Requests, v, w \in Values : rectify(p, r, v, w)
  BY <1>5, RectifyStarts
<1>6. CASE export(p)
  BY <1>6, ExportStarts
<1> QED BY <1>1, <1>2, <1>3, <1>4, <1>5, <1>6 DEF Request

\* IInv holds before the first call.
LEMMA InitOK == Init => IInv
<1> SUFFICES ASSUME Init PROVE IInv
  OBVIOUS
<1>1. TablesOK
  <2>1. contact \in [Ids -> ContactRow] /\ \A i \in Ids : ~Stored(i)
    BY DEF Init, ContactRow, NoContact, Stored
  <2>2. request \in [Requests -> RequestRow] /\ RequestSuppresses
    BY DEF Init, RequestRow, NoRow, RequestSuppresses
  <2>3. crashes \in 0..MaxCrashes
    BY BoundsAssumption, SMT DEF Init
  <2>5. policy \in BOOLEAN
    BY Zenon DEF Init
  <2>4. older \subseteq Ids \X Ids /\ supp \subseteq {"workspace", "global"} \X Values
    BY DEF Init
  <2> QED BY <2>1, <2>2, <2>3, <2>4, <2>5 DEF TablesOK
<1>2. \A p \in Procs : pc[p] = "idle" /\ tx[p] = NoCall
  BY DEF Init
<1>3. pc \in [Procs -> Steps] /\ tx \in [Procs -> Call]
  BY NoCallOK DEF Init, Steps
<1> QED BY <1>1, <1>2, <1>3, NoCallOK DEF IInv, CallsOK

\* Every step, and stuttering, preserves IInv.
LEMMA NextOK == IInv /\ [Next]_vars => IInv'
<1> SUFFICES ASSUME IInv, [Next]_vars PROVE IInv'
  OBVIOUS
<1>1. CASE \E p \in Clients : Request(p)
  BY <1>1, RequestOK DEF Procs
<1>2. CASE \E w \in Workers : Retention(w)
  BY <1>2, RetentionStarts DEF Procs
<1>3. CASE \E p \in Procs : Work(p)
  BY <1>3, WorkOK
<1>4. CASE \E p \in Procs : crash(p)
  <2>1. PICK p \in Procs : crash(p)
    BY <1>4
  <2>2. crashes' \in 0..MaxCrashes
    BY <2>1, BoundsAssumption DEF crash, IInv, TablesOK
  <2> QED BY <2>1, <2>2, EndLocal DEF crash
<1>5. CASE \E allows \in BOOLEAN : put_policy(allows)
  BY <1>5, PolicyOK DEF put_policy
<1>6. CASE \E i \in Ids : expire(i)
  BY <1>6, ExpireOK
<1>7. CASE UNCHANGED vars
  BY <1>7, PolicyOK DEF vars, tables, IInv, TablesOK
<1> QED BY <1>1, <1>2, <1>3, <1>4, <1>5, <1>6, <1>7 DEF Next

-----------------------------------------------------------------------------
(* Theorems *)

\* What the calls rely on between their statements always holds.
THEOREM Invariance == Spec => []IInv
<1> QED BY InitOK, NextOK, PTL DEF Spec

\* The rows and the calls are always of their types.
THEOREM TypeCorrect == Spec => []TypeOK
<1>1. IInv => TypeOK
  BY DEF IInv, TablesOK, CallsOK, TypeOK
<1> QED BY <1>1, Invariance, PTL

\* No completed erasure, opposition or rectification is without its suppression
\* entry, whoever inserted it and whatever failed in between.
THEOREM CompletedIsSuppressed == Spec => []RequestSuppresses
<1>1. IInv => RequestSuppresses
  BY DEF IInv, TablesOK
<1> QED BY <1>1, Invariance, PTL

\* exportable_contacts returns nothing that was suppressed when it read the rows.
THEOREM ExportIsFiltered == Spec => []ExportHonoursSuppression
<1>1. IInv => ExportHonoursSuppression
  BY DEF IInv, CallsOK, CallOK, ExportOK, ExportHonoursSuppression
<1> QED BY <1>1, Invariance, PTL

\* The DELETE of exportable_contacts spares rows renewed while it waited.
THEOREM ExportSparesRenewed == Spec => []ExportDeletesOnlyExpired
<1>1. IInv => ExportDeletesOnlyExpired
  BY DEF IInv, CallsOK, CallOK, RowsOK, ExportDeletesOnlyExpired
<1> QED BY <1>1, Invariance, PTL

\* Only a commit changes the recorded requests.
LEMMA OnlyCommitRecords ==
  ASSUME IInv, [Next]_vars, request' # request
  PROVE  \E p \in Procs : commit(p)
<1>1. CASE \E p \in Clients : Request(p)
  BY <1>1 DEF Request, persist, suppress, erase_and_suppress, record_access, rectify,
              export, Start, tables
<1>2. CASE \E w \in Workers : Retention(w)
  BY <1>2 DEF Retention, run_retention_batch, Start, tables
<1>3. ASSUME NEW p \in Procs, Work(p) PROVE commit(p)
  <2>1. CASE \/ \E c \in tx[p].todo : persist_check(p, c) \/ persist_skip(p, c)
             \/ \E i \in Ids : delete_row(p, i) \/ rectify_flush(p, i)
             \/ \E x \in tx[p].seen : export_check(p, x)
             \/ erase_select(p) \/ suppress_lookup(p) \/ suppress_insert(p)
             \/ rectify_select(p) \/ read_policy(p) \/ request_insert(p)
             \/ rectify_check(p) \/ export_select(p)
    BY <2>1 DEF persist_check, persist_skip, delete_row, rectify_flush, export_check,
                erase_select, suppress_lookup, suppress_insert, rectify_select, read_policy,
                request_insert, rectify_check, export_select, Step, tables
  <2>2. CASE \/ suppress_duplicate(p) \/ request_duplicate(p) \/ rectify_refused(p)
             \/ (\E i \in Ids : rectify_stale(p, i))
             \/ (\E x \in tx[p].seen : export_blocked(p, x)) \/ deadlock_victim(p)
    BY <2>2 DEF suppress_duplicate, request_duplicate, rectify_refused, rectify_stale,
                export_blocked, deadlock_victim, Rollback, tables
  <2> QED BY <1>3, <2>1, <2>2 DEF Work
<1>4. CASE \/ \E p \in Procs : crash(p)
           \/ \E allows \in BOOLEAN : put_policy(allows)
           \/ \E i \in Ids : expire(i)
           \/ UNCHANGED vars
  BY <1>4 DEF crash, put_policy, expire, vars, tables
<1> QED BY <1>1, <1>2, <1>3, <1>4 DEF Next

\* No step of a call changes a recorded request.
LEMMA RequestStays ==
  ASSUME IInv, [Next]_vars, NEW r \in Requests, request[r].kind # "none"
  PROVE  request'[r] = request[r]
<1>1. CASE request' = request
  BY <1>1
<1>2. CASE request' # request
  <2>1. PICK p \in Procs : commit(p)
    BY <1>2, OnlyCommitRecords
  <2>2. ~HoldsRequest(p, r)
    BY Known DEF RowsOK, HoldsRequest
  <2> QED BY <2>1, <2>2 DEF commit
<1> QED BY <1>1, <1>2

\* A recorded request never changes, though calls with the same id race.
THEOREM RequestsAreFinal == Spec => RequestRecordedOnce
<1>1. IInv /\ [Next]_vars =>
        \A r \in Requests : request[r].kind # "none" => request'[r] = request[r]
  BY RequestStays
<1> QED BY <1>1, Invariance, PTL DEF RequestRecordedOnce, Spec

\* The step that records an erasure leaves none of the rows it selected.
LEMMA ErasureLeavesNone ==
  ASSUME IInv, [Next]_vars, NEW r \in Requests, NEW p \in Procs,
         request[r].kind = "none", request'[r].kind \in {"erasure", "opposition"},
         HoldsRequest(p, r), NEW i \in tx[p].found
  PROVE  contact'[i].age = "none"
<1>1. PICK q \in Procs : commit(q)
  <2>1. request' # request
    OBVIOUS
  <2> QED BY <2>1, OnlyCommitRecords
<1>2. HoldsRequest(q, r) /\ tx[q].op \in Erasing
  BY <1>1 DEF commit, Erasing
<1>3. q = p
  <2>1. CASE q # p
    <3>1. Apart(tx[p], tx[q])
      BY <2>1, Known
    <3> QED BY <1>2, <3>1 DEF Apart, HoldsRequest
  <2> QED BY <2>1
<1>4. /\ tx[p] \in Call /\ pc[p] = "commit" /\ StepOK(pc[p], tx[p]) /\ RowsOK(tx[p])
      /\ ArgsOK(pc[p], tx[p])
  BY <1>1, <1>3, Known DEF commit
<1>5. i \in Ids /\ (i \in tx[p].del \/ ~Stored(i))
  BY <1>2, <1>3, <1>4 DEF StepOK, RowsOK, Call
<1>6. tx[p].upd = {} /\ tx[p].ins = {} /\ tx[p].todo = {}
  BY <1>2, <1>3, <1>4 DEF StepOK, ArgsOK, Erasing
<1>7. ~Adds(tx[p], i)
  BY <1>6 DEF Adds
<1> QED BY <1>1, <1>3, <1>5, <1>6, <1>7, RowAfterCommit DEF Stored

\* The commit that records an erasure leaves none of the rows it selected.
THEOREM ErasureIsComplete == Spec => SubjectErased
<1>1. IInv /\ [Next]_vars =>
        \A r \in Requests, p \in Procs :
          /\ request[r].kind = "none"
          /\ request'[r].kind \in {"erasure", "opposition"}
          /\ HoldsRequest(p, r)
          => \A i \in tx[p].found : contact'[i].age = "none"
  BY ErasureLeavesNone
<1> QED BY <1>1, Invariance, PTL DEF SubjectErased, Spec
-----------------------------------------------------------------------------
(* Retention as it is deployed *)

\* A batch or a scheduler fails: nothing is written, and at most a worker's
\* transaction, open or not, is given up.
Fails ==
  /\ UNCHANGED tables
  /\ crashes' \in 0..MaxCrashes
  /\ UNCHANGED <<pc, tx>> \/ \E w \in Workers : End(w)

\* To the tables and the transactions, a step of the service is a step of
\* PrivacyContacts or such a failure.
LEMMA ServiceStep ==
  ASSUME IInv, [ServiceNext]_all
  PROVE  [Next]_vars \/ Fails
<1>1. CASE \E p \in Clients : api_call(p) \/ api_work(p) \/ api_crash(p)
  BY <1>1 DEF api_call, api_work, api_crash, Next, Procs
<1>2. CASE \E i \in Ids : expiry(i)
  BY <1>2 DEF expiry, Next
<1>3. ASSUME NEW w \in Workers, WorkerNext(w) PROVE [Next]_vars
  <2>1. CASE \E rows \in SUBSET Ids : begin_batch(w, rows)
    BY <2>1 DEF begin_batch, Retention, Next
  <2>2. CASE \E i \in Ids : batch_row(w, i)
    BY <2>2 DEF batch_row, Work, Next, Procs
  <2>3. CASE batch_commit(w)
    BY <2>3 DEF batch_commit, Work, Next, Procs
  <2>4. CASE \/ \E n \in 0..MaxRetries : receive(w, n)
             \/ empty_batch(w) \/ send_next(w) \/ acknowledge(w)
    BY <2>4 DEF receive, empty_batch, send_next, acknowledge
  <2> QED BY <1>3, <2>1, <2>2, <2>3, <2>4 DEF WorkerNext
<1>4. ASSUME NEW w \in Workers, batch_fails(w) \/ worker_dies(w) PROVE Fails
  <2>1. crashes' \in 0..MaxCrashes
    BY <1>4, BoundsAssumption DEF batch_fails, worker_dies, IInv, TablesOK
  <2> QED BY <1>4, <2>1 DEF batch_fails, worker_dies, Fails
<1>5. ASSUME NEW s \in Schedulers, scheduler_exits(s) PROVE Fails
  <2>1. crashes' \in 0..MaxCrashes
    BY <1>5, BoundsAssumption DEF scheduler_exits, IInv, TablesOK
  <2> QED BY <1>5, <2>1 DEF scheduler_exits, Fails
<1>6. CASE \E s \in Schedulers : SchedulerNext(s) \/ scheduler_starts(s)
  BY <1>6 DEF SchedulerNext, scheduler_starts, try_lock, lock_taken, enqueue, wake
<1>7. CASE tick
  BY <1>7 DEF tick
<1>8. CASE UNCHANGED all
  BY <1>8 DEF all
<1> QED BY <1>1, <1>2, <1>3, <1>4, <1>5, <1>6, <1>7, <1>8 DEF ServiceNext

\* Every step of the service preserves what the calls rely on.
LEMMA ServiceNextOK == IInv /\ [ServiceNext]_all => IInv'
<1> SUFFICES ASSUME IInv, [ServiceNext]_all PROVE IInv'
  OBVIOUS
<1>1. CASE [Next]_vars
  BY <1>1, NextOK
<1>2. CASE Fails /\ \E w \in Workers : End(w)
  BY <1>2, EndLocal DEF Fails, Procs
<1>3. CASE Fails /\ UNCHANGED <<pc, tx>>
  BY <1>3 DEF Fails, tables, IInv, TablesOK, CallsOK, CallOK, ArgsOK, StepOK, RowsOK,
              ExportOK, Sup, Stored, is_suppressed, RequestSuppresses
<1> QED BY <1>1, <1>2, <1>3, ServiceStep DEF Fails
\* A worker has a transaction open exactly while its message is "running": no
\* message is retried, acknowledged or followed by the next one in between.
BatchHasMessage ==
  \A w \in Workers : pc[w] # "idle" <=> delivery[w].step = "running"

\* The clocks of the schedulers, the lock, the queue and the deliveries keep their
\* bounds.
ServiceOK ==
  /\ ttl \in 0..Interval
  /\ sched \in [Schedulers -> [step : {"try", "enqueue", "wait", "down"}, wait : 0..Interval]]
  /\ queue \in [0..MaxRetries -> 0..MaxQueued]
  /\ delivery \in [Workers -> Delivery]
  /\ BatchHasMessage
  /\ \A w \in Workers : pc[w] # "idle" => tx[w].op = "retention"

\* A call of process p concerns no other process.
LEMMA OthersStay ==
  ASSUME IInv, NEW p \in Procs, Request(p) \/ Work(p) \/ crash(p), NEW q \in Procs \ {p}
  PROVE  pc'[q] = pc[q] /\ tx'[q] = tx[q]
<1>1. pc \in [Procs -> Steps] /\ tx \in [Procs -> Call]
  BY DEF IInv, CallsOK
<1>2. CASE Request(p)
  BY <1>1, <1>2 DEF Request, persist, suppress, erase_and_suppress, record_access, rectify,
                    export, Start
<1>3. CASE Work(p)
  <2>1. CASE \/ \E c \in tx[p].todo : persist_check(p, c) \/ persist_skip(p, c)
             \/ \E i \in Ids : delete_row(p, i) \/ rectify_flush(p, i)
             \/ \E x \in tx[p].seen : export_check(p, x)
             \/ erase_select(p) \/ suppress_lookup(p) \/ suppress_insert(p)
             \/ rectify_select(p) \/ read_policy(p) \/ request_insert(p)
             \/ rectify_check(p) \/ export_select(p)
    BY <1>1, <2>1 DEF persist_check, persist_skip, delete_row, rectify_flush, export_check,
                erase_select, suppress_lookup, suppress_insert, rectify_select, read_policy,
                request_insert, rectify_check, export_select, Step
  <2>2. CASE \/ suppress_duplicate(p) \/ request_duplicate(p) \/ rectify_refused(p)
             \/ (\E i \in Ids : rectify_stale(p, i))
             \/ (\E x \in tx[p].seen : export_blocked(p, x)) \/ deadlock_victim(p)
             \/ commit(p)
    BY <1>1, <2>2 DEF suppress_duplicate, request_duplicate, rectify_refused, rectify_stale,
                export_blocked, deadlock_victim, commit, Rollback, End
  <2> QED BY <1>3, <2>1, <2>2 DEF Work
<1>4. CASE crash(p)
  BY <1>1, <1>4 DEF crash, End
<1> QED BY <1>2, <1>3, <1>4

\* One more message of a kind.
LEMMA SentOK ==
  ASSUME ServiceOK, NEW n \in 0..MaxRetries
  PROVE  Sent(n) \in [0..MaxRetries -> 0..MaxQueued]
BY RetentionAssumption DEF ServiceOK, Sent

\* The schedulers and time.
LEMMA SchedulersOK ==
  ASSUME ServiceOK, UNCHANGED <<pc, tx, delivery>>,
         \/ \E s \in Schedulers : \/ SchedulerNext(s)
                                  \/ scheduler_exits(s) \/ scheduler_starts(s)
         \/ tick
  PROVE  ServiceOK'
<1> DEFINE Waits == [step : {"try", "enqueue", "wait", "down"}, wait : 0..Interval]
<1>1. queue' \in [0..MaxRetries -> 0..MaxQueued]
  <2>1. 0 \in 0..MaxRetries
    BY RetentionAssumption
  <2> QED BY <2>1, SentOK DEF ServiceOK, SchedulerNext, try_lock, lock_taken, enqueue, wake,
                  scheduler_exits, scheduler_starts, tick, bus
<1>2. ttl' \in 0..Interval
  BY RetentionAssumption DEF ServiceOK, SchedulerNext, try_lock, lock_taken, enqueue, wake,
                  scheduler_exits, scheduler_starts, tick, Less
<1>3. sched' \in [Schedulers -> Waits]
  <2>1. CASE \E s \in Schedulers : SchedulerNext(s) \/ scheduler_exits(s)
                                   \/ scheduler_starts(s)
    <3>1. \A a \in {"try", "enqueue", "wait", "down"}, n \in {0, Interval} :
            [step |-> a, wait |-> n] \in Waits
      BY RetentionAssumption
    <3> QED BY <2>1, <3>1 DEF ServiceOK, SchedulerNext, try_lock, lock_taken, enqueue, wake,
                              scheduler_exits, scheduler_starts, Scheduler
  <2>2. CASE tick
    <3>1. \A n \in 0..Interval : Less(n) \in 0..Interval
      BY RetentionAssumption DEF Less
    <3>2. \A s \in Schedulers : sched[s] \in Waits
      BY DEF ServiceOK
    <3>3. \A s \in Schedulers : [sched[s] EXCEPT !.wait = Less(@)] \in Waits
      BY <3>1, <3>2
    <3> QED BY <2>2, <3>3 DEF tick
  <2> QED BY <2>1, <2>2
<1> QED BY <1>1, <1>2, <1>3 DEF ServiceOK, BatchHasMessage
\* A step of one worker that leaves schedulers, lock and the other workers alone.
LEMMA WorkerStep ==
  ASSUME IInv, ServiceOK, NEW w \in Workers, NEW d \in Delivery, UNCHANGED clock,
         delivery' = [delivery EXCEPT ![w] = d],
         queue' \in [0..MaxRetries -> 0..MaxQueued],
         pc' \in [Procs -> Steps], \A q \in Procs \ {w} : pc'[q] = pc[q] /\ tx'[q] = tx[q],
         pc'[w] # "idle" <=> d.step = "running",
         pc'[w] # "idle" => tx'[w].op = "retention"
  PROVE  ServiceOK'
<1>1. ttl' \in 0..Interval /\ sched' = sched
  BY DEF clock, ServiceOK
<1>2. delivery' \in [Workers -> Delivery]
  BY DEF ServiceOK
<1>3. \A v \in Workers : /\ pc'[v] # "idle" <=> delivery'[v].step = "running"
                         /\ pc'[v] # "idle" => tx'[v].op = "retention"
  BY DEF ServiceOK, BatchHasMessage, Procs
<1> QED BY <1>1, <1>2, <1>3 DEF ServiceOK, BatchHasMessage

\* What becomes of a delivery when some of its fields change.
LEMMA DeliveryFields ==
  /\ NoDelivery \in Delivery /\ NoDelivery.step = "none"
  /\ \A e \in Delivery, a \in {"running", "committed"}, b \in BOOLEAN :
       /\ [e EXCEPT !.step = a] \in Delivery
       /\ [e EXCEPT !.step = a].step = a
       /\ [e EXCEPT !.step = a, !.more = b] \in Delivery
       /\ [e EXCEPT !.step = a, !.more = b].step = a
       /\ [e EXCEPT !.more = b] \in Delivery
       /\ [e EXCEPT !.more = b].step = e.step
<1>1. NoDelivery \in Delivery /\ NoDelivery.step = "none"
  BY RetentionAssumption DEF Delivery, NoDelivery
<1>2. ASSUME NEW e \in Delivery, NEW a \in {"running", "committed"}, NEW b \in BOOLEAN
      PROVE  /\ [e EXCEPT !.step = a] \in Delivery
             /\ [e EXCEPT !.step = a].step = a
             /\ [e EXCEPT !.step = a, !.more = b] \in Delivery
             /\ [e EXCEPT !.step = a, !.more = b].step = a
             /\ [e EXCEPT !.more = b] \in Delivery
             /\ [e EXCEPT !.more = b].step = e.step
  BY DEF Delivery
<1> QED BY <1>1, <1>2

\* receive, the batch and what follows it.
LEMMA WorkerNextOK ==
  ASSUME IInv, ServiceOK, NEW w \in Workers, WorkerNext(w)
  PROVE  ServiceOK'
<1>1. /\ w \in Procs /\ delivery[w] \in Delivery /\ delivery \in [Workers -> Delivery]
      /\ pc \in [Procs -> Steps] /\ tx \in [Procs -> Call]
      /\ queue \in [0..MaxRetries -> 0..MaxQueued]
      /\ pc[w] # "idle" <=> delivery[w].step = "running"
      /\ pc[w] # "idle" => tx[w].op = "retention"
  BY DEF ServiceOK, BatchHasMessage, IInv, CallsOK, Procs
<1>2. ASSUME NEW n \in 0..MaxRetries, receive(w, n) PROVE ServiceOK'
  <2> DEFINE d == [step |-> "received", retries |-> n, more |-> FALSE]
  <2>1. d \in Delivery /\ d.step = "received"
    BY DEF Delivery
  <2>2. queue' \in [0..MaxRetries -> 0..MaxQueued]
    BY <1>1, <1>2, RetentionAssumption DEF receive
  <2>3. pc' = pc /\ tx' = tx /\ UNCHANGED clock /\ delivery[w].step = "none"
        /\ delivery' = [delivery EXCEPT ![w] = d]
    BY <1>2 DEF receive, Reach, vars
  <2> QED BY <1>1, <2>1, <2>2, <2>3, WorkerStep
<1>3. ASSUME NEW rows \in SUBSET Ids, begin_batch(w, rows) PROVE ServiceOK'
  <2> DEFINE more == Cardinality(rows) = BatchSize
             d == [delivery[w] EXCEPT !.step = "running", !.more = more]
  <2>1. d \in Delivery
    <3>1. more \in BOOLEAN
      OBVIOUS
    <3> HIDE DEF more
    <3> QED BY <1>1, <3>1, DeliveryFields
  <2>2. /\ delivery' = [delivery EXCEPT ![w] = d] /\ UNCHANGED <<queue, clock>>
        /\ pc' = [pc EXCEPT ![w] = "delete_rows"]
        /\ tx' = [tx EXCEPT ![w] = [NoCall EXCEPT !.op = "retention", !.found = rows, !.ids = rows]]
    BY <1>3 DEF begin_batch, run_retention_batch, Start, Reach
  <2>3. pc'[w] = "delete_rows" /\ tx'[w].op = "retention" /\ pc' \in [Procs -> Steps]
    BY <1>1, <2>2 DEF NoCall, Steps
  <2>4. \A q \in Procs \ {w} : pc'[q] = pc[q] /\ tx'[q] = tx[q]
    BY <1>1, <2>2
  <2>5. d.step = "running"
    BY <1>1 DEF Delivery
  <2> QED BY <1>1, <2>1, <2>2, <2>3, <2>4, <2>5, WorkerStep
<1>4. CASE empty_batch(w)
  <2> DEFINE d == [delivery[w] EXCEPT !.step = "committed"]
  <2>1. d \in Delivery /\ d.step = "committed"
    BY <1>1, DeliveryFields
  <2>2. /\ pc' = pc /\ tx' = tx /\ UNCHANGED <<queue, clock>> /\ delivery[w].step = "received"
        /\ delivery' = [delivery EXCEPT ![w] = d]
    BY <1>4 DEF empty_batch, Reach, vars
  <2> QED BY <1>1, <2>1, <2>2, WorkerStep
<1>5. ASSUME NEW i \in Ids, batch_row(w, i) PROVE ServiceOK'
  <2>1. Step(w, "delete_rows", AfterDelete(tx[w].op, tx[w].ids \ {i}),
             [tx[w] EXCEPT !.ids = @ \ {i}, !.del = IF Doomed(w, i) THEN @ \cup {i} ELSE @])
    BY <1>5 DEF batch_row, delete_row
  <2>2. pc[w] = "delete_rows" /\ tx[w].op = "retention"
    BY <1>1, <2>1 DEF Step
  <2>3. AfterDelete(tx[w].op, tx[w].ids \ {i}) \in {"delete_rows", "commit"}
    BY <2>2 DEF AfterDelete
  <2>4. pc' \in [Procs -> Steps] /\ pc'[w] # "idle" /\ tx'[w].op = "retention"
    BY <1>1, <2>1, <2>2, <2>3 DEF Step, Steps, Call
  <2>5. \A q \in Procs \ {w} : pc'[q] = pc[q] /\ tx'[q] = tx[q]
    BY <1>1, <2>1 DEF Step
  <2>6. UNCHANGED <<queue, delivery, clock>>
    BY <1>5 DEF batch_row, bus
  <2>7. delivery' = [delivery EXCEPT ![w] = delivery[w]]
    BY <1>1, <2>6
  <2>8. delivery[w].step = "running"
    BY <1>1, <2>2
  <2> QED BY <1>1, <2>4, <2>5, <2>6, <2>7, <2>8, WorkerStep
<1>6. CASE batch_commit(w)
  <2> DEFINE d == [delivery[w] EXCEPT !.step = "committed"]
  <2>1. d \in Delivery /\ d.step = "committed"
    BY <1>1, DeliveryFields
  <2>2. End(w) /\ UNCHANGED <<queue, clock>> /\ delivery' = [delivery EXCEPT ![w] = d]
    BY <1>6 DEF batch_commit, commit, Reach
  <2>3. /\ pc' \in [Procs -> Steps] /\ pc'[w] = "idle"
        /\ \A q \in Procs \ {w} : pc'[q] = pc[q] /\ tx'[q] = tx[q]
    BY <1>1, <2>2 DEF End, Steps
  <2> QED BY <1>1, <2>1, <2>2, <2>3, WorkerStep
<1>7. CASE send_next(w) \/ acknowledge(w)
  <2>1. PICK d \in Delivery : /\ delivery' = [delivery EXCEPT ![w] = d]
                              /\ d.step # "running"
    <3>1. CASE send_next(w)
      <4>1. [delivery[w] EXCEPT !.more = FALSE] \in Delivery
        BY <1>1, DeliveryFields
      <4>2. [delivery[w] EXCEPT !.more = FALSE].step = delivery[w].step
        BY <1>1, DeliveryFields
      <4> QED BY <3>1, <4>1, <4>2 DEF send_next, Reach
    <3>2. CASE acknowledge(w)
      BY <3>2, DeliveryFields DEF acknowledge, Reach
    <3> QED BY <1>7, <3>1, <3>2
  <2>2. pc' = pc /\ tx' = tx /\ UNCHANGED clock /\ delivery[w].step = "committed"
    BY <1>7 DEF send_next, acknowledge, Reach, vars
  <2>3. queue' \in [0..MaxRetries -> 0..MaxQueued]
    <3>1. 0 \in 0..MaxRetries
      BY RetentionAssumption
    <3> QED BY <1>1, <1>7, <3>1, SentOK DEF send_next, acknowledge
  <2> QED BY <1>1, <2>1, <2>2, <2>3, WorkerStep
<1> QED BY <1>2, <1>3, <1>4, <1>5, <1>6, <1>7 DEF WorkerNext

\* The batch fails or the worker dies: its transaction and its message go together.
LEMMA WorkerFailsOK ==
  ASSUME IInv, ServiceOK, NEW w \in Workers, batch_fails(w) \/ worker_dies(w)
  PROVE  ServiceOK'
<1>1. NoDelivery \in Delivery /\ NoDelivery.step = "none"
  BY DeliveryFields
<1>2. delivery[w].retries \in 0..MaxRetries
  BY DEF ServiceOK, Delivery
<1>3. queue' \in [0..MaxRetries -> 0..MaxQueued]
  <2>1. delivery[w].retries < MaxRetries => delivery[w].retries + 1 \in 0..MaxRetries
    BY <1>2, RetentionAssumption
  <2> QED BY <1>2, <2>1, SentOK DEF batch_fails, worker_dies, Raise, ServiceOK
<1>4. /\ End(w) /\ UNCHANGED clock
      /\ delivery' = [delivery EXCEPT ![w] = NoDelivery]
  BY DEF batch_fails, worker_dies, Raise
<1>5. /\ pc' \in [Procs -> Steps] /\ pc'[w] = "idle"
      /\ \A q \in Procs \ {w} : pc'[q] = pc[q] /\ tx'[q] = tx[q]
  BY <1>4 DEF End, Steps, IInv, CallsOK, Procs
<1> QED BY <1>1, <1>3, <1>4, <1>5, WorkerStep
\* Every step of the service preserves ServiceOK.
LEMMA ServiceOKNext == IInv /\ ServiceOK /\ [ServiceNext]_all => ServiceOK'
<1> SUFFICES ASSUME IInv, ServiceOK, [ServiceNext]_all PROVE ServiceOK'
  OBVIOUS
<1>1. ASSUME NEW p \in Clients, api_call(p) \/ api_work(p) \/ api_crash(p) PROVE ServiceOK'
  <2>1. p \in Procs /\ \A w \in Workers : w \in Procs \ {p}
    BY ProcessAssumption DEF Procs
  <2>2. (Request(p) \/ Work(p) \/ crash(p)) /\ UNCHANGED <<bus, clock>>
    BY <1>1 DEF api_call, api_work, api_crash
  <2>3. \A w \in Workers : pc'[w] = pc[w] /\ tx'[w] = tx[w]
    BY <2>1, <2>2, OthersStay
  <2> QED BY <2>2, <2>3 DEF ServiceOK, BatchHasMessage, bus, clock
<1>2. CASE \E i \in Ids : expiry(i)
  BY <1>2 DEF expiry, expire, ServiceOK, BatchHasMessage, bus, clock
<1>3. CASE \E w \in Workers : WorkerNext(w) \/ batch_fails(w) \/ worker_dies(w)
  BY <1>3, WorkerNextOK, WorkerFailsOK
<1>4. CASE \/ \E s \in Schedulers : \/ SchedulerNext(s)
                                    \/ scheduler_exits(s) \/ scheduler_starts(s)
           \/ tick
  <2>1. UNCHANGED <<pc, tx, delivery>>
    BY <1>4 DEF SchedulerNext, scheduler_exits, scheduler_starts, try_lock, lock_taken,
                enqueue, wake, tick, vars, bus
  <2> QED BY <1>4, <2>1, SchedulersOK
<1>5. CASE UNCHANGED all
  BY <1>5 DEF all, vars, bus, clock, ServiceOK, BatchHasMessage
<1> QED BY <1>1, <1>2, <1>3, <1>4, <1>5 DEF ServiceNext

\* What the calls rely on between their statements holds beside schedulers,
\* workers that die and messages that come back, and the service keeps its bounds.
THEOREM ServiceInvariance == ServiceSpec => [](IInv /\ ServiceOK)
<1>1. ServiceInit => IInv /\ ServiceOK
  <2> SUFFICES ASSUME ServiceInit PROVE IInv /\ ServiceOK
    OBVIOUS
  <2>1. IInv
    BY InitOK DEF ServiceInit
  <2>2. /\ ttl \in 0..Interval
        /\ queue \in [0..MaxRetries -> 0..MaxQueued]
    BY RetentionAssumption DEF ServiceInit
  <2>3. sched \in [Schedulers -> [step : {"try", "enqueue", "wait", "down"}, wait : 0..Interval]]
    BY RetentionAssumption DEF ServiceInit
  <2>4. delivery \in [Workers -> Delivery] /\ \A w \in Workers : delivery[w].step = "none"
    BY DeliveryFields DEF ServiceInit
  <2>5. \A w \in Workers : pc[w] = "idle"
    BY DEF ServiceInit, Init, Procs
  <2> QED BY <2>1, <2>2, <2>3, <2>4, <2>5 DEF ServiceOK, BatchHasMessage
<1> QED BY <1>1, ServiceNextOK, ServiceOKNext, PTL DEF ServiceSpec

\* A retention worker has a transaction open exactly while its message says so:
\* none is acknowledged, retried or put back with its batch still under way.
THEOREM BatchesHaveMessages == ServiceSpec => []BatchHasMessage
<1>1. IInv /\ ServiceOK => BatchHasMessage
  BY DEF ServiceOK
<1> QED BY <1>1, ServiceInvariance, PTL

\* With retention deployed, completed requests are suppressed and exports neither
\* return what was suppressed nor delete what was renewed.
THEOREM ServiceKeepsPromises ==
  ServiceSpec => [](RequestSuppresses /\ ExportHonoursSuppression /\ ExportDeletesOnlyExpired)
<1>1. IInv => RequestSuppresses
  BY DEF IInv, TablesOK
<1>2. IInv => ExportHonoursSuppression
  BY DEF IInv, CallsOK, CallOK, ExportOK, ExportHonoursSuppression
<1>3. IInv => ExportDeletesOnlyExpired
  BY DEF IInv, CallsOK, CallOK, RowsOK, ExportDeletesOnlyExpired
<1> QED BY <1>1, <1>2, <1>3, ServiceInvariance, PTL

\* With retention deployed, a recorded request still never changes, and the commit
\* that records an erasure leaves none of the rows it selected, those a batch was
\* deleting when it failed included.
THEOREM ServiceErases == ServiceSpec => RequestRecordedOnce /\ SubjectErased
<1>1. Fails => request' = request
  BY DEF Fails, tables
<1>2. IInv /\ [ServiceNext]_all =>
        \A r \in Requests : request[r].kind # "none" => request'[r] = request[r]
  BY <1>1, ServiceStep, RequestStays
<1>3. IInv /\ [ServiceNext]_all =>
        \A r \in Requests, p \in Procs :
          /\ request[r].kind = "none"
          /\ request'[r].kind \in {"erasure", "opposition"}
          /\ HoldsRequest(p, r)
          => \A i \in tx[p].found : contact'[i].age = "none"
  BY <1>1, ServiceStep, ErasureLeavesNone
<1> QED BY <1>2, <1>3, ServiceInvariance, PTL
        DEF ServiceSpec, RequestRecordedOnce, SubjectErased
=============================================================================
