--------------------------- MODULE Pipeline_proofs ---------------------------
(***************************************************************************)
(* Pipeline for every number of places, keywords, points of the grid,      *)
(* pages, retries and workers: every audit is counted once, a lead carries *)
(* its own evidence, nothing that came back is lost, results are in the    *)
(* order of discovery, and a report fails closed.                          *)
(*                                                                         *)
(* That an audit is counted once rests on a place being submitted once,    *)
(* and that on the candidates being found once over all keywords and       *)
(* crawled in order.  IInv carries this chain: places are distinct in      *)
(* all_places, what is left to crawl comes after what was submitted, and   *)
(* a place submitted is in audit_futures or was collected with its audit   *)
(* done.                                                                   *)
(***************************************************************************)
EXTENDS Pipeline, Lists_proofs, FiniteSetTheorems, TLAPS

USE SizesAssumption, PlacesAssumption

\* No candidate is found twice, over all keywords.
PlacesDistinct ==
  \A k, l \in DOMAIN all_places : all_places[k].place = all_places[l].place => k = l

\* p was discovered before q.
Before(p, q) ==
  \E k, l \in DOMAIN all_places : k < l /\ all_places[k].place = p /\ all_places[l].place = q

\* A sequence of places in the order of discovery.
Ordered(s) == \A i, j \in DOMAIN s : i < j => Before(s[i], s[j])

\* The places submitted so far.
Audited == Range(valid_lead_ids)

\* c is a crawl of p, found by the keyword it names.
CrawlOf(c, p) ==
  /\ c.place = p /\ c.auditable
  /\ \E i \in DOMAIN all_places : all_places[i] = [place |-> p, keyword |-> c.keyword]

\* What is left to crawl comes from the discovery, in its order.
TodoOK ==
  /\ pc \in {"discover", "filter"} => todo = <<>> /\ valid_lead_ids = <<>>
  /\ pc \in {"crawl", "poll", "collect"} => todo # <<>>
  /\ \A i \in DOMAIN todo : \E k \in DOMAIN all_places : all_places[k] = todo[i]
  /\ \A i, j \in DOMAIN todo : i < j => Before(todo[i].place, todo[j].place)

\* What was submitted is in the order of discovery, and before what is left; the head
\* of todo is the current candidate, in poll and collect perhaps submitted already.
SubmittedFirst ==
  /\ Ordered(valid_lead_ids)
  /\ \A i \in DOMAIN valid_lead_ids, j \in DOMAIN todo :
       pc = "crawl" \/ (pc \in {"poll", "collect"} /\ j > 1) =>
         Before(valid_lead_ids[i], todo[j].place)

\* A future is of a place that was submitted, with its own crawl.
FuturesOK ==
  /\ \A p \in Submitted : p \in Audited /\ CrawlOf(futures[p], p)
  /\ pc = "collect" => done_futures \subseteq Done

\* A lead is of a place that was submitted, with its own crawl and audit.
LeadsOK ==
  \A p \in Leads : p \in Audited /\ CrawlOf(all_leads[p].crawl, p) /\ all_leads[p].audit = p

\* What is not in audit_futures any more was collected: its audit is over.
CollectedOK ==
  \A p \in Audited :
    p \in Submitted \/ (audit[p].state = "done" /\ (p \in Leads \/ audit[p].score = "error"))

\* A page or an audit that may be tried again has attempts left.
AttemptsOK ==
  \A p \in Places : /\ audit[p].attempt < MaxRetries
                    /\ \A g \in Pages : audit[p].text[g] = "raw" => audit[p].tries[g] < MaxRetries

ResultsOK ==
  /\ pc \in {"discover", "filter", "crawl", "poll", "collect", "drain"} => results = <<>>
  /\ Ordered(results)
  /\ mode = "with_website" /\ results # <<>> => Range(results) = Leads
  /\ pc = "export" => Submitted = {} /\ Leads \subseteq Range(results)

ExportOK ==
  /\ pc \notin {"finished", "raised", "exit"} => exported = {}
  /\ ExportFailsClosed

IInv ==
  /\ TypeOK /\ PlacesDistinct /\ TodoOK /\ SubmittedFirst /\ FuturesOK /\ LeadsOK
  /\ IsFiniteSet(Submitted) /\ EveryAuditCounted
  /\ CollectedOK /\ AttemptsOK /\ ResultsOK /\ ExportOK

-----------------------------------------------------------------------------
(* Types *)

\* The empty values have their types.
LEMMA EmptyTypes ==
  /\ NoCrawl \in CrawlResult /\ NoAudit \in AuditState /\ NoLead \in Lead
  /\ NoCrawl.place = NoPlace
<1>1. NoCrawl \in CrawlResult
  BY DEF NoCrawl, CrawlResult
<1>2. NoAudit \in AuditState
  BY DEF NoAudit, AuditState
<1> QED BY <1>1, <1>2 DEF NoLead, Lead, NoCrawl

\* The first state satisfies the invariant.
LEMMA InitInv == Init => IInv
<1> SUFFICES ASSUME Init PROVE IInv
  OBVIOUS
<1>1. TypeOK
  <2>1. /\ mode \in {"with_website", "no_website"} /\ pc \in Phases
        /\ kw \in 1..Keywords /\ cell \in 1..Cells + 1 /\ attempt \in 1..MaxAttempts
        /\ total_to_audit \in Nat /\ audits_completed \in 0..total_to_audit
    BY DEF Init, Phases
  <2>2. /\ batch \in Seq(Places) /\ all_places \in Seq(Candidate) /\ todo \in Seq(Candidate)
        /\ valid_lead_ids \in Seq(Places) /\ results \in Seq(Places)
    BY DEF Init
  <2>3. /\ futures \in [Places -> CrawlResult] /\ audit \in [Places -> AuditState]
        /\ all_leads \in [Places -> Lead] /\ crawl_res \in CrawlResult
    BY EmptyTypes DEF Init
  <2> QED BY <2>1, <2>2, <2>3 DEF Init, TypeOK
<1>2. Submitted = {} /\ Leads = {}
  BY DEF Init, Submitted, Leads
<1>3. DOMAIN valid_lead_ids = {} /\ DOMAIN todo = {} /\ DOMAIN results = {} /\ DOMAIN all_places = {}
  BY DEF Init
<1>4. Audited = {}
  BY <1>3 DEF Audited, Range
<1>5. PlacesDistinct /\ TodoOK /\ SubmittedFirst
  BY <1>3 DEF Init, PlacesDistinct, TodoOK, SubmittedFirst, Ordered
<1>6. FuturesOK /\ LeadsOK /\ CollectedOK
  BY <1>2, <1>4 DEF Init, FuturesOK, LeadsOK, CollectedOK
<1>7. IsFiniteSet(Submitted) /\ EveryAuditCounted
  BY <1>2, FS_EmptySet DEF Init, EveryAuditCounted
<1>8. AttemptsOK
  BY DEF Init, AttemptsOK, NoAudit
<1>9. ResultsOK /\ ExportOK
  BY <1>2, <1>3 DEF Init, ResultsOK, Ordered, ExportOK, ExportFailsClosed
<1> QED BY <1>1, <1>5, <1>6, <1>7, <1>8, <1>9 DEF IInv

\* The phases before run has returned, and the ones after the report.
Working == {"discover", "filter", "crawl", "poll", "collect", "drain"}
Over == {"finished", "raised", "exit"}

\* The main thread moves on and touches neither the audits nor what it counts.
LEMMA ControlStep ==
  ASSUME IInv, UNCHANGED <<mode, all_places, counters, pool>>,
         TypeOK', TodoOK', SubmittedFirst', ResultsOK', ExportOK',
         pc' = "collect" => pc = "collect"
  PROVE  IInv'
<1>1. /\ all_places' = all_places /\ valid_lead_ids' = valid_lead_ids
      /\ total_to_audit' = total_to_audit /\ audits_completed' = audits_completed
      /\ futures' = futures /\ done_futures' = done_futures /\ audit' = audit
      /\ all_leads' = all_leads
  BY DEF counters, pool
<1>2. Submitted' = Submitted /\ Leads' = Leads /\ Audited' = Audited /\ Done' = Done
  BY <1>1 DEF Submitted, Leads, Audited, Done
<1>3. PlacesDistinct' /\ AttemptsOK'
  BY <1>1 DEF IInv, PlacesDistinct, AttemptsOK
<1>4. FuturesOK' /\ LeadsOK'
  BY <1>1, <1>2 DEF IInv, FuturesOK, LeadsOK, CrawlOf
<1>5. IsFiniteSet(Submitted)' /\ EveryAuditCounted' /\ CollectedOK'
  BY <1>1, <1>2 DEF IInv, EveryAuditCounted, CollectedOK
<1> QED BY <1>3, <1>4, <1>5 DEF IInv

\* While no lead, no result and no report changes, only the phase matters for them.
LEMMA QuietOutcome ==
  ASSUME IInv, UNCHANGED <<mode, all_places, pool, outcome>>,
         pc' \in Working => pc \in Working,
         pc' = "export" => pc = "export" \/ (Submitted = {} /\ Leads = {}),
         pc \in Over => pc' \in Over
  PROVE  ResultsOK' /\ ExportOK'
<1>1. /\ all_places' = all_places /\ futures' = futures /\ all_leads' = all_leads
      /\ mode' = mode /\ results' = results /\ exported' = exported
  BY DEF pool, outcome
<1>2. Submitted' = Submitted /\ Leads' = Leads
  BY <1>1 DEF Submitted, Leads
<1>3. ResultsOK'
  BY <1>1, <1>2 DEF IInv, ResultsOK, Ordered, Before, Working
<1>4. ExportOK'
  BY <1>1, <1>2 DEF IInv, ExportOK, ExportFailsClosed, Over
<1> QED BY <1>3, <1>4

-----------------------------------------------------------------------------
(* Discovery *)

\* unique_candidates keeps each candidate of a batch once, at the place of its first
\* occurrence: nothing is lost, nothing is repeated, and a candidate comes before
\* another exactly when it was found first.
THEOREM UniqueCandidates ==
  ASSUME NEW S, NEW s \in Seq(S), NEW u, u = unique_candidates(s)
  PROVE  /\ u \in Seq(S)
         /\ \A i, j \in 1..Len(u) : u[i] = u[j] => i = j
         /\ \A i \in 1..Len(u) : \E n \in 1..Len(s) : u[i] = s[n]
         /\ \A n \in 1..Len(s) : \E i \in 1..Len(u) : u[i] = s[n]
         /\ \A i, j \in 1..Len(u) : i < j =>
              \E m \in 1..Len(s) : s[m] = u[i] /\ \A n \in 1..m : s[n] # u[j]
<1> DEFINE I == {i \in DOMAIN s : \A j \in 1..(i - 1) : s[j] # s[i]}
<1>1. u = SelectAt(s, I)
  BY DEF unique_candidates
<1>2. \A m, n \in 1..Len(s) : m < n /\ n \in I => s[m] # s[n]
  <2> SUFFICES ASSUME NEW m \in 1..Len(s), NEW n \in 1..Len(s), m < n, n \in I
               PROVE  s[m] # s[n]
    OBVIOUS
  <2>1. m \in 1..(n - 1)
    OBVIOUS
  <2> QED BY <2>1
<1>3. ASSUME NEW n \in 1..Len(s) PROVE \E m \in 1..Len(s) : m \in I /\ s[m] = s[n]
  <2> DEFINE T == {m \in 1..Len(s) : s[m] = s[n]}
  <2>1. PICK m \in T : \A k \in T : m <= k
    <3>1. T \subseteq Nat /\ n \in T
      OBVIOUS
    <3> HIDE DEF T
    <3> QED BY <3>1, LeastNat
  <2>2. ASSUME NEW k \in 1..(m - 1) PROVE s[k] # s[m]
    <3>1. k \in 1..Len(s) /\ ~(m <= k)
      OBVIOUS
    <3>2. k \notin T
      BY <2>1, <3>1
    <3> QED BY <3>1, <3>2
  <2> QED BY <2>2
<1> HIDE DEF I
<1>4. u \in Seq(S) /\ Selected(u, s, I)
  BY <1>1, SelectAtSelects
<1>5. \A i, j \in 1..Len(u) : u[i] = u[j] => i = j
  BY <1>2, <1>4, SelectedDistinct
<1>6. \A i \in 1..Len(u) : \E n \in 1..Len(s) : u[i] = s[n]
  BY <1>4 DEF Selected
<1>7. ASSUME NEW n \in 1..Len(s) PROVE \E i \in 1..Len(u) : u[i] = s[n]
  <2>1. PICK m \in 1..Len(s) : m \in I /\ s[m] = s[n]
    BY <1>3
  <2>2. PICK i \in 1..Len(u) : u[i] = s[m]
    BY <1>4, <2>1 DEF Selected
  <2> QED BY <2>1, <2>2
<1>8. ASSUME NEW i \in 1..Len(u), NEW j \in 1..Len(u), i < j
      PROVE  \E m \in 1..Len(s) : s[m] = u[i] /\ \A n \in 1..m : s[n] # u[j]
  <2>1. PICK m \in 1..Len(s), l \in 1..Len(s) : /\ m < l /\ m \in I /\ l \in I
                                               /\ u[i] = s[m] /\ u[j] = s[l]
    BY <1>4, <1>8 DEF Selected
  <2>2. ASSUME NEW n \in 1..m PROVE s[n] # u[j]
    <3>1. n \in 1..Len(s) /\ n < l
      BY <2>1
    <3> QED BY <1>2, <2>1, <3>1
  <2> QED BY <2>1, <2>2
<1> QED BY <1>4, <1>5, <1>6, <1>7, <1>8

\* The places a keyword adds are distinct and no earlier keyword found them.
LEMMA NewPlacesFacts ==
  ASSUME TypeOK, NEW new, new = NewPlaces(unique_candidates(batch))
  PROVE  /\ new \in Seq(Places)
         /\ \A i, j \in 1..Len(new) : new[i] = new[j] => i = j
         /\ \A i \in 1..Len(new), n \in DOMAIN all_places : all_places[n].place # new[i]
<1>0. PICK u : u = unique_candidates(batch)
  OBVIOUS
<1> DEFINE I == {i \in DOMAIN u : /\ Wanted(u[i])
                                  /\ \A n \in DOMAIN all_places : all_places[n].place # u[i]}
<1>1. /\ u \in Seq(Places) /\ Len(u) \in Nat
      /\ \A i, j \in 1..Len(u) : u[i] = u[j] => i = j
  BY <1>0, UniqueCandidates DEF TypeOK
<1>2. new = SelectAt(u, I)
  BY <1>0 DEF NewPlaces
<1>3. \A m \in I : \A n \in DOMAIN all_places : all_places[n].place # u[m]
  OBVIOUS
<1> HIDE DEF I
<1>4. new \in Seq(Places) /\ Selected(new, u, I)
  BY <1>1, <1>2, SelectAtSelects
<1>5. \A m, n \in 1..Len(u) : m < n /\ m \in I /\ n \in I => u[m] # u[n]
  BY <1>1
<1>6. \A i, j \in 1..Len(new) : new[i] = new[j] => i = j
  BY <1>1, <1>4, <1>5, SelectedDistinct
<1>7. \A i \in 1..Len(new), n \in DOMAIN all_places : all_places[n].place # new[i]
  BY <1>3, <1>4 DEF Selected
<1> QED BY <1>4, <1>6, <1>7

\* keyword_done appends them: the places stay distinct.
LEMMA AppendedPlaces ==
  ASSUME TypeOK, PlacesDistinct, NEW new \in Seq(Places), NEW found,
         found = [i \in DOMAIN new |-> [place |-> new[i], keyword |-> kw]],
         all_places' = all_places \o found,
         \A i, j \in 1..Len(new) : new[i] = new[j] => i = j,
         \A i \in 1..Len(new), n \in DOMAIN all_places : all_places[n].place # new[i]
  PROVE  all_places' \in Seq(Candidate) /\ PlacesDistinct'
<1> DEFINE n == Len(all_places)
<1>1. /\ found \in Seq(Candidate) /\ Len(found) = Len(new) /\ Len(new) \in Nat
      /\ \A i \in 1..Len(new) : found[i].place = new[i]
  <2>1. DOMAIN new = 1..Len(new) /\ Len(new) \in Nat
    OBVIOUS
  <2>2. \A i \in 1..Len(new) : found[i] = [place |-> new[i], keyword |-> kw]
    BY <2>1
  <2>3. \A i \in 1..Len(new) : found[i] \in Candidate
    BY <2>2 DEF TypeOK, Candidate
  <2>4. found \in [1..Len(new) -> Candidate]
    BY <2>1, <2>3
  <2> QED BY <2>1, <2>2, <2>4
<1>2. all_places \in Seq(Candidate) /\ n \in Nat /\ DOMAIN all_places = 1..n
  BY DEF TypeOK
<1>3. /\ all_places' \in Seq(Candidate) /\ Len(all_places') = n + Len(new)
      /\ \A k \in 1..(n + Len(new)) :
           all_places'[k] = IF k <= n THEN all_places[k] ELSE found[k - n]
  <2>1. /\ all_places \o found \in Seq(Candidate)
        /\ Len(all_places \o found) = Len(all_places) + Len(found)
        /\ \A k \in 1..(Len(all_places) + Len(found)) :
             (all_places \o found)[k] = IF k <= Len(all_places) THEN all_places[k]
                                        ELSE found[k - Len(all_places)]
    BY <1>1, <1>2, ConcatProperties
  <2> QED BY <1>1, <2>1
<1>4. DOMAIN all_places' = 1..(n + Len(new))
  BY <1>3
<1> HIDE DEF n
<1>5. ASSUME NEW k \in 1..(n + Len(new)), NEW l \in 1..(n + Len(new)), k < l
      PROVE  all_places'[k].place # all_places'[l].place
  <2>1. CASE l <= n
    <3>1. /\ all_places'[k] = all_places[k] /\ all_places'[l] = all_places[l]
          /\ k \in 1..n /\ l \in 1..n /\ k # l
      BY <1>1, <1>2, <1>3, <1>5, <2>1
    <3> QED BY <1>2, <3>1 DEF PlacesDistinct
  <2>2. CASE k <= n /\ l > n
    <3>1. k \in 1..n /\ l - n \in 1..Len(new)
      BY <1>1, <1>2, <2>2
    <3>2. all_places'[k] = all_places[k] /\ all_places'[l] = found[l - n]
      BY <1>2, <1>3, <2>2
    <3> QED BY <1>1, <1>2, <3>1, <3>2
  <2>3. CASE k > n
    <3>1. /\ k - n \in 1..Len(new) /\ l - n \in 1..Len(new) /\ k - n # l - n
          /\ ~(k <= n) /\ ~(l <= n)
      BY <1>1, <1>2, <1>5, <2>3
    <3>2. all_places'[k] = found[k - n]
      BY <1>3, <3>1
    <3>3. all_places'[l] = found[l - n]
      BY <1>3, <3>1
    <3>4. found[k - n].place = new[k - n] /\ found[l - n].place = new[l - n]
      BY <1>1, <3>1
    <3>5. new[k - n] # new[l - n]
      BY <3>1
    <3> QED BY <3>2, <3>3, <3>4, <3>5
  <2> QED BY <1>1, <1>2, <2>1, <2>2, <2>3
<1>6. PlacesDistinct'
  <2>1. ASSUME NEW k \in DOMAIN all_places', NEW l \in DOMAIN all_places',
               all_places'[k].place = all_places'[l].place
        PROVE  k = l
    <3>1. k \in 1..(n + Len(new)) /\ l \in 1..(n + Len(new))
      BY <1>4, Zenon
    <3>2. k < l \/ l < k \/ k = l
      BY <1>1, <1>2, <3>1
    <3>3. ~(k < l) /\ ~(l < k)
      BY <1>5, <2>1, <3>1, Zenon
    <3> QED BY <3>2, <3>3
  <2> QED BY <2>1, Zenon DEF PlacesDistinct
<1> QED BY <1>3, <1>6
-----------------------------------------------------------------------------
(* Steps that only move the main thread *)

\* While the candidates do not move, the phase may go on to poll and collect or leave
\* the loop.
LEMMA SameQueue ==
  ASSUME IInv, UNCHANGED <<all_places, todo, valid_lead_ids>>,
         pc' \in {"discover", "filter"} => pc \in {"discover", "filter"},
         pc' = "crawl" => pc = "crawl",
         pc' \in {"poll", "collect"} => pc \in {"crawl", "poll", "collect"}
  PROVE  TodoOK' /\ SubmittedFirst'
<1>1. TodoOK'
  BY DEF IInv, TodoOK, Before
<1>2. SubmittedFirst'
  BY DEF IInv, SubmittedFirst, Ordered, Before
<1> QED BY <1>1, <1>2

\* fetch preserves the invariant.
LEMMA FetchStep == ASSUME IInv, NEW found \in Found, fetch(found) PROVE IInv'
<1>1. found \in Seq(Places)
  BY DEF Found
<1>2. batch' \in Seq(Places)
  BY <1>1, ConcatProperties DEF fetch, IInv, TypeOK
<1>3. cell' \in 1..Cells + 1 /\ attempt' \in 1..MaxAttempts
  BY DEF fetch, IInv, TypeOK
<1>4. /\ UNCHANGED <<mode, all_places, counters, pool, outcome>>
      /\ UNCHANGED <<pc, kw, todo, crawl_res, valid_lead_ids>>
  BY DEF fetch, counters
<1>5. TypeOK'
  BY <1>2, <1>3, <1>4 DEF IInv, TypeOK, counters, pool, outcome
<1>6. TodoOK' /\ SubmittedFirst'
  BY <1>4, SameQueue
<1>7. ResultsOK' /\ ExportOK'
  BY <1>4, QuietOutcome
<1> QED BY <1>4, <1>5, <1>6, <1>7, ControlStep

\* fetch_retry preserves the invariant.
LEMMA FetchRetryStep == ASSUME IInv, fetch_retry PROVE IInv'
<1>1. attempt' \in 1..MaxAttempts
  BY DEF fetch_retry, IInv, TypeOK
<1>2. /\ UNCHANGED <<mode, all_places, counters, pool, outcome>>
      /\ UNCHANGED <<pc, kw, cell, batch, todo, crawl_res, valid_lead_ids>>
  BY DEF fetch_retry, counters
<1>3. TypeOK'
  BY <1>1, <1>2 DEF IInv, TypeOK, counters, pool, outcome
<1>4. TodoOK' /\ SubmittedFirst'
  BY <1>2, SameQueue
<1>5. ResultsOK' /\ ExportOK'
  BY <1>2, QuietOutcome
<1> QED BY <1>2, <1>3, <1>4, <1>5, ControlStep

\* fetch_error, interrupt and exit only change the phase.
LEMMA PhaseStep == ASSUME IInv, fetch_error \/ interrupt \/ exit PROVE IInv'
<1>1. /\ UNCHANGED <<mode, all_places, counters, pool, outcome>>
      /\ UNCHANGED <<kw, cell, attempt, batch, todo, crawl_res, valid_lead_ids>>
  BY DEF fetch_error, interrupt, exit, discovery, counters
<1>2. /\ pc' \in {"raised", "interrupted", "exit"}
      /\ pc \in Over => pc' \in Over
  BY DEF fetch_error, interrupt, exit, Over
<1>3. TypeOK'
  BY <1>1, <1>2 DEF IInv, TypeOK, Phases, counters, pool, outcome
<1>4. TodoOK' /\ SubmittedFirst'
  BY <1>1, <1>2, SameQueue
<1>5. ResultsOK' /\ ExportOK'
  BY <1>1, <1>2, QuietOutcome DEF Working
<1> QED BY <1>1, <1>2, <1>3, <1>4, <1>5, ControlStep

\* crawl_raises: the loop goes on to the poll.
LEMMA CrawlRaisesStep == ASSUME IInv, crawl_raises PROVE IInv'
<1>1. /\ UNCHANGED <<mode, all_places, counters, pool, outcome>>
      /\ UNCHANGED <<kw, cell, attempt, batch, todo, valid_lead_ids>>
      /\ pc = "crawl" /\ pc' = "poll"
  BY DEF crawl_raises, discovery, counters
<1>2. crawl_res' \in CrawlResult
  <2>1. Head(todo) \in Candidate
    BY <1>1 DEF IInv, TypeOK, TodoOK
  <2>2. Crawled(FALSE) \in CrawlResult
    BY <2>1 DEF Crawled, CrawlResult, Candidate
  <2> QED BY <2>2 DEF crawl_raises, IInv, TypeOK
<1>3. TypeOK'
  BY <1>1, <1>2 DEF IInv, TypeOK, Phases, counters, pool, outcome
<1>4. TodoOK' /\ SubmittedFirst'
  BY <1>1, SameQueue
<1>5. ResultsOK' /\ ExportOK'
  BY <1>1, QuietOutcome DEF Working, Over
<1> QED BY <1>1, <1>3, <1>4, <1>5, ControlStep

-----------------------------------------------------------------------------
(* The end of the discovery *)

\* Before the first crawl nothing is submitted, so there is no future and no lead.
LEMMA NothingYet ==
  ASSUME IInv, valid_lead_ids = <<>>
  PROVE  Audited = {} /\ Submitted = {} /\ Leads = {}
<1>1. Audited = {}
  BY DEF Audited, Range
<1>2. Submitted \subseteq Audited /\ Leads \subseteq Audited
  BY DEF IInv, FuturesOK, LeadsOK
<1> QED BY <1>1, <1>2

\* keyword_done preserves the invariant: it appends candidates found for the first time.
LEMMA KeywordDoneStep == ASSUME IInv, keyword_done PROVE IInv'
<1>0. PICK new : new = NewPlaces(unique_candidates(batch))
  OBVIOUS
<1>1. PICK found : found = [i \in DOMAIN new |-> [place |-> new[i], keyword |-> kw]]
  OBVIOUS
<1>2. /\ all_places' = all_places \o found
      /\ UNCHANGED <<mode, counters, pool, outcome>>
      /\ UNCHANGED <<attempt, todo, crawl_res, valid_lead_ids>>
      /\ batch' = <<>> /\ pc = "discover" /\ pc' \in {"discover", "filter"}
  BY <1>0, <1>1 DEF keyword_done, counters
<1>3. kw' \in 1..Keywords /\ cell' \in 1..Cells + 1
  BY DEF keyword_done, IInv, TypeOK
<1>4. /\ new \in Seq(Places)
      /\ \A i, j \in 1..Len(new) : new[i] = new[j] => i = j
      /\ \A i \in 1..Len(new), n \in DOMAIN all_places : all_places[n].place # new[i]
  BY <1>0, NewPlacesFacts DEF IInv
<1>5. all_places' \in Seq(Candidate) /\ PlacesDistinct'
  BY <1>1, <1>2, <1>4, AppendedPlaces DEF IInv
<1>6. TypeOK'
  BY <1>2, <1>3, <1>5 DEF IInv, TypeOK, Phases, counters, pool, outcome
<1>7. /\ todo' = <<>> /\ valid_lead_ids' = <<>> /\ results' = <<>> /\ exported' = {}
      /\ Submitted' = {} /\ Leads' = {} /\ Audited' = {}
  <2>1. /\ todo = <<>> /\ valid_lead_ids = <<>> /\ results = <<>> /\ exported = {}
    BY <1>2 DEF IInv, TodoOK, ResultsOK, ExportOK
  <2>2. Submitted' = Submitted /\ Leads' = Leads /\ Audited' = Audited
    BY <1>2 DEF Submitted, Leads, Audited, pool
  <2> QED BY <1>2, <2>1, <2>2, NothingYet DEF outcome
<1>8. TodoOK' /\ SubmittedFirst'
  BY <1>2, <1>7 DEF TodoOK, SubmittedFirst, Ordered
<1>9. FuturesOK' /\ LeadsOK' /\ CollectedOK'
  BY <1>2, <1>7 DEF FuturesOK, LeadsOK, CollectedOK
<1>10. IsFiniteSet(Submitted)' /\ EveryAuditCounted' /\ AttemptsOK'
  <2>1. Submitted' = Submitted
    BY <1>2 DEF Submitted, pool
  <2> QED BY <1>2, <2>1 DEF IInv, EveryAuditCounted, AttemptsOK, counters, pool
<1>11. ResultsOK' /\ ExportOK'
  BY <1>2, <1>7 DEF ResultsOK, Ordered, ExportOK, ExportFailsClosed
<1> QED BY <1>5, <1>6, <1>8, <1>9, <1>10, <1>11 DEF IInv

\* The candidates themselves are in the order of discovery.
LEMMA DiscoveryOrdered ==
  ASSUME TypeOK
  PROVE  PlacesOf(all_places) \in Seq(Places) /\ Ordered(PlacesOf(all_places))
<1>1. /\ DOMAIN all_places = 1..Len(all_places) /\ Len(all_places) \in Nat
      /\ \A i \in DOMAIN all_places : all_places[i] \in Candidate
  BY DEF TypeOK
<1>2. \A i \in DOMAIN all_places : all_places[i].place \in Places
  BY <1>1 DEF Candidate
<1>3. PlacesOf(all_places) \in [1..Len(all_places) -> Places]
  BY <1>1, <1>2 DEF PlacesOf
<1>4. Ordered(PlacesOf(all_places))
  BY DEF PlacesOf, Ordered, Before
<1> QED BY <1>1, <1>3, <1>4

\* no_website_done returns every candidate.
LEMMA NoWebsiteDoneStep == ASSUME IInv, no_website_done PROVE IInv'
<1>1. /\ UNCHANGED <<mode, all_places, counters, pool>>
      /\ UNCHANGED <<kw, cell, attempt, batch, todo, crawl_res, valid_lead_ids, exported, futures,
                     all_leads>>
      /\ pc = "filter" /\ pc' = "export" /\ mode = "no_website"
      /\ results' = PlacesOf(all_places)
  BY DEF no_website_done, discovery, counters, pool
<1>2. PlacesOf(all_places) \in Seq(Places) /\ Ordered(PlacesOf(all_places))
  BY DiscoveryOrdered DEF IInv
<1>3. TypeOK'
  BY <1>1, <1>2 DEF IInv, TypeOK, Phases, counters, pool
<1>4. TodoOK' /\ SubmittedFirst'
  BY <1>1, SameQueue
<1>5. Submitted' = {} /\ Leads' = {}
  <2>1. Submitted = {} /\ Leads = {}
    BY <1>1, NothingYet DEF IInv, TodoOK
  <2> QED BY <1>1, <2>1 DEF Submitted, Leads
<1>6. Ordered(results)'
  BY <1>1, <1>2 DEF Ordered, Before
<1>7. ResultsOK'
  BY <1>1, <1>5, <1>6 DEF ResultsOK, Ordered
<1>8. ExportOK'
  BY <1>1 DEF IInv, ExportOK, ExportFailsClosed
<1> QED BY <1>1, <1>3, <1>4, <1>7, <1>8, ControlStep
\* A selection has elements of the list only, in its order.
LEMMA SelectedFrom ==
  ASSUME NEW S, NEW s \in Seq(S), NEW I, NEW t \in Seq(S), Selected(t, s, I)
  PROVE  /\ \A i \in DOMAIN t : \E k \in DOMAIN s : s[k] = t[i]
         /\ \A i, j \in DOMAIN t : i < j =>
              \E k, l \in DOMAIN s : k < l /\ s[k] = t[i] /\ s[l] = t[j]
<1>1. DOMAIN t = 1..Len(t) /\ DOMAIN s = 1..Len(s)
  OBVIOUS
<1>2. ASSUME NEW i \in DOMAIN t PROVE \E k \in DOMAIN s : s[k] = t[i]
  <2>1. PICK m \in 1..Len(s) : m \in I /\ t[i] = s[m]
    BY <1>1 DEF Selected
  <2> QED BY <1>1, <2>1
<1>3. ASSUME NEW i \in DOMAIN t, NEW j \in DOMAIN t, i < j
      PROVE  \E k, l \in DOMAIN s : k < l /\ s[k] = t[i] /\ s[l] = t[j]
  <2>1. PICK m \in 1..Len(s), n \in 1..Len(s) :
               m < n /\ m \in I /\ n \in I /\ t[i] = s[m] /\ t[j] = s[n]
    BY <1>1, <1>3 DEF Selected
  <2> QED BY <1>1, <2>1
<1> QED BY <1>2, <1>3

\* What filter_social keeps comes from the discovery, in its order.
LEMMA FilteredFacts ==
  ASSUME TypeOK, NEW I, NEW t, t = SelectAt(all_places, I)
  PROVE  /\ t \in Seq(Candidate)
         /\ \A i \in DOMAIN t : \E k \in DOMAIN all_places : all_places[k] = t[i]
         /\ \A i, j \in DOMAIN t : i < j => Before(t[i].place, t[j].place)
<1>1. PICK s : s = all_places
  OBVIOUS
<1>2. s \in Seq(Candidate) /\ t \in Seq(Candidate) /\ Selected(t, s, I)
  BY <1>1, SelectAtSelects DEF TypeOK
<1>3. /\ \A i \in DOMAIN t : \E k \in DOMAIN s : s[k] = t[i]
      /\ \A i, j \in DOMAIN t : i < j =>
           \E k, l \in DOMAIN s : k < l /\ s[k] = t[i] /\ s[l] = t[j]
  BY <1>2, SelectedFrom
<1>4. \A i, j \in DOMAIN t : i < j => Before(t[i].place, t[j].place)
  BY <1>1, <1>3 DEF Before
<1> QED BY <1>1, <1>2, <1>3, <1>4

\* filter_social: the candidates left to crawl.
LEMMA FilterSocialStep == ASSUME IInv, filter_social PROVE IInv'
<1>0. PICK I : I = {i \in DOMAIN all_places : Website[all_places[i].place] # "social"}
  OBVIOUS
<1>1. /\ UNCHANGED <<mode, all_places, counters, pool, outcome>>
      /\ UNCHANGED <<kw, cell, attempt, batch, crawl_res, valid_lead_ids>>
      /\ pc = "filter" /\ todo' = SelectAt(all_places, I)
      /\ pc' = IF todo' = <<>> THEN "export" ELSE "crawl"
  BY <1>0 DEF filter_social, discovery, counters
<1>2. PICK t : t = SelectAt(all_places, I)
  OBVIOUS
<1>3. /\ t \in Seq(Candidate)
      /\ \A i \in DOMAIN t : \E k \in DOMAIN all_places : all_places[k] = t[i]
      /\ \A i, j \in DOMAIN t : i < j => Before(t[i].place, t[j].place)
  BY <1>2, FilteredFacts DEF IInv
<1>4. TypeOK'
  BY <1>1, <1>2, <1>3 DEF IInv, TypeOK, Phases, counters, pool, outcome
<1>5. valid_lead_ids = <<>>
  BY <1>1 DEF IInv, TodoOK
<1>6. TodoOK'
  BY <1>1, <1>2, <1>3 DEF TodoOK, Before
<1>7. SubmittedFirst'
  BY <1>1, <1>5 DEF SubmittedFirst, Ordered
<1>8. ResultsOK' /\ ExportOK'
  BY <1>1, <1>5, NothingYet, QuietOutcome DEF Working, Over
<1> QED BY <1>1, <1>4, <1>6, <1>7, <1>8, ControlStep

-----------------------------------------------------------------------------
(* The crawl loop *)

\* What Skip leaves, as indexes of the candidates there were.
LEMMA TailFacts ==
  ASSUME NEW S, NEW s \in Seq(S), s # <<>>
  PROVE  /\ Tail(s) \in Seq(S) /\ Len(s) \in Nat \ {0}
         /\ DOMAIN Tail(s) = 1..(Len(s) - 1) /\ DOMAIN s = 1..Len(s)
         /\ \A i \in DOMAIN Tail(s) : Tail(s)[i] = s[i + 1] /\ i + 1 \in DOMAIN s
<1>1. Len(s) \in Nat \ {0}
  OBVIOUS
<1>2. Tail(s) \in Seq(S) /\ Len(Tail(s)) = Len(s) - 1
  OBVIOUS
<1>3. \A i \in 1..(Len(s) - 1) : Tail(s)[i] = s[i + 1]
  OBVIOUS
<1> QED BY <1>1, <1>2, <1>3

\* Skip, when the head of todo is behind or was not submitted.
LEMMA SkipStep ==
  ASSUME IInv, Skip, pc \in {"crawl", "collect"}, crawl_res' \in CrawlResult,
         UNCHANGED <<mode, discovery, counters, pool, outcome>>
  PROVE  IInv'
<1>0. todo \in Seq(Candidate) /\ todo # <<>>
  BY DEF IInv, TypeOK, TodoOK
<1>1. /\ todo' \in Seq(Candidate) /\ Len(todo) \in Nat \ {0}
      /\ DOMAIN todo' = 1..(Len(todo) - 1) /\ DOMAIN todo = 1..Len(todo)
      /\ \A i \in DOMAIN todo' : todo'[i] = todo[i + 1] /\ i + 1 \in DOMAIN todo
  BY <1>0, TailFacts DEF Skip
<1>2. /\ UNCHANGED <<mode, all_places, counters, pool, outcome>>
      /\ UNCHANGED <<kw, cell, attempt, batch, valid_lead_ids>>
      /\ pc' \in {"drain", "crawl"}
      /\ pc' = "crawl" => Len(todo) # 1
  BY DEF Skip, discovery, counters
<1>3. TypeOK'
  BY <1>1, <1>2 DEF IInv, TypeOK, Phases, counters, pool, outcome
<1>4. TodoOK'
  <2>1. pc' = "crawl" => todo' # <<>>
    BY <1>1, <1>2
  <2>2. \A i \in DOMAIN todo' : \E k \in DOMAIN all_places : all_places[k] = todo'[i]
    BY <1>1 DEF IInv, TodoOK
  <2>3. \A i, j \in DOMAIN todo' : i < j => Before(todo'[i].place, todo'[j].place)
    <3> SUFFICES ASSUME NEW i \in DOMAIN todo', NEW j \in DOMAIN todo', i < j
                 PROVE  Before(todo'[i].place, todo'[j].place)
      OBVIOUS
    <3>1. i + 1 < j + 1 /\ i + 1 \in DOMAIN todo /\ j + 1 \in DOMAIN todo
      BY <1>1
    <3>2. Before(todo[i + 1].place, todo[j + 1].place)
      BY <3>1 DEF IInv, TodoOK
    <3> QED BY <1>1, <3>2
  <2> QED BY <1>2, <2>1, <2>2, <2>3 DEF TodoOK, Before
<1>5. SubmittedFirst'
  <2>1. ASSUME NEW i \in DOMAIN valid_lead_ids, NEW j \in DOMAIN todo'
        PROVE  Before(valid_lead_ids[i], todo'[j].place)
    <3>1. j + 1 \in DOMAIN todo /\ j + 1 > 1 /\ todo'[j] = todo[j + 1]
      BY <1>1
    <3>2. Before(valid_lead_ids[i], todo[j + 1].place)
      BY <3>1 DEF IInv, SubmittedFirst
    <3> QED BY <3>1, <3>2
  <2> QED BY <1>2, <2>1 DEF IInv, SubmittedFirst, Ordered, Before
<1>6. ResultsOK' /\ ExportOK'
  BY <1>2, QuietOutcome DEF Working, Over
<1> QED BY <1>2, <1>3, <1>4, <1>5, <1>6, ControlStep

\* The loop variable is a crawl of the current candidate.
LEMMA CrawledType ==
  ASSUME IInv, todo # <<>>, NEW b \in BOOLEAN
  PROVE  /\ Crawled(b) \in CrawlResult /\ [Crawled(FALSE) EXCEPT !.auditable = b] \in CrawlResult
         /\ Head(todo) \in Candidate /\ Head(todo) = todo[1] /\ 1 \in DOMAIN todo
         /\ Head(todo).place \in Places
<1>1. Head(todo) \in Candidate /\ Head(todo) = todo[1] /\ 1 \in DOMAIN todo
  BY DEF IInv, TypeOK
<1>2. Head(todo).place \in Places /\ Head(todo).keyword \in 0..Keywords
  BY <1>1 DEF Candidate
<1>3. \A c \in BOOLEAN : Crawled(c) \in CrawlResult
  BY <1>2 DEF Crawled, CrawlResult
<1>4. [Crawled(FALSE) EXCEPT !.auditable = b] \in CrawlResult
  BY <1>2 DEF Crawled, CrawlResult
<1> QED BY <1>1, <1>2, <1>3, <1>4

\* crawl_rejected and next_candidate go to the next candidate.
LEMMA NextCandidateStep ==
  ASSUME IInv, next_candidate \/ \E b \in BOOLEAN : crawl_rejected(b)
  PROVE  IInv'
<1>1. CASE next_candidate
  BY <1>1, SkipStep DEF next_candidate, IInv, TypeOK
<1>2. CASE \E b \in BOOLEAN : crawl_rejected(b)
  <2>1. PICK b \in BOOLEAN : crawl_rejected(b)
    BY <1>2
  <2>2. crawl_res' \in CrawlResult
    BY <2>1, CrawledType DEF crawl_rejected, IInv, TodoOK
  <2> QED BY <2>1, <2>2, SkipStep DEF crawl_rejected
<1> QED BY <1>1, <1>2
\* poll: the futures to collect are the ones that are done.
LEMMA PollStep == ASSUME IInv, poll PROVE IInv'
<1>1. /\ UNCHANGED <<mode, kw, cell, attempt, batch, all_places, todo, crawl_res, valid_lead_ids>>
      /\ UNCHANGED <<total_to_audit, audits_completed, futures, audit, all_leads, results, exported>>
      /\ pc = "poll" /\ pc' = "collect" /\ done_futures' = Done
  BY DEF poll, discovery, counters, outcome
<1>2. Submitted' = Submitted /\ Leads' = Leads /\ Audited' = Audited /\ Done' = Done
  BY <1>1 DEF Submitted, Leads, Audited, Done
<1>3. TypeOK'
  <2>1. done_futures' \subseteq Places
    BY <1>1 DEF Done, Submitted
  <2> QED BY <1>1, <2>1 DEF IInv, TypeOK, Phases
<1>4. TodoOK' /\ SubmittedFirst'
  BY <1>1, SameQueue
<1>5. PlacesDistinct' /\ AttemptsOK'
  BY <1>1 DEF IInv, PlacesDistinct, AttemptsOK
<1>6. FuturesOK' /\ LeadsOK'
  BY <1>1, <1>2 DEF IInv, FuturesOK, LeadsOK, CrawlOf
<1>7. IsFiniteSet(Submitted)' /\ EveryAuditCounted' /\ CollectedOK'
  BY <1>1, <1>2 DEF IInv, EveryAuditCounted, CollectedOK
<1>8. ResultsOK'
  BY <1>1 DEF IInv, ResultsOK, Ordered
<1>9. ExportOK'
  BY <1>1 DEF IInv, ExportOK, ExportFailsClosed
<1> QED BY <1>3, <1>4, <1>5, <1>6, <1>7, <1>8, <1>9 DEF IInv

\* No place was discovered before itself.
LEMMA NotBeforeItself ==
  ASSUME TypeOK, PlacesDistinct, NEW p
  PROVE  ~Before(p, p)
<1> SUFFICES ASSUME Before(p, p) PROVE FALSE
  OBVIOUS
<1>1. PICK k, l \in DOMAIN all_places :
             k < l /\ all_places[k].place = p /\ all_places[l].place = p
  BY DEF Before
<1>2. k = l
  BY <1>1 DEF PlacesDistinct
<1>3. DOMAIN all_places \subseteq Nat
  BY DEF TypeOK
<1> QED BY <1>1, <1>2, <1>3

\* The place about to be submitted was never submitted before.
LEMMA FirstSubmission ==
  ASSUME IInv, pc = "crawl"
  PROVE  /\ Head(todo).place \notin Audited
         /\ \A i \in DOMAIN valid_lead_ids : Before(valid_lead_ids[i], Head(todo).place)
<1>1. todo # <<>>
  BY DEF IInv, TodoOK
<1>2. Head(todo) = todo[1] /\ 1 \in DOMAIN todo
  BY <1>1 DEF IInv, TypeOK
<1>3. \A i \in DOMAIN valid_lead_ids : Before(valid_lead_ids[i], Head(todo).place)
  BY <1>2 DEF IInv, SubmittedFirst
<1>4. Head(todo).place \notin Audited
  BY <1>3, NotBeforeItself DEF IInv, Audited, Range
<1> QED BY <1>3, <1>4

\* The places submitted, as a set.
LEMMA AppendedRange ==
  ASSUME NEW S, NEW v \in Seq(S), NEW p, NEW w \in Seq(S), Len(w) = Len(v) + 1,
         \A i \in 1..Len(v) : w[i] = v[i], w[Len(v) + 1] = p
  PROVE  \A x : x \in Range(w) <=> x \in Range(v) \/ x = p
<1>1. Len(v) \in Nat
  OBVIOUS
<1>2. DOMAIN v = 1..Len(v) /\ DOMAIN w = 1..(Len(v) + 1)
  BY <1>1
<1>3. Range(w) \subseteq Range(v) \cup {p}
  <2> SUFFICES ASSUME NEW i \in DOMAIN w PROVE w[i] \in Range(v) \cup {p}
    BY DEF Range
  <2>1. i \in 1..Len(v) \/ i = Len(v) + 1
    BY <1>1, <1>2
  <2> QED BY <1>1, <1>2, <2>1 DEF Range
<1>4. Range(v) \subseteq Range(w)
  <2> SUFFICES ASSUME NEW i \in DOMAIN v PROVE v[i] \in Range(w)
    BY DEF Range
  <2>1. i \in DOMAIN w /\ w[i] = v[i]
    BY <1>1, <1>2
  <2> QED BY <2>1 DEF Range
<1>5. p \in Range(w)
  <2>1. Len(v) + 1 \in DOMAIN w
    BY <1>1, <1>2
  <2> QED BY <1>1, <2>1 DEF Range
<1> QED BY <1>3, <1>4, <1>5

\* submit: where the place goes.
LEMMA SubmitEffect ==
  ASSUME IInv, NEW b \in BOOLEAN, submit(b), NEW p, p = Head(todo).place
  PROVE  /\ p \in Places \ Audited
         /\ Submitted' = Submitted \cup {p} /\ p \notin Submitted
         /\ Audited' = Audited \cup {p} /\ Leads' = Leads
         /\ \A q \in Places \ {p} : futures'[q] = futures[q] /\ audit'[q] = audit[q]
         /\ futures'[p] = Crawled(b) /\ CrawlOf(Crawled(b), p)
         /\ audit'[p] = [audit[p] EXCEPT !.state = "queued"]
         /\ futures' \in [Places -> CrawlResult] /\ audit' \in [Places -> AuditState]
<1>1. /\ futures' = [futures EXCEPT ![p] = Crawled(b)]
      /\ audit' = [audit EXCEPT ![p].state = "queued"]
      /\ valid_lead_ids' = Append(valid_lead_ids, p)
      /\ all_leads' = all_leads /\ pc = "crawl"
  BY DEF submit
<1>2. /\ todo # <<>>
      /\ futures \in [Places -> CrawlResult] /\ audit \in [Places -> AuditState]
      /\ valid_lead_ids \in Seq(Places)
  BY <1>1 DEF IInv, TodoOK, TypeOK
<1>3. /\ Crawled(b) \in CrawlResult /\ Head(todo) \in Candidate /\ Head(todo) = todo[1]
      /\ 1 \in DOMAIN todo /\ p \in Places
  BY <1>2, CrawledType
<1>4. p \notin Audited
  BY <1>1, FirstSubmission
<1>5. Audited' = Audited \cup {p}
  <2>1. PICK v, w : v = valid_lead_ids /\ w = valid_lead_ids'
    OBVIOUS
  <2>2. /\ v \in Seq(Places) /\ w \in Seq(Places) /\ Len(w) = Len(v) + 1
        /\ \A i \in 1..Len(v) : w[i] = v[i]
        /\ w[Len(v) + 1] = p
    BY <1>1, <1>2, <1>3, <2>1, AppendProperties
  <2>3. \A x : x \in Range(w) <=> x \in Range(v) \/ x = p
    BY <2>2, AppendedRange
  <2> QED BY <2>1, <2>3 DEF Audited
<1>6. Crawled(b) # NoCrawl /\ Crawled(b).place = p /\ Crawled(b).auditable
  <2>1. Crawled(b).place = p /\ Crawled(b).auditable
    BY DEF Crawled
  <2> QED BY <1>3, <2>1, EmptyTypes
<1>7. CrawlOf(Crawled(b), p)
  <2>1. PICK k \in DOMAIN all_places : all_places[k] = Head(todo)
    BY <1>3 DEF IInv, TodoOK
  <2>2. Head(todo) = [place |-> p, keyword |-> Head(todo).keyword]
    BY <1>3 DEF Candidate
  <2>3. Crawled(b).keyword = Head(todo).keyword
    BY DEF Crawled
  <2> QED BY <1>6, <2>1, <2>2, <2>3 DEF CrawlOf
<1>8. /\ \A q \in Places \ {p} : futures'[q] = futures[q]
      /\ futures'[p] = Crawled(b) /\ futures' \in [Places -> CrawlResult]
  BY <1>1, <1>2, <1>3
<1>9. /\ \A q \in Places \ {p} : audit'[q] = audit[q]
      /\ audit'[p] = [audit[p] EXCEPT !.state = "queued"]
  BY <1>1, <1>2, <1>3
<1>10. audit' \in [Places -> AuditState]
  <2>1. audit[p] \in AuditState
    BY <1>2, <1>3
  <2>2. [audit[p] EXCEPT !.state = "queued"] \in AuditState
    BY <2>1 DEF AuditState
  <2> QED BY <1>1, <1>2, <1>3, <2>2
<1>11. p \notin Submitted
  BY <1>4 DEF IInv, FuturesOK
<1>12. Submitted' = Submitted \cup {p}
  BY <1>3, <1>6, <1>8 DEF Submitted
<1>13. Leads' = Leads
  BY <1>1 DEF Leads
<1> QED BY <1>3, <1>4, <1>5, <1>7, <1>8, <1>9, <1>10, <1>11, <1>12, <1>13

\* submit preserves the invariant: a place is submitted once, after the ones before it.
LEMMA SubmitStep == ASSUME IInv, NEW b \in BOOLEAN, submit(b) PROVE IInv'
<1>0. PICK p : p = Head(todo).place
  OBVIOUS
<1>1. /\ UNCHANGED <<mode, kw, cell, attempt, batch, all_places, todo, audits_completed>>
      /\ UNCHANGED <<done_futures, all_leads, results, exported>>
      /\ pc = "crawl" /\ pc' = "poll" /\ total_to_audit' = total_to_audit + 1
      /\ crawl_res' = Crawled(b) /\ valid_lead_ids' = Append(valid_lead_ids, p)
  BY <1>0 DEF submit, discovery, outcome
<1>2. /\ p \in Places \ Audited
      /\ Submitted' = Submitted \cup {p} /\ p \notin Submitted
      /\ Audited' = Audited \cup {p} /\ Leads' = Leads
      /\ \A q \in Places \ {p} : futures'[q] = futures[q] /\ audit'[q] = audit[q]
      /\ futures'[p] = Crawled(b) /\ CrawlOf(Crawled(b), p)
      /\ audit'[p] = [audit[p] EXCEPT !.state = "queued"]
      /\ futures' \in [Places -> CrawlResult] /\ audit' \in [Places -> AuditState]
  BY <1>0, SubmitEffect
<1>3. /\ valid_lead_ids' \in Seq(Places) /\ Len(valid_lead_ids') = Len(valid_lead_ids) + 1
      /\ DOMAIN valid_lead_ids = 1..Len(valid_lead_ids)
      /\ DOMAIN valid_lead_ids' = 1..(Len(valid_lead_ids) + 1) /\ Len(valid_lead_ids) \in Nat
      /\ \A i \in DOMAIN valid_lead_ids : valid_lead_ids'[i] = valid_lead_ids[i]
      /\ valid_lead_ids'[Len(valid_lead_ids) + 1] = p
  <2>1. valid_lead_ids \in Seq(Places) /\ Len(valid_lead_ids) \in Nat
    BY DEF IInv, TypeOK
  <2> QED BY <1>1, <1>2, <2>1, AppendProperties
<1>4. /\ todo # <<>> /\ crawl_res' \in CrawlResult /\ Head(todo) = todo[1] /\ 1 \in DOMAIN todo
  BY <1>1, CrawledType DEF IInv, TodoOK
<1>5. TypeOK'
  <2>1. total_to_audit' \in Nat /\ audits_completed' \in 0..total_to_audit'
    BY <1>1 DEF IInv, TypeOK
  <2> QED BY <1>1, <1>2, <1>3, <1>4, <2>1 DEF IInv, TypeOK, Phases
<1>6. PlacesDistinct' /\ TodoOK'
  BY <1>1, <1>4 DEF IInv, PlacesDistinct, TodoOK, Before
<1>7. SubmittedFirst'
  <2>1. \A i \in DOMAIN valid_lead_ids : Before(valid_lead_ids[i], p)
    BY <1>0, <1>1, FirstSubmission
  <2>2. ASSUME NEW i \in DOMAIN valid_lead_ids', NEW j \in DOMAIN valid_lead_ids', i < j
        PROVE  Before(valid_lead_ids'[i], valid_lead_ids'[j])
    <3>1. i \in DOMAIN valid_lead_ids /\ (j \in DOMAIN valid_lead_ids \/ j = Len(valid_lead_ids) + 1)
      BY <1>3, <2>2
    <3>2. CASE j \in DOMAIN valid_lead_ids
      BY <1>3, <2>2, <3>1, <3>2 DEF IInv, SubmittedFirst, Ordered
    <3>3. CASE j = Len(valid_lead_ids) + 1
      BY <1>3, <2>1, <3>1, <3>3
    <3> QED BY <3>1, <3>2, <3>3
  <2>3. ASSUME NEW i \in DOMAIN valid_lead_ids', NEW j \in DOMAIN todo, j > 1
        PROVE  Before(valid_lead_ids'[i], todo[j].place)
    <3>1. i \in DOMAIN valid_lead_ids \/ i = Len(valid_lead_ids) + 1
      BY <1>3
    <3>2. CASE i \in DOMAIN valid_lead_ids
      BY <1>1, <1>3, <3>2 DEF IInv, SubmittedFirst
    <3>3. CASE i = Len(valid_lead_ids) + 1
      <4>1. Before(todo[1].place, todo[j].place)
        BY <1>4, <2>3 DEF IInv, TodoOK
      <4> QED BY <1>0, <1>3, <1>4, <3>3, <4>1
    <3> QED BY <3>1, <3>2, <3>3
  <2> QED BY <1>1, <2>2, <2>3 DEF SubmittedFirst, Ordered, Before
<1>8. FuturesOK'
  <2>1. ASSUME NEW q \in Submitted PROVE futures'[q] = futures[q] /\ CrawlOf(futures[q], q) /\ q \in Audited
    BY <1>2 DEF IInv, FuturesOK, Submitted
  <2>2. \A q \in Submitted' : q \in Audited' /\ CrawlOf(futures'[q], q)
    BY <1>2, <2>1
  <2> QED BY <1>1, <2>2 DEF FuturesOK, CrawlOf
<1>9. LeadsOK'
  BY <1>1, <1>2 DEF IInv, LeadsOK, CrawlOf
<1>10. IsFiniteSet(Submitted)' /\ EveryAuditCounted'
  <2>1. /\ IsFiniteSet(Submitted \cup {p})
        /\ Cardinality(Submitted \cup {p}) = Cardinality(Submitted) + 1
    BY <1>2, FS_AddElement DEF IInv
  <2>2. Cardinality(Submitted) \in Nat
    BY FS_CardinalityType DEF IInv
  <2>3. /\ audits_completed + Cardinality(Submitted) = total_to_audit
        /\ total_to_audit = Len(valid_lead_ids) /\ audits_completed \in Nat
    BY DEF IInv, EveryAuditCounted, TypeOK
  <2>4. Cardinality(Submitted)' = Cardinality(Submitted) + 1
    BY <1>2, <2>1
  <2>5. EveryAuditCounted'
    BY <1>1, <1>3, <2>2, <2>3, <2>4 DEF EveryAuditCounted
  <2> QED BY <1>2, <2>1, <2>5
<1>11. CollectedOK'
  <2> SUFFICES ASSUME NEW q \in Audited \cup {p}
               PROVE  \/ q \in Submitted'
                      \/ audit'[q].state = "done" /\ (q \in Leads' \/ audit'[q].score = "error")
    BY <1>2 DEF CollectedOK
  <2>1. Audited \subseteq Places
    BY DEF IInv, TypeOK, Audited, Range
  <2> QED BY <1>2, <2>1 DEF IInv, CollectedOK
<1>12. AttemptsOK'
  <2>1. audit[p] \in AuditState
    BY <1>2 DEF IInv, TypeOK
  <2>2. /\ audit'[p].attempt = audit[p].attempt /\ audit'[p].text = audit[p].text
        /\ audit'[p].tries = audit[p].tries
    BY <1>2, <2>1 DEF AuditState
  <2>3. \A q \in Places : /\ audit'[q].attempt = audit[q].attempt /\ audit'[q].text = audit[q].text
                          /\ audit'[q].tries = audit[q].tries
    BY <1>2, <2>2
  <2> QED BY <2>3 DEF IInv, AttemptsOK
<1>13. ResultsOK' /\ ExportOK'
  BY <1>1 DEF IInv, ResultsOK, Ordered, ExportOK, ExportFailsClosed
<1> QED BY <1>5, <1>6, <1>7, <1>8, <1>9, <1>10, <1>11, <1>12, <1>13 DEF IInv
-----------------------------------------------------------------------------
(* Collecting the audits *)

\* take: the future goes, and a lead comes unless the audit raised.
LEMMA TakeEffect ==
  ASSUME IInv, NEW p \in Done, take(p)
  PROVE  /\ p \in Places /\ p \in Submitted /\ audit[p].state = "done"
         /\ Submitted' = Submitted \ {p}
         /\ \A q \in Places \ {p} : futures'[q] = futures[q] /\ all_leads'[q] = all_leads[q]
         /\ Leads \subseteq Leads' /\ Leads' \subseteq Leads \cup {p}
         /\ p \in Leads' \/ audit[p].score = "error"
         /\ all_leads'[p] = all_leads[p] \/ all_leads'[p] = [crawl |-> futures[p], audit |-> p]
         /\ futures' \in [Places -> CrawlResult] /\ all_leads' \in [Places -> Lead]
         /\ crawl_res' \in CrawlResult
<1>1. p \in Places /\ p \in Submitted /\ audit[p].state = "done"
  BY DEF Done, Submitted
<1>2. futures \in [Places -> CrawlResult] /\ all_leads \in [Places -> Lead]
  BY DEF IInv, TypeOK
<1>3. /\ futures' = [futures EXCEPT ![p] = NoCrawl] /\ crawl_res' = futures[p]
      /\ all_leads' = IF audit[p].score = "error" THEN all_leads
                      ELSE [all_leads EXCEPT ![p] = [crawl |-> futures[p], audit |-> p]]
  BY DEF take, Built
<1>4. [crawl |-> futures[p], audit |-> p] \in Lead /\ [crawl |-> futures[p], audit |-> p] # NoLead
  <2>1. [crawl |-> futures[p], audit |-> p] \in Lead
    BY <1>1, <1>2 DEF Lead
  <2>2. [crawl |-> futures[p], audit |-> p].audit # NoLead.audit
    BY <1>1 DEF NoLead
  <2> QED BY <2>1, <2>2
<1>5. /\ \A q \in Places \ {p} : futures'[q] = futures[q]
      /\ futures'[p] = NoCrawl /\ futures' \in [Places -> CrawlResult]
  BY <1>1, <1>2, <1>3, EmptyTypes
<1>6. /\ \A q \in Places \ {p} : all_leads'[q] = all_leads[q]
      /\ all_leads' \in [Places -> Lead]
      /\ all_leads'[p] = all_leads[p] \/ all_leads'[p] = [crawl |-> futures[p], audit |-> p]
      /\ audit[p].score = "error" \/ all_leads'[p] # NoLead
      /\ all_leads[p] # NoLead => all_leads'[p] # NoLead
  BY <1>1, <1>2, <1>3, <1>4
<1>7. Submitted' = Submitted \ {p}
  BY <1>1, <1>5 DEF Submitted
<1>8. /\ Leads \subseteq Leads' /\ Leads' \subseteq Leads \cup {p}
      /\ p \in Leads' \/ audit[p].score = "error"
  BY <1>1, <1>6 DEF Leads
<1> QED BY <1>1, <1>2, <1>3, <1>5, <1>6, <1>7, <1>8

\* take preserves the invariant, in the loop and in the drain.
LEMMA TakeStep ==
  ASSUME IInv, NEW p \in Done, take(p), pc \in {"collect", "drain"},
         UNCHANGED <<mode, pc, discovery, todo, valid_lead_ids, total_to_audit, audit, outcome>>,
         done_futures' \subseteq Places, pc = "collect" => done_futures' = done_futures \ {p}
  PROVE  IInv'
<1>1. /\ UNCHANGED <<mode, pc, kw, cell, attempt, batch, all_places, todo, valid_lead_ids>>
      /\ UNCHANGED <<total_to_audit, audit, results, exported>>
      /\ audits_completed' = audits_completed + 1
  BY DEF take, discovery, outcome
<1>2. /\ p \in Places /\ p \in Submitted /\ audit[p].state = "done"
      /\ Submitted' = Submitted \ {p}
      /\ \A q \in Places \ {p} : futures'[q] = futures[q] /\ all_leads'[q] = all_leads[q]
      /\ Leads \subseteq Leads' /\ Leads' \subseteq Leads \cup {p}
      /\ p \in Leads' \/ audit[p].score = "error"
      /\ all_leads'[p] = all_leads[p] \/ all_leads'[p] = [crawl |-> futures[p], audit |-> p]
      /\ futures' \in [Places -> CrawlResult] /\ all_leads' \in [Places -> Lead]
      /\ crawl_res' \in CrawlResult
  BY TakeEffect
<1>3. Audited' = Audited
  BY <1>1 DEF Audited
<1>4. IsFiniteSet(Submitted)' /\ EveryAuditCounted' /\ audits_completed' \in 0..total_to_audit'
  <2>1. /\ IsFiniteSet(Submitted \ {p})
        /\ Cardinality(Submitted \ {p}) = Cardinality(Submitted) - 1
    BY <1>2, FS_RemoveElement DEF IInv
  <2>2. Cardinality(Submitted) \in Nat /\ Cardinality(Submitted \ {p}) \in Nat
    BY <2>1, FS_CardinalityType DEF IInv
  <2>3. /\ audits_completed + Cardinality(Submitted) = total_to_audit
        /\ total_to_audit = Len(valid_lead_ids) /\ audits_completed \in Nat
        /\ total_to_audit \in Nat
    BY DEF IInv, EveryAuditCounted, TypeOK
  <2>4. Cardinality(Submitted)' = Cardinality(Submitted) - 1
    BY <1>2, <2>1
  <2>5. EveryAuditCounted'
    BY <1>1, <2>2, <2>3, <2>4 DEF EveryAuditCounted
  <2>6. audits_completed' \in 0..total_to_audit'
    BY <1>1, <2>1, <2>2, <2>3
  <2> QED BY <1>2, <2>1, <2>5, <2>6
<1>5. TypeOK'
  BY <1>1, <1>2, <1>4 DEF IInv, TypeOK
<1>6. TodoOK' /\ SubmittedFirst'
  BY <1>1, SameQueue
<1>7. PlacesDistinct' /\ AttemptsOK'
  BY <1>1 DEF IInv, PlacesDistinct, AttemptsOK
<1>8. FuturesOK'
  <2>1. \A q \in Submitted \ {p} : q \in Audited /\ CrawlOf(futures[q], q) /\ futures'[q] = futures[q]
    BY <1>2 DEF IInv, FuturesOK, Submitted
  <2>2. \A q \in Submitted' : q \in Audited' /\ CrawlOf(futures'[q], q)
    BY <1>2, <1>3, <2>1
  <2>3. Done \ {p} \subseteq Done'
    BY <1>1, <1>2 DEF Done
  <2>4. pc = "collect" => done_futures' \subseteq Done'
    BY <2>3 DEF IInv, FuturesOK
  <2> QED BY <1>1, <2>2, <2>4 DEF FuturesOK, CrawlOf
<1>9. LeadsOK'
  <2>1. p \in Audited /\ CrawlOf(futures[p], p)
    BY <1>2 DEF IInv, FuturesOK
  <2>2. ASSUME NEW q \in Leads'
        PROVE  q \in Audited /\ CrawlOf(all_leads'[q].crawl, q) /\ all_leads'[q].audit = q
    <3>1. CASE all_leads'[q] = all_leads[q]
      <4>1. q \in Leads
        BY <2>2, <3>1 DEF Leads
      <4> QED BY <3>1, <4>1 DEF IInv, LeadsOK
    <3>2. CASE q = p /\ all_leads'[p] = [crawl |-> futures[p], audit |-> p]
      BY <2>1, <3>2
    <3>3. q \in Places
      BY <2>2 DEF Leads
    <3> QED BY <1>2, <3>1, <3>2, <3>3
  <2> QED BY <1>1, <1>3, <2>2 DEF LeadsOK, CrawlOf
<1>10. CollectedOK'
  BY <1>1, <1>2, <1>3 DEF IInv, CollectedOK
<1>11. ResultsOK' /\ ExportOK'
  BY <1>1 DEF IInv, ResultsOK, Ordered, ExportOK, ExportFailsClosed
<1> QED BY <1>4, <1>5, <1>6, <1>7, <1>8, <1>9, <1>10, <1>11 DEF IInv

\* collect and drain preserve the invariant.
LEMMA CollectStep == ASSUME IInv, NEW p \in Places, collect(p) \/ drain(p) PROVE IInv'
<1>1. done_futures \subseteq Places
  BY DEF IInv, TypeOK
<1>2. CASE collect(p)
  <2>1. p \in Done
    BY <1>2 DEF collect, IInv, FuturesOK
  <2> QED BY <1>1, <1>2, <2>1, TakeStep DEF collect
<1>3. CASE drain(p)
  BY <1>1, <1>3, TakeStep DEF drain
<1> QED BY <1>2, <1>3

-----------------------------------------------------------------------------
(* The end of the run *)

\* What run_returns returns: the leads, in the order of discovery.
LEMMA ReturnedFacts ==
  ASSUME IInv, NEW t, t = Returned
  PROVE  t \in Seq(Places) /\ Ordered(t) /\ Range(t) = Leads
<1>1. PICK v : v = valid_lead_ids
  OBVIOUS
<1>2. PICK I : I = {i \in DOMAIN v : v[i] \in Leads}
  OBVIOUS
<1>0. v \in Seq(Places) /\ t \in Seq(Places) /\ Selected(t, v, I)
  BY <1>1, <1>2, SelectAtSelects DEF Returned, IInv, TypeOK
<1>3. DOMAIN v = 1..Len(v)
  BY <1>0
<1>4. t \in Seq(Places) /\ Selected(t, v, I)
  BY <1>0
<1>5. DOMAIN t = 1..Len(t)
  BY <1>4
<1>6. Ordered(t)
  <2>0. \A i, j \in DOMAIN t : i < j =>
          \E k, l \in DOMAIN v : k < l /\ v[k] = t[i] /\ v[l] = t[j]
    BY <1>0, SelectedFrom
  <2> SUFFICES ASSUME NEW i \in DOMAIN t, NEW j \in DOMAIN t, i < j PROVE Before(t[i], t[j])
    BY DEF Ordered
  <2>1. PICK k, l \in DOMAIN v : k < l /\ v[k] = t[i] /\ v[l] = t[j]
    BY <2>0
  <2>2. Before(v[k], v[l])
    BY <1>1, <2>1 DEF IInv, SubmittedFirst, Ordered
  <2> QED BY <2>1, <2>2
<1>7. ASSUME NEW x \in Range(t) PROVE x \in Leads
  <2>1. PICK i \in 1..Len(t) : t[i] = x
    BY <1>5, <1>7 DEF Range
  <2>2. PICK m \in 1..Len(v) : m \in I /\ t[i] = v[m]
    BY <1>4, <2>1 DEF Selected
  <2> QED BY <1>2, <2>1, <2>2
<1>8. ASSUME NEW x \in Leads PROVE x \in Range(t)
  <2>1. x \in Audited
    BY <1>8 DEF IInv, LeadsOK
  <2>2. PICK m \in 1..Len(v) : v[m] = x
    BY <1>1, <1>3, <2>1 DEF Audited, Range
  <2>3. m \in I
    BY <1>2, <1>3, <1>8, <2>2
  <2>4. PICK i \in 1..Len(t) : t[i] = v[m]
    BY <1>4, <2>2, <2>3 DEF Selected
  <2> QED BY <1>5, <2>2, <2>4 DEF Range
<1> QED BY <1>4, <1>6, <1>7, <1>8

\* run_returns preserves the invariant.
LEMMA RunReturnsStep == ASSUME IInv, run_returns PROVE IInv'
<1>1. /\ UNCHANGED <<mode, all_places, counters, pool>>
      /\ UNCHANGED <<kw, cell, attempt, batch, todo, crawl_res, valid_lead_ids, exported, futures,
                     all_leads>>
      /\ pc = "drain" /\ pc' = "export" /\ Submitted = {} /\ results' = Returned
  BY DEF run_returns, discovery, counters, pool
<1>2. PICK t : t = Returned
  OBVIOUS
<1>3. t \in Seq(Places) /\ Ordered(t) /\ Range(t) = Leads
  BY <1>2, ReturnedFacts
<1>4. TypeOK'
  BY <1>1, <1>2, <1>3 DEF IInv, TypeOK, Phases, counters, pool
<1>5. TodoOK' /\ SubmittedFirst'
  BY <1>1, SameQueue
<1>6. Submitted' = {} /\ Leads' = Leads
  BY <1>1 DEF Submitted, Leads
<1>7. ResultsOK'
  <2>1. Ordered(results)'
    BY <1>1, <1>2, <1>3 DEF Ordered, Before
  <2>2. Range(results)' = Leads
    BY <1>1, <1>2, <1>3
  <2> QED BY <1>1, <1>6, <2>1, <2>2 DEF ResultsOK
<1>8. ExportOK'
  BY <1>1 DEF IInv, ExportOK, ExportFailsClosed
<1> QED BY <1>1, <1>4, <1>5, <1>7, <1>8, ControlStep

\* export and emergency_export: the report has the leads, if it has any.
LEMMA ExportStep == ASSUME IInv, export \/ emergency_export PROVE IInv'
<1>1. /\ UNCHANGED <<mode, all_places, counters, pool>>
      /\ UNCHANGED <<kw, cell, attempt, batch, todo, crawl_res, valid_lead_ids, results, futures,
                     all_leads>>
  BY DEF export, emergency_export, discovery, counters, pool
<1>2. pc \notin Over /\ pc' \in {"finished", "raised"}
  BY DEF export, emergency_export, export_to_excel, Over
<1>3. exported = {}
  BY <1>2 DEF IInv, ExportOK, Over
<1>4. \/ exported' = exported
      \/ /\ mode = "with_website" /\ require_exportable(Leads) /\ exported' = Leads
  <2>1. mode = "with_website" /\ results # <<>> => Range(results) = Leads
    BY DEF IInv, ResultsOK
  <2> QED BY <2>1 DEF export, emergency_export, export_to_excel
<1>5. Leads' = Leads /\ Leads \subseteq Places
  BY <1>1 DEF Leads
<1>6. TypeOK'
  <2>1. exported' \subseteq Places
    BY <1>3, <1>4, <1>5
  <2> QED BY <1>1, <1>2, <2>1 DEF IInv, TypeOK, Phases, counters, pool
<1>7. TodoOK' /\ SubmittedFirst'
  BY <1>1, <1>2, SameQueue
<1>8. ResultsOK'
  BY <1>1, <1>2, <1>5 DEF IInv, ResultsOK, Ordered, Before
<1>9. ExportOK'
  <2>1. CASE exported' = exported
    BY <1>2, <1>3, <2>1 DEF ExportOK, ExportFailsClosed
  <2>2. CASE mode = "with_website" /\ require_exportable(Leads) /\ exported' = Leads
    <3>1. \A p \in Leads : ~all_leads[p].crawl.contacts
      BY <2>2 DEF require_exportable
    <3>2. results # <<>> => Range(results) = Leads
      BY <2>2 DEF IInv, ResultsOK
    <3> QED BY <1>1, <1>2, <1>5, <2>2, <3>1, <3>2 DEF ExportOK, ExportFailsClosed
  <2> QED BY <1>4, <2>1, <2>2
<1> QED BY <1>1, <1>2, <1>6, <1>7, <1>8, <1>9, ControlStep

-----------------------------------------------------------------------------
(* The audits *)

\* A step of an audit that is not over yet preserves the invariant.
LEMMA AuditStepInv ==
  ASSUME IInv, NEW p \in Places, NEW new \in AuditState, AuditStep(p, new),
         audit[p].state # "done", new.attempt < MaxRetries,
         \A g \in Pages : new.text[g] = "raw" => new.tries[g] < MaxRetries
  PROVE  IInv'
<1>1. /\ UNCHANGED <<mode, pc, kw, cell, attempt, batch, all_places, todo, crawl_res>>
      /\ UNCHANGED <<valid_lead_ids, total_to_audit, audits_completed, futures, done_futures>>
      /\ UNCHANGED <<all_leads, results, exported>>
  BY DEF AuditStep, discovery, counters, outcome
<1>2. /\ audit' \in [Places -> AuditState] /\ audit'[p] = new
      /\ \A q \in Places \ {p} : audit'[q] = audit[q]
  BY DEF AuditStep, IInv, TypeOK
<1>3. /\ Submitted' = Submitted /\ Leads' = Leads /\ Audited' = Audited
      /\ Submitted \subseteq Places /\ Audited \subseteq Places
  BY <1>1 DEF Submitted, Leads, Audited, Range, IInv, TypeOK
<1>4. Done \subseteq Done'
  BY <1>2, <1>3 DEF Done
<1>5. TypeOK'
  BY <1>1, <1>2 DEF IInv, TypeOK
<1>6. TodoOK' /\ SubmittedFirst'
  BY <1>1, SameQueue
<1>7. PlacesDistinct'
  BY <1>1 DEF IInv, PlacesDistinct
<1>8. FuturesOK' /\ LeadsOK'
  BY <1>1, <1>3, <1>4 DEF IInv, FuturesOK, LeadsOK, CrawlOf
<1>9. IsFiniteSet(Submitted)' /\ EveryAuditCounted'
  BY <1>1, <1>3 DEF IInv, EveryAuditCounted
<1>10. CollectedOK'
  BY <1>2, <1>3 DEF IInv, CollectedOK
<1>11. AttemptsOK'
  BY <1>2 DEF IInv, AttemptsOK
<1>12. ResultsOK'
  BY <1>1, <1>3 DEF IInv, ResultsOK, Ordered, Before
<1>13. ExportOK'
  BY <1>1, <1>3 DEF IInv, ExportOK, ExportFailsClosed
<1> QED BY <1>5, <1>6, <1>7, <1>8, <1>9, <1>10, <1>11, <1>12, <1>13 DEF IInv

\* The end of an audit.
LEMMA ScoredType ==
  ASSUME NEW score \in {"valid", "fallback", "error"}
  PROVE  /\ Scored(score) \in AuditState /\ Scored(score).attempt = 0
         /\ \A g \in Pages : Scored(score).tries[g] = 0
<1>1. PICK n : n = NoAudit
  OBVIOUS
<1>2. n \in AuditState /\ n.attempt = 0 /\ \A g \in Pages : n.tries[g] = 0
  BY <1>1, EmptyTypes DEF NoAudit
<1>3. PICK m : m = [n EXCEPT !.state = "done", !.score = score]
  OBVIOUS
<1>4. m \in AuditState /\ m.attempt = n.attempt /\ m.tries = n.tries
  BY <1>2, <1>3 DEF AuditState
<1> QED BY <1>1, <1>2, <1>3, <1>4 DEF Scored

\* The steps of an audit preserve the invariant.
LEMMA AuditsStep == ASSUME IInv, NEW p \in Places, audit_step(p) PROVE IInv'
<1>0. /\ audit[p] \in AuditState /\ audit[p].attempt < MaxRetries /\ audit[p].attempt \in Nat
      /\ \A g \in Pages : audit[p].text[g] = "raw" => audit[p].tries[g] < MaxRetries
  <2>1. audit[p] \in AuditState
    BY DEF IInv, TypeOK
  <2> QED BY <2>1 DEF IInv, AttemptsOK, AuditState
<1>1. CASE audit_start(p)
  <2>1. PICK new : new = [audit[p] EXCEPT !.state = "running"]
    OBVIOUS
  <2>2. /\ new \in AuditState /\ new.attempt = audit[p].attempt /\ new.text = audit[p].text
        /\ new.tries = audit[p].tries
    BY <1>0, <2>1 DEF AuditState
  <2>3. AuditStep(p, new) /\ audit[p].state # "done"
    BY <1>1, <2>1 DEF audit_start
  <2> QED BY <1>0, <2>2, <2>3, AuditStepInv
<1>2. ASSUME NEW g \in Pages, clean_page(p, g) \/ clean_page_fails(p, g) PROVE IInv'
  <2>1. PICK t \in {"clean", "original"} :
               /\ AuditStep(p, [audit[p] EXCEPT !.text[g] = t]) /\ audit[p].state # "done"
    BY <1>2 DEF clean_page, clean_page_fails
  <2>2. PICK new : new = [audit[p] EXCEPT !.text[g] = t]
    OBVIOUS
  <2>3. /\ new \in AuditState /\ new.attempt = audit[p].attempt
        /\ new.text = [audit[p].text EXCEPT ![g] = t] /\ new.tries = audit[p].tries
    BY <1>0, <2>1, <2>2 DEF AuditState
  <2>4. \A h \in Pages : new.text[h] = "raw" => audit[p].text[h] = "raw"
    BY <1>0, <2>1, <2>3 DEF AuditState
  <2> QED BY <1>0, <2>1, <2>2, <2>3, <2>4, AuditStepInv
<1>3. ASSUME NEW g \in Pages, clean_page_retry(p, g) PROVE IInv'
  <2>1. PICK n : n = audit[p].tries[g] + 1
    OBVIOUS
  <2>2. PICK t : t = IF n = MaxRetries THEN "original" ELSE audit[p].text[g]
    OBVIOUS
  <2>3. PICK new : new = [audit[p] EXCEPT !.tries[g] = n, !.text[g] = t]
    OBVIOUS
  <2>4. AuditStep(p, new) /\ audit[p].state # "done" /\ audit[p].text[g] = "raw"
    BY <1>3, <2>1, <2>2, <2>3 DEF clean_page_retry
  <2>5. n \in 0..MaxRetries /\ t \in {"raw", "original"} /\ (t = "raw" => n < MaxRetries)
    <3>1. audit[p].tries[g] \in 0..MaxRetries /\ audit[p].tries[g] < MaxRetries
      BY <1>0, <2>4 DEF AuditState
    <3> QED BY <2>1, <2>2, <2>4, <3>1
  <2>6. /\ new \in AuditState /\ new.attempt = audit[p].attempt
        /\ new.text = [audit[p].text EXCEPT ![g] = t] /\ new.tries = [audit[p].tries EXCEPT ![g] = n]
    BY <1>0, <2>3, <2>5 DEF AuditState
  <2>7. \A h \in Pages : new.text[h] = "raw" => new.tries[h] < MaxRetries
    BY <1>0, <2>5, <2>6 DEF AuditState
  <2> QED BY <1>0, <2>4, <2>6, <2>7, AuditStepInv
<1>4. ASSUME NEW score \in {"valid", "fallback", "error"}, audit[p].state = "running",
             AuditStep(p, Scored(score))
      PROVE  IInv'
  <2>1. PICK new : new = Scored(score)
    OBVIOUS
  <2>2. new \in AuditState /\ new.attempt = 0 /\ \A g \in Pages : new.tries[g] = 0
    BY <2>1, ScoredType
  <2>3. AuditStep(p, new) /\ audit[p].state # "done"
    BY <1>4, <2>1
  <2> QED BY <2>2, <2>3, AuditStepInv
<1>5. CASE audit_retry(p)
  <2>1. PICK n : n = audit[p].attempt + 1
    OBVIOUS
  <2>2. CASE n = MaxRetries
    BY <1>4, <1>5, <2>1, <2>2 DEF audit_retry, Cleaned
  <2>3. CASE n # MaxRetries
    <3>1. PICK new : new = [audit[p] EXCEPT !.attempt = n]
      OBVIOUS
    <3>2. AuditStep(p, new) /\ audit[p].state # "done"
      BY <1>5, <2>1, <2>3, <3>1 DEF audit_retry, Cleaned
    <3>3. n \in 0..MaxRetries /\ n < MaxRetries
      BY <1>0, <2>1, <2>3
    <3>4. /\ new \in AuditState /\ new.attempt = n /\ new.text = audit[p].text
          /\ new.tries = audit[p].tries
      BY <1>0, <3>1, <3>3 DEF AuditState
    <3> QED BY <1>0, <3>2, <3>3, <3>4, AuditStepInv
  <2> QED BY <2>2, <2>3
<1>6. CASE audit_valid(p) \/ audit_fails(p) \/ audit_raises(p) \/ audit_refused(p)
  BY <1>4, <1>6 DEF audit_valid, audit_fails, audit_raises, audit_refused, Cleaned
<1> QED BY <1>1, <1>2, <1>3, <1>5, <1>6 DEF audit_step

-----------------------------------------------------------------------------
(* The invariant and what follows from it *)

\* Every step preserves the invariant.
LEMMA NextInv == IInv /\ [Next]_vars => IInv'
<1> SUFFICES ASSUME IInv, [Next]_vars PROVE IInv'
  OBVIOUS
<1>1. CASE main_step
  <2>1. CASE \E found \in Found : fetch(found)
    BY <2>1, FetchStep
  <2>2. CASE fetch_retry
    BY <2>2, FetchRetryStep
  <2>3. CASE fetch_error \/ exit
    BY <2>3, PhaseStep
  <2>4. CASE keyword_done
    BY <2>4, KeywordDoneStep
  <2>5. CASE no_website_done
    BY <2>5, NoWebsiteDoneStep
  <2>6. CASE filter_social
    BY <2>6, FilterSocialStep
  <2>7. CASE next_candidate \/ \E b \in BOOLEAN : crawl_rejected(b)
    BY <2>7, NextCandidateStep
  <2>8. CASE \E b \in BOOLEAN : submit(b)
    BY <2>8, SubmitStep
  <2>9. CASE crawl_raises
    BY <2>9, CrawlRaisesStep
  <2>10. CASE poll
    BY <2>10, PollStep
  <2>11. CASE run_returns
    BY <2>11, RunReturnsStep
  <2>12. CASE \E p \in Places : collect(p) \/ drain(p)
    BY <2>12, CollectStep
  <2>13. CASE export \/ emergency_export
    BY <2>13, ExportStep
  <2> QED BY <1>1, <2>1, <2>2, <2>3, <2>4, <2>5, <2>6, <2>7, <2>8, <2>9, <2>10, <2>11, <2>12,
             <2>13 DEF main_step
<1>2. CASE interrupt
  BY <1>2, PhaseStep
<1>3. CASE \E p \in Places : audit_step(p)
  BY <1>3, AuditsStep
<1>4. CASE UNCHANGED vars
  <2>1. UNCHANGED <<mode, pc, kw, cell, attempt, batch, all_places, todo, crawl_res>>
    BY <1>4 DEF vars
  <2>2. UNCHANGED <<mode, all_places, counters, pool, outcome>> /\ UNCHANGED valid_lead_ids
    BY <1>4 DEF vars, counters, pool, outcome
  <2>3. TypeOK'
    BY <2>1, <2>2 DEF IInv, TypeOK, counters, pool, outcome
  <2>4. TodoOK' /\ SubmittedFirst'
    BY <2>1, <2>2, SameQueue
  <2>5. ResultsOK' /\ ExportOK'
    BY <2>1, <2>2, QuietOutcome
  <2> QED BY <2>1, <2>2, <2>3, <2>4, <2>5, ControlStep
<1> QED BY <1>1, <1>2, <1>3, <1>4 DEF Next, Terminated

\* Every state of a run satisfies the invariant.
THEOREM Invariance == Spec => []IInv
<1> QED BY InitInv, NextInv, PTL DEF Spec

\* Every variable keeps its type; in particular no page is cleaned and no audit tried
\* more than max_retries times, and no more audits complete than were submitted.
THEOREM TypeCorrect == Spec => []TypeOK
<1>1. IInv => TypeOK
  BY DEF IInv
<1> QED BY <1>1, Invariance, PTL

\* Each audit submitted waits in audit_futures or was counted, exactly once.
THEOREM AuditsCounted == Spec => []EveryAuditCounted
<1>1. IInv => EveryAuditCounted
  BY DEF IInv
<1> QED BY <1>1, Invariance, PTL

\* A lead carries the crawl and the audit of its own site.
THEOREM LeadsTheirOwn == Spec => []LeadIsItsOwn
<1>1. IInv => LeadIsItsOwn
  BY DEF IInv, LeadsOK, CrawlOf, LeadIsItsOwn
<1> QED BY <1>1, Invariance, PTL

\* A run that is not interrupted returns every lead whose audit came back.
THEOREM NoLeadLost == Spec => []NothingLost
<1>1. IInv => NothingLost
  <2> SUFFICES ASSUME IInv, pc = "export", NEW i \in DOMAIN valid_lead_ids,
                      audit[valid_lead_ids[i]].score \in {"valid", "fallback"}
               PROVE  valid_lead_ids[i] \in Range(results)
    BY DEF NothingLost
  <2>1. valid_lead_ids[i] \in Audited
    BY DEF Audited, Range
  <2>2. valid_lead_ids[i] \in Leads
    BY <2>1 DEF IInv, CollectedOK, ResultsOK
  <2> QED BY <2>2 DEF IInv, ResultsOK
<1> QED BY <1>1, Invariance, PTL

\* Results are in the order of discovery, each place once.
THEOREM DiscoveryOrder == Spec => []ResultsInOrder
<1>1. IInv => ResultsInOrder
  <2> SUFFICES ASSUME IInv, NEW i \in DOMAIN results, NEW j \in DOMAIN results, i < j
               PROVE  \E k, l \in DOMAIN all_places :
                        /\ k < l /\ results[i] = all_places[k].place
                        /\ results[j] = all_places[l].place
                        /\ \A n \in DOMAIN all_places : all_places[n].place = results[i] => n <= k
    BY DEF ResultsInOrder
  <2>1. PICK k, l \in DOMAIN all_places :
               k < l /\ all_places[k].place = results[i] /\ all_places[l].place = results[j]
    BY DEF IInv, ResultsOK, Ordered, Before
  <2>2. \A n \in DOMAIN all_places : all_places[n].place = results[i] => n = k
    BY <2>1 DEF IInv, PlacesDistinct
  <2>3. k \in Nat
    BY DEF IInv, TypeOK
  <2> QED BY <2>1, <2>2, <2>3
<1> QED BY <1>1, Invariance, PTL

\* A report holds leads without contacts only, all of them or none.
THEOREM ReportFailsClosed == Spec => []ExportFailsClosed
<1>1. IInv => ExportFailsClosed
  BY DEF IInv, ExportOK
<1> QED BY <1>1, Invariance, PTL
=============================================================================
