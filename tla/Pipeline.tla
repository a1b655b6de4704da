------------------------------ MODULE Pipeline ------------------------------
(***************************************************************************)
(* One run of the command line (main.py): discovery over the grid          *)
(* (google_places.py), the crawl loop, the audits in a thread pool         *)
(* (auditor.py) collected while the loop goes on and drained at the end,   *)
(* and the export (exporter.py, export_policy.py), with Ctrl-C at any      *)
(* moment.                                                                 *)
(*                                                                         *)
(* The main thread and the threads of the pool interleave.  A candidate is *)
(* its external id; a crawl is the place it was made for, whether it is    *)
(* auditable and whether contacts were found.  The crawl itself is         *)
(* specified in Crawl.                                                     *)
(***************************************************************************)
EXTENDS Naturals, Sequences, FiniteSets, Functions, Lists

CONSTANTS
  Places,        \* external ids
  Website,       \* [Places -> {"none", "social", "site"}]
  Pages,         \* pages of a crawled site
  Keywords,      \* number of keywords
  Cells,         \* number of points of the grid
  MaxAttempts,   \* max_attempts of the provider
  MaxRetries,    \* max_retries of the auditor
  PoolSize,      \* workers of the audit executor (6 in the code)
  MaxFound,      \* bound: candidates in one answer of the provider
  NoPlace

ASSUME SizesAssumption ==
  /\ Keywords \in Nat \ {0} /\ Cells \in Nat \ {0} /\ MaxAttempts \in Nat \ {0}
  /\ MaxRetries \in Nat \ {0} /\ PoolSize \in Nat \ {0} /\ MaxFound \in Nat

ASSUME PlacesAssumption ==
  /\ Website \in [Places -> {"none", "social", "site"}] /\ NoPlace \notin Places

VARIABLES
  mode,              \* "with_website" or "no_website"
  pc,                \* the phase of the main thread
  kw, cell, attempt, \* keyword, point of the grid and attempt of _fetch
  batch,             \* candidates found for the keyword so far
  all_places,        \* [place, keyword] in the order of discovery
  todo,              \* filtered_places not crawled yet
  crawl_res,         \* the loop variables crawl_res and keyword
  valid_lead_ids,
  total_to_audit,
  audits_completed,
  futures,           \* audit_futures: what was submitted and not collected
  done_futures,      \* the futures the poll found done
  audit,             \* [Places -> AuditState]: the task of each future
  all_leads,         \* the leads built so far
  results,           \* what run returned
  exported           \* the leads in the report that was written

discovery == <<kw, cell, attempt, batch, all_places>>
counters == <<valid_lead_ids, total_to_audit, audits_completed>>
pool == <<futures, done_futures, audit, all_leads>>
outcome == <<results, exported>>
vars == <<mode, pc, kw, cell, attempt, batch, all_places, todo, crawl_res, valid_lead_ids,
          total_to_audit, audits_completed, futures, done_futures, audit, all_leads, results, exported>>

-----------------------------------------------------------------------------
(* Data *)

Candidate == [place : Places, keyword : 1..Keywords]

CrawlResult == [place : Places \cup {NoPlace}, keyword : 0..Keywords,
                auditable : BOOLEAN, contacts : BOOLEAN]
NoCrawl == [place |-> NoPlace, keyword |-> 0, auditable |-> FALSE, contacts |-> FALSE]

\* text: what the cleaning made of each page; score: what audit_website returns.
AuditState == [state : {"none", "queued", "running", "done"},
               tries : [Pages -> 0..MaxRetries], text : [Pages -> {"raw", "clean", "original"}],
               attempt : 0..MaxRetries, score : {"none", "valid", "fallback", "error"}]
NoAudit == [state |-> "none", tries |-> [g \in Pages |-> 0], text |-> [g \in Pages |-> "raw"],
            attempt |-> 0, score |-> "none"]

\* A VerifiedLead, with the crawl it was built from and the audit it carries.
Lead == [crawl : CrawlResult, audit : Places \cup {NoPlace}]
NoLead == [crawl |-> NoCrawl, audit |-> NoPlace]

Phases == {"discover", "filter", "crawl", "poll", "collect", "drain", "export", "interrupted",
           "raised", "finished", "exit"}

TypeOK ==
  /\ mode \in {"with_website", "no_website"} /\ pc \in Phases
  /\ kw \in 1..Keywords /\ cell \in 1..Cells + 1 /\ attempt \in 1..MaxAttempts
  /\ batch \in Seq(Places) /\ all_places \in Seq(Candidate) /\ todo \in Seq(Candidate)
  /\ crawl_res \in CrawlResult /\ valid_lead_ids \in Seq(Places)
  /\ total_to_audit \in Nat /\ audits_completed \in 0..total_to_audit
  /\ futures \in [Places -> CrawlResult] /\ done_futures \subseteq Places
  /\ audit \in [Places -> AuditState]
  /\ all_leads \in [Places -> Lead] /\ results \in Seq(Places)
  /\ exported \subseteq Places

Init ==
  /\ mode \in {"with_website", "no_website"} /\ pc = "discover"
  /\ kw = 1 /\ cell = 1 /\ attempt = 1 /\ batch = <<>> /\ all_places = <<>>
  /\ todo = <<>> /\ crawl_res = NoCrawl
  /\ valid_lead_ids = <<>> /\ total_to_audit = 0 /\ audits_completed = 0
  /\ futures = [p \in Places |-> NoCrawl] /\ done_futures = {} /\ audit = [p \in Places |-> NoAudit]
  /\ all_leads = [p \in Places |-> NoLead] /\ results = <<>> /\ exported = {}

Submitted == {p \in Places : futures[p] # NoCrawl}
Done == {p \in Submitted : audit[p].state = "done"}
Leads == {p \in Places : all_leads[p] # NoLead}

-----------------------------------------------------------------------------
(* Discovery: GooglePlacesProvider.discover for one keyword after the other *)

\* One point of the grid answers with candidates, some of which may be known.
fetch(found) ==
  /\ pc = "discover" /\ cell <= Cells
  /\ batch' = batch \o found
  /\ cell' = cell + 1 /\ attempt' = 1
  /\ UNCHANGED <<mode, pc, kw, all_places, todo, crawl_res, counters, pool, outcome>>

\* A timeout, a connection error, 429 or 5xx.
fetch_retry ==
  /\ pc = "discover" /\ cell <= Cells /\ attempt < MaxAttempts
  /\ attempt' = attempt + 1
  /\ UNCHANGED <<mode, pc, kw, cell, batch, all_places, todo, crawl_res, counters, pool, outcome>>

\* The last attempt failed, or another HTTP error, or an answer that cannot be read.
fetch_error ==
  /\ pc = "discover" /\ cell <= Cells
  /\ pc' = "raised"
  /\ UNCHANGED <<mode, discovery, todo, crawl_res, counters, pool, outcome>>

\* The first occurrence of each candidate.
unique_candidates(s) ==
  SelectAt(s, {i \in DOMAIN s : \A j \in 1..(i - 1) : s[j] # s[i]})

\* Which candidates the mode is about.
Wanted(p) == (mode = "with_website") = (Website[p] # "none")

\* Mutant of NewPlaces: candidates of earlier keywords are found again.
NewPlaces_per_keyword(found) == SelectAt(found, {i \in DOMAIN found : Wanted(found[i])})

\* Candidates of this keyword that no earlier one found.
NewPlaces(found) ==
  SelectAt(found, {i \in DOMAIN found :
                     /\ Wanted(found[i])
                     /\ \A n \in DOMAIN all_places : all_places[n].place # found[i]})

keyword_done ==
  LET new == NewPlaces(unique_candidates(batch))
  IN  /\ pc = "discover" /\ cell = Cells + 1
      /\ all_places' = all_places \o [i \in DOMAIN new |-> [place |-> new[i], keyword |-> kw]]
      /\ batch' = <<>>
      /\ IF kw < Keywords
         THEN kw' = kw + 1 /\ cell' = 1 /\ UNCHANGED pc
         ELSE pc' = "filter" /\ UNCHANGED <<kw, cell>>
      /\ UNCHANGED <<mode, attempt, todo, crawl_res, counters, pool, outcome>>

PlacesOf(s) == [i \in DOMAIN s |-> s[i].place]

\* The run without web sites ends here; the other one drops social pages.
no_website_done ==
  /\ pc = "filter" /\ mode = "no_website"
  /\ results' = PlacesOf(all_places)
  /\ pc' = "export"
  /\ UNCHANGED <<mode, discovery, todo, crawl_res, counters, pool, exported>>

filter_social ==
  LET filtered == SelectAt(all_places, {i \in DOMAIN all_places :
                                          Website[all_places[i].place] # "social"})
  IN  /\ pc = "filter" /\ mode = "with_website"
      /\ todo' = filtered
      /\ pc' = IF filtered = <<>> THEN "export" ELSE "crawl"
      /\ UNCHANGED <<mode, discovery, crawl_res, counters, pool, outcome>>

-----------------------------------------------------------------------------
(* The crawl loop *)

\* The next candidate, or the end of the loop.
Skip ==
  /\ todo' = Tail(todo)
  /\ pc' = IF Len(todo) = 1 THEN "drain" ELSE "crawl"

Crawled(contacts) ==
  [place |-> Head(todo).place, keyword |-> Head(todo).keyword, auditable |-> TRUE,
   contacts |-> contacts]

\* Not auditable, or a franchise: continue, past the poll.
crawl_rejected(auditable) ==
  /\ pc = "crawl"
  /\ crawl_res' = [Crawled(FALSE) EXCEPT !.auditable = auditable]
  /\ Skip
  /\ UNCHANGED <<mode, discovery, counters, pool, outcome>>

\* The crawl or a filter raises: logged, and the loop goes on.
crawl_raises ==
  /\ pc = "crawl"
  /\ crawl_res' \in {crawl_res, Crawled(FALSE)}
  /\ pc' = "poll"
  /\ UNCHANGED <<mode, discovery, todo, counters, pool, outcome>>

submit(contacts) ==
  LET p == Head(todo).place
  IN  /\ pc = "crawl"
      /\ crawl_res' = Crawled(contacts)
      /\ valid_lead_ids' = Append(valid_lead_ids, p)
      /\ total_to_audit' = total_to_audit + 1
      /\ futures' = [futures EXCEPT ![p] = Crawled(contacts)]
      /\ audit' = [audit EXCEPT ![p].state = "queued"]
      /\ pc' = "poll"
      /\ UNCHANGED <<mode, discovery, todo, audits_completed, done_futures, all_leads, outcome>>

\* [f for f in audit_futures if f.done()]
poll ==
  /\ pc = "poll"
  /\ done_futures' = Done
  /\ pc' = "collect"
  /\ UNCHANGED <<mode, discovery, todo, crawl_res, counters, futures, audit, all_leads, outcome>>

\* Mutant of Built: the crawl of the current iteration.
Built_loop_variable(p) == [crawl |-> crawl_res, audit |-> p]

\* build_verified_lead: the crawl that was submitted with the audit.
Built(p) == [crawl |-> futures[p], audit |-> p]

\* Mutant of take: a failed audit is not counted.
take_success_only(p) ==
  /\ futures' = [futures EXCEPT ![p] = NoCrawl]
  /\ crawl_res' = futures[p]
  /\ all_leads' = IF audit[p].score = "error" THEN all_leads
                  ELSE [all_leads EXCEPT ![p] = Built(p)]
  /\ audits_completed' = IF audit[p].score = "error" THEN audits_completed
                                                     ELSE audits_completed + 1

\* A future is popped, and counted whether or not its result can be used.
take(p) ==
  /\ futures' = [futures EXCEPT ![p] = NoCrawl]
  /\ crawl_res' = futures[p]
  /\ all_leads' = IF audit[p].score = "error" THEN all_leads
                  ELSE [all_leads EXCEPT ![p] = Built(p)]
  /\ audits_completed' = audits_completed + 1

collect(p) ==
  /\ pc = "collect" /\ p \in done_futures
  /\ take(p)
  /\ done_futures' = done_futures \ {p}
  /\ UNCHANGED <<mode, pc, discovery, todo, valid_lead_ids, total_to_audit, audit, outcome>>

next_candidate ==
  /\ pc = "collect" /\ done_futures = {}
  /\ Skip
  /\ UNCHANGED <<mode, discovery, crawl_res, counters, pool, outcome>>

\* as_completed after the loop.
drain(p) ==
  /\ pc = "drain" /\ p \in Done
  /\ take(p)
  /\ UNCHANGED <<mode, pc, discovery, todo, valid_lead_ids, total_to_audit, done_futures, audit,
                 outcome>>

\* [self.all_leads[p_id] for p_id in valid_lead_ids if p_id in self.all_leads]
Returned == SelectAt(valid_lead_ids, {i \in DOMAIN valid_lead_ids : valid_lead_ids[i] \in Leads})

\* Mutant of run_returns: the audits in the background are not waited for.
run_returns_early ==
  /\ pc = "drain"
  /\ results' = Returned
  /\ pc' = "export"
  /\ UNCHANGED <<mode, discovery, todo, crawl_res, counters, pool, exported>>

run_returns ==
  /\ pc = "drain" /\ Submitted = {}
  /\ results' = Returned
  /\ pc' = "export"
  /\ UNCHANGED <<mode, discovery, todo, crawl_res, counters, pool, exported>>

-----------------------------------------------------------------------------
(* The audits: LeadAuditor.audit_website in the threads of the pool *)

AuditStep(p, new) ==
  /\ audit' = [audit EXCEPT ![p] = new]
  /\ UNCHANGED <<mode, pc, discovery, todo, crawl_res, counters, futures, done_futures,
                 all_leads, outcome>>

Running == {p \in Places : audit[p].state = "running"}

\* The queue of the executor is first in, first out.
audit_start(p) ==
  /\ audit[p].state = "queued" /\ Cardinality(Running) < PoolSize
  /\ \A i, j \in DOMAIN valid_lead_ids :
       valid_lead_ids[j] = p /\ i < j => audit[valid_lead_ids[i]].state # "queued"
  /\ AuditStep(p, [audit[p] EXCEPT !.state = "running"])

\* _clean_page_with_free_llm, one thread per page.
clean_page(p, g) ==
  /\ audit[p].state = "running" /\ audit[p].text[g] = "raw"
  /\ AuditStep(p, [audit[p] EXCEPT !.text[g] = "clean"])

\* Mutant of clean_page_retry: an empty answer does not use up an attempt.
clean_page_retry_for_ever(p, g) ==
  /\ audit[p].state = "running" /\ audit[p].text[g] = "raw"
  /\ AuditStep(p, [audit[p] EXCEPT !.tries[g] = 1 - @])

\* A rate limit or an empty answer: again, and the original text after the last attempt.
clean_page_retry(p, g) ==
  LET n == audit[p].tries[g] + 1
  IN  /\ audit[p].state = "running" /\ audit[p].text[g] = "raw"
      /\ AuditStep(p, [audit[p] EXCEPT !.tries[g] = n,
                                       !.text[g] = IF n = MaxRetries THEN "original" ELSE @])

\* Any other error: the original text.
clean_page_fails(p, g) ==
  /\ audit[p].state = "running" /\ audit[p].text[g] = "raw"
  /\ AuditStep(p, [audit[p] EXCEPT !.text[g] = "original"])

Cleaned(p) == audit[p].state = "running" /\ \A g \in Pages : audit[p].text[g] # "raw"

\* The task is over and its locals are gone.
Scored(score) == [NoAudit EXCEPT !.state = "done", !.score = score]

\* The model's answer passes WebsiteAuditResult.from_llm.
audit_valid(p) == Cleaned(p) /\ AuditStep(p, Scored("valid"))

\* A rate limit, malformed JSON or an invalid field: again, and score 0 in the end.
audit_retry(p) ==
  LET n == audit[p].attempt + 1
  IN  /\ Cleaned(p)
      /\ AuditStep(p, IF n = MaxRetries THEN Scored("fallback")
                                        ELSE [audit[p] EXCEPT !.attempt = n])

audit_fails(p) == Cleaned(p) /\ AuditStep(p, Scored("fallback"))

\* What is outside the loop's try raises into the future.
audit_raises(p) == Cleaned(p) /\ AuditStep(p, Scored("error"))

\* Once the interpreter shuts down an executor takes no work: an audit with a page not
\* submitted yet raises, after the pages it did submit are over.
audit_refused(p) ==
  /\ audit[p].state = "running" /\ pc \in {"finished", "raised"}
  /\ \E g \in Pages : audit[p].text[g] = "raw"
  /\ \A g \in Pages : audit[p].text[g] = "raw" => audit[p].tries[g] = 0
  /\ AuditStep(p, Scored("error"))

-----------------------------------------------------------------------------
(* The command line *)

\* Mutant of require_exportable: contacts are exported without a suppression check.
require_exportable_contacts(S) == \A p \in S : all_leads[p].crawl.auditable

\* ExportPolicy, called without a suppression checker: no lead may have contacts.
require_exportable(S) ==
  \A p \in S : all_leads[p].crawl.auditable /\ ~all_leads[p].crawl.contacts

\* export_to_excel: everything, or the exception of the policy, or a printed error.
export_to_excel(S) ==
  \/ require_exportable(S) /\ exported' = S /\ pc' = "finished"
  \/ require_exportable(S) /\ pc' = "finished" /\ UNCHANGED exported
  \/ ~require_exportable(S) /\ pc' = "raised" /\ UNCHANGED exported

export ==
  /\ pc = "export"
  /\ IF mode = "with_website" /\ results # <<>>
     THEN export_to_excel(Range(results))
     ELSE pc' = "finished" /\ UNCHANGED exported
  /\ UNCHANGED <<mode, discovery, todo, crawl_res, counters, pool, results>>

\* KeyboardInterrupt in the main thread.  Of what a step writes only all_leads outlives
\* run_with_website, so an interruption inside a step is one before or after it.
interrupt ==
  /\ pc \in {"discover", "filter", "crawl", "poll", "collect", "drain", "export"}
  /\ pc' = "interrupted"
  /\ UNCHANGED <<mode, discovery, todo, crawl_res, counters, pool, outcome>>

\* The leads collected so far are saved.
emergency_export ==
  /\ pc = "interrupted"
  /\ IF mode = "with_website" /\ Leads # {}
     THEN export_to_excel(Leads)
     ELSE pc' = "finished" /\ UNCHANGED exported
  /\ UNCHANGED <<mode, discovery, todo, crawl_res, counters, pool, results>>

\* The interpreter joins the threads of the pool, which empty its queue first.
exit ==
  /\ pc \in {"finished", "raised"}
  /\ \A p \in Places : audit[p].state \notin {"queued", "running"}
  /\ pc' = "exit"
  /\ UNCHANGED <<mode, discovery, todo, crawl_res, counters, pool, outcome>>

Found == UNION {[1..n -> Places] : n \in 0..MaxFound}

main_step ==
  \/ \E found \in Found : fetch(found)
  \/ fetch_retry \/ fetch_error \/ keyword_done \/ no_website_done \/ filter_social
  \/ \E b \in BOOLEAN : crawl_rejected(b) \/ submit(b)
  \/ crawl_raises \/ poll \/ next_candidate \/ run_returns
  \/ \E p \in Places : collect(p) \/ drain(p)
  \/ export \/ emergency_export \/ exit

audit_step(p) ==
  \/ audit_start(p)
  \/ \E g \in Pages : clean_page(p, g) \/ clean_page_retry(p, g) \/ clean_page_fails(p, g)
  \/ audit_valid(p) \/ audit_retry(p) \/ audit_fails(p) \/ audit_raises(p)
  \/ audit_refused(p)

Terminated == pc = "exit" /\ UNCHANGED vars

Next == main_step \/ interrupt \/ (\E p \in Places : audit_step(p)) \/ Terminated

\* The HTTP clients and the browser have timeouts, so no step of a thread lasts for ever.
Fairness == WF_vars(main_step) /\ \A p \in Places : WF_vars(audit_step(p))

Spec == Init /\ [][Next]_vars /\ Fairness

-----------------------------------------------------------------------------
(* Properties *)

\* Every audit submitted is either waiting in audit_futures or counted, exactly once,
\* whether the poll or the drain found it and whether it succeeded or raised.
EveryAuditCounted ==
  /\ audits_completed + Cardinality(Submitted) = total_to_audit
  /\ total_to_audit = Len(valid_lead_ids)

\* A lead carries the evidence, the keyword and the audit of its own site, although
\* futures finish in any order and the loop's variables are reused to collect them.
LeadIsItsOwn ==
  \A p \in Leads :
    /\ all_leads[p].crawl.place = p /\ all_leads[p].crawl.auditable /\ all_leads[p].audit = p
    /\ \E i \in DOMAIN all_places : all_places[i] = [place |-> p,
                                                     keyword |-> all_leads[p].crawl.keyword]

\* A run that is not interrupted returns every lead whose audit came back.
NothingLost ==
  pc = "export" =>
    \A i \in DOMAIN valid_lead_ids :
      audit[valid_lead_ids[i]].score \in {"valid", "fallback"} =>
        valid_lead_ids[i] \in Range(results)

\* Results are in the order of discovery and without duplicates, whichever audits
\* finished first and however many keywords found a place.
ResultsInOrder ==
  \A i, j \in DOMAIN results : i < j =>
    \E k, l \in DOMAIN all_places :
      k < l /\ results[i] = all_places[k].place /\ results[j] = all_places[l].place
        /\ \A n \in DOMAIN all_places : all_places[n].place = results[i] => n <= k

\* "Only auditable, evidence-backed leads reach the XLSX exporter" and suppression is
\* "checked before persistence and export" (README): a report holds verified leads
\* only, and since nothing checks their contacts, none that has any; it is complete
\* or not written.
ExportFailsClosed ==
  exported # {} =>
    /\ mode = "with_website" /\ exported \subseteq Leads
    /\ \A p \in exported : ~all_leads[p].crawl.contacts
    /\ exported = IF results # <<>> THEN Range(results) ELSE Leads

\* The command ends, with or without Ctrl-C, and with it every audit it submitted.
RunEnds == <>(pc = "exit" /\ \A p \in Places : audit[p].state \in {"none", "done"})
=============================================================================
