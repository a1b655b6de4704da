---------------------------- MODULE Crawl_proofs -----------------------------
(***************************************************************************)
(* Crawl for every set of sites, resources, addresses and requests and     *)
(* every max_pages and max_redirects: one answer per host, the pages and   *)
(* contacts of a result are evidenced and of the site, max_pages bounds    *)
(* the navigations, and a success had no refused request.                  *)
(*                                                                         *)
(* The invariant has three parts that share little.  PolicyInv is about    *)
(* the pins, RouteInv about the handlers of the browser's requests,        *)
(* CrawlInv about the crawl's own data.  Each step changes the variables   *)
(* of one or two of them, so each part is proved for itself.               *)
(***************************************************************************)
EXTENDS Crawl, FiniteSetTheorems, TLAPS

USE UrlsAssumption, BoundsAssumption

\* An answer accepted for a host is the host's pin.
PolicyInv ==
  /\ pins \in [Hosts -> Addresses \cup {NoPin}]
  /\ admitted \subseteq [host : Hosts, address : Addresses]
  /\ \A a \in admitted : pins[a.host] = a.address

\* A handler belongs to a crawl that has begun, and while a crawl runs a request of it
\* that was aborted is recorded.
RouteInv ==
  /\ route \in [Requests -> RouteState] /\ session \in 0..MaxCrawls /\ blocked \in BOOLEAN
  /\ \A r \in Requests : /\ route[r].session <= session
                         /\ pc # "idle" /\ route[r].session = session
                              /\ route[r].state = "aborted" => blocked

UrlOrNone == Urls \cup {NoUrl}
PageTexts == UNION {[D -> Text] : D \in SUBSET Urls}
CrawlResult ==
  [requested_url : UrlOrNone, url : UrlOrNone, status : Status, pages : PageTexts,
   evidence : SUBSET Evidence, contact : Contact \cup {NoContact}]

CrawlTypeOK ==
  /\ pc \in Steps /\ links \in 0..MaxLinks /\ frontier \in Seq(Urls)
  /\ crawled \in Nat /\ fetches \in Nat
  /\ contacts \in Contact \cup {NoContact} /\ result \in CrawlResult

\* How far the crawl is.
PhaseOK ==
  /\ pc \in {"idle", "validate"} =>
       links = 0 /\ frontier = <<>> /\ crawled = 0 /\ fetches = 0 /\ contacts = NoContact
  /\ pc = "validate" => AtHome
  /\ pc \in {"links", "next"} => ~AtHome
  /\ pc = "links" => fetches = 1 /\ crawled = 1
  /\ pc = "goto" /\ AtHome => fetches = 0 /\ crawled = 0 /\ frontier = <<>>
  /\ pc = "loading" /\ AtHome => fetches = 1 /\ crawled = 0 /\ frontier = <<>>
  /\ pc \in {"goto", "loading"} /\ ~AtHome => frontier # <<>>

\* Every link still to follow has a navigation left of the max_pages; with max_pages 0
\* the home page is the only one, however many links are left.
Budgeted ==
  /\ pc = "next" => /\ crawled <= fetches
                    /\ \/ fetches + Len(frontier) <= MaxPages
                       \/ fetches = 1 /\ MaxPages = 0
  /\ pc = "goto" /\ ~AtHome => crawled <= fetches /\ fetches + Len(frontier) <= MaxPages
  /\ pc = "loading" /\ ~AtHome => crawled < fetches /\ fetches + Len(frontier) <= MaxPages + 1

Limit == Max({1, MaxPages})

\* The pages stored.
PagesCounted ==
  /\ IsFiniteSet(DOMAIN result.pages)
  /\ Cardinality(DOMAIN result.pages) <= Limit
  /\ pc # "idle" => Cardinality(DOMAIN result.pages) <= crawled

\* e is the newest evidence for the text stored under u.
Newest(e, u, pages, evidence) ==
  /\ e.valid /\ e.final_url = u
  /\ pages[u] = [fetch |-> e.fetch, length |-> e.length]
  /\ \A f \in evidence : f.valid /\ f.final_url = u => f.fetch <= e.fetch

Evidenced ==
  /\ pc # "idle" => \A e \in result.evidence : e.fetch <= fetches
  /\ \A u \in DOMAIN result.pages : \E e \in result.evidence :
       Newest(e, u, result.pages, result.evidence)

\* Contact c comes from valid evidence.
Traceable(c, evidence) ==
  c # NoContact => \E e \in evidence : e.valid /\ e.fetch = c.fetch /\ e.final_url = c.source_url

CrawlInv ==
  /\ CrawlTypeOK /\ PhaseOK /\ Budgeted /\ PagesCounted /\ Evidenced /\ PagesOfTheSite
  /\ Traceable(contacts, result.evidence) /\ Traceable(result.contact, result.evidence)

IInv == PolicyInv /\ RouteInv /\ CrawlInv
-----------------------------------------------------------------------------
(* Operators *)

\* Dropping the fragment keeps the host and the shape.
LEMMA NormalizedFacts ==
  ASSUME NEW u \in Urls
  PROVE  /\ normalized(u) \in Urls /\ normalized(u).host = u.host
         /\ normalized(u).shape = u.shape
<1>1. u \in [scheme : {"http", "https"}, host : STRING, port : Nat,
             path : STRING, fragment : STRING, shape : {"ok", "refused", "raises"}]
  OBVIOUS
<1>2. normalized(u).host = u.host /\ normalized(u).shape = u.shape
  BY <1>1 DEF normalized
<1> QED BY <1>2

\* The largest of 1 and max_pages.
LEMMA LimitFacts == Limit \in Nat /\ Limit >= 1 /\ Limit >= MaxPages
<1>1. \E x \in {1, MaxPages} : \A y \in {1, MaxPages} : x >= y
  OBVIOUS
<1>2. Limit = CHOOSE x \in {1, MaxPages} : \A y \in {1, MaxPages} : x >= y
  BY DEF Limit, Max
<1>3. Limit \in {1, MaxPages} /\ \A y \in {1, MaxPages} : Limit >= y
  BY <1>1, <1>2
<1> QED BY <1>3

\* The longest text is a text.
LEMMA LongestText == Max(Lengths) \in Lengths
BY DEF Max

\* What the browser returns is a URL and a text.
LEMMA ResponseFacts ==
  ASSUME NEW page \in Response
  PROVE  /\ page.final \in Urls /\ page.length \in Nat /\ page.found \in Found
<1>1. page.final \in Browsable /\ page.length \in Lengths /\ page.found \in Found
  BY LongestText DEF Response, Found
<1> QED BY <1>1 DEF Browsable

\* What an answer that validate accepts is.
LEMMA ValidateOk ==
  ASSUME NEW u \in Urls \cup {NoUrl}, NEW allowed, NEW answer \in Answers,
         validate(u, allowed, answer) = "ok"
  PROVE  /\ u.shape = "ok" /\ u.host \in allowed /\ answer # "dns_failure"
         /\ pins[u.host] \in {NoPin, answer}
<1>1. u.shape = "ok"
  BY DEF validate
<1>2. u.host \in allowed
  BY <1>1 DEF validate
<1>3. answer # "dns_failure"
  BY <1>1, <1>2 DEF validate
<1> QED BY <1>1, <1>2, <1>3 DEF validate

-----------------------------------------------------------------------------
(* The policy *)

\* validate followed by pin keeps one answer per host.
LEMMA PinStep ==
  ASSUME PolicyInv, NEW u \in Urls \cup {NoUrl}, NEW allowed, NEW answer \in Answers, NEW code,
         code = validate(u, allowed, answer), pin(u, code, answer)
  PROVE  PolicyInv'
<1>1. CASE code # "ok"
  BY <1>1 DEF pin, PolicyInv
<1>2. CASE code = "ok"
  <2>0. validate(u, allowed, answer) = "ok"
    BY <1>2
  <2>1. u.shape = "ok" /\ answer # "dns_failure" /\ pins[u.host] \in {NoPin, answer}
    BY <2>0, ValidateOk
  <2>2. u \in Urls
    <3>1. NoUrl.shape # "ok"
      BY DEF NoUrl
    <3> QED BY <2>1, <3>1
  <2>3. u.host \in Hosts /\ answer \in Addresses
    BY <2>1, <2>2 DEF Hosts, Answers
  <2>4. /\ pins' = [pins EXCEPT ![u.host] = answer]
        /\ admitted' = admitted \cup {[host |-> u.host, address |-> answer]}
    BY <1>2 DEF pin
  <2>5. pins' \in [Hosts -> Addresses \cup {NoPin}]
    BY <2>3, <2>4 DEF PolicyInv
  <2>6. admitted' \subseteq [host : Hosts, address : Addresses]
    BY <2>3, <2>4 DEF PolicyInv
  <2>7. ASSUME NEW a \in admitted' PROVE pins'[a.host] = a.address
    <3>1. CASE a \in admitted
      <4>1. pins[a.host] = a.address /\ a.address \in Addresses /\ a.host \in Hosts
        BY <3>1 DEF PolicyInv
      <4>2. CASE a.host = u.host
        BY <2>1, <2>3, <2>4, <4>1, <4>2 DEF PolicyInv
      <4>3. CASE a.host # u.host
        BY <2>3, <2>4, <4>1, <4>3 DEF PolicyInv
      <4> QED BY <4>2, <4>3
    <3>2. CASE a = [host |-> u.host, address |-> answer]
      BY <2>3, <2>4, <3>2 DEF PolicyInv
    <3> QED BY <2>4, <2>7, <3>1, <3>2
  <2> QED BY <2>5, <2>6, <2>7 DEF PolicyInv
<1> QED BY <1>1, <1>2

\* Every step keeps one answer per host.
LEMMA PolicyStep == ASSUME IInv, [Next]_vars PROVE PolicyInv'
<1>1. ASSUME UNCHANGED <<pins, admitted>> PROVE PolicyInv'
  BY <1>1 DEF IInv, PolicyInv
<1>2. CASE \E u \in Targets : start_crawl(u)
  <2>1. pins' = [h \in Hosts |-> NoPin] /\ admitted' = {}
    BY <1>2 DEF start_crawl
  <2> QED BY <2>1 DEF PolicyInv
<1>3. ASSUME NEW answer \in Answers, check_url(answer) PROVE PolicyInv'
  <2>1. result.requested_url \in Urls \cup {NoUrl}
    BY DEF IInv, CrawlInv, CrawlTypeOK, CrawlResult, UrlOrNone
  <2> QED BY <1>3, <2>1, PinStep DEF check_url, IInv
<1>4. ASSUME NEW answer \in Answers, goto(answer) PROVE PolicyInv'
  <2>1. p_url \in Urls \cup {NoUrl}
    <3>1. CASE AtHome
      BY <3>1 DEF IInv, CrawlInv, CrawlTypeOK, CrawlResult, UrlOrNone, p_url
    <3>2. CASE ~AtHome
      BY <1>4, <3>2 DEF goto, IInv, CrawlInv, CrawlTypeOK, PhaseOK, p_url
    <3> QED BY <3>1, <3>2
  <2> QED BY <1>4, <2>1, PinStep DEF goto, IInv
<1>5. ASSUME NEW u \in Browsable, NEW answer \in Answers, follow_link(u, answer) PROVE PolicyInv'
  <2>1. u \in Urls
    BY DEF Browsable
  <2> QED BY <1>5, <2>1, PinStep DEF follow_link, IInv
<1>6. ASSUME NEW page \in Response, NEW answer \in Answers,
             home_loaded(page, answer) \/ page_loaded(page, answer)
      PROVE  PolicyInv'
  <2>1. page.final \in Urls
    BY ResponseFacts
  <2> QED BY <1>6, <2>1, PinStep DEF home_loaded, page_loaded, IInv
<1>7. CASE launch_fails \/ load_fails \/ load_raises \/ join_raises \/ limit_links \/ next_page
           \/ conclude \/ close
  BY <1>1, <1>7 DEF launch_fails, load_fails, load_raises, join_raises, limit_links, next_page,
                    conclude, close, policy
<1>8. ASSUME NEW r \in Requests, route_step(r) PROVE PolicyInv'
  <2>1. CASE route_continue(r) \/ route_abort(r)
    BY <1>1, <2>1 DEF route_continue, route_abort, policy
  <2>2. ASSUME NEW answer \in Answers, route_validate(r, answer) PROVE PolicyInv'
    <3>1. route[r].url \in Urls \cup {NoUrl}
      BY DEF IInv, RouteInv, RouteState
    <3> QED BY <2>2, <3>1, PinStep DEF route_validate, IInv
  <2> QED BY <1>8, <2>1, <2>2 DEF route_step
<1>9. CASE \E r \in Requests, u \in Resources, d \in 0..MaxRedirects + 1 : route_begin(r, u, d)
  BY <1>1, <1>9 DEF route_begin, policy
<1>10. CASE UNCHANGED vars
  BY <1>1, <1>10 DEF vars
<1> QED BY <1>2, <1>3, <1>4, <1>5, <1>6, <1>7, <1>8, <1>9, <1>10 DEF Next, crawl_step
-----------------------------------------------------------------------------
(* The handlers of the browser's requests *)

\* A handler moves to a state of the same crawl; if it is aborted, that is recorded.
LEMMA HandlerStep ==
  ASSUME RouteInv, NEW r \in Requests, NEW new \in RouteState, new.session <= session,
         route' = [route EXCEPT ![r] = new], UNCHANGED <<session, pc>>, blocked' \in BOOLEAN,
         blocked => blocked', new.state = "aborted" => blocked'
  PROVE  RouteInv'
<1>1. route' \in [Requests -> RouteState]
  BY DEF RouteInv
<1>2. ASSUME NEW q \in Requests
      PROVE  /\ route'[q].session <= session
             /\ pc # "idle" /\ route'[q].session = session /\ route'[q].state = "aborted"
                  => blocked'
  <2>1. CASE q = r
    <3>1. route'[q] = new
      BY <2>1 DEF RouteInv
    <3> QED BY <3>1
  <2>2. CASE q # r
    <3>1. route'[q] = route[q]
      BY <2>2 DEF RouteInv
    <3> QED BY <3>1 DEF RouteInv
  <2> QED BY <2>1, <2>2
<1> QED BY <1>1, <1>2 DEF RouteInv

\* The handler before its request.
LEMMA NoRouteType == NoRoute \in RouteState
BY DEF NoRoute, RouteState

\* While the crawl itself goes on or ends, the handlers stay.
LEMMA HandlersStay ==
  ASSUME RouteInv, UNCHANGED <<route, session, blocked>>, pc' = "idle" \/ pc # "idle"
  PROVE  RouteInv'
BY DEF RouteInv

\* Every step keeps the handlers' part.
LEMMA RouteStep == ASSUME IInv, [Next]_vars PROVE RouteInv'
<1>0. RouteInv
  BY DEF IInv
<1>1. CASE \E u \in Targets : start_crawl(u)
  <2>1. /\ UNCHANGED route /\ session' = session + 1 /\ session < MaxCrawls /\ blocked' = FALSE
    BY <1>1 DEF start_crawl
  <2>2. \A r \in Requests : route[r].session <= session /\ route[r].session \in Nat
    BY <1>0 DEF RouteInv, RouteState
  <2>3. session \in Nat /\ session' \in 0..MaxCrawls
    BY <1>0, <2>1 DEF RouteInv
  <2>4. \A r \in Requests : route'[r].session <= session' /\ route'[r].session # session'
    BY <2>1, <2>2, <2>3
  <2> QED BY <1>0, <2>1, <2>3, <2>4 DEF RouteInv
<1>2. CASE crawl_step
  <2>1. pc # "idle" /\ UNCHANGED <<route, session, blocked>>
    BY <1>2 DEF crawl_step, check_url, goto, follow_link, home_loaded, page_loaded, launch_fails,
                load_fails, load_raises, join_raises, limit_links, next_page, conclude, policy
  <2> QED BY <1>0, <2>1, HandlersStay
<1>3. ASSUME NEW r \in Requests, route_step(r) PROVE RouteInv'
  <2>0. route[r] \in RouteState /\ route[r].session <= session /\ route[r].session \in 0..MaxCrawls
    <3>1. route[r] \in RouteState /\ route[r].session <= session
      BY <1>0 DEF RouteInv
    <3> QED BY <3>1 DEF RouteState
  <2>1. CASE route_continue(r)
    <3>1. PICK new : new = [route[r] EXCEPT !.state = "continued"]
      OBVIOUS
    <3>2. new \in RouteState /\ new.session = route[r].session /\ new.state = "continued"
      BY <2>0, <3>1 DEF RouteState
    <3>3. route' = [route EXCEPT ![r] = new] /\ UNCHANGED <<session, pc, blocked>>
      BY <2>1, <3>1 DEF route_continue, policy
    <3>4. blocked' \in BOOLEAN
      BY <1>0, <3>3 DEF RouteInv
    <3> QED BY <1>0, <2>0, <3>2, <3>3, <3>4, HandlerStep
  <2>2. CASE route_abort(r)
    <3>1. PICK new : new = [route[r] EXCEPT !.state = "aborted"]
      OBVIOUS
    <3>2. new \in RouteState /\ new.session = route[r].session
      BY <2>0, <3>1 DEF RouteState
    <3>3. route' = [route EXCEPT ![r] = new] /\ UNCHANGED <<session, pc>> /\ blocked' = TRUE
      BY <2>2, <3>1 DEF route_abort
    <3> QED BY <1>0, <2>0, <3>2, <3>3, HandlerStep
  <2>3. ASSUME NEW answer \in Answers, route_validate(r, answer) PROVE RouteInv'
    <3>1. PICK state \in {"refused", "allowed"} :
                 /\ route' = [route EXCEPT ![r] = [NoRoute EXCEPT !.state = state,
                                                                  !.session = route[r].session]]
                 /\ UNCHANGED <<session, pc, blocked>>
      BY <2>3 DEF route_validate
    <3>2. PICK new : new = [NoRoute EXCEPT !.state = state, !.session = route[r].session]
      OBVIOUS
    <3>3. new \in RouteState /\ new.state = state /\ new.session = route[r].session
      <4>1. PICK n \in RouteState : n = NoRoute
        BY NoRouteType
      <4>2. new = [n EXCEPT !.state = state, !.session = route[r].session]
        BY <3>2, <4>1
      <4> QED BY <2>0, <4>1, <4>2 DEF RouteState
    <3>4. route' = [route EXCEPT ![r] = new] /\ blocked' \in BOOLEAN
      BY <1>0, <3>1, <3>2 DEF RouteInv
    <3> QED BY <1>0, <2>0, <3>1, <3>3, <3>4, HandlerStep
  <2> QED BY <1>3, <2>1, <2>2, <2>3 DEF route_step
<1>4. ASSUME NEW r \in Requests, NEW u \in Resources, NEW d \in 0..MaxRedirects + 1,
             route_begin(r, u, d)
      PROVE  RouteInv'
  <2>1. PICK new : new = [state |-> "resolving", url |-> u, depth |-> d, session |-> session]
    OBVIOUS
  <2>2. session \in 0..MaxCrawls /\ u \in Urls
    BY <1>0 DEF RouteInv, Browsable
  <2>3. new \in RouteState /\ new.session <= session /\ new.state = "resolving"
    BY <2>1, <2>2 DEF RouteState
  <2>4. route' = [route EXCEPT ![r] = new] /\ UNCHANGED <<session, pc, blocked>>
    BY <1>4, <2>1 DEF route_begin, policy
  <2>5. blocked' \in BOOLEAN
    BY <1>0, <2>4 DEF RouteInv
  <2> QED BY <1>0, <2>3, <2>4, <2>5, HandlerStep
<1>5. CASE close
  <2>1. pc = "idle" /\ UNCHANGED <<session, pc, blocked>>
    BY <1>5 DEF close, policy
  <2>2. ASSUME NEW r \in Requests
        PROVE  route'[r] \in RouteState /\ route'[r].session = route[r].session
    <3>1. route[r] \in RouteState /\ route[r].session \in 0..MaxCrawls
      <4>1. route[r] \in RouteState
        BY <1>0 DEF RouteInv
      <4> QED BY <4>1 DEF RouteState
    <3>2. PICK new : new = [NoRoute EXCEPT !.state = "aborted", !.session = route[r].session]
      OBVIOUS
    <3>3. new \in RouteState /\ new.session = route[r].session
      <4>1. PICK n \in RouteState : n = NoRoute
        BY NoRouteType
      <4>2. new = [n EXCEPT !.state = "aborted", !.session = route[r].session]
        BY <3>2, <4>1
      <4> QED BY <3>1, <4>1, <4>2 DEF RouteState
    <3>4. route'[r] = new \/ route'[r] = route[r]
      BY <1>5, <3>2 DEF close
    <3> QED BY <3>1, <3>3, <3>4
  <2>3. route' \in [Requests -> RouteState]
    <3>1. route' = [r \in Requests |-> route'[r]]
      BY <1>5 DEF close
    <3> QED BY <2>2, <3>1
  <2> QED BY <1>0, <2>1, <2>2, <2>3 DEF RouteInv
<1>6. CASE UNCHANGED vars
  BY <1>0, <1>6 DEF vars, RouteInv
<1> QED BY <1>1, <1>2, <1>3, <1>4, <1>5, <1>6 DEF Next
-----------------------------------------------------------------------------
(* The crawl *)

\* The pages of a result are URLs with their texts.
LEMMA PagesType ==
  ASSUME NEW r \in CrawlResult
  PROVE  DOMAIN r.pages \subseteq Urls /\ \A u \in DOMAIN r.pages : r.pages[u] \in Text
<1>1. r.pages \in PageTexts
  BY DEF CrawlResult
<1>2. PICK D \in SUBSET Urls : r.pages \in [D -> Text]
  BY <1>1 DEF PageTexts
<1> QED BY <1>2

\* What is stored stays evidenced while only the status of the result changes.
LEMMA FinishStep ==
  ASSUME CrawlInv, NEW status \in Status, Finish(status)
  PROVE  CrawlInv'
<1>1. /\ pc' = "idle" /\ links' = 0 /\ frontier' = <<>> /\ crawled' = 0 /\ fetches' = 0
      /\ contacts' = NoContact /\ result' = [result EXCEPT !.status = status]
  BY DEF Finish, Locals
<1>2. /\ result' \in CrawlResult /\ result'.requested_url = result.requested_url
      /\ result'.url = result.url /\ result'.pages = result.pages
      /\ result'.evidence = result.evidence /\ result'.contact = result.contact
  BY <1>1 DEF CrawlInv, CrawlTypeOK, CrawlResult
<1>3. CrawlTypeOK' /\ PhaseOK' /\ Budgeted'
  BY <1>1, <1>2 DEF CrawlTypeOK, PhaseOK, Budgeted, Steps
<1>4. PagesCounted' /\ Evidenced'
  BY <1>1, <1>2 DEF CrawlInv, PagesCounted, Evidenced
<1>5. PagesOfTheSite'
  BY <1>2 DEF CrawlInv, PagesOfTheSite
<1>6. Traceable(contacts, result.evidence)' /\ Traceable(result.contact, result.evidence)'
  BY <1>1, <1>2 DEF CrawlInv, Traceable
<1> QED BY <1>3, <1>4, <1>5, <1>6 DEF CrawlInv

\* home_failed ends the call.
LEMMA HomeFailedStep == ASSUME CrawlInv, home_failed PROVE CrawlInv'
<1>1. PICK status : status = IF blocked THEN "blocked" ELSE "failed"
  OBVIOUS
<1>2. status \in Status /\ Finish(status)
  BY <1>1 DEF home_failed, Finish, Status
<1> QED BY <1>2, FinishStep

\* conclude: the contacts of the pages become those of the result.
LEMMA ConcludeStep == ASSUME CrawlInv, conclude PROVE CrawlInv'
<1>0. PICK status : status = IF ~ensure_auditable_pages(result.pages) THEN "empty"
                             ELSE IF blocked \/ \E e \in result.evidence : ~e.valid
                             THEN "partial" ELSE "success"
  OBVIOUS
<1>1. /\ pc' = "idle" /\ links' = 0 /\ frontier' = <<>> /\ crawled' = 0 /\ fetches' = 0
      /\ contacts' = NoContact
      /\ result' = [result EXCEPT !.contact = contacts, !.status = status]
  BY <1>0 DEF conclude, Locals
<1>2. status \in Status
  BY <1>0 DEF Status
<1>3. /\ result' \in CrawlResult /\ result'.requested_url = result.requested_url
      /\ result'.url = result.url /\ result'.pages = result.pages
      /\ result'.evidence = result.evidence /\ result'.contact = contacts
  BY <1>1, <1>2 DEF CrawlInv, CrawlTypeOK, CrawlResult
<1>4. CrawlTypeOK' /\ PhaseOK' /\ Budgeted'
  BY <1>1, <1>3 DEF CrawlTypeOK, PhaseOK, Budgeted, Steps
<1>5. PagesCounted' /\ Evidenced'
  BY <1>1, <1>3 DEF CrawlInv, PagesCounted, Evidenced
<1>6. PagesOfTheSite'
  BY <1>3 DEF CrawlInv, PagesOfTheSite
<1>7. Traceable(contacts, result.evidence)' /\ Traceable(result.contact, result.evidence)'
  BY <1>1, <1>3 DEF CrawlInv, Traceable
<1> QED BY <1>4, <1>5, <1>6, <1>7 DEF CrawlInv

\* A new result has no pages.
LEMMA NewResultFacts ==
  ASSUME NEW u \in UrlOrNone, NEW r, r = NewResult(u)
  PROVE  /\ r \in CrawlResult /\ DOMAIN r.pages = {} /\ r.evidence = {} /\ r.contact = NoContact
<1>1. PICK n : n = NoPages
  OBVIOUS
<1>2. n \in [{} -> Text] /\ DOMAIN n = {}
  BY <1>1 DEF NoPages
<1>3. n \in PageTexts
  BY <1>2 DEF PageTexts
<1>4. r = [requested_url |-> u, url |-> u, status |-> "pending", pages |-> n, evidence |-> {},
           contact |-> NoContact]
  BY <1>1 DEF NewResult
<1>5. r \in CrawlResult
  BY <1>3, <1>4 DEF CrawlResult, Status
<1> QED BY <1>2, <1>4, <1>5

\* Without pages and evidence the data of a crawl that has not fetched anything is fine.
LEMMA FreshCrawl ==
  ASSUME CrawlTypeOK', DOMAIN result'.pages = {}, result'.evidence = {},
         result'.contact = NoContact, contacts' = NoContact,
         pc' \in {"idle", "validate"}, links' = 0, frontier' = <<>>, crawled' = 0, fetches' = 0
  PROVE  CrawlInv'
<1>1. PhaseOK' /\ Budgeted' /\ Evidenced' /\ PagesOfTheSite'
  BY DEF PhaseOK, Budgeted, Evidenced, PagesOfTheSite, AtHome
<1>2. PagesCounted'
  <2>1. IsFiniteSet({}) /\ Cardinality({}) = 0
    BY FS_EmptySet
  <2> QED BY <2>1, LimitFacts DEF PagesCounted, Limit
<1>3. Traceable(contacts, result.evidence)' /\ Traceable(result.contact, result.evidence)'
  BY DEF Traceable
<1> QED BY <1>1, <1>2, <1>3 DEF CrawlInv

\* start_crawl begins with an empty result.
LEMMA StartStep == ASSUME CrawlInv, NEW u \in Targets, start_crawl(u) PROVE CrawlInv'
<1>1. /\ pc = "idle" /\ pc' = "validate" /\ result' = NewResult(u)
      /\ UNCHANGED <<links, frontier, crawled, fetches, contacts>>
  BY DEF start_crawl, work
<1>2. u \in UrlOrNone
  BY DEF UrlOrNone
<1>3. /\ result' \in CrawlResult /\ DOMAIN result'.pages = {} /\ result'.evidence = {}
      /\ result'.contact = NoContact
  BY <1>1, <1>2, NewResultFacts
<1>4. links = 0 /\ frontier = <<>> /\ crawled = 0 /\ fetches = 0 /\ contacts = NoContact
  BY <1>1 DEF CrawlInv, PhaseOK
<1>5. CrawlTypeOK'
  BY <1>1, <1>3 DEF CrawlInv, CrawlTypeOK, Steps
<1> QED BY <1>1, <1>3, <1>4, <1>5, FreshCrawl

\* Before the home page there is no text and no contact.
LEMMA NothingAtHome ==
  ASSUME CrawlInv, AtHome
  PROVE  /\ DOMAIN result.pages = {} /\ contacts = NoContact /\ result.contact = NoContact
         /\ result.evidence = {}
<1>1. result.evidence = {}
  BY DEF AtHome
<1>2. DOMAIN result.pages = {}
  BY <1>1 DEF CrawlInv, Evidenced
<1>3. contacts = NoContact /\ result.contact = NoContact
  BY <1>1 DEF CrawlInv, Traceable
<1> QED BY <1>1, <1>2, <1>3

\* check_url accepts the URL, or ends the call.
LEMMA CheckUrlStep ==
  ASSUME CrawlInv, NEW answer \in Answers, check_url(answer)
  PROVE  CrawlInv'
<1>0. PICK u : u = result.requested_url
  OBVIOUS
<1>1. CASE Finish("blocked") \/ Finish("failed")
  BY <1>1, FinishStep DEF Status
<1>2. CASE /\ pc' = "goto" /\ result' = [result EXCEPT !.url = normalized(u)] /\ UNCHANGED work
           /\ pc = "validate" /\ u.shape = "ok"
  <2>1. u \in Urls
    <3>1. NoUrl.shape # "ok"
      BY DEF NoUrl
    <3>2. u \in UrlOrNone
      BY <1>0 DEF CrawlInv, CrawlTypeOK, CrawlResult
    <3> QED BY <1>2, <3>1, <3>2 DEF UrlOrNone
  <2>2. normalized(u) \in UrlOrNone
    BY <2>1, NormalizedFacts DEF UrlOrNone
  <2>3. /\ result' \in CrawlResult /\ result'.pages = result.pages
        /\ result'.evidence = result.evidence /\ result'.contact = result.contact
    BY <1>2, <2>2 DEF CrawlInv, CrawlTypeOK, CrawlResult
  <2>4. AtHome /\ links = 0 /\ frontier = <<>> /\ crawled = 0 /\ fetches = 0
    BY <1>2 DEF CrawlInv, PhaseOK
  <2>5. UNCHANGED <<links, frontier, crawled, fetches, contacts>>
    BY <1>2 DEF work
  <2>6. /\ DOMAIN result.pages = {} /\ contacts = NoContact /\ result.contact = NoContact
        /\ result.evidence = {}
    BY <2>4, NothingAtHome
  <2>7. CrawlTypeOK' /\ PhaseOK' /\ Budgeted'
    BY <1>2, <2>3, <2>4, <2>5, <2>6 DEF CrawlInv, CrawlTypeOK, PhaseOK, Budgeted, AtHome, Steps
  <2>8. PagesCounted' /\ Evidenced'
    BY <1>2, <2>3, <2>4, <2>5, <2>6 DEF CrawlInv, PagesCounted, Evidenced
  <2>9. PagesOfTheSite' /\ Traceable(contacts, result.evidence)'
        /\ Traceable(result.contact, result.evidence)'
    BY <2>3, <2>5, <2>6 DEF PagesOfTheSite, Traceable
  <2> QED BY <2>7, <2>8, <2>9 DEF CrawlInv
<1>3. Finish("blocked") \/ Finish("failed") \/
        /\ pc' = "goto" /\ result' = [result EXCEPT !.url = normalized(u)] /\ UNCHANGED work
        /\ pc = "validate" /\ u.shape = "ok"
  <2>1. validate(u, Hosts, answer) = "ok" => u.shape = "ok"
    BY DEF validate
  <2> QED BY <1>0, <2>1 DEF check_url
<1> QED BY <1>1, <1>2, <1>3
\* A step that leaves the result and the contacts alone.
LEMMA SameResult ==
  ASSUME CrawlInv, UNCHANGED <<result, contacts, crawled>>, pc # "idle", fetches' >= fetches,
         CrawlTypeOK', PhaseOK', Budgeted'
  PROVE  CrawlInv'
<1>1. PagesCounted'
  BY DEF CrawlInv, PagesCounted
<1>2. Evidenced'
  <2>1. \A e \in result.evidence : e.fetch <= fetches /\ e.fetch \in Nat
    BY DEF CrawlInv, Evidenced, CrawlTypeOK, CrawlResult, Evidence
  <2>2. \A e \in result.evidence : e.fetch <= fetches'
    BY <2>1 DEF CrawlInv, CrawlTypeOK
  <2> QED BY <2>2 DEF CrawlInv, Evidenced
<1>3. PagesOfTheSite'
  BY DEF CrawlInv, PagesOfTheSite
<1>4. Traceable(contacts, result.evidence)' /\ Traceable(result.contact, result.evidence)'
  BY DEF CrawlInv, Traceable
<1> QED BY <1>1, <1>2, <1>3, <1>4 DEF CrawlInv

\* Python's slice keeps less than max_pages links.
LEMMA FirstPagesFacts ==
  ASSUME NEW s \in Seq(Urls), NEW t, t = FirstPages(s)
  PROVE  t \in Seq(Urls) /\ (MaxPages > 0 => Len(t) <= MaxPages - 1)
<1>0. Len(s) \in Nat
  OBVIOUS
<1>1. PICK n : n = IF MaxPages = 0 THEN Len(s) - 1 ELSE MaxPages - 1
  OBVIOUS
<1>2. PICK k : k = IF n < Len(s) THEN n ELSE Len(s)
  OBVIOUS
<1>3. n \in Int /\ k \in Int /\ k <= Len(s) /\ (MaxPages > 0 => k <= MaxPages - 1) /\ k >= -1
  BY <1>0, <1>1, <1>2
<1>4. t = SubSeq(s, 1, k)
  BY <1>1, <1>2 DEF FirstPages
<1>5. CASE k < 0
  <2>1. t = <<>>
    BY <1>3, <1>4, <1>5
  <2> QED BY <1>3, <2>1
<1>6. CASE k >= 0
  <2>1. t \in Seq(Urls) /\ Len(t) = k
    BY <1>0, <1>3, <1>4, <1>6
  <2> QED BY <1>3, <2>1
<1> QED BY <1>3, <1>5, <1>6

\* follow_link, limit_links and next_page leave the result alone.
LEMMA LinksStep ==
  ASSUME CrawlInv,
         limit_links \/ next_page \/ \E u \in Browsable, answer \in Answers : follow_link(u, answer)
  PROVE  CrawlInv'
<1>0. frontier \in Seq(Urls) /\ fetches \in Nat /\ crawled \in Nat /\ Len(frontier) \in Nat
  BY DEF CrawlInv, CrawlTypeOK
<1>1. CASE limit_links
  <2>1. /\ pc = "links" /\ pc' = "next" /\ frontier' = FirstPages(frontier)
        /\ UNCHANGED <<links, crawled, fetches, contacts, result>>
    BY <1>1 DEF limit_links
  <2>2. frontier' \in Seq(Urls) /\ (MaxPages > 0 => Len(frontier') <= MaxPages - 1)
    BY <1>0, <2>1, FirstPagesFacts
  <2>3. fetches = 1 /\ crawled = 1 /\ ~AtHome /\ Len(frontier') \in Nat
    BY <2>1, <2>2 DEF CrawlInv, PhaseOK
  <2>4. CrawlTypeOK' /\ PhaseOK' /\ Budgeted'
    BY <2>1, <2>2, <2>3 DEF CrawlInv, CrawlTypeOK, PhaseOK, Budgeted, AtHome, Steps
  <2> QED BY <1>0, <2>1, <2>4, SameResult
<1>2. CASE next_page
  <2>1. /\ pc = "next" /\ pc' = "goto" /\ frontier # <<>> /\ crawled < MaxPages
        /\ UNCHANGED <<links, frontier, crawled, fetches, contacts, result>>
    BY <1>2 DEF next_page, work
  <2>2. ~AtHome /\ crawled <= fetches /\ fetches + Len(frontier) <= MaxPages
    BY <1>0, <2>1 DEF CrawlInv, PhaseOK, Budgeted
  <2>3. CrawlTypeOK' /\ PhaseOK' /\ Budgeted'
    BY <2>1, <2>2 DEF CrawlInv, CrawlTypeOK, PhaseOK, Budgeted, AtHome, Steps
  <2> QED BY <1>0, <2>1, <2>3, SameResult
<1>3. ASSUME NEW u \in Browsable, NEW answer \in Answers, follow_link(u, answer) PROVE CrawlInv'
  <2>1. /\ pc = "links" /\ links < MaxLinks /\ links' = links + 1
        /\ frontier' = frontier \/ frontier' = Append(frontier, normalized(u))
        /\ UNCHANGED <<pc, crawled, fetches, contacts, result>>
    BY <1>3 DEF follow_link
  <2>2. normalized(u) \in Urls
    BY NormalizedFacts DEF Browsable
  <2>3. frontier' \in Seq(Urls)
    <3>1. frontier \in Seq(Urls)
      BY DEF CrawlInv, CrawlTypeOK
    <3>2. Append(frontier, normalized(u)) \in Seq(Urls)
      BY <2>2, <3>1
    <3> QED BY <2>1, <3>1, <3>2
  <2>4. CrawlTypeOK' /\ PhaseOK' /\ Budgeted'
    BY <2>1, <2>3 DEF CrawlInv, CrawlTypeOK, PhaseOK, Budgeted, AtHome, Steps
  <2> QED BY <1>0, <2>1, <2>4, SameResult
<1> QED BY <1>1, <1>2, <1>3

\* After a navigation of the budget the next link is the head of what is left.
LEMMA NextLink ==
  ASSUME NEW s \in Seq(Urls), s # <<>>
  PROVE  /\ Head(s) \in Urls /\ Tail(s) \in Seq(Urls) /\ Len(Tail(s)) = Len(s) - 1
         /\ Len(s) \in Nat /\ Len(s) >= 1
<1>1. Len(s) \in Nat \ {0}
  OBVIOUS
<1>2. Head(s) \in Urls /\ Tail(s) \in Seq(Urls) /\ Len(Tail(s)) = Len(s) - 1
  BY <1>1
<1> QED BY <1>1, <1>2

\* An internal page ends with evidence that is not valid: its text is not stored.
LEMMA InvalidPage ==
  ASSUME CrawlInv, NEW e \in Evidence, ~e.valid, e.fetch = fetches', ~AtHome,
         \/ pc = "goto" /\ fetches' = fetches + 1
         \/ pc = "loading" /\ fetches' = fetches,
         result' = [result EXCEPT !.evidence = @ \cup {e}],
         frontier' = Tail(frontier), pc' = "next", UNCHANGED <<links, crawled, contacts>>
  PROVE  CrawlInv'
<1>0. /\ frontier \in Seq(Urls) /\ fetches \in Nat /\ crawled \in Nat /\ result \in CrawlResult
      /\ frontier # <<>>
  BY DEF CrawlInv, CrawlTypeOK, PhaseOK
<1>1. /\ frontier' \in Seq(Urls) /\ Len(frontier') = Len(frontier) - 1 /\ Len(frontier) \in Nat
  BY <1>0, NextLink
<1>2. /\ result' \in CrawlResult /\ result'.requested_url = result.requested_url
      /\ result'.url = result.url /\ result'.pages = result.pages
      /\ result'.evidence = result.evidence \cup {e} /\ result'.contact = result.contact
  BY <1>0 DEF CrawlResult
<1>3. CrawlTypeOK'
  BY <1>0, <1>1, <1>2 DEF CrawlInv, CrawlTypeOK, Steps
<1>4. PhaseOK' /\ Budgeted'
  <2>1. crawled <= fetches' /\ fetches' + Len(frontier') <= MaxPages
    BY <1>0, <1>1 DEF CrawlInv, Budgeted
  <2>2. ~AtHome'
    BY <1>2 DEF AtHome
  <2> QED BY <2>1, <2>2 DEF PhaseOK, Budgeted
<1>5. PagesCounted'
  BY <1>2 DEF CrawlInv, PagesCounted
<1>6. Evidenced'
  <2>1. \A f \in result.evidence : f.fetch <= fetches /\ f.fetch \in Nat
    BY <1>0 DEF CrawlInv, Evidenced, CrawlResult, Evidence
  <2>2. \A f \in result'.evidence : f.fetch <= fetches'
    BY <1>0, <1>2, <2>1
  <2>3. ASSUME NEW u \in DOMAIN result.pages
        PROVE  \E f \in result'.evidence : Newest(f, u, result.pages, result'.evidence)
    <3>1. PICK f \in result.evidence : Newest(f, u, result.pages, result.evidence)
      BY DEF CrawlInv, Evidenced
    <3>2. Newest(f, u, result.pages, result'.evidence)
      BY <1>2, <3>1 DEF Newest
    <3> QED BY <1>2, <3>2
  <2> QED BY <1>2, <2>2, <2>3 DEF Evidenced
<1>7. PagesOfTheSite'
  BY <1>2 DEF CrawlInv, PagesOfTheSite
<1>8. Traceable(contacts, result.evidence)' /\ Traceable(result.contact, result.evidence)'
  BY <1>2 DEF CrawlInv, Traceable
<1> QED BY <1>3, <1>4, <1>5, <1>6, <1>7, <1>8 DEF CrawlInv

\* page_failed, from goto or from loading.
LEMMA PageFailedStep ==
  ASSUME CrawlInv, page_failed,
         \/ pc = "goto" /\ fetches' = fetches + 1
         \/ pc = "loading" /\ fetches' = fetches
  PROVE  CrawlInv'
<1>1. PICK e : e = [fetch |-> fetches', final_url |-> p_url, length |-> 0, valid |-> FALSE]
  OBVIOUS
<1>2. /\ ~AtHome /\ result' = [result EXCEPT !.evidence = @ \cup {e}]
      /\ frontier' = Tail(frontier) /\ pc' = "next" /\ UNCHANGED <<links, crawled, contacts>>
  BY <1>1 DEF page_failed
<1>3. frontier # <<>> /\ frontier \in Seq(Urls) /\ fetches \in Nat
  BY <1>2 DEF CrawlInv, CrawlTypeOK, PhaseOK
<1>4. p_url \in Urls
  BY <1>2, <1>3, NextLink DEF p_url
<1>5. e \in Evidence /\ ~e.valid /\ e.fetch = fetches'
  BY <1>1, <1>3, <1>4 DEF Evidence
<1> QED BY <1>2, <1>5, InvalidPage

\* goto: the navigation starts, or fails.
LEMMA GotoStep == ASSUME CrawlInv, NEW answer \in Answers, goto(answer) PROVE CrawlInv'
<1>1. CASE /\ pc' = "loading" /\ fetches' = fetches + 1 /\ pc = "goto"
           /\ UNCHANGED <<links, frontier, crawled, contacts, result>>
  <2>1. /\ frontier \in Seq(Urls) /\ fetches \in Nat /\ crawled \in Nat
        /\ Len(frontier) \in Nat
    BY DEF CrawlInv, CrawlTypeOK
  <2>2. CrawlTypeOK' /\ AtHome' = AtHome
    BY <1>1, <2>1 DEF CrawlInv, CrawlTypeOK, Steps, AtHome
  <2>3. PhaseOK'
    BY <1>1, <2>1, <2>2 DEF CrawlInv, PhaseOK
  <2>4. Budgeted'
    BY <1>1, <2>1, <2>2 DEF CrawlInv, Budgeted
  <2> QED BY <1>1, <2>1, <2>2, <2>3, <2>4, SameResult
<1>2. CASE pc = "goto" /\ fetches' = fetches + 1 /\ page_failed
  BY <1>2, PageFailedStep
<1>3. CASE home_failed
  BY <1>3, HomeFailedStep
<1>4. CASE Finish("blocked")
  BY <1>4, FinishStep DEF Status
<1> QED BY <1>1, <1>2, <1>3, <1>4 DEF goto

\* launch_fails, load_fails, load_raises and join_raises end the page or the call.
LEMMA FailureStep ==
  ASSUME CrawlInv, launch_fails \/ load_fails \/ load_raises \/ join_raises
  PROVE  CrawlInv'
<1>1. CASE load_fails
  BY <1>1, HomeFailedStep, PageFailedStep DEF load_fails
<1>2. CASE launch_fails \/ load_raises \/ join_raises
  <2>1. Finish("failed")
    BY <1>2 DEF launch_fails, load_raises, join_raises
  <2> QED BY <2>1, FinishStep DEF Status
<1> QED BY <1>1, <1>2
-----------------------------------------------------------------------------
(* Pages that were loaded *)

\* The evidence of a page the browser returned.
LEMMA EvidenceFacts ==
  ASSUME CrawlTypeOK, NEW page \in Response, NEW e, e = from_content(page)
  PROVE  /\ e \in Evidence /\ e.fetch = fetches /\ e.final_url = normalized(page.final)
         /\ e.final_url \in Urls /\ e.final_url.host = page.final.host
         /\ e.final_url.shape = page.final.shape
<1>1. /\ normalized(page.final) \in Urls /\ normalized(page.final).host = page.final.host
      /\ normalized(page.final).shape = page.final.shape /\ page.length \in Nat /\ fetches \in Nat
  BY ResponseFacts, NormalizedFacts DEF CrawlTypeOK
<1>2. PICK b \in BOOLEAN : b = (page.answer = "ok" /\ page.length >= MIN_AUDIT_PAGE_CHARS)
  OBVIOUS
<1>3. e = [fetch |-> fetches, final_url |-> normalized(page.final), length |-> page.length,
           valid |-> b]
  BY <1>2 DEF from_content
<1>4. e \in Evidence
  BY <1>1, <1>3 DEF Evidence
<1>5. e.fetch = fetches /\ e.final_url = normalized(page.final)
  BY <1>3
<1> QED BY <1>1, <1>4, <1>5

\* The contacts after a merge: the ones before it or one of this page.
LEMMA MergedFacts ==
  ASSUME CrawlTypeOK, NEW page \in Response, NEW e \in Evidence, NEW c, c = merged(page, e)
  PROVE  /\ c \in Contact \cup {NoContact}
         /\ c = contacts \/ (c.fetch = e.fetch /\ c.source_url = e.final_url)
<1>1. CASE c = contacts
  BY <1>1 DEF CrawlTypeOK
<1>2. CASE c = [method |-> page.found, source_url |-> e.final_url, fetch |-> e.fetch]
  BY <1>2, ResponseFacts DEF Contact, Evidence
<1> QED BY <1>1, <1>2 DEF merged

\* A valid page whose text is stored, home page or not.
LEMMA AddPage ==
  ASSUME CrawlInv, NEW page \in Response, NEW e \in Evidence, e.valid, e.fetch = fetches,
         add_page(page, e), UNCHANGED fetches, pc = "loading",
         e.final_url.shape = "ok", pc' # "idle",
         AtHome \/ e.final_url.host \in {result.requested_url.host, result.url.host}
  PROVE  /\ result' \in CrawlResult /\ result'.evidence # {} /\ crawled' = crawled + 1
         /\ contacts' \in Contact \cup {NoContact}
         /\ PagesCounted' /\ Evidenced' /\ PagesOfTheSite'
         /\ Traceable(contacts, result.evidence)' /\ Traceable(result.contact, result.evidence)'
<1>0. PICK x, t, new :
        /\ x = e.final_url /\ t = [fetch |-> e.fetch, length |-> e.length]
        /\ new = [u \in DOMAIN result.pages \cup {x} |-> IF u = x THEN t ELSE result.pages[u]]
  OBVIOUS
<1>1. PICK y : y = IF AtHome THEN x ELSE result.url
  OBVIOUS
<1>2. result' = [result EXCEPT !.evidence = result.evidence \cup {e}, !.url = y, !.pages = new]
  BY <1>0, <1>1 DEF add_page
<1>3. /\ crawled' = crawled + 1 /\ contacts' = merged(page, e)
  BY DEF add_page
<1>4. result \in CrawlResult /\ fetches \in Nat /\ crawled \in Nat
  BY DEF CrawlInv, CrawlTypeOK
<1>5. x \in Urls /\ t \in Text
  BY <1>0 DEF Evidence, Text
<1>6. new \in PageTexts /\ DOMAIN new = DOMAIN result.pages \cup {x}
  <2>1. DOMAIN result.pages \subseteq Urls /\ \A u \in DOMAIN result.pages : result.pages[u] \in Text
    BY <1>4, PagesType
  <2>2. new \in [DOMAIN result.pages \cup {x} -> Text]
    BY <1>0, <1>5, <2>1
  <2>3. DOMAIN result.pages \cup {x} \in SUBSET Urls
    BY <1>5, <2>1
  <2> QED BY <2>2, <2>3 DEF PageTexts
<1>7. y \in UrlOrNone
  BY <1>1, <1>4, <1>5 DEF CrawlResult, UrlOrNone
<1>8. /\ result' \in CrawlResult /\ result'.requested_url = result.requested_url
      /\ result'.url = y /\ result'.pages = new
      /\ result'.evidence = result.evidence \cup {e} /\ result'.contact = result.contact
  <2>1. result.evidence \cup {e} \in SUBSET Evidence
    BY <1>4 DEF CrawlResult
  <2> QED BY <1>2, <1>4, <1>6, <1>7, <2>1 DEF CrawlResult
<1>9. PagesCounted'
  <2>1. crawled + 1 <= fetches /\ fetches <= Limit
    <3>1. CASE AtHome
      BY <3>1, LimitFacts DEF CrawlInv, PhaseOK
    <3>2. CASE ~AtHome
      <4>1. crawled < fetches /\ fetches + Len(frontier) <= MaxPages + 1
        BY <3>2 DEF CrawlInv, Budgeted
      <4>2. Len(frontier) \in Nat /\ Len(frontier) >= 1
        BY <3>2, NextLink DEF CrawlInv, CrawlTypeOK, PhaseOK
      <4> QED BY <1>4, <4>1, <4>2, LimitFacts
    <3> QED BY <3>1, <3>2
  <2>2. IsFiniteSet(DOMAIN result.pages) /\ Cardinality(DOMAIN result.pages) <= crawled
    BY DEF CrawlInv, PagesCounted
  <2>3. /\ IsFiniteSet(DOMAIN new) /\ Cardinality(DOMAIN new) <= Cardinality(DOMAIN result.pages) + 1
        /\ Cardinality(DOMAIN new) \in Nat /\ Cardinality(DOMAIN result.pages) \in Nat
    <3>1. Cardinality(DOMAIN result.pages) \in Nat
      BY <2>2, FS_CardinalityType
    <3>2. PICK D : D = DOMAIN result.pages
      OBVIOUS
    <3>3. /\ IsFiniteSet(D \cup {x})
          /\ \/ Cardinality(D \cup {x}) = Cardinality(D)
             \/ Cardinality(D \cup {x}) = Cardinality(D) + 1
      BY <2>2, <3>2, FS_AddElement
    <3>4. DOMAIN new = D \cup {x}
      BY <1>6, <3>2
    <3> QED BY <3>1, <3>2, <3>3, <3>4
  <2>4. Cardinality(DOMAIN new) <= crawled + 1 /\ Cardinality(DOMAIN new) <= Limit
    BY <1>4, <2>1, <2>2, <2>3, LimitFacts
  <2> QED BY <1>3, <1>8, <2>3, <2>4 DEF PagesCounted, Limit
<1>10. Evidenced'
  <2>1. \A f \in result.evidence : f.fetch <= fetches
    BY DEF CrawlInv, Evidenced
  <2>2. \A f \in result'.evidence : f.fetch <= fetches
    BY <1>4, <1>8, <2>1
  <2>3. ASSUME NEW u \in DOMAIN new
        PROVE  \E f \in result'.evidence : Newest(f, u, new, result'.evidence)
    <3>1. CASE u = x
      <4>1. new[u] = t
        BY <1>0, <1>6, <3>1
      <4>2. Newest(e, u, new, result'.evidence)
        BY <1>0, <2>2, <3>1, <4>1 DEF Newest
      <4> QED BY <1>8, <4>2
    <3>2. CASE u # x
      <4>1. u \in DOMAIN result.pages /\ new[u] = result.pages[u]
        BY <1>0, <1>6, <3>2
      <4>2. PICK f \in result.evidence : Newest(f, u, result.pages, result.evidence)
        BY <4>1 DEF CrawlInv, Evidenced
      <4>3. Newest(f, u, new, result'.evidence)
        BY <1>0, <1>8, <3>2, <4>1, <4>2 DEF Newest
      <4> QED BY <1>8, <4>3
    <3> QED BY <3>1, <3>2
  <2> QED BY <1>8, <2>2, <2>3 DEF Evidenced
<1>11. PagesOfTheSite'
  <2>1. CASE AtHome
    <3>1. DOMAIN new = {x} /\ y = x
      BY <1>1, <1>6, <2>1, NothingAtHome
    <3> QED BY <1>0, <1>8, <3>1 DEF PagesOfTheSite
  <2>2. CASE ~AtHome
    <3>1. y = result.url
      BY <1>1, <2>2
    <3>2. \A u \in DOMAIN new :
            u.shape = "ok" /\ u.host \in {result.requested_url.host, result.url.host}
      BY <1>0, <1>6, <2>2 DEF CrawlInv, PagesOfTheSite
    <3> QED BY <1>8, <3>1, <3>2 DEF PagesOfTheSite
  <2> QED BY <2>1, <2>2
<1>12. contacts' \in Contact \cup {NoContact} /\ Traceable(contacts, result.evidence)'
  <2>1. PICK c : c = merged(page, e)
    OBVIOUS
  <2>2. /\ c \in Contact \cup {NoContact}
        /\ c = contacts \/ (c.fetch = e.fetch /\ c.source_url = e.final_url)
    BY <2>1, MergedFacts DEF CrawlInv
  <2>3. Traceable(c, result'.evidence)
    BY <1>8, <2>2 DEF CrawlInv, Traceable
  <2> QED BY <1>3, <2>1, <2>2, <2>3 DEF Traceable
<1>13. Traceable(result.contact, result.evidence)'
  BY <1>8 DEF CrawlInv, Traceable
<1>14. result'.evidence # {}
  BY <1>8
<1> QED BY <1>3, <1>8, <1>9, <1>10, <1>11, <1>12, <1>13, <1>14

\* home_loaded stores the home page, or ends the call.
LEMMA HomeLoadedStep ==
  ASSUME CrawlInv, NEW page \in Response, NEW answer \in Answers, home_loaded(page, answer)
  PROVE  CrawlInv'
<1>0. PICK e : e = from_content(page)
  OBVIOUS
<1>1. /\ e \in Evidence /\ e.fetch = fetches /\ e.final_url \in Urls
      /\ e.final_url.shape = page.final.shape
  BY <1>0, EvidenceFacts DEF CrawlInv
<1>2. pc = "loading" /\ AtHome
  BY DEF home_loaded
<1>3. /\ DOMAIN result.pages = {} /\ contacts = NoContact /\ result.contact = NoContact
      /\ fetches = 1 /\ crawled = 0 /\ frontier = <<>> /\ result \in CrawlResult
  BY <1>2, NothingAtHome DEF CrawlInv, CrawlTypeOK, PhaseOK
<1>4. CASE Finish("blocked")
  BY <1>4, FinishStep DEF Status
<1>5. ASSUME NEW status \in Status, pc' = "idle", Locals,
             result' = [result EXCEPT !.url = e.final_url, !.evidence = {e}, !.status = status]
      PROVE  CrawlInv'
  <2>1. /\ links' = 0 /\ frontier' = <<>> /\ crawled' = 0 /\ fetches' = 0
        /\ contacts' = NoContact
    BY <1>5 DEF Locals
  <2>2. e.final_url \in UrlOrNone /\ {e} \in SUBSET Evidence
    BY <1>1 DEF UrlOrNone
  <2>3. /\ result' \in CrawlResult /\ result'.pages = result.pages /\ result'.contact = result.contact
    BY <1>3, <1>5, <2>2 DEF CrawlResult
  <2>4. CrawlTypeOK' /\ PhaseOK' /\ Budgeted'
    BY <1>5, <2>1, <2>3 DEF CrawlTypeOK, PhaseOK, Budgeted, Steps
  <2>5. PagesCounted' /\ Evidenced'
    BY <1>3, <1>5, <2>1, <2>3 DEF CrawlInv, PagesCounted, Evidenced
  <2>6. PagesOfTheSite' /\ Traceable(contacts, result.evidence)'
        /\ Traceable(result.contact, result.evidence)'
    BY <1>3, <2>1, <2>3 DEF PagesOfTheSite, Traceable
  <2> QED BY <2>4, <2>5, <2>6 DEF CrawlInv
<1>6. CASE /\ validate(page.final, Hosts, answer) = "ok" /\ e.valid /\ add_page(page, e)
           /\ pc' = "links" /\ UNCHANGED <<links, frontier, fetches>>
  <2>1. page.final.shape = "ok"
    BY <1>6 DEF validate
  <2>2. /\ result' \in CrawlResult /\ result'.evidence # {} /\ crawled' = crawled + 1
        /\ contacts' \in Contact \cup {NoContact}
        /\ PagesCounted' /\ Evidenced' /\ PagesOfTheSite'
        /\ Traceable(contacts, result.evidence)' /\ Traceable(result.contact, result.evidence)'
    BY <1>1, <1>2, <1>6, <2>1, AddPage
  <2>3. CrawlTypeOK'
    BY <1>3, <1>6, <2>2 DEF CrawlInv, CrawlTypeOK, Steps
  <2>4. PhaseOK' /\ Budgeted'
    BY <1>3, <1>6, <2>2 DEF PhaseOK, Budgeted, AtHome
  <2> QED BY <2>2, <2>3, <2>4 DEF CrawlInv
<1>7. PICK status : status = IF page.answer = "ok" THEN "empty" ELSE "invalid_response"
  OBVIOUS
<1>8. status \in Status
  BY <1>7 DEF Status
<1> QED BY <1>0, <1>4, <1>5, <1>6, <1>7, <1>8 DEF home_loaded

\* page_loaded stores an internal page, or its evidence only.
LEMMA PageLoadedStep ==
  ASSUME CrawlInv, NEW page \in Response, NEW answer \in Answers, page_loaded(page, answer)
  PROVE  CrawlInv'
<1>0. PICK e : e = from_content(page)
  OBVIOUS
<1>1. /\ e \in Evidence /\ e.fetch = fetches /\ e.final_url \in Urls
      /\ e.final_url.shape = page.final.shape /\ e.final_url.host = page.final.host
  BY <1>0, EvidenceFacts DEF CrawlInv
<1>2. pc = "loading" /\ ~AtHome
  BY DEF page_loaded
<1>3. CASE UNCHANGED fetches /\ page_failed
  BY <1>2, <1>3, PageFailedStep
<1>4. CASE /\ ~e.valid /\ result' = [result EXCEPT !.evidence = @ \cup {e}]
           /\ frontier' = Tail(frontier) /\ pc' = "next"
           /\ UNCHANGED <<contacts, crawled, links, fetches>>
  BY <1>1, <1>2, <1>4, InvalidPage
<1>5. CASE /\ validate(page.final, allowed_internal_hosts, answer) = "ok"
           /\ e.valid /\ add_page(page, e) /\ frontier' = Tail(frontier) /\ pc' = "next"
           /\ UNCHANGED <<links, fetches>>
  <2>1. page.final.shape = "ok" /\ page.final.host \in allowed_internal_hosts
    BY <1>5, ResponseFacts, ValidateOk
  <2>2. e.final_url.host \in {result.requested_url.host, result.url.host}
    BY <1>1, <2>1 DEF allowed_internal_hosts
  <2>3. /\ result' \in CrawlResult /\ result'.evidence # {} /\ crawled' = crawled + 1
        /\ contacts' \in Contact \cup {NoContact}
        /\ PagesCounted' /\ Evidenced' /\ PagesOfTheSite'
        /\ Traceable(contacts, result.evidence)' /\ Traceable(result.contact, result.evidence)'
    BY <1>1, <1>2, <1>5, <2>1, <2>2, AddPage
  <2>4. /\ frontier \in Seq(Urls) /\ frontier # <<>> /\ fetches \in Nat /\ crawled \in Nat
    BY <1>2 DEF CrawlInv, CrawlTypeOK, PhaseOK
  <2>5. frontier' \in Seq(Urls) /\ Len(frontier') = Len(frontier) - 1 /\ Len(frontier) \in Nat
    BY <1>5, <2>4, NextLink
  <2>6. CrawlTypeOK'
    BY <1>5, <2>3, <2>4, <2>5 DEF CrawlInv, CrawlTypeOK, Steps
  <2>7. PhaseOK' /\ Budgeted'
    <3>1. crawled < fetches /\ fetches + Len(frontier) <= MaxPages + 1
      BY <1>2 DEF CrawlInv, Budgeted
    <3>2. crawled' <= fetches' /\ fetches' + Len(frontier') <= MaxPages
      BY <1>5, <2>3, <2>4, <2>5, <3>1
    <3> QED BY <1>5, <2>3, <3>2 DEF PhaseOK, Budgeted, AtHome
  <2> QED BY <2>3, <2>6, <2>7 DEF CrawlInv
<1> QED BY <1>0, <1>3, <1>4, <1>5 DEF page_loaded
-----------------------------------------------------------------------------
(* The invariant and what follows from it *)

\* The first state satisfies the invariant.
LEMMA InitInv == Init => IInv
<1> SUFFICES ASSUME Init PROVE IInv
  OBVIOUS
<1>1. PolicyInv
  BY DEF Init, PolicyInv
<1>2. RouteInv
  <2>1. NoRoute.session = 0
    BY DEF NoRoute
  <2>2. /\ \A r \in Requests : route[r] = NoRoute
        /\ route \in [Requests -> RouteState] /\ session = 0 /\ blocked \in BOOLEAN /\ pc = "idle"
    BY NoRouteType DEF Init
  <2>3. \A r \in Requests : route[r].session <= session
    BY <2>1, <2>2
  <2> QED BY <2>2, <2>3 DEF RouteInv
<1>3. CrawlInv
  <2>1. PICK r : r = NewResult(NoUrl)
    OBVIOUS
  <2>2. /\ r \in CrawlResult /\ DOMAIN r.pages = {} /\ r.evidence = {} /\ r.contact = NoContact
    BY <2>1, NewResultFacts DEF UrlOrNone
  <2>3. /\ result = r /\ pc = "idle" /\ links = 0 /\ frontier = <<>> /\ crawled = 0 /\ fetches = 0
        /\ contacts = NoContact
    BY <2>1 DEF Init
  <2>4. CrawlTypeOK
    BY <2>2, <2>3 DEF CrawlTypeOK, Steps
  <2>5. PhaseOK /\ Budgeted /\ Evidenced /\ PagesOfTheSite
    BY <2>2, <2>3 DEF PhaseOK, Budgeted, Evidenced, PagesOfTheSite
  <2>6. PagesCounted
    <3>1. IsFiniteSet({}) /\ Cardinality({}) = 0
      BY FS_EmptySet
    <3>2. DOMAIN result.pages = {}
      BY <2>2, <2>3
    <3>3. Cardinality(DOMAIN result.pages) = 0 /\ IsFiniteSet(DOMAIN result.pages)
      BY <3>1, <3>2
    <3> QED BY <2>3, <3>3, LimitFacts DEF PagesCounted
  <2>7. Traceable(contacts, result.evidence) /\ Traceable(result.contact, result.evidence)
    BY <2>2, <2>3 DEF Traceable
  <2> QED BY <2>4, <2>5, <2>6, <2>7 DEF CrawlInv
<1> QED BY <1>1, <1>2, <1>3 DEF IInv

\* Every step keeps the crawl's part.
LEMMA CrawlStep == ASSUME IInv, [Next]_vars PROVE CrawlInv'
<1>0. CrawlInv
  BY DEF IInv
<1>1. ASSUME UNCHANGED <<pc, links, frontier, crawled, fetches, contacts, result>> PROVE CrawlInv'
  <2>1. CrawlTypeOK' /\ PhaseOK' /\ Budgeted'
    BY <1>0, <1>1 DEF CrawlInv, CrawlTypeOK, PhaseOK, Budgeted, AtHome
  <2>2. PagesCounted' /\ Evidenced' /\ PagesOfTheSite'
    BY <1>0, <1>1 DEF CrawlInv, PagesCounted, Evidenced, PagesOfTheSite
  <2>3. Traceable(contacts, result.evidence)' /\ Traceable(result.contact, result.evidence)'
    BY <1>0, <1>1 DEF CrawlInv, Traceable
  <2> QED BY <2>1, <2>2, <2>3 DEF CrawlInv
<1>2. CASE \E u \in Targets : start_crawl(u)
  BY <1>0, <1>2, StartStep
<1>3. CASE \E answer \in Answers : check_url(answer) \/ goto(answer)
  BY <1>0, <1>3, CheckUrlStep, GotoStep
<1>4. CASE limit_links \/ next_page \/ \E u \in Browsable, answer \in Answers : follow_link(u, answer)
  BY <1>0, <1>4, LinksStep
<1>5. CASE \E page \in Response, answer \in Answers :
             home_loaded(page, answer) \/ page_loaded(page, answer)
  BY <1>0, <1>5, HomeLoadedStep, PageLoadedStep
<1>6. CASE launch_fails \/ load_fails \/ load_raises \/ join_raises
  BY <1>0, <1>6, FailureStep
<1>7. CASE conclude
  BY <1>0, <1>7, ConcludeStep
<1>8. CASE \E r \in Requests : route_step(r)
  BY <1>1, <1>8 DEF route_step, route_continue, route_abort, route_validate, work
<1>9. CASE close \/ \E r \in Requests, u \in Resources, d \in 0..MaxRedirects + 1 : route_begin(r, u, d)
  BY <1>1, <1>9 DEF close, route_begin, work
<1>10. CASE UNCHANGED vars
  BY <1>1, <1>10 DEF vars
<1> QED BY <1>2, <1>3, <1>4, <1>5, <1>6, <1>7, <1>8, <1>9, <1>10 DEF Next, crawl_step

\* Every state of every crawl satisfies the invariant.
THEOREM Invariance == Spec => []IInv
<1>1. IInv /\ [Next]_vars => IInv'
  BY PolicyStep, RouteStep, CrawlStep DEF IInv
<1> QED BY <1>1, InitInv, PTL DEF Spec

\* Every variable keeps its type.
THEOREM TypeCorrect == Spec => []TypeOK
<1>1. IInv => TypeOK
  <2> SUFFICES ASSUME IInv PROVE TypeOK
    OBVIOUS
  <2>1. result \in CrawlResult
    BY DEF IInv, CrawlInv, CrawlTypeOK
  <2>2. /\ DOMAIN result.pages \subseteq Urls
        /\ \A u \in DOMAIN result.pages : result.pages[u] \in Text
    BY <2>1, PagesType
  <2>3. /\ result.status \in Status /\ result.url \in Urls \cup {NoUrl}
        /\ result.requested_url \in Urls \cup {NoUrl}
        /\ result.evidence \subseteq Evidence /\ result.contact \in Contact \cup {NoContact}
    BY <2>1 DEF CrawlResult, UrlOrNone
  <2> QED BY <2>2, <2>3 DEF IInv, PolicyInv, RouteInv, CrawlInv, CrawlTypeOK, TypeOK
<1> QED BY <1>1, Invariance, PTL

\* The validations that succeed during one crawl saw one answer per host.
THEOREM NoRebinding == Spec => []OneAnswerPerHost
<1>1. IInv => OneAnswerPerHost
  BY DEF IInv, PolicyInv, OneAnswerPerHost
<1> QED BY <1>1, Invariance, PTL

\* Every text of an auditable result is the newest valid evidence for its URL.
THEOREM TextsEvidenced == Spec => []AuditableIsEvidenced
<1>1. IInv => AuditableIsEvidenced
  BY DEF IInv, CrawlInv, Evidenced, Newest, AuditableIsEvidenced
<1> QED BY <1>1, Invariance, PTL

\* Only pages of the site are stored.
THEOREM SitePages == Spec => []PagesOfTheSite
<1>1. IInv => PagesOfTheSite
  BY DEF IInv, CrawlInv
<1> QED BY <1>1, Invariance, PTL

\* max_pages bounds the navigations and the pages.
THEOREM NavigationsBounded == Spec => []FetchesBounded
<1>1. IInv => FetchesBounded
  <2> SUFFICES ASSUME IInv PROVE FetchesBounded
    OBVIOUS
  <2>1. /\ fetches \in Nat /\ frontier \in Seq(Urls) /\ Len(frontier) \in Nat
        /\ pc \in Steps
    BY DEF IInv, CrawlInv, CrawlTypeOK
  <2>2. frontier # <<>> => Len(frontier) >= 1
    BY <2>1, NextLink
  <2>3. fetches <= Limit
    <3>1. PhaseOK /\ Budgeted
      BY DEF IInv, CrawlInv
    <3>2. CASE pc \in {"idle", "validate", "links"}
      BY <3>1, <3>2, LimitFacts DEF PhaseOK
    <3>3. CASE pc = "next"
      BY <2>1, <3>1, <3>3, LimitFacts DEF Budgeted
    <3>4. CASE pc \in {"goto", "loading"} /\ AtHome
      BY <3>1, <3>4, LimitFacts DEF PhaseOK
    <3>5. CASE pc \in {"goto", "loading"} /\ ~AtHome
      BY <2>1, <2>2, <3>1, <3>5, LimitFacts DEF PhaseOK, Budgeted
    <3> QED BY <2>1, <3>2, <3>3, <3>4, <3>5 DEF Steps
  <2> QED BY <2>3 DEF IInv, CrawlInv, PagesCounted, Limit, FetchesBounded
<1> QED BY <1>1, Invariance, PTL

\* The contact of a result comes from valid evidence.
THEOREM ContactsTraceable == Spec => []ContactTraceable
<1>1. IInv => ContactTraceable
  BY DEF IInv, CrawlInv, Traceable, ContactTraceable
<1> QED BY <1>1, Invariance, PTL

\* Only conclude makes a result a success, and only if no refused request is recorded.
LEMMA OnlyConcludeSucceeds ==
  ASSUME IInv, [Next]_vars, result'.status = "success", result.status # "success"
  PROVE  pc = "next" /\ ~blocked
<1>0. result \in CrawlResult
  BY DEF IInv, CrawlInv, CrawlTypeOK
<1>1. ASSUME NEW s \in Status \ {"success"}, Finish(s) PROVE FALSE
  <2>1. result'.status = s
    BY <1>0, <1>1 DEF Finish, CrawlResult
  <2> QED BY <2>1
<1>2. ASSUME home_failed PROVE FALSE
  <2>1. PICK s \in {"blocked", "failed"} : Finish(s)
    BY <1>2 DEF home_failed, Finish
  <2> QED BY <1>1, <2>1 DEF Status
<1>3. ASSUME page_failed PROVE FALSE
  <2>1. result'.status = result.status
    BY <1>0, <1>3 DEF page_failed, CrawlResult
  <2> QED BY <2>1
<1>4. ASSUME NEW page, NEW e, add_page(page, e) PROVE FALSE
  <2>1. result'.status = result.status
    BY <1>0, <1>4 DEF add_page, CrawlResult
  <2> QED BY <2>1
<1>5. result' # result
  OBVIOUS
<1>6. CASE conclude
  <2>1. PICK s : s = IF ~ensure_auditable_pages(result.pages) THEN "empty"
                     ELSE IF blocked \/ \E e \in result.evidence : ~e.valid
                     THEN "partial" ELSE "success"
    OBVIOUS
  <2>2. result' = [result EXCEPT !.contact = contacts, !.status = s] /\ pc = "next"
    BY <1>6, <2>1 DEF conclude
  <2>3. s = "success"
    BY <1>0, <2>2 DEF CrawlResult
  <2> QED BY <2>1, <2>2, <2>3
<1>7. CASE \E u \in Targets : start_crawl(u)
  <2>1. result'.status = "pending"
    BY <1>7 DEF start_crawl, NewResult
  <2> QED BY <2>1
<1>8. ASSUME NEW answer \in Answers, check_url(answer) PROVE FALSE
  <2>1. CASE Finish("blocked") \/ Finish("failed")
    BY <1>1, <2>1 DEF Status
  <2>2. CASE result' = [result EXCEPT !.url = normalized(result.requested_url)]
    <3>1. result'.status = result.status
      BY <1>0, <2>2 DEF CrawlResult
    <3> QED BY <3>1
  <2> QED BY <1>8, <2>1, <2>2 DEF check_url
<1>9. ASSUME NEW answer \in Answers, goto(answer) PROVE FALSE
  BY <1>1, <1>2, <1>3, <1>5, <1>9 DEF goto, Status
<1>10. CASE limit_links \/ next_page \/ \E u \in Browsable, answer \in Answers : follow_link(u, answer)
  BY <1>5, <1>10 DEF limit_links, next_page, follow_link
<1>11. ASSUME NEW page \in Response, NEW answer \in Answers, home_loaded(page, answer) PROVE FALSE
  <2>1. PICK e : e = from_content(page)
    OBVIOUS
  <2>2. PICK s \in {"empty", "invalid_response"} :
               s = IF page.answer = "ok" THEN "empty" ELSE "invalid_response"
    OBVIOUS
  <2>3. CASE result' = [result EXCEPT !.url = e.final_url, !.evidence = {e}, !.status = s]
    <3>1. result'.status = s
      BY <1>0, <2>3 DEF CrawlResult
    <3> QED BY <2>2, <3>1
  <2> QED BY <1>1, <1>4, <1>11, <2>1, <2>2, <2>3 DEF home_loaded, Status
<1>12. ASSUME NEW page \in Response, NEW answer \in Answers, page_loaded(page, answer) PROVE FALSE
  <2>1. PICK e : e = from_content(page)
    OBVIOUS
  <2>2. CASE result' = [result EXCEPT !.evidence = @ \cup {e}]
    <3>1. result'.status = result.status
      BY <1>0, <2>2 DEF CrawlResult
    <3> QED BY <3>1
  <2> QED BY <1>3, <1>4, <1>12, <2>1, <2>2 DEF page_loaded
<1>13. CASE launch_fails \/ load_fails \/ load_raises \/ join_raises
  BY <1>1, <1>2, <1>3, <1>13 DEF launch_fails, load_fails, load_raises, join_raises, Status
<1>14. CASE \E r \in Requests : route_step(r)
  BY <1>5, <1>14 DEF route_step, route_continue, route_abort, route_validate
<1>15. CASE close \/ \E r \in Requests, u \in Resources, d \in 0..MaxRedirects + 1 : route_begin(r, u, d)
  BY <1>5, <1>15 DEF close, route_begin
<1>16. CASE UNCHANGED vars
  BY <1>5, <1>16 DEF vars
<1> QED BY <1>6, <1>7, <1>8, <1>9, <1>10, <1>11, <1>12, <1>13, <1>14, <1>15, <1>16
       DEF Next, crawl_step

\* A crawl is a success only if none of its requests had been refused by then.
THEOREM CleanSuccess == Spec => SuccessIsClean
<1>1. IInv /\ [Next]_vars =>
        [result'.status = "success" /\ result.status # "success" =>
           \A r \in Requests : ~(route[r].session = session /\ route[r].state = "aborted")]_vars
  <2> SUFFICES ASSUME IInv, [Next]_vars, result'.status = "success", result.status # "success",
                      NEW r \in Requests, route[r].session = session, route[r].state = "aborted"
               PROVE  FALSE
    OBVIOUS
  <2>1. pc = "next" /\ ~blocked
    BY OnlyConcludeSucceeds
  <2> QED BY <2>1 DEF IInv, RouteInv
<1> QED BY <1>1, Invariance, PTL DEF Spec, SuccessIsClean
=============================================================================
