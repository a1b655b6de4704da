------------------------------- MODULE Crawl --------------------------------
(***************************************************************************)
(* HybridCrawler.crawl (crawler.py) under SafeUrlPolicy (url_policy.py):   *)
(* one crawler object crawls site after site in one event loop.  While the *)
(* browser loads a page it calls _secure_route for every request the page  *)
(* makes; such a handler may still wait for its DNS answer when the crawl  *)
(* it belongs to has returned and the next one has cleared the pins and    *)
(* the list of refused requests.                                           *)
(*                                                                         *)
(* The resolver may give any answer at any time, so resolving a name and   *)
(* comparing it with the pin is one step.  The text of a page is the       *)
(* number of the fetch that returned it, its length and the addresses      *)
(* found in it.                                                            *)
(***************************************************************************)
EXTENDS Integers, Sequences, FiniteSets, FiniteSetsExt

CONSTANTS
  Urls,           \* records [scheme, host, port, path, fragment, shape]
  Targets,        \* the web sites of the leads
  Resources,      \* URLs that pages make the browser request
  PriorityPaths,  \* the paths that match PRIORITY_PATH_PATTERNS
  Addresses,      \* sets of public addresses a name may resolve to
  NoPin,
  Lengths,        \* lengths of a page's cleaned text
  MaxPages,       \* max_pages
  MaxRedirects,   \* max_redirects of the policy
  Requests,       \* requests the browser makes on behalf of pages
  MaxLinks,       \* bound: internal links of a home page
  MaxCrawls       \* bound: crawls of this crawler

MIN_AUDIT_PAGE_CHARS == 120
MIN_AUDIT_TOTAL_CHARS == 200

Hosts == {u.host : u \in Urls}
normalized(u) == [u EXCEPT !.fragment = ""]

\* URLs the browser can be at.
Browsable == {u \in Urls : u.shape # "raises"}

ASSUME UrlsAssumption ==
  /\ Targets \subseteq Urls /\ Resources \subseteq Browsable
  /\ Urls \subseteq [scheme : {"http", "https"}, host : STRING, port : Nat,
                     path : STRING, fragment : STRING, shape : {"ok", "refused", "raises"}]
  /\ \A u \in Urls : normalized(u) \in Urls
  /\ NoPin \notin Addresses /\ "dns_failure" \notin Addresses

ASSUME BoundsAssumption ==
  /\ Lengths \subseteq Nat /\ \E n \in Lengths : \A m \in Lengths : n >= m
  /\ MaxPages \in Nat /\ MaxRedirects \in Nat
  /\ MaxLinks \in Nat /\ MaxCrawls \in Nat

VARIABLES
  pins,      \* the policy's _dns_pins
  blocked,   \* the crawler's _blocked_requests is not empty
  route,     \* [Requests -> RouteState]: the handlers of the browser's requests
  session,   \* crawls begun so far
  pc,        \* the next await of crawl
  links,     \* how many of the home page's links have been looked at
  frontier,  \* priority_links
  crawled,   \* pages_crawled
  fetches,   \* calls of arun in this crawl
  contacts,  \* all_contacts
  result,    \* the CrawlResult
  admitted   \* history: the answers validate has accepted since the crawl began

policy == <<pins, blocked, admitted>>
work == <<links, frontier, crawled, fetches, contacts>>
vars == <<pins, blocked, route, session, pc, links, frontier, crawled,
          fetches, contacts, result, admitted>>

-----------------------------------------------------------------------------
(* Data *)

Code == {"bad_url", "host_forbidden", "dns_failure", "dns_rebinding", "too_many_redirects"}
Answers == Addresses \cup {"dns_failure"}

\* The method by which the page's e-mail address was found.
Found == {"none", "regex", "mailto"}
confidence(method) == CASE method = "mailto" -> 100 [] method = "regex" -> 85 [] OTHER -> 0

\* answer: what the server sent besides the text.  Of a page that is no success only
\* that matters, however good its text is.
Response ==
  [final : Browsable, answer : {"ok"}, length : Lengths, found : Found]
    \cup [final : Browsable, answer : {"http_status_not_success"},
          length : {Max(Lengths)}, found : {"mailto"}]

Text == [fetch : Nat, length : Nat]
Evidence == [fetch : Nat, final_url : Urls, length : Nat, valid : BOOLEAN]
Contact == [method : Found, source_url : Urls, fetch : Nat]

Status == {"pending", "success", "partial", "blocked", "failed", "empty", "invalid_response"}

NoUrl == [scheme |-> "http", host |-> "", port |-> 0, path |-> "", fragment |-> "",
          shape |-> "refused"]
NoContact == [method |-> "none", source_url |-> NoUrl, fetch |-> 0]
NoPages == [u \in {} |-> 0]

NewResult(u) == [requested_url |-> u, url |-> u, status |-> "pending", pages |-> NoPages,
                 evidence |-> {}, contact |-> NoContact]

NoRoute == [state |-> "none", url |-> NoUrl, depth |-> 0, session |-> 0]
RouteState == [state : {"none", "resolving", "allowed", "refused", "continued", "aborted"},
               url : Urls \cup {NoUrl}, depth : 0..MaxRedirects + 1, session : 0..MaxCrawls]

Steps == {"idle", "validate", "goto", "loading", "links", "next"}

TypeOK ==
  /\ pins \in [Hosts -> Addresses \cup {NoPin}] /\ blocked \in BOOLEAN
  /\ route \in [Requests -> RouteState] /\ session \in 0..MaxCrawls /\ pc \in Steps
  /\ links \in 0..MaxLinks /\ frontier \in Seq(Urls) /\ crawled \in Nat /\ fetches \in Nat
  /\ contacts \in Contact \cup {NoContact}
  /\ result.status \in Status /\ result.url \in Urls \cup {NoUrl}
  /\ result.requested_url \in Urls \cup {NoUrl}
  /\ DOMAIN result.pages \subseteq Urls /\ \A u \in DOMAIN result.pages : result.pages[u] \in Text
  /\ result.evidence \subseteq Evidence /\ result.contact \in Contact \cup {NoContact}
  /\ admitted \subseteq [host : Hosts, address : Addresses]

Init ==
  /\ pins = [h \in Hosts |-> NoPin] /\ blocked = FALSE
  /\ route = [r \in Requests |-> NoRoute] /\ session = 0 /\ pc = "idle"
  /\ links = 0 /\ frontier = <<>>
  /\ crawled = 0 /\ fetches = 0 /\ contacts = NoContact
  /\ result = NewResult(NoUrl) /\ admitted = {}

-----------------------------------------------------------------------------
(* SafeUrlPolicy.validate *)

\* Mutant of validate: a changed answer is accepted.
validate_repin(u, allowed_hosts, answer) ==
  CASE u.shape # "ok"                -> "bad_url"
    [] u.shape = "ok" /\ u.host \notin allowed_hosts -> "host_forbidden"
    [] OTHER -> IF answer = "dns_failure" THEN "dns_failure" ELSE "ok"

\* The code of the error validate raises for this answer of the resolver, or "ok".
\* "dns_failure" stands for the four ways in which the answer is no public address.
validate(u, allowed_hosts, answer) ==
  CASE u.shape # "ok"                          -> "bad_url"
    [] u.shape = "ok" /\ u.host \notin allowed_hosts -> "host_forbidden"
    [] u.shape = "ok" /\ u.host \in allowed_hosts /\ answer = "dns_failure" -> "dns_failure"
    [] OTHER -> IF pins[u.host] \in {NoPin, answer} THEN "ok" ELSE "dns_rebinding"

\* Mutant of pin: the answer is remembered before it is checked.
pin_unchecked(u, code, answer) ==
  /\ pins' = [pins EXCEPT ![u.host] = answer]
  /\ admitted' = admitted

\* The pin is set when nothing is raised.
pin(u, code, answer) ==
  IF code = "ok"
  THEN /\ pins' = [pins EXCEPT ![u.host] = answer]
       /\ admitted' = admitted \cup {[host |-> u.host, address |-> answer]}
  ELSE UNCHANGED <<pins, admitted>>

\* Mutant of allowed_internal_hosts: internal pages may end anywhere.
allowed_internal_hosts_any == Hosts

\* The hosts internal links may have: those of the URL asked for and of the home page.
allowed_internal_hosts == {result.requested_url.host, result.url.host}

-----------------------------------------------------------------------------
(* _secure_route: the browser's requests while a page loads *)

route_begin(r, u, depth) ==
  /\ pc = "loading" /\ route[r].state = "none"
  /\ route' = [route EXCEPT ![r] = [state |-> "resolving", url |-> u, depth |-> depth,
                                    session |-> session]]
  /\ UNCHANGED <<policy, session, pc, work, result>>

\* The redirects are counted after the policy has accepted the URL.
route_validate(r, answer) ==
  LET code == validate(route[r].url, Hosts, answer)
      refused == code # "ok" \/ route[r].depth > MaxRedirects
  IN  /\ route[r].state = "resolving"
      /\ pin(route[r].url, code, answer)
      /\ route' = [route EXCEPT ![r] = [NoRoute EXCEPT
                     !.state = IF refused THEN "refused" ELSE "allowed",
                     !.session = route[r].session]]
      /\ UNCHANGED <<blocked, session, pc, work, result>>

\* Back in the event loop the request continues, or is recorded and aborted.
route_continue(r) ==
  /\ route[r].state = "allowed"
  /\ route' = [route EXCEPT ![r].state = "continued"]
  /\ UNCHANGED <<policy, session, pc, work, result>>

\* Mutant of route_abort: the refusal is not recorded.
route_abort_unrecorded(r) ==
  /\ route[r].state = "refused"
  /\ route' = [route EXCEPT ![r].state = "aborted"]
  /\ UNCHANGED <<policy, session, pc, work, result>>

route_abort(r) ==
  /\ route[r].state = "refused"
  /\ route' = [route EXCEPT ![r].state = "aborted"]
  /\ blocked' = TRUE
  /\ UNCHANGED <<pins, admitted, session, pc, work, result>>

-----------------------------------------------------------------------------
(* crawl *)

\* The locals of the call are gone.
Locals ==
  /\ links' = 0 /\ frontier' = <<>>
  /\ crawled' = 0 /\ fetches' = 0 /\ contacts' = NoContact

Finish(status) ==
  /\ pc' = "idle"
  /\ result' = [result EXCEPT !.status = status]
  /\ Locals

start_crawl(u) ==
  /\ pc = "idle" /\ session < MaxCrawls
  /\ session' = session + 1
  /\ pins' = [h \in Hosts |-> NoPin] /\ blocked' = FALSE /\ admitted' = {}
  /\ result' = NewResult(u)
  /\ pc' = "validate"
  /\ UNCHANGED <<route, work>>

\* The URL asked for.  urlsplit may raise a ValueError that is no UrlPolicyError.
check_url(answer) ==
  LET u == result.requested_url
      code == validate(u, Hosts, answer)
  IN  /\ pc = "validate"
      /\ pin(u, code, answer)
      /\ \/ code = "ok" /\ pc' = "goto" /\ result' = [result EXCEPT !.url = normalized(u)]
            /\ UNCHANGED work
         \/ code # "ok" /\ u.shape # "raises" /\ Finish("blocked")
         \/ u.shape = "raises" /\ Finish("failed")
      /\ UNCHANGED <<blocked, route, session>>

\* No evidence yet: the page being fetched is the home page.
AtHome == result.evidence = {}
p_url == IF AtHome THEN result.url ELSE Head(frontier)

\* Crawl4AI cannot be imported or the browser does not start.
launch_fails ==
  /\ pc = "goto" /\ AtHome
  /\ Finish("failed")
  /\ UNCHANGED <<policy, route, session>>

\* An internal page without a usable answer leaves evidence of the failure.
page_failed ==
  /\ ~AtHome
  /\ result' = [result EXCEPT !.evidence = @ \cup
       {[fetch |-> fetches', final_url |-> p_url, length |-> 0, valid |-> FALSE]}]
  /\ frontier' = Tail(frontier) /\ pc' = "next"
  /\ UNCHANGED <<links, crawled, contacts>>

\* arun returned success = False: a refused request of the home page decides the status.
home_failed ==
  /\ AtHome
  /\ pc' = "idle" /\ Locals
  /\ result' = [result EXCEPT !.status = IF blocked THEN "blocked" ELSE "failed"]

\* before_goto: _validate_navigation.  Crawl4AI turns its exception into a failed
\* result or lets it through.
goto(answer) ==
  LET code == validate(p_url, Hosts, answer)
  IN  /\ pc = "goto"
      /\ pin(p_url, code, answer)
      /\ \/ /\ code = "ok" /\ pc' = "loading" /\ fetches' = fetches + 1
            /\ UNCHANGED <<links, frontier, crawled, contacts, result>>
         \/ code # "ok" /\ fetches' = fetches + 1 /\ page_failed
         \/ code # "ok" /\ home_failed
         \/ code # "ok" /\ AtHome /\ Finish("blocked")
      /\ UNCHANGED <<blocked, route, session>>

\* Mutant of load_fails: an internal page is tried again until it loads.
load_fails_retries ==
  /\ pc = "loading"
  /\ \/ home_failed
     \/ /\ ~AtHome /\ pc' = "goto" /\ fetches' = fetches - 1
        /\ UNCHANGED <<links, frontier, crawled, contacts, result>>
  /\ UNCHANGED <<policy, route, session>>

\* The time is over, or arun raised.
load_fails ==
  /\ pc = "loading"
  /\ \/ home_failed
     \/ UNCHANGED fetches /\ page_failed
  /\ UNCHANGED <<policy, route, session>>

load_raises ==
  /\ pc = "loading" /\ AtHome
  /\ Finish("failed")
  /\ UNCHANGED <<policy, route, session>>

\* PageEvidence.from_content for a page the browser returned.
from_content(page) ==
  [fetch |-> fetches, final_url |-> normalized(page.final), length |-> page.length,
   valid |-> page.answer = "ok" /\ page.length >= MIN_AUDIT_PAGE_CHARS]

\* Mutant of merged: the source is the URL as the browser shows it.
merged_raw_url(page, evidence) ==
  IF confidence(page.found) > confidence(contacts.method)
  THEN [method |-> page.found, source_url |-> page.final, fetch |-> evidence.fetch]
  ELSE contacts

\* _merge_contacts: a contact is replaced by one of higher confidence.
merged(page, evidence) ==
  IF confidence(page.found) > confidence(contacts.method)
  THEN [method |-> page.found, source_url |-> evidence.final_url, fetch |-> evidence.fetch]
  ELSE contacts

\* Mutant of add_page: the text already stored for the URL is kept.
add_page_first(page, evidence) ==
  /\ result' = [result EXCEPT
       !.evidence = @ \cup {evidence},
       !.url = IF AtHome THEN evidence.final_url ELSE @,
       !.pages = [u \in DOMAIN @ \cup {evidence.final_url} |->
                    IF u \in DOMAIN @ THEN @[u]
                    ELSE [fetch |-> evidence.fetch, length |-> evidence.length]]]
  /\ contacts' = merged(page, evidence)
  /\ crawled' = crawled + 1

\* The page's evidence is recorded and, if it is valid, its text and contacts.
add_page(page, evidence) ==
  /\ result' = [result EXCEPT
       !.evidence = @ \cup {evidence},
       !.url = IF AtHome THEN evidence.final_url ELSE @,
       !.pages = [u \in DOMAIN @ \cup {evidence.final_url} |->
                    IF u = evidence.final_url
                    THEN [fetch |-> evidence.fetch, length |-> evidence.length] ELSE @[u]]]
  /\ contacts' = merged(page, evidence)
  /\ crawled' = crawled + 1

\* arun returned the home page, and its final URL is validated.
home_loaded(page, answer) ==
  LET code == validate(page.final, Hosts, answer)
      evidence == from_content(page)
  IN  /\ pc = "loading" /\ AtHome
      /\ pin(page.final, code, answer)
      /\ \/ code # "ok" /\ Finish("blocked")
         \/ /\ code = "ok" /\ ~evidence.valid
            /\ pc' = "idle" /\ Locals
            /\ result' = [result EXCEPT !.url = evidence.final_url, !.evidence = {evidence},
                 !.status = IF page.answer = "ok" THEN "empty" ELSE "invalid_response"]
         \/ /\ code = "ok" /\ evidence.valid
            /\ add_page(page, evidence)
            /\ pc' = "links"
            /\ UNCHANGED <<links, frontier, fetches>>
      /\ UNCHANGED <<blocked, route, session>>

\* urljoin raises on one of the links before the first is looked at: the crawl fails
\* with a page already stored.
join_raises ==
  /\ pc = "links" /\ links = 0
  /\ \E u \in Urls : u.shape = "raises"
  /\ Finish("failed")
  /\ UNCHANGED <<policy, route, session>>

default_port(u) == IF u.scheme = "https" THEN 443 ELSE 80

\* The netloc of a normalized URL names the port only when it is not the scheme's own:
\* the http and the https pages of a host are one site.
netloc(u) == IF u.port = default_port(u) THEN <<u.host>> ELSE <<u.host, u.port>>

seen_links == {result.url} \cup {frontier[i] : i \in DOMAIN frontier}

\* The next link of the home page joins the frontier when it is new, on the site and
\* on a priority path.
follow_link(u, answer) ==
  LET code == validate(u, allowed_internal_hosts, answer)
      clean_link == normalized(u)
  IN  /\ pc = "links" /\ links < MaxLinks
      /\ pin(u, code, answer)
      /\ links' = links + 1
      /\ frontier' = IF /\ code = "ok" /\ netloc(u) = netloc(result.url)
                        /\ clean_link \notin seen_links /\ u.path \in PriorityPaths
                     THEN Append(frontier, clean_link)
                     ELSE frontier
      /\ UNCHANGED <<blocked, route, session, pc, crawled, fetches, contacts, result>>

\* Mutant of FirstPages: max_pages links besides the home page.
FirstPages_one_more(s) == SubSeq(s, 1, IF MaxPages < Len(s) THEN MaxPages ELSE Len(s))

\* Python's priority_links[:max_pages - 1].
FirstPages(s) ==
  LET n == IF MaxPages = 0 THEN Len(s) - 1 ELSE MaxPages - 1
  IN  SubSeq(s, 1, IF n < Len(s) THEN n ELSE Len(s))

limit_links ==
  /\ pc = "links"
  /\ frontier' = FirstPages(frontier)
  /\ pc' = "next"
  /\ UNCHANGED <<policy, route, session, links, crawled, fetches, contacts, result>>

next_page ==
  /\ pc = "next" /\ frontier # <<>> /\ crawled < MaxPages
  /\ pc' = "goto"
  /\ UNCHANGED <<policy, route, session, work, result>>

\* arun returned an internal page, which must have stayed on the site.
page_loaded(page, answer) ==
  LET code == validate(page.final, allowed_internal_hosts, answer)
      evidence == from_content(page)
  IN  /\ pc = "loading" /\ ~AtHome
      /\ pin(page.final, code, answer)
      /\ \/ code # "ok" /\ UNCHANGED fetches /\ page_failed
         \/ /\ code = "ok"
            /\ IF evidence.valid
               THEN add_page(page, evidence)
               ELSE /\ result' = [result EXCEPT !.evidence = @ \cup {evidence}]
                    /\ UNCHANGED <<contacts, crawled>>
            /\ frontier' = Tail(frontier) /\ pc' = "next"
            /\ UNCHANGED <<links, fetches>>
      /\ UNCHANGED <<blocked, route, session>>

\* ensure_auditable_pages: a page of sufficient length and enough text in all.
ensure_auditable_pages(pages) ==
  LET valid == {u \in DOMAIN pages : pages[u].length >= MIN_AUDIT_PAGE_CHARS}
  IN  /\ valid # {}
      /\ MapThenSumSet(LAMBDA u : pages[u].length, valid) >= MIN_AUDIT_TOTAL_CHARS

is_auditable(r) ==
  /\ r.status \in {"success", "partial"}
  /\ ensure_auditable_pages(r.pages)
  /\ \E e \in r.evidence : e.valid

conclude ==
  /\ pc = "next" /\ (frontier = <<>> \/ crawled >= MaxPages)
  /\ pc' = "idle" /\ Locals
  /\ result' = [result EXCEPT
       !.contact = contacts,
       !.status = IF ~ensure_auditable_pages(result.pages) THEN "empty"
                  ELSE IF blocked \/ \E e \in result.evidence : ~e.valid
                  THEN "partial" ELSE "success"]
  /\ UNCHANGED <<policy, route, session>>

\* close: the browser goes, and with it the requests it was still waiting for.
close ==
  LET waiting == {r \in Requests : route[r].state \in {"resolving", "allowed", "refused"}}
  IN  /\ pc = "idle" /\ waiting # {}
      /\ route' = [r \in Requests |->
                     IF r \in waiting THEN [NoRoute EXCEPT !.state = "aborted",
                                                           !.session = route[r].session]
                                      ELSE route[r]]
      /\ UNCHANGED <<policy, session, pc, work, result>>

crawl_step ==
  \/ \E a \in Answers : check_url(a) \/ goto(a)
  \/ \E u \in Browsable, a \in Answers : follow_link(u, a)
  \/ \E page \in Response, a \in Answers : home_loaded(page, a) \/ page_loaded(page, a)
  \/ launch_fails \/ load_fails \/ load_raises \/ join_raises
  \/ limit_links \/ next_page \/ conclude

route_step(r) == route_continue(r) \/ route_abort(r) \/ \E a \in Answers : route_validate(r, a)

Next ==
  \/ \E u \in Targets : start_crawl(u)
  \/ crawl_step
  \/ \E r \in Requests : route_step(r)
  \/ \E r \in Requests, u \in Resources, d \in 0..MaxRedirects + 1 : route_begin(r, u, d)
  \/ close

\* A resolution and a page load end, both have a timeout, and the event loop runs
\* the task of the crawl.
Spec == Init /\ [][Next]_vars /\ WF_vars(crawl_step)

-----------------------------------------------------------------------------
(* Properties *)

\* "Only auditable, evidence-backed leads" (README): every text of an auditable
\* result is the one a valid piece of evidence of this crawl was computed from, also
\* when two pages ended at the same URL, and one is long enough to be audited.
AuditableIsEvidenced ==
  is_auditable(result) =>
    \A u \in DOMAIN result.pages : \E e \in result.evidence :
      /\ e.valid /\ e.final_url = u
      /\ result.pages[u] = [fetch |-> e.fetch, length |-> e.length]
      /\ \A f \in result.evidence : f.valid /\ f.final_url = u => f.fetch <= e.fetch

\* Only the site's own pages are audited: a page reached by a link comes from the
\* host asked for or from the one the home page redirected to, wherever its own
\* redirects led.
PagesOfTheSite ==
  \A u \in DOMAIN result.pages :
    u.shape = "ok" /\ u.host \in {result.requested_url.host, result.url.host}

\* max_pages bounds the navigations, failed and invalid ones included, and the pages.
FetchesBounded ==
  /\ fetches <= Max({1, MaxPages})
  /\ Cardinality(DOMAIN result.pages) <= Max({1, MaxPages})

\* The docstring's rebinding rule: whichever validations race, those that succeed
\* during one crawl saw one answer per host.
OneAnswerPerHost ==
  \A a, b \in admitted : a.host = b.host => a.address = b.address

\* A crawl is a success only if no request its pages made had been refused by then,
\* although the next crawl empties the list of refused requests.
SuccessIsClean ==
  [][result'.status = "success" /\ result.status # "success" =>
       \A r \in Requests : ~(route[r].session = session /\ route[r].state = "aborted")]_vars

\* The contact of a result is traceable to valid evidence of this crawl, whichever
\* page won the merge.
ContactTraceable ==
  result.contact # NoContact =>
    \E e \in result.evidence : /\ e.valid /\ e.fetch = result.contact.fetch
                               /\ e.final_url = result.contact.source_url

\* Every crawl returns, whatever the pages link to and the resolver answers.
CrawlReturns == (pc # "idle") ~> (pc = "idle")
=============================================================================
