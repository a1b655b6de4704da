------------------------------ MODULE MCCrawl -------------------------------
(***************************************************************************)
(* Instances of Crawl for TLC.                                             *)
(***************************************************************************)
EXTENDS Crawl, TLC

CONSTANTS a1, a2, r1, r2

Url(scheme, host, port, path, fragment, shape) ==
  [scheme |-> scheme, host |-> host, port |-> port, path |-> path, fragment |-> fragment,
   shape |-> shape]

home    == Url("https", "site", 443, "/", "", "ok")
about   == Url("https", "site", 443, "/about", "", "ok")
aboutUs == Url("https", "site", 443, "/about", "us", "ok")
contact == Url("http", "site", 80, "/contact", "", "ok")
other   == Url("https", "cdn", 443, "/about", "", "ok")
local   == Url("http", "localhost", 80, "/", "", "refused")
broken  == Url("https", "site", 443, "/about", "", "raises")

Site == {home, about, aboutUs, contact, other, broken, local}
Leads == {home, broken, local}
Embedded == {home, other}
=============================================================================
