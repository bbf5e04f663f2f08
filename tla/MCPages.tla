------------------------------- MODULE MCPages -------------------------------
(* The pages, for TLC: a diagnostic's hook, alone and behind its form; a       *)
(* refreshing query with the views of it, on the bandwidth page; the prefix    *)
(* lookup; the notices, the theme and what may cover a page; and the answers   *)
(* behind the status and the bandwidth page.  They share nothing but the page, *)
(* so a behaviour exercises one of them.                                       *)
EXTENDS DiagnosticPage, PageViews, BgpLookup, Notices, ThemeSwitch, Shell,
        StatusService, TrafficService

VARIABLE page

MCResponses == {
  [status |-> 429, code |-> "rate_limited", retry |-> 2],
  [status |-> 503, code |-> "busy", retry |-> 1],
  [status |-> 502, code |-> "diagnostic_failed", retry |-> 0],
  [status |-> 502, code |-> "", retry |-> 0],
  [status |-> 429, code |-> "", retry |-> 1],
  [status |-> 422, code |-> "", retry |-> 0],
  [status |-> 400, code |-> "validation_failed", retry |-> 0],
  [status |-> 413, code |-> "", retry |-> 0],
  [status |-> 404, code |-> "validation_failed", retry |-> 0],
  [status |-> 404, code |-> "", retry |-> 0],
  [status |-> 405, code |-> "validation_failed", retry |-> 0],
  [status |-> 415, code |-> "cancelled", retry |-> 0],
  [status |-> 500, code |-> "internal_error", retry |-> 0]}

\* Nothing, an IPv4 address, a name and a private address, as buildRequest judges them.
MCTyped == {"", "8.8.8.8", "example.com", "10.0.0.1"}
MCExamples == {"8.8.8.8", "example.com"}
MCComplaint(k, t, o) ==
  CASE t = "" -> "nothing entered"
    [] t = "10.0.0.1" -> "not public"
    [] t = "8.8.8.8" /\ o = "ipv6" /\ k # "dns" -> "not an IPv6 address"
    [] OTHER -> ""

NoForm ==
  /\ form = "none" /\ text = "" /\ option = "auto" /\ problem = "" /\ kind = "ping"
  /\ lastRequest = <<>>

\* The parts that are not exercised are in one of their initial states.
MCInit ==
  /\ page \in {"diagnostic", "form", "range", "lookup", "notices", "theme", "shell",
               "status", "traffic"}
  /\ IF page = "form" THEN PageInit ELSE HookInit /\ NoForm
  /\ ViewInit /\ LookupInit /\ NoticesInit /\ ThemeInit /\ ShellInit
  /\ StatusInit /\ TrafficInit
  /\ page # "range" => initial = "ok" /\ initialRange = CHOOSE r \in Ranges : TRUE
  /\ page # "theme" => browser = [storage |-> "works", cookies |-> TRUE] /\ ~systemDark
  /\ page # "shell" => pathname = (CHOOSE p \in Routes : TRUE) /\ wide

diagVars == <<hookVars, formVars>>
restVars == <<statusVars, trafficVars>>

MCNext ==
  \/ /\ page = "diagnostic"
     /\ HookNext
     /\ UNCHANGED <<page, formVars, viewVars, lookupVars, noticeVars, themeVars, shellVars, restVars>>
  \/ /\ page = "form"
     /\ PageNext
     /\ UNCHANGED <<page, viewVars, lookupVars, noticeVars, themeVars, shellVars, restVars>>
  \/ /\ page = "range"
     /\ ViewNext
     /\ UNCHANGED <<page, diagVars, lookupVars, noticeVars, themeVars, shellVars, restVars>>
  \/ /\ page = "lookup"
     /\ LookupNext
     /\ UNCHANGED <<page, diagVars, viewVars, noticeVars, themeVars, shellVars, restVars>>
  \/ /\ page = "notices"
     /\ NoticesNext
     /\ UNCHANGED <<page, diagVars, viewVars, lookupVars, themeVars, shellVars, restVars>>
  \/ /\ page = "theme"
     /\ ThemeNext
     /\ UNCHANGED <<page, diagVars, viewVars, lookupVars, noticeVars, shellVars, restVars>>
  \/ /\ page = "shell"
     /\ ShellNext
     /\ UNCHANGED <<page, diagVars, viewVars, lookupVars, noticeVars, themeVars, restVars>>
  \/ /\ page = "status"
     /\ StatusNext
     /\ UNCHANGED <<page, diagVars, viewVars, lookupVars, noticeVars, themeVars, shellVars, trafficVars>>
  \/ /\ page = "traffic"
     /\ TrafficNext
     /\ UNCHANGED <<page, diagVars, viewVars, lookupVars, noticeVars, themeVars, shellVars, statusVars>>

MCSpec ==
  /\ MCInit
  /\ [][MCNext]_<<diagVars, viewVars, lookupVars, noticeVars, themeVars, shellVars, restVars, page>>
  /\ page \in {"diagnostic", "form"} => HookFairness
==============================================================================
