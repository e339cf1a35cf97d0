----------------------------- MODULE MCScraper -----------------------------
(***************************************************************************)
(* Instances of Scraper for TLC: for the request engine, every pagination  *)
(* mode; for the browser, one portal behind a login and a screen that is   *)
(* open to anybody.                                                        *)
(***************************************************************************)
EXTENDS Scraper

Plain(m) == [mode |-> m, clamps |-> FALSE, full |-> FALSE, login |-> FALSE]

\* Every mode without a login, and the modes that survive one.
MCHttpRows ==
  {Plain(m) : m \in {"single", "page", "cursor", "token"}}
    \cup {[Plain("page") EXCEPT !.clamps = TRUE], [Plain("cursor") EXCEPT !.full = TRUE]}
    \cup {[Plain(m) EXCEPT !.login = TRUE] : m \in {"single", "page"}}
    \cup {[Plain("page") EXCEPT !.clamps = TRUE, !.login = TRUE]}

Portal(mode, steps) ==
  [type |-> "dom", mode |-> mode, steps |-> steps, key |-> "portal.kr", open |-> FALSE,
   login |-> TRUE, marker |-> TRUE, all |-> FALSE, awaits |-> FALSE, max |-> Pages + 1]

MCLoginRow ==
  [Portal("none", <<"form", "submit", "find">>) EXCEPT !.type = "session", !.login = FALSE]

\* The cycle meets a pager of each kind, an xhr screen, a download and a screen
\* in a named frame; behind the login with and without a marker, and open.
\* Meanwhile the API server runs the login row.
MCBrowserRows ==
  [p \in {"cycle", "api"} |->
     IF p = "api" THEN {MCLoginRow}
     ELSE { Portal("page", <<"script", "idle">>),
            [Portal("page", <<"find", "script", "idle">>) EXCEPT !.open = TRUE, !.login = FALSE],
            [Portal("click", <<"find">>) EXCEPT !.marker = FALSE],
            [Portal("click", <<"find">>) EXCEPT !.awaits = TRUE],
            [Portal("scroll", <<>>) EXCEPT !.open = TRUE, !.login = FALSE, !.max = Pages - 1],
            [Portal("none", <<"find", "request", "idle">>) EXCEPT !.type = "xhr"],
            [Portal("none", <<"script", "idle">>) EXCEPT !.type = "xhr", !.all = TRUE],
            [Portal("none", <<"frame", "download">>) EXCEPT !.type = "binary"],
            MCLoginRow }]
=============================================================================
