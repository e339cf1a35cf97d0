------------------------------ MODULE Scraper ------------------------------
(***************************************************************************)
(* A job handed to the engine its api row asks for (make_scraper).  "Both  *)
(* hand back the same ... so everything downstream is unaware there are    *)
(* two": what collect promises is stated here once for both, the request   *)
(* engine of Collect and the browser engine of Browser.                    *)
(***************************************************************************)
EXTENDS Integers, FiniteSets

CONSTANTS
  HttpRows, Oldest, PageSize, MaxGrow, MaxPages, MaxTries,
  BrowserRows, LoginRow, Runners, Keys, Pages, MaxSessions

VARIABLES
  engine,  \* request_type of the row: "http" or "BROWSER"
  \* ---- the request engine ----
  head, session, row, pc, attempt, tries, asked, at, got, previous, logins, cutOff,
  \* ---- the browser engine ----
  alive, issued, saved, run

http    == <<head, session, row, pc, attempt, tries, asked, at, got, previous, logins, cutOff>>
browser == <<alive, issued, saved, run>>
vars    == <<engine, http, browser>>

Http == INSTANCE Collect WITH Rows <- HttpRows
Brw  == INSTANCE Browser WITH Rows <- BrowserRows

ASSUME ScraperAssumption == Http!CollectAssumption /\ Brw!BrowserAssumption

\* make_scraper: one engine is built; the other one has no state at all.
Init ==
  \/ /\ engine = "http"
     /\ Http!Init
     /\ alive = {} /\ issued = 0 /\ saved = {} /\ run = {}
  \/ /\ engine = "BROWSER"
     /\ Brw!Init
     /\ head = 0 /\ session = FALSE /\ row = {} /\ pc = "none" /\ attempt = 0
     /\ tries = 0 /\ asked = 0 /\ at = 0 /\ got = {} /\ previous = {}
     /\ logins = 0 /\ cutOff = FALSE

\* collect, login and fetch_all_pages: the program's own steps.
HttpStep    == engine = "http" /\ Http!Step /\ UNCHANGED <<engine, browser>>
BrowserStep(p) == engine = "BROWSER" /\ Brw!Step(p) /\ UNCHANGED <<engine, http>>

Next ==
  \/ engine = "http" /\ Http!Next /\ UNCHANGED <<engine, browser>>
  \/ engine = "BROWSER" /\ Brw!Next /\ UNCHANGED <<engine, http>>

Spec == Init /\ [][Next]_vars

\* The processes go on: every request is answered or times out, and so does
\* every wait for a page.
FairSpec == Spec /\ WF_vars(HttpStep) /\ \A p \in Runners : WF_vars(BrowserStep(p))

-----------------------------------------------------------------------------
(* Properties *)

\* "Keep requesting until the result is complete" (dynamic.py 575-624).
Complete == engine = "http" => Http!Complete

\* "A wrong password must not turn into a login loop that locks the account"
\* (base.py 153-177).
LoginOnce == engine = "http" => Http!LoginOnce

\* What a paged browser row returns is an unbroken run of pages (browser.py
\* 395-477).
Gapless == engine = "BROWSER" => Brw!Gapless

\* A successful browser result is whole, or there is a name for why it is not
\* (browser.py 184-227, 375-477).
WholeOrNamed == engine = "BROWSER" => Brw!WholeOrNamed

\* No attempt after a login has the session the first was turned away with
\* (base.py 200-221, browser.py 231-255, 585-589).
FreshSession == engine = "BROWSER" => Brw!FreshSession

\* Whatever the site does, collect comes back, in either engine.
Ends ==
  <>(/\ engine = "http" => Http!Over
     /\ engine = "BROWSER" => Brw!Over)
=============================================================================
