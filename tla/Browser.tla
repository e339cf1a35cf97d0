------------------------------ MODULE Browser ------------------------------
(***************************************************************************)
(* The browser engine (scrapers/browser.py): one row's behavior_json acted *)
(* out in a page, then read, page after page where the row says how; the   *)
(* session it needs lives in a storage-state file that every process       *)
(* shares, and a login row renews it (BaseScraper.collect and login).      *)
(*                                                                         *)
(* A step of a behaviour is named for what it needs of the screen:         *)
(*   "find"      fill, select, check, click, press or wait_for on an       *)
(*               element of the data screen; a frame by selector           *)
(*   "frame"     a frame by name or url                                    *)
(*   "script"    eval: asks the site for page :PAGE, as it is or as JSON   *)
(*   "request"   a click after which the page fetches JSON for itself      *)
(*   "idle"      wait_load, for networkidle: a document that has been idle *)
(*               once stays so, whatever it asks for afterwards            *)
(*   "download"  a click that produces a file                              *)
(*   "form", "submit"   the fields of the login screen, and its button     *)
(***************************************************************************)
EXTENDS Integers, Sequences, FiniteSets

CONSTANTS
  Runners,   \* processes and threads that run a browser job each
  Rows,      \* the api_mst rows each may run
  LoginRow,  \* the row those with .login name
  Keys,      \* state files
  Pages,     \* pages the site has
  MaxSessions  \* bound: sessions the site ever opens

Row == [type : {"dom", "xhr", "binary", "session"},
        mode : {"none", "click", "scroll", "page"},
        steps : Seq({"find", "frame", "script", "request", "idle", "download",
                     "form", "submit"}),
        key : Keys,
        open : BOOLEAN,    \* the site shows the screen to anybody
        login : BOOLEAN,   \* response_parse_json['login']
        marker : BOOLEAN,  \* response_parse_json['logged_out']
        all : BOOLEAN,     \* response_parse_json['pick'] is 'all'
        awaits : BOOLEAN,  \* pagination_json['wait_for']
        max : Nat]         \* pagination_json['max_pages']

BrowserAssumption ==
  /\ Rows \in [Runners -> SUBSET Row] /\ LoginRow \in Row
  /\ Pages \in Nat \ {0} /\ MaxSessions \in Nat \ {0}

VARIABLES
  alive,   \* sessions the site knows; 0 stands for no session
  issued,  \* how many it has opened
  saved,   \* the session in each storage-state file; -1: there is no file
  run      \* what each runner is at

vars == <<alive, issued, saved, run>>

Ended == {"returned", "failed", "expired"}

\* A run of _collect_once: .row is the login row while .job waits for it.
Start(job) ==
  [job |-> job, row |-> job, pc |-> "look", attempt |-> 1,
   jar |-> 0, step |-> 1, login |-> FALSE, shown |-> 0, coming |-> 0, idle |-> FALSE,
   at |-> 1, read |-> 0, got |-> {}, previous |-> {},
   sent |-> 0, flying |-> {}, captured |-> <<>>, files |-> 0,
   \* history
   from |-> 1, dead |-> {}, excuse |-> {}]

\* The files are as an earlier login left them.
Init ==
  /\ issued = 1
  /\ alive \in SUBSET {1}
  /\ saved \in [Keys -> {-1, 1}]
  /\ \E jobs \in [Runners -> UNION {Rows[p] : p \in Runners}] :
       /\ \A p \in Runners : jobs[p] \in Rows[p]
       /\ run = [p \in Runners |-> Start(jobs[p])]

Update(p, r) == run' = [run EXCEPT ![p] = r]

-----------------------------------------------------------------------------
(* The end of an attempt. *)

\* The login row is run by a scraper of its own: of the data row's run it has
\* the params, and so the page number.
LoginRun(r) == [Start(r.job) EXCEPT !.row = LoginRow, !.at = r.at, !.dead = {r.jar} \ {0}]

\* Faulty variant: the stale state is left for the login run to load.
LogInOver(p, r) == Update(p, LoginRun(r)) /\ UNCHANGED saved

\* login: _invalidate_session drops the stored cookies of the data row, then
\* the login row is run.
LogIn(p, r) ==
  /\ Update(p, LoginRun(r))
  /\ saved' = [saved EXCEPT ![r.job.key] = -1]

Fail(p, r) == Update(p, [r EXCEPT !.pc = "failed"]) /\ UNCHANGED saved

\* SessionExpired, as collect takes it: one login, then a second attempt.  A
\* login row never logs in for itself.
Expire(p, r) ==
  IF r.row.type = "session" THEN Fail(p, r)
  ELSE IF r.attempt = 1 /\ r.row.login THEN LogIn(p, r)
  ELSE Update(p, [r EXCEPT !.pc = "expired"]) /\ UNCHANGED saved

\* A wait that ran out means a logged-out screen to a row that can log in.
TimeOut(p, r) == IF r.row.login THEN Expire(p, r) ELSE Fail(p, r)

\* What a second attempt inherits of the first: the page number, which the
\* seeding of _collect_page leaves alone.
Again(r) == [Start(r.job) EXCEPT !.attempt = 2, !.at = r.at, !.from = r.at, !.dead = r.dead]

\* The result of the attempt is the result of the job.
Hand(p, r) == Update(p, [r EXCEPT !.pc = "returned"]) /\ UNCHANGED saved

\* _save_state: the file now holds this context's cookies; the login row's
\* run is over.
SaveState(p, r) ==
  /\ saved' = [saved EXCEPT ![r.row.key] = r.jar]
  /\ Update(p, IF r.job = r.row THEN [r EXCEPT !.pc = "returned"] ELSE Again(r))

-----------------------------------------------------------------------------
(* _open_page. *)

Site == <<alive, issued>>

LookForState(p) ==
  LET r == run[p] IN
  /\ r.pc = "look"
  /\ Update(p, [r EXCEPT !.pc = IF saved[r.row.key] = -1 THEN "fresh" ELSE "load"])
  /\ UNCHANGED <<Site, saved>>

\* new_context reads the file that was there a moment ago.
NewContext(p) ==
  LET r == run[p] IN
  /\ r.pc \in {"fresh", "load"}
  /\ IF r.pc = "load" /\ saved[r.row.key] = -1 THEN Fail(p, r)
     ELSE /\ Update(p, [r EXCEPT !.pc = "goto",
                                 !.jar = IF r.pc = "load" THEN saved[r.row.key] ELSE 0])
          /\ UNCHANGED saved
  /\ UNCHANGED Site

\* The chromium of this thread is gone; the next job launches another.
BrowserDies(p) ==
  /\ run[p].pc \notin Ended \cup {"look"}
  /\ Fail(p, run[p])
  /\ UNCHANGED Site

-----------------------------------------------------------------------------
(* run_behavior. *)

Known(r) == r.row.open \/ r.jar \in alive

\* The start url is opened again for every page of 'page' mode.
Goto(p) ==
  LET r == run[p] IN
  /\ r.pc = "goto"
  /\ Update(p, [r EXCEPT !.pc = "act", !.step = 1, !.login = ~Known(r),
                         !.shown = 1, !.coming = 0, !.idle = FALSE,
                         !.sent = IF r.row.type = "xhr" THEN 1 ELSE 0,
                         !.flying = IF r.row.type = "xhr" THEN {1} ELSE {}])
  /\ UNCHANGED <<Site, saved>>

\* Faulty variant: the load of the document is waited for, not its requests.
MetAtLoad(r, step) ==
  CASE step \in {"find", "request", "download"} -> ~r.login
    [] step \in {"form", "submit"} -> r.login
    [] OTHER -> TRUE

\* What a step needs in order not to wait in vain.
Met(r, step) ==
  CASE step \in {"find", "request", "download"} -> ~r.login
    [] step \in {"form", "submit"} -> r.login
    [] step = "idle" -> r.idle
    [] OTHER -> TRUE

\* Whether the step makes the page fetch JSON; the login screen has no script.
Fetches(r, step) == step = "request" \/ (step = "script" /\ r.row.type = "xhr" /\ ~r.login)

Acted(r, step) ==
  CASE Fetches(r, step)  -> [r EXCEPT !.sent = @ + 1, !.flying = @ \cup {r.sent + 1}]
    [] step = "script" /\ r.row.type # "xhr" ->
                            [r EXCEPT !.coming = IF r.login THEN 0 ELSE r.at]
    [] step = "download" -> [r EXCEPT !.files = @ + 1]
    [] OTHER -> r

Act(p) ==
  LET r == run[p]  step == r.row.steps[r.step] IN
  /\ r.pc = "act" /\ r.step <= Len(r.row.steps)
  /\ Met(r, step)
  /\ IF step = "frame" /\ r.login THEN Fail(p, r)  \* no frame of that name
     ELSE Update(p, [Acted(r, step) EXCEPT !.step = @ + 1]) /\ UNCHANGED saved
  /\ step # "submit"
  /\ UNCHANGED Site

\* The site takes the credentials, and the context has a session.
Submit(p) ==
  LET r == run[p] IN
  /\ r.pc = "act" /\ r.step <= Len(r.row.steps)
  /\ r.row.steps[r.step] = "submit" /\ r.login
  /\ issued < MaxSessions
  /\ issued' = issued + 1
  /\ alive' = alive \cup {issued'}
  /\ Update(p, [r EXCEPT !.jar = issued', !.login = FALSE, !.idle = FALSE, !.step = @ + 1])
  /\ UNCHANGED saved

\* Wrong password: the login screen stays.
Rejected(p) ==
  LET r == run[p] IN
  /\ r.pc = "act" /\ r.step <= Len(r.row.steps)
  /\ r.row.steps[r.step] = "submit" /\ r.login
  /\ Update(p, [r EXCEPT !.step = @ + 1])
  /\ UNCHANGED <<Site, saved>>

\* There is a control to click, or more of the list to scroll to.
Control(r) == ~r.login /\ r.shown < Pages

\* An element that is not there, or a site too slow for the timeout; the click
\* of _advance is one of them, only the wait after it is caught.
StepTimesOut(p) ==
  LET r == run[p] IN
  /\ \/ r.pc = "goto"
     \/ /\ r.pc = "act" /\ r.step <= Len(r.row.steps)
        /\ r.row.steps[r.step] \notin {"frame", "script"}
     \/ r.pc = "advance" /\ r.row.mode = "click" /\ Control(r)
  /\ TimeOut(p, r)
  /\ UNCHANGED Site

-----------------------------------------------------------------------------
(* The page meanwhile. *)

\* The site answers a page it was asked for: with the login screen when it no
\* longer knows the session.
Render(p) ==
  LET r == run[p] IN
  /\ r.pc \notin Ended /\ r.coming # 0
  /\ Update(p, [r EXCEPT !.coming = 0,
                         !.shown = IF Known(r) THEN r.coming ELSE @,
                         !.login = ~Known(r)])
  /\ UNCHANGED <<Site, saved>>

\* An eval as the first step follows the load of the document at once.
Early(r) ==
  r.pc = "act" /\ r.step = 1 /\ r.row.steps # <<>> /\ r.row.steps[1] = "script"

\* networkidle fires once nothing has been under way for half a second.
Quiet(p) ==
  LET r == run[p] IN
  /\ r.pc \in {"act", "read", "advance", "settle"}
  /\ ~r.idle /\ r.coming = 0 /\ r.flying = {}
  /\ ~Early(r)
  /\ Update(p, [r EXCEPT !.idle = TRUE])
  /\ UNCHANGED <<Site, saved>>

Last(replies) == replies[Len(replies)]
Overtaken(r, n) == r.captured # <<>> /\ n < Last(r.captured)

\* on_response: a reply that is not JSON is passed over.  Only where the last
\* one is picked does it matter that another has overtaken it.
ReplyArrives(p) ==
  LET r == run[p] IN
  /\ r.pc \notin Ended
  /\ \E n \in r.flying :
       Update(p, [r EXCEPT !.flying = @ \ {n},
                           !.captured = IF Known(r) THEN Append(@, n) ELSE @,
                           !.excuse = @ \cup (IF ~Known(r) THEN {"expired"}
                                             ELSE IF ~r.row.all /\ Overtaken(r, n) THEN {"overtaken"}
                                             ELSE {})])
  /\ UNCHANGED <<Site, saved>>

-----------------------------------------------------------------------------
(* _collect_page after the behaviour, and _collect_dom. *)

Paged(row) == row.type = "dom" /\ row.mode # "none"

\* The next page is read, unless range(1, max_pages + 1) is used up.
ReadOn(r) ==
  IF Paged(r.row) /\ r.read = r.row.max
  THEN [r EXCEPT !.pc = "returned", !.excuse = @ \cup {"cut"}]
  ELSE [r EXCEPT !.pc = "read"]

\* "captured if spec.get('pick') == 'all' else captured[-1:]".
Bodies(r) ==
  IF r.row.all THEN {r.captured[i] : i \in DOMAIN r.captured} ELSE {Last(r.captured)}

HandBodies(p, r) ==
  /\ Update(p, [r EXCEPT !.pc = "returned", !.got = Bodies(r),
                         !.excuse = @ \cup (IF r.flying # {} THEN {"late"} ELSE {})])
  /\ UNCHANGED saved

\* The marker is looked for after the first run of the behaviour only.
BehaviourDone(p) ==
  LET r == run[p] IN
  /\ r.pc = "act" /\ r.step > Len(r.row.steps)
  /\ IF r.read = 0 /\ r.row.marker /\ r.login THEN Expire(p, r)
     ELSE CASE r.row.type = "session" -> SaveState(p, r)
            [] r.row.type = "binary"  -> IF r.files = 0 THEN Fail(p, r) ELSE Hand(p, r)
            [] r.row.type = "xhr"     -> IF r.captured = <<>> THEN Fail(p, r) ELSE HandBodies(p, r)
            [] r.row.type = "dom"     -> Update(p, ReadOn(r)) /\ UNCHANGED saved
  /\ UNCHANGED Site

\* extract: the records on the screen, by page; an infinite list shows every
\* page loaded so far.
Visible(r) ==
  IF r.login THEN {}
  ELSE (1..Pages) \cap (IF r.row.mode = "scroll" THEN 1..r.shown ELSE {r.shown})

\* Faulty variant: the number of records is compared, not the records.
StopAtCount(r) == Cardinality(Visible(r)) \in {0, Cardinality(r.previous)}

\* An empty page, or the one before once more.
StopAt(r) == Visible(r) \in {{}, r.previous}

Blame(r) ==
  r.excuse \cup (IF r.login THEN {"expired"} ELSE {})
           \cup (IF r.coming # 0 THEN {"late"} ELSE {})

Read(p) ==
  LET r == run[p]
      merged == [r EXCEPT !.got = @ \cup Visible(r), !.previous = Visible(r), !.read = @ + 1,
                          !.excuse = Blame(r)]
  IN
  /\ r.pc = "read"
  /\ Update(p,
       IF ~Paged(r.row) THEN [merged EXCEPT !.pc = "returned"]
       ELSE IF StopAt(r) THEN [r EXCEPT !.pc = "returned", !.excuse = Blame(r)]
       ELSE [merged EXCEPT !.pc = "advance"])
  /\ UNCHANGED <<Site, saved>>

\* _advance: the page number counts up and the behaviour is acted out again,
\* or the list is scrolled, or the control is clicked if it can be.
Advance(p) ==
  LET r == run[p] IN
  /\ r.pc = "advance"
  /\ Update(p,
       CASE r.row.mode = "page" ->
              [r EXCEPT !.at = @ + 1, !.pc = "goto"]
         [] r.row.mode = "click" /\ ~Control(r) ->
              [r EXCEPT !.pc = "returned", !.excuse = Blame(r)]
         [] OTHER ->
              [r EXCEPT !.pc = "settle", !.coming = IF Control(r) THEN r.shown + 1 ELSE 0])
  /\ UNCHANGED <<Site, saved>>

\* wait_for is satisfied by any row of the list, the old ones included;
\* networkidle, by a document that was idle before the control was clicked.
Settle(p) ==
  LET r == run[p] IN
  /\ r.pc = "settle"
  /\ IF r.row.awaits THEN ~r.login ELSE r.idle
  /\ Update(p, ReadOn(r))
  /\ UNCHANGED <<Site, saved>>

\* "Nothing followed the last page": the one timeout that is not a failure.
NothingFollows(p) ==
  LET r == run[p] IN
  /\ r.pc = "settle"
  /\ Update(p, [r EXCEPT !.pc = "returned", !.excuse = Blame(r) \cup
                  (IF Pages \in r.got THEN {} ELSE {"late"})])
  /\ UNCHANGED <<Site, saved>>

-----------------------------------------------------------------------------
\* The site forgets a session.
SessionDies ==
  /\ \E s \in alive : alive' = alive \ {s}
  /\ UNCHANGED <<issued, saved, run>>

Step(p) ==
  \/ LookForState(p) \/ NewContext(p) \/ Goto(p)
  \/ Act(p) \/ Submit(p) \/ Rejected(p) \/ StepTimesOut(p)
  \/ BehaviourDone(p) \/ Read(p) \/ Advance(p) \/ Settle(p) \/ NothingFollows(p)

Next ==
  \/ \E p \in Runners : Step(p) \/ Render(p) \/ ReplyArrives(p) \/ Quiet(p) \/ BrowserDies(p)
  \/ SessionDies

\* collect has come back, for every runner.
Over == \A p \in Runners : run[p].pc \in Ended

-----------------------------------------------------------------------------
(* Properties *)

\* The row asks in its first step, an eval, before the document can have been
\* idle, and only then waits for networkidle.
Prompt(row) ==
  LET asking == {k \in DOMAIN row.steps : row.steps[k] \in {"script", "request"}} IN
  /\ \A k \in asking : k = 1 /\ row.steps[k] = "script"
  /\ asking # {} \/ row.type = "xhr" => \E k \in DOMAIN row.steps : row.steps[k] = "idle"

\* _collect_dom reads page after page, without seeing more of the site than
\* its screen: where the wait for a page is one, what a paged row returns is an
\* unbroken run of pages from the one it began at.
Gapless ==
  \A p \in Runners : LET r == run[p] IN
    (r.pc = "returned" /\ Paged(r.row) /\ Prompt(r.row)) =>
       \E n \in 0..Pages : r.got = r.from..n

\* "An empty page, a page identical to the one before, the control being gone,
\* or max_pages": a successful result ends at the last page, or has the reply
\* to the last request (to every one, with 'pick' of 'all'), unless the pages
\* were cut off, the session died under it, a reply was overtaken by the one to
\* a later request, or the site answered after the row had stopped waiting.
\* The last is never the matter with a row that asks at once, and then waits.
WholeOrNamed ==
  \A p \in Runners : LET r == run[p] IN
    r.pc = "returned" =>
      /\ r.excuse = {} =>
           /\ Paged(r.row) => r.got = r.from..Pages
           /\ r.row.type = "xhr" => r.got = IF r.row.all THEN 1..r.sent ELSE {r.sent}
      /\ Prompt(r.row) /\ (r.row.type = "xhr" \/ (Paged(r.row) /\ r.row.mode = "page")) =>
           "late" \notin r.excuse

\* "Handing an expired storage state to the login run itself lets the site
\* answer it from the dead session": whatever other runners save meanwhile,
\* neither the login run nor the second attempt has the session that the first
\* attempt was turned away with.
FreshSession ==
  \A p \in Runners : run[p].jar \notin run[p].dead
=============================================================================
