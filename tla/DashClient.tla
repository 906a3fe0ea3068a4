------------------------------ MODULE DashClient ------------------------------
(***************************************************************************)
(* One tab of the client: App of src/app.jsx, the panels and views that    *)
(* fetch for themselves, and the requests between them and the server.     *)
(* React's rule is Rerender: an effect runs when its component appears and *)
(* when one of its dependencies has changed, and a component that          *)
(* disappears takes its state with it. No effect cancels a request.        *)
(***************************************************************************)
EXTENDS Naturals, FiniteSets

CONSTANTS Projects,    \* ids in the answer of /api/projects
          Ranges,      \* presets of the range picker, "all" among them
          Models,      \* short names of /api/models, asked once; taken to be there
          Sessions,    \* transcripts a user may open or drop
          MaxClicks,   \* bound: selections, navigations and loads
          MaxRuns      \* bound: ingest runs announced

ASSUME ClientAssumption ==
  /\ "all" \in Ranges
  /\ MaxClicks \in Nat /\ MaxRuns \in Nat

VARIABLES
  cookie,        \* what the server makes of this tab's cookie
  network,       \* "ordered": requests for one chart end in their order; "any": they do not
  isGuest, route, activeProject, activeRange, dashNonce, tx, useSynth,
  projects,      \* what the project picker offers
  backendDash,   \* last answer of /api/dashboard
  activeModel,   \* model select of a panel
  panel,         \* last answer of a panel (tool usage, latency, errors, heatmap)
  view,          \* data and err of the cache page (CacheView, ContextGrowthAgg)
  flight,        \* requests under way
  loads,         \* transcripts being read or fetched
  settled,       \* history: the newest request of a chart was the last to be answered
  failed,        \* history: the charts that a request has failed since their effect ran
  clicks         \* history: bounded by MaxClicks

selection == <<activeProject, activeRange>>
vars == <<cookie, network, isGuest, route, activeProject, activeRange, dashNonce, tx, useSynth,
          projects, backendDash, activeModel, panel, view, flight, loads, settled,
          failed, clicks>>

None == "none"      \* null in the client, and "" where it means no filter
Fetchers == {"me", "projects", "dashboard", "panel", "view"}
Charts == {"dashboard", "panel", "view"}
Routes == {"dashboard", "sessions", "cache", "session"}

(***************************************************************************)
(* An answer has a status and the query it answers.                        *)
(***************************************************************************)
Nothing == [status |-> None, key |-> <<>>]

\* backendDashToShape: no event, no shape; an error body has none.
HasShape(a) == a.status = "rows"
\* What the dashboard and the sessions list are drawn from.
dashData == IF backendDash # Nothing
              THEN IF HasShape(backendDash) THEN "backend" ELSE None
              ELSE IF ~useSynth /\ tx # None THEN "live" ELSE "synth"

\* When the component that fetches is on the page; for projects, the effect's guard.
Mounted(f) == CASE f = "projects" -> ~isGuest
                [] f = "panel"    -> route = "dashboard" /\ dashData # None
                [] f = "view"     -> route = "cache"
                [] OTHER          -> TRUE

\* What the URL of a request says, with the runs announced by then: the answer knows them.
Query(f) == << activeProject, activeRange,
               IF f = "panel" THEN activeModel ELSE None,
               IF f = "view" THEN 0 ELSE dashNonce >>

\* Mutant of Deps: a panel that does not follow the ingest runs.
DepsMutant(f) == CASE f = "dashboard" -> <<activeProject, activeRange, dashNonce>>
                   [] f = "panel"     -> <<activeProject, activeRange, activeModel>>
                   [] f = "view"      -> selection
                   [] OTHER           -> <<>>

\* The dependency arrays of the effects.
Deps(f) == CASE f = "dashboard" -> <<activeProject, activeRange, dashNonce>>
             [] f = "panel"     -> <<activeProject, activeRange, activeModel, dashNonce>>
             [] f = "view"      -> selection
             [] OTHER           -> <<>>

\* newest: no request for the same chart was sent after it.
Request(f, query) == [what |-> f, key |-> query, newest |-> TRUE]

Init ==
  /\ cookie \in {"user", "guest"}
  /\ network \in {"ordered", "any"}
  /\ isGuest = (cookie = "guest")           \* window.IS_GUEST, injected by the server
  /\ route = "dashboard" /\ tx = None /\ useSynth = TRUE
  /\ activeProject = None /\ activeRange = "all" /\ activeModel = None /\ dashNonce = 0
  /\ projects = {}
  /\ backendDash = Nothing /\ panel = Nothing
  /\ view = [data |-> Nothing, err |-> Nothing]
  /\ flight = {Request(f, Query(f)) : f \in {g \in Fetchers : Mounted(g)}}
  /\ settled = [f \in Charts |-> FALSE] /\ failed = {}
  /\ loads = {} /\ clicks = 0

-----------------------------------------------------------------------------
(* React.                                                                  *)

\* Mutant of Fetches: an effect that does not run when its component appears.
FetchesMutant(f) == Mounted(f)' /\ Deps(f)' # Deps(f)

\* The effect of f runs in this step.
Fetches(f) == Mounted(f)' /\ (Mounted(f) => Deps(f)' # Deps(f))

\* The end of every step: p and v are what the panel and the page hold if they stay, m
\* the panel's model, rest the requests that go on, done is settled by them, bad failed.
Rerender(p, v, m, rest, done, bad) ==
  /\ activeModel' = IF Mounted("panel")' THEN m ELSE None
  /\ panel' = IF Mounted("panel")' THEN p ELSE Nothing
  /\ view' = IF Fetches("view") \/ ~Mounted("view")'
               THEN [data |-> Nothing, err |-> Nothing] ELSE v
  /\ flight' = {[r EXCEPT !.newest = @ /\ ~Fetches(r.what)] : r \in {q \in rest : Mounted(q.what)'}}
                 \cup {Request(f, Query(f)') : f \in {g \in Fetchers : Fetches(g)}}
  /\ settled' = [f \in Charts |-> done[f] /\ Mounted(f)' /\ ~Fetches(f)]
  /\ failed' = {f \in bad : Mounted(f)' /\ ~Fetches(f)}

Same == Rerender(panel, view, activeModel, flight, settled, failed)

Click == clicks < MaxClicks /\ clicks' = clicks + 1

-----------------------------------------------------------------------------
(* The user. A click on what is selected already changes nothing.          *)

\* RangePicker, ProjectPicker ("All" is None) and the model select of a panel.
SelectRange(r) ==
  /\ r # activeRange
  /\ Click /\ activeRange' = r
  /\ UNCHANGED <<cookie, network, isGuest, route, activeProject, dashNonce, tx, useSynth,
                 projects, backendDash, loads>>
  /\ Same

SelectProject(p) ==
  /\ ~isGuest /\ p \in (projects \cup {None}) \ {activeProject}
  /\ Click /\ activeProject' = p
  /\ UNCHANGED <<cookie, network, isGuest, route, activeRange, dashNonce, tx, useSynth,
                 projects, backendDash, loads>>
  /\ Same

SelectModel(m) ==
  /\ Mounted("panel") /\ m \in (Models \cup {None}) \ {activeModel}
  /\ Click
  /\ UNCHANGED <<cookie, network, isGuest, route, activeProject, activeRange, dashNonce, tx,
                 useSynth, projects, backendDash, loads>>
  /\ Rerender(panel, view, m, flight, settled, failed)

\* TopBar hides two of the tabs from a guest.
Navigate(to) ==
  /\ isGuest => to \notin {"sessions", "session"}
  /\ to # route
  /\ Click /\ route' = to
  /\ UNCHANGED <<cookie, network, isGuest, activeProject, activeRange, dashNonce, tx, useSynth,
                 projects, backendDash, loads>>
  /\ Same

\* "open" in the sessions list fetches a transcript; a file dropped on the empty
\* Inspector is read, several or a zip are merged.
Load(how, s) ==
  /\ IF how = "open" THEN route = "sessions" /\ dashData # None
                     ELSE route = "session" /\ tx = None
  /\ Click /\ loads' = loads \cup {[how |-> how, what |-> s]}
  /\ UNCHANGED <<cookie, network, isGuest, route, activeProject, activeRange, dashNonce, tx,
                 useSynth, projects, backendDash>>
  /\ Same

-----------------------------------------------------------------------------
(* What the client learns.                                                 *)

\* No script of the page defines window.computeSessionStats ...
StatsDefined == FALSE
\* ... and parseTranscript returns the metas as meta_events: the destructured `meta`
\* of loadFiles is undefined, and `meta.length` throws.
MetaReturned == FALSE

\* The text has come: parse, compute the statistics, show. What throws is logged or
\* lost, and leaves the state as it was.
Loaded(l) ==
  /\ l \in loads /\ loads' = loads \ {l}
  /\ IF StatsDefined /\ (l.how = "merge" => MetaReturned)
       THEN /\ tx' = l.what /\ useSynth' = FALSE
            /\ route' = IF l.how = "merge" THEN "dashboard" ELSE "session"
       ELSE UNCHANGED <<tx, useSynth, route>>
  /\ UNCHANGED <<cookie, network, isGuest, activeProject, activeRange, dashNonce, projects, backendDash, clicks>>
  /\ Same

\* ingest_done: a run is in the tables and the client has been told.
IngestDone ==
  /\ dashNonce < MaxRuns /\ dashNonce' = dashNonce + 1
  /\ UNCHANGED <<cookie, network, isGuest, route, activeProject, activeRange, tx, useSynth,
                 projects, backendDash, loads, clicks>>
  /\ Same

\* Mutant of Listed: the list of an error body is taken as it is.
ListedMutant(r) ==
  /\ r \in flight /\ r.what \notin Charts
  /\ isGuest' = IF r.what = "me" THEN cookie = "guest" ELSE isGuest
  /\ projects' = IF r.what = "projects" /\ cookie = "user" THEN Projects ELSE {None}
  /\ UNCHANGED <<cookie, network, route, activeProject, activeRange, dashNonce, tx, useSynth,
                 backendDash, loads, clicks>>
  /\ Rerender(panel, view, activeModel, flight \ {r}, settled, failed)

\* /api/me and /api/projects, asked once; an error body names nobody and lists nothing.
\* That isGuest falls is a new reason to ask for the projects.
Listed(r) ==
  /\ r \in flight /\ r.what \notin Charts
  /\ isGuest' = IF r.what = "me" THEN cookie = "guest" ELSE isGuest
  /\ projects' = IF r.what = "projects" /\ cookie = "user" THEN Projects ELSE projects
  /\ UNCHANGED <<cookie, network, route, activeProject, activeRange, dashNonce, tx, useSynth,
                 backendDash, loads, clicks>>
  /\ Rerender(panel, view, activeModel, flight \ {r}, settled, failed)

\* How a request may end: rows; a body without any, be it an error's or that of a narrow
\* range; lost - refused, or no JSON, as what a server says that fails. The tools panel
\* takes any body alike, the cache page looks at r.ok and keeps the error.
Outcomes(f) ==
  LET refused == cookie = "expired" IN
  CASE f = "dashboard" -> {"lost"} \cup (IF refused THEN {} ELSE {"rows"})
                                   \cup (IF refused \/ activeRange # "all" THEN {"blank"} ELSE {})
    [] f = "panel"     -> {"lost", "rows"}
    [] f = "view"      -> IF refused THEN {"error"} ELSE {"error", "rows"}

\* No effect asks whether its request is still the newest. One that was lost changes
\* nothing; an error of the cache page outlives the answers after it.
Deliver(r, status) ==
  LET body   == [status |-> status, key |-> r.key]
      misses == status \in {"lost", "error"} /\ (r.newest \/ r.what = "view") IN
  /\ network = "ordered" /\ r.newest => \A q \in flight \ {r} : q.what # r.what
  /\ backendDash' = IF r.what = "dashboard" /\ status # "lost" THEN body ELSE backendDash
  /\ UNCHANGED <<cookie, network, isGuest, route, activeProject, activeRange, dashNonce, tx,
                 useSynth, projects, loads, clicks>>
  /\ Rerender(IF r.what = "panel" /\ status # "lost" THEN body ELSE panel,
              IF r.what # "view" THEN view
                ELSE IF status = "error" THEN [view EXCEPT !.err = body]
                ELSE [view EXCEPT !.data = body],
              activeModel, flight \ {r},
              [settled EXCEPT ![r.what] = IF status = "lost" THEN @ ELSE r.newest],
              IF misses THEN failed \cup {r.what} ELSE failed)

Answered(r) == r.what \in Charts /\ \E status \in Outcomes(r.what) : Deliver(r, status)

\* The session ends while the tab stays open.
CookieExpires ==
  /\ cookie # "expired" /\ cookie' = "expired"
  /\ UNCHANGED <<network, isGuest, route, activeProject, activeRange, dashNonce, tx, useSynth,
                 projects, backendDash, activeModel, panel, view, flight, loads, settled,
                 failed, clicks>>

\* Requests end and their promises are run; users and sessions do as they please.
Replies == (\E r \in flight : Listed(r) \/ Answered(r)) \/ (\E l \in loads : Loaded(l))

Next ==
  \/ \E r \in Ranges : SelectRange(r)
  \/ \E p \in Projects \cup {None} : SelectProject(p)
  \/ \E m \in Models \cup {None} : SelectModel(m)
  \/ \E to \in Routes : Navigate(to)
  \/ \E how \in {"open", "drop", "merge"}, s \in Sessions : Load(how, s)
  \/ IngestDone
  \/ CookieExpires
  \/ Replies

Spec == Init /\ [][Next]_vars

-----------------------------------------------------------------------------
Keys == (Projects \cup {None}) \X Ranges \X (Models \cup {None}) \X (0 .. MaxRuns)
Statuses == {"rows", "blank", "error"}
Answers == [status : Statuses \cup {None}, key : Keys \cup {<<>>}]

\* Everything the tab holds has the form the render functions take.
TypeOK ==
  /\ cookie \in {"user", "guest", "expired"} /\ network \in {"ordered", "any"}
  /\ isGuest \in BOOLEAN /\ useSynth \in BOOLEAN /\ route \in Routes
  /\ activeProject \in Projects \cup {None} /\ activeRange \in Ranges
  /\ activeModel \in Models \cup {None} /\ dashNonce \in 0 .. MaxRuns
  /\ tx \in Sessions \cup {None}
  /\ projects \subseteq Projects
  /\ backendDash \in Answers /\ panel \in Answers /\ view \in [data : Answers, err : Answers]
  /\ flight \subseteq [what : Fetchers, key : Keys, newest : BOOLEAN]
  /\ loads \subseteq [how : {"open", "drop", "merge"}, what : Sessions]
  /\ settled \in [Charts -> BOOLEAN] /\ failed \subseteq Charts
  /\ clicks \in 0 .. MaxClicks

Data(f) == CASE f = "dashboard" -> backendDash
             [] f = "panel"     -> panel
             [] f = "view"      -> view.data

\* The cache page shows an error before any data.
Shown(f) == IF f = "view" /\ view.err # Nothing THEN view.err ELSE Data(f)

\* If the last request answered was the newest - nothing overtook it, it was not lost - a
\* chart holds an answer for the project, range and model selected now and the runs announced
\* so far: no change of a filter, run, page or mounted panel goes by without a request.
SettledAnswersSelection ==
  \A f \in Charts : settled[f] =>
    /\ Mounted(f)
    /\ Query(f) \in {Data(f).key} \cup IF f = "view" THEN {view.err.key} ELSE {}

\* When the requests of a chart end in their order, a chart that waits for nothing shows what
\* is selected, whatever was clicked, mounted, left or announced meanwhile - unless its newest
\* request failed or, on the cache page, any since the selection: there an older request's
\* error hides the answer that came after it (cache-view.jsx:18-24), but no other rows show.
QuietShowsSelection ==
  network = "ordered" =>
    \A f \in Charts : Mounted(f) /\ (\A r \in flight : r.what # f) =>
      \/ Shown(f).key = Query(f)
      \/ f \in failed /\ (f = "view" => Shown(f).status = "error")
=============================================================================
