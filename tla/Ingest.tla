------------------------------- MODULE Ingest -------------------------------
(***************************************************************************)
(* backend/ingest.py: run_ingest mirrors the wire.jsonl objects of an R2   *)
(* bucket into Postgres.  Up to three runs (cron job, start-up job, POST   *)
(* /admin/ingest) overlap; each lists the bucket, fetches and parses what  *)
(* is new, writes one transaction per file, deletes the orphans and        *)
(* announces itself.  Meanwhile the archiver rewrites the bucket, calls    *)
(* fail, and the server process is restarted.                              *)
(*                                                                         *)
(* An object's content is the number of the bucket write that made it, so  *)
(* etag, last_modified and body of an object are one number, 0 standing    *)
(* for "no object".  wire.jsonl is an append-only log: content never       *)
(* recurs.  Keys are numbered in listing order.                            *)
(***************************************************************************)
EXTENDS Integers, FiniteSetsExt

CONSTANTS
  NumKeys,        \* the wire.jsonl keys that may exist are 1 .. NumKeys
  Projects,       \* project hashes
  ProjectOf,      \* key -> the project named by its second path component
  Markers,        \* what project.json may hold: paths, "none", "malformed"
  Triggers,       \* the runs that may overlap: "cron", "startup", "manual"
  ChunkFactor,    \* files per worker in a chunk; the source fixes it to 4
  Scenarios       \* the circumstances the mirror works under, see Scenario

Keys == 1 .. NumKeys

Scenario ==
  [keys       : SUBSET Keys,      \* that may hold an object
   triggers   : SUBSET Triggers,  \* that fire
   unparsable : SUBSET Keys,      \* whose content makes parse_file raise
   markers    : SUBSET Markers,   \* that are written
   workers    : Nat \ {0},        \* _worker_count()
   page_size  : Nat \ {0},        \* objects per page of the R2 listing
   writes     : Nat,              \* bound: writes to the bucket
   faults     : Nat,              \* bound: failing R2 or Postgres calls
   restarts   : Nat]              \* bound: restarts of the server process

ASSUME NumKeysAssumption == NumKeys \in Nat \ {0}
ASSUME ProjectAssumption == ProjectOf \in [Keys -> Projects]
ASSUME TriggerAssumption == Triggers \subseteq {"cron", "startup", "manual"}
ASSUME MarkerAssumption  == "none" \in Markers
ASSUME SizeAssumption    == ChunkFactor \in Nat \ {0}
ASSUME ScenarioAssumption == Scenarios \subseteq Scenario

VARIABLES
  scenario,        \* one of Scenarios, the same in all states
  clock,           \* number of the last write to the bucket
  bucket,          \* key -> content of the object, 0 when there is none
  marker,          \* project -> what its project.json holds
  files,           \* key -> row of `files` (with its `records`, `tool_uses`)
  projects,        \* project -> row of `projects`
  last_ingest,     \* the row of `ingest_runs` with the highest id, as /health reads it
  parser_version,  \* PARSER_VERSION of the running server
  startup_due,     \* the one-shot start-up job has not fired yet
  run,             \* trigger -> local state of its run
  faults,          \* calls that failed so far
  restarts,        \* restarts so far
  dirty            \* history: `files` changed since the last ingest_done

external == <<scenario, clock, bucket, marker>>
tables   == <<files, projects, last_ingest>>
server   == <<parser_version, startup_due, restarts>>
vars     == <<external, tables, server, run, faults, dirty>>

-----------------------------------------------------------------------------
(* Rows and run-local state.  NoRow and NoProject stand for a missing row. *)

NoRow     == [etag |-> 0, body |-> 0, parser_version |-> 0]
NoRows    == [k \in Keys |-> NoRow]
NoProject == [display_name |-> "none", first_seen |-> 0, last_seen |-> 0]

Idle == [phase    |-> "idle",
         existing |-> NoRows,                       \* snapshot of `files`
         cursor   |-> 0,                            \* last key listed
         listing  |-> [k \in Keys |-> 0],           \* wire_objs
         paths    |-> [p \in Projects |-> "none"],  \* project_paths
         todo     |-> {},                           \* not yet in a chunk
         batch    |-> {},                           \* the chunk in hand
         results  |-> [k \in Keys |-> 0],           \* bodies fetched
         changed  |-> FALSE,     \* inserted or reparsed or deleted
         err      |-> FALSE,
         met      |-> FALSE]     \* history: another run was in its try block

\* r's run goes on with local state l.
Become(r, l) == run' = [run EXCEPT ![r] = l]

Go(r, phase) == Become(r, [run[r] EXCEPT !.phase = phase])

Listed(r) == {k \in Keys : run[r].listing[k] # 0}

\* Keys of S in listing order, at most n of them.
FirstOf(n, S) == {k \in S : Cardinality({j \in S : j < k}) < n}

\* Mutant of ChunkSize: INGEST_WORKERS=1 no longer means sequential.
ChunkSizeAlwaysPooled == scenario.workers * ChunkFactor

\* Sequential mode is a lazy generator: fetch one file, persist it, go on.
ChunkSize == IF scenario.workers = 1 THEN 1 ELSE scenario.workers * ChunkFactor

Init ==
  /\ scenario \in Scenarios
  /\ \E S \in SUBSET scenario.keys : bucket = [k \in Keys |-> IF k \in S THEN k ELSE 0]
  /\ clock = NumKeys
  /\ marker = [p \in Projects |-> "none"]
  /\ files = NoRows
  /\ projects = [p \in Projects |-> NoProject]
  /\ last_ingest = [trigger |-> "none", status |-> "none"]
  /\ parser_version = 1
  /\ startup_due = TRUE
  /\ run = [r \in Triggers |-> Idle]
  /\ faults = 0
  /\ restarts = 0
  /\ dirty = FALSE

-----------------------------------------------------------------------------
(* The bucket, written by the archiver of another machine.                 *)

Put(k) ==
  /\ clock < NumKeys + scenario.writes
  /\ k \in scenario.keys
  /\ clock' = clock + 1
  /\ bucket' = [bucket EXCEPT ![k] = clock + 1]
  /\ UNCHANGED <<scenario, marker, tables, server, run, faults, dirty>>

Remove(k) ==
  /\ clock < NumKeys + scenario.writes
  /\ bucket[k] # 0
  /\ clock' = clock + 1
  /\ bucket' = [bucket EXCEPT ![k] = 0]
  /\ UNCHANGED <<scenario, marker, tables, server, run, faults, dirty>>

\* "malformed" is JSON that is not an object; a marker without a usable path
\* is the same to the code as no marker.
SetMarker(p, m) ==
  /\ clock < NumKeys + scenario.writes
  /\ m \in scenario.markers \ {marker[p]}
  /\ \E k \in scenario.keys : ProjectOf[k] = p
  /\ clock' = clock + 1
  /\ marker' = [marker EXCEPT ![p] = m]
  /\ UNCHANGED <<scenario, bucket, tables, server, run, faults, dirty>>

-----------------------------------------------------------------------------
(* One run.  Every action up to DeleteOrphans is inside the try block.     *)

TryPhases == {"existing", "list", "markers", "chunk", "fetch", "persist", "orphans"}

InTry(r) == run[r].phase \in TryPhases

Start(r) ==
  /\ run[r].phase = "idle"
  /\ r \in scenario.triggers
  /\ r = "startup" => startup_due
  /\ startup_due' = (startup_due /\ r # "startup")
  /\ last_ingest' = [trigger |-> r, status |-> "running"]
  /\ LET others == {s \in Triggers \ {r} : InTry(s)}
     IN run' = [s \in Triggers |->
                  IF s = r THEN [run[s] EXCEPT !.phase = "existing", !.met = others # {}]
                  ELSE [run[s] EXCEPT !.met = @ \/ s \in others]]
  /\ UNCHANGED <<external, files, projects, parser_version, restarts, faults, dirty>>

ReadExisting(r) ==
  /\ run[r].phase = "existing"
  /\ Become(r, [run[r] EXCEPT !.phase = "list", !.existing = files])
  /\ UNCHANGED <<external, tables, server, faults, dirty>>

\* Mutant of ListPage: a truncated first page is taken for the whole listing.
ListFirstPageOnly(r) ==
  LET page == FirstOf(scenario.page_size, {k \in Keys : bucket[k] # 0})
  IN /\ run[r].phase = "list"
     /\ Become(r, [run[r] EXCEPT
          !.listing = [k \in Keys |-> IF k \in page THEN bucket[k] ELSE 0],
          !.phase   = "markers"])
     /\ UNCHANGED <<external, tables, server, faults, dirty>>

\* list_keys is a generator over pages: the bucket may change between two.
ListPage(r) ==
  LET ahead == {k \in Keys : k > run[r].cursor /\ bucket[k] # 0}
      page  == FirstOf(scenario.page_size, ahead)
  IN /\ run[r].phase = "list"
     /\ Become(r, [run[r] EXCEPT
          !.listing = [k \in Keys |-> IF k \in page THEN bucket[k] ELSE @[k]],
          !.cursor  = IF page = ahead THEN @ ELSE Max(page),
          !.phase   = IF page = ahead THEN "markers" ELSE "list"])
     /\ UNCHANGED <<external, tables, server, faults, dirty>>

\* Mutant of NeedsReparse: rows of an older parser are left as they are.
NeedsReparseNoVersion(r, k) ==
  \/ run[r].existing[k] = NoRow
  \/ run[r].existing[k].etag # run[r].listing[k]

\* The reparse test, on the snapshot the run took before it listed.
NeedsReparse(r, k) ==
  LET stored == run[r].existing[k]
  IN \/ stored = NoRow
     \/ stored.etag # run[r].listing[k]
     \/ stored.parser_version # parser_version

\* _fetch_marker for every marker, then the plan: what needs a (re)parse.  A marker
\* removed since it was listed is a failing call (CallFails), and one published since
\* is as good as published later.
FetchMarkers(r) ==
  /\ run[r].phase = "markers"
  /\ \A p \in Projects : marker[p] # "malformed"
  /\ Become(r, [run[r] EXCEPT
       !.paths = marker,
       !.todo  = {k \in Listed(r) : NeedsReparse(r, k)},
       !.existing = NoRows,
       !.phase = "chunk"])
  /\ UNCHANGED <<external, tables, server, faults, dirty>>

NextChunk(r) ==
  LET chunk == FirstOf(ChunkSize, run[r].todo)
  IN /\ run[r].phase = "chunk"
     /\ run[r].todo # {}
     /\ Become(r, [run[r] EXCEPT !.todo = @ \ chunk, !.batch = chunk,
                           !.phase = "fetch"])
     /\ UNCHANGED <<external, tables, server, faults, dirty>>

\* Mutant of Fetch: an object that is gone by now reads as an empty file.
FetchMissingAsEmpty(r, k) ==
  /\ run[r].phase = "fetch"
  /\ k \in run[r].batch
  /\ run[r].results[k] = 0
  /\ k \notin scenario.unparsable
  /\ Become(r, [run[r] EXCEPT !.results[k] = bucket[k], !.phase = "persist"])
  /\ UNCHANGED <<external, tables, server, faults, dirty>>

\* The futures of a chunk complete in any order; the chunk is persisted only
\* when each of them has a result.
Fetch(r, k) ==
  /\ run[r].phase = "fetch"
  /\ k \in run[r].batch
  /\ run[r].results[k] = 0
  /\ bucket[k] # 0
  /\ k \notin scenario.unparsable
  /\ Become(r, [run[r] EXCEPT
       !.results[k] = bucket[k],
       !.phase = IF \A j \in run[r].batch \ {k} : run[r].results[j] # 0
                    THEN "persist" ELSE "fetch"])
  /\ UNCHANGED <<external, tables, server, faults, dirty>>

\* proj, as the listing left it, merged into the row by ON CONFLICT.
SeenProject(r, p) ==
  LET seen == {run[r].listing[k] : k \in {j \in Listed(r) : ProjectOf[j] = p}}
  IN [display_name |-> run[r].paths[p], first_seen |-> Min(seen), last_seen |-> Max(seen)]

\* Mutant of UpsertProject: EXCLUDED overwrites, without LEAST and GREATEST.
OverwriteProject(old, new) == new

UpsertProject(old, new) ==
  IF old = NoProject THEN new
  ELSE [new EXCEPT !.first_seen = Min({old.first_seen, @}),
                   !.last_seen  = Max({old.last_seen, @})]

\* Mutant of FileRow: the etag is looked up when the row is written.
FileRowCurrentEtag(r, k) ==
  [etag |-> IF bucket[k] = 0 THEN run[r].listing[k] ELSE bucket[k],
   body |-> run[r].results[k], parser_version |-> parser_version]

\* The etag is the one listed, the body the one fetched since.
FileRow(r, k) == [etag |-> run[r].listing[k], body |-> run[r].results[k],
                  parser_version |-> parser_version]

\* One transaction; its first statement holds the project's row to the end.
Persist(r, k) ==
  LET p == ProjectOf[k]
  IN /\ run[r].phase = "persist"
     /\ k \in run[r].batch
     /\ projects' = [projects EXCEPT ![p] = UpsertProject(@, SeenProject(r, p))]
     /\ files' = [files EXCEPT ![k] = FileRow(r, k)]
     /\ Become(r, [run[r] EXCEPT !.batch = @ \ {k}, !.results[k] = 0,
                           !.changed = TRUE,
                           !.phase = IF run[r].batch = {k} THEN "chunk" ELSE @])
     /\ dirty' = TRUE
     /\ UNCHANGED <<external, last_ingest, server, faults>>

\* Mutant of UpsertProjects: only the rows of reparsed files refresh a project.
UpsertProjectsOfReparsed(r) ==
  /\ run[r].phase = "chunk"
  /\ run[r].todo = {}
  /\ Go(r, "orphans")
  /\ UNCHANGED <<external, tables, server, faults, dirty>>

UpsertProjects(r) ==
  /\ run[r].phase = "chunk"
  /\ run[r].todo = {}
  /\ projects' = [p \in Projects |-> IF \E k \in Listed(r) : ProjectOf[k] = p
                                     THEN UpsertProject(projects[p], SeenProject(r, p))
                                     ELSE projects[p]]
  /\ Go(r, "orphans")
  /\ UNCHANGED <<external, files, last_ingest, server, faults, dirty>>

DeleteOrphans(r) ==
  LET orphans == {k \in Keys \ Listed(r) : files[k] # NoRow}
  IN /\ run[r].phase = "orphans"
     /\ files' = [k \in Keys |-> IF k \in orphans THEN NoRow ELSE files[k]]
     /\ Become(r, [Idle EXCEPT !.phase = "finish",
                                     !.changed = run[r].changed \/ orphans # {}])
     /\ dirty' = (dirty \/ orphans # {})
     /\ UNCHANGED <<external, projects, last_ingest, server, faults>>

\* UPDATE ingest_runs, after the except clause; a newer row hides this one.
Finish(r) ==
  /\ run[r].phase = "finish"
  /\ last_ingest' = IF last_ingest.trigger = r
                    THEN [last_ingest EXCEPT !.status = IF run[r].err THEN "error" ELSE "ok"]
                    ELSE last_ingest
  /\ Go(r, "announce")
  /\ UNCHANGED <<external, files, projects, server, faults, dirty>>

\* broadcast_threadsafe("ingest_done"), then run_ingest returns.
Announce(r) ==
  /\ run[r].phase = "announce"
  /\ dirty' = (dirty /\ (run[r].err \/ ~run[r].changed))
  /\ Become(r, Idle)
  /\ UNCHANGED <<external, tables, server, faults>>

-----------------------------------------------------------------------------
(* Failures.                                                               *)

\* An exception inside the try block: kept in err, the run is wound up.
Abort(r) == Become(r, [Idle EXCEPT !.phase = "finish", !.err = TRUE])

BadMarker(r) ==
  /\ run[r].phase = "markers"
  /\ \E p \in Projects : marker[p] = "malformed"
  /\ Abort(r)
  /\ UNCHANGED <<external, tables, server, faults, dirty>>

\* The object vanished after the listing, or parse_file raises on it.
FetchFails(r, k) ==
  /\ run[r].phase = "fetch"
  /\ k \in run[r].batch
  /\ run[r].results[k] = 0
  /\ bucket[k] = 0 \/ k \in scenario.unparsable
  /\ Abort(r)
  /\ UNCHANGED <<external, tables, server, faults, dirty>>

\* R2 or Postgres refuses a call; a transaction in hand is rolled back.
CallFails(r) ==
  /\ faults < scenario.faults
  /\ InTry(r)
  /\ faults' = faults + 1
  /\ Abort(r)
  /\ UNCHANGED <<external, tables, server, dirty>>

\* The INSERT that opens a run fails: a lost start-up job is not retried.
StartFails(r) ==
  /\ faults < scenario.faults
  /\ run[r].phase = "idle"
  /\ r \in scenario.triggers
  /\ r = "startup" => startup_due
  /\ faults' = faults + 1
  /\ startup_due' = (startup_due /\ r # "startup")
  /\ UNCHANGED <<external, tables, run, parser_version, restarts, dirty>>

\* The last UPDATE fails: it is outside the try, so run_ingest raises.
FinishFails(r) ==
  /\ faults < scenario.faults
  /\ run[r].phase = "finish"
  /\ faults' = faults + 1
  /\ Become(r, Idle)
  /\ UNCHANGED <<external, tables, server, dirty>>

\* The process ends at any point and is started again, perhaps upgraded.
Restart ==
  /\ restarts < scenario.restarts
  /\ restarts' = restarts + 1
  /\ run' = [r \in Triggers |-> Idle]
  /\ startup_due' = TRUE
  /\ parser_version' \in {parser_version, parser_version + 1}
  /\ UNCHANGED <<external, tables, faults, dirty>>

-----------------------------------------------------------------------------
Step(r) ==
  \/ ReadExisting(r) \/ ListPage(r) \/ FetchMarkers(r) \/ NextChunk(r)
  \/ \E k \in Keys : Fetch(r, k) \/ Persist(r, k) \/ FetchFails(r, k)
  \/ UpsertProjects(r) \/ DeleteOrphans(r) \/ Finish(r) \/ Announce(r)
  \/ BadMarker(r)

Archiver ==
  \/ \E k \in Keys : Put(k) \/ Remove(k)
  \/ \E p \in Projects, m \in Markers : SetMarker(p, m)

Next ==
  \/ Archiver
  \/ \E r \in Triggers : \/ Start(r) \/ Step(r)
                        \/ StartFails(r) \/ CallFails(r) \/ FinishFails(r)
  \/ Restart

Spec == Init /\ [][Next]_vars

\* A run that has begun goes on, the cron job fires every hour and the start-up
\* job once; nobody has to call /admin/ingest, write the bucket or restart.
Fairness ==
  /\ \A r \in Triggers : WF_vars(Step(r))
  /\ \A r \in Triggers \ {"manual"} : WF_vars(Start(r))

FairSpec == Spec /\ Fairness

-----------------------------------------------------------------------------
(* Correctness.                                                            *)

Phases == TryPhases \cup {"idle", "finish", "announce"}

Row == [etag : Nat \ {0}, body : Nat \ {0}, parser_version : Nat \ {0}]

ProjectRow == [display_name : Markers,
               first_seen : Nat \ {0}, last_seen : Nat \ {0}]

RunState == [phase : Phases, existing : [Keys -> Row \cup {NoRow}], cursor : Nat,
             listing : [Keys -> Nat], paths : [Projects -> Markers],
             todo : SUBSET Keys, batch : SUBSET Keys, results : [Keys -> Nat],
             changed : BOOLEAN, err : BOOLEAN, met : BOOLEAN]

\* Every table and local keeps its shape: in particular a stored row always has
\* an etag and a body, and a project row a real span (no half-made row).
TypeOK ==
  /\ scenario \in Scenarios
  /\ clock \in Nat /\ faults \in Nat /\ restarts \in Nat
  /\ bucket \in [Keys -> Nat]
  /\ marker \in [Projects -> Markers]
  /\ files \in [Keys -> Row \cup {NoRow}]
  /\ projects \in [Projects -> ProjectRow \cup {NoProject}]
  /\ last_ingest \in [trigger : Triggers \cup {"none"},
                      status : {"none", "running", "ok", "error"}]
  /\ parser_version \in Nat \ {0}
  /\ startup_due \in BOOLEAN /\ dirty \in BOOLEAN
  /\ run \in [Triggers -> RunState]

\* A row whose records are not those of the live object carries an etag that
\* differs from the object's, so the reparse test of any later run sees it:
\* though the etag stored is the one listed and the body stored was fetched
\* later, by runs that overlap, the bucket moving all the while.
StaleRowIsDetectable ==
  \A k \in Keys : files[k] # NoRow /\ bucket[k] # 0 /\ files[k].body # bucket[k]
                   => files[k].etag # bucket[k]

\* A stored file has its project's row, and the first_seen_at .. last_seen_at of
\* that row spans the file's last_modified, whatever run wrote either last.
ProjectSpansFiles ==
  \A k \in Keys : files[k] # NoRow =>
    LET p == projects[ProjectOf[k]]
    IN p # NoProject /\ p.first_seen <= files[k].etag /\ files[k].etag <= p.last_seen

\* A run that met no other and gets through its try block leaves in `files`
\* exactly what it listed, parsed by the parser that is running.
SuccessMeansMirrored ==
  [][\A r \in Triggers : DeleteOrphans(r) /\ ~run[r].met =>
       \A k \in Keys : IF k \in Listed(r)
                        THEN /\ files'[k].etag = run[r].listing[k]
                             /\ files'[k].parser_version = parser_version
                        ELSE files'[k] = NoRow]_vars

\* ingest.py:8, "Orphan files (R2 key gone) are deleted": a row that still
\* describes the live object is deleted by no run but one that met another,
\* whose listing may be older than the row.
LiveRowsStay ==
  [][\A k \in Keys : files[k] # NoRow /\ files'[k] = NoRow =>
       \/ files[k].etag # bucket[k]
       \/ \E r \in Triggers : DeleteOrphans(r) /\ run[r].met]_vars

Mirrored(k) ==
  IF bucket[k] = 0 THEN files[k] = NoRow
  ELSE files[k].body = bucket[k] /\ files[k].parser_version = parser_version

MarkersReadable == \A p \in Projects : marker[p] # "malformed"

\* Once the bucket rests with readable markers and calls stop failing, the tables come
\* to mirror the bucket and stay so, whatever runs overlapped before.  Where one file at
\* a time is in hand, a file that cannot be parsed holds up the files listed after it,
\* and the orphans, but no file before it.
Converges ==
  <>[]MarkersReadable =>
    <>[](\A k \in Keys : \/ Mirrored(k)
                          \/ \E j \in scenario.unparsable : j <= k \/ bucket[k] = 0)

\* ... and every project with files is named by the path its marker carries now,
\* even if none of its files changed: the unconditional upsert "keeps
\* display_name fresh" (ingest.py:163-166).
NamesFresh ==
  scenario.unparsable = {} /\ <>[]MarkersReadable =>
    <>[](\A k \in Keys : bucket[k] # 0 =>
           projects[ProjectOf[k]].display_name = marker[ProjectOf[k]])

\* events.py:3-5, "receives an `ingest_done` event whenever a fresh ingest run
\* lands in the DB": a change of the tables is announced in the end.
ChangesAnnounced == dirty ~> ~dirty

=============================================================================
