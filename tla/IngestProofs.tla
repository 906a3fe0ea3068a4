---------------------------- MODULE IngestProofs ----------------------------
(***************************************************************************)
(* Proofs about Ingest for any number of keys, projects, overlapping runs, *)
(* workers, faults and restarts.                                           *)
(***************************************************************************)
EXTENDS Ingest, DataLemmas, FiniteSetTheorems, TLAPS

-----------------------------------------------------------------------------
(* The inductive invariant.                                                *)

\* v may have been read from object k: no later write is known of than v, and
\* what is in the bucket now is not older.
Past(k, v) == v <= clock /\ (bucket[k] # 0 => v <= bucket[k])

\* Every version in the tables was read from the bucket, and no row claims, by its
\* etag, to be newer than its body.
TablesInv ==
  \A k \in Keys : /\ Past(k, bucket[k])
                  /\ Past(k, files[k].body)
                  /\ files[k].etag <= files[k].body

\* So were the versions a run (whose local state is l) has in hand, and what it
\* fetched is not older than what it listed.  It works on files it listed, holds
\* results for its chunk only, and writes the chunk when each file has a result.
RunInv(l) ==
  /\ \A k \in Keys : /\ Past(k, l.listing[k])
                     /\ Past(k, l.results[k])
                     /\ l.results[k] # 0 => l.listing[k] <= l.results[k] /\ k \in l.batch
  /\ \A k \in l.batch \cup l.todo : l.listing[k] # 0
  /\ l.phase \notin {"fetch", "persist"} => l.batch = {}
  /\ l.phase = "persist" => \A k \in l.batch : l.results[k] # 0

IInv == TypeOK /\ TablesInv /\ \A r \in Triggers : RunInv(run[r])

-----------------------------------------------------------------------------
(* The first keys of a set.                                                *)

\* The first n of a non-empty set of keys are some of its keys, and not none.
LEMMA FirstOfSome ==
  ASSUME NEW S \in SUBSET Keys, S # {}, NEW n \in Nat \ {0}
  PROVE  FirstOf(n, S) \subseteq S /\ FirstOf(n, S) # {}
<1>1. S \subseteq Nat
  BY DEF Keys
<1>2. PICK m \in S : \A y \in S : m <= y
  BY <1>1, MinOfNats
<1>3. {j \in S : j < m} = {}
  <2>1. ASSUME NEW j \in S PROVE ~ (j < m)
    BY <1>1, <1>2
  <2>2. QED
    BY <2>1
<1>4. m \in FirstOf(n, S)
  BY <1>2, <1>3, FS_EmptySet DEF FirstOf
<1>5. QED
  BY <1>4 DEF FirstOf

-----------------------------------------------------------------------------
(* Initial states.                                                         *)

LEMMA IdleType == Idle \in RunState
BY MarkerAssumption DEF Idle, RunState, NoRows, Phases, TryPhases

LEMMA IdleInv == ASSUME clock \in Nat, bucket \in [Keys -> Nat] PROVE RunInv(Idle)
BY DEF RunInv, Idle, Past

\* What TypeOK says of the numbers that the invariant compares.
LEMMA Numbers ==
  ASSUME TypeOK
  PROVE  /\ clock \in Nat
         /\ \A k \in Keys : /\ bucket[k] \in Nat
                            /\ files[k].etag \in Nat /\ files[k].body \in Nat
<1>1. \A k \in Keys : files[k].etag \in Nat /\ files[k].body \in Nat
  BY DEF TypeOK, Row, NoRow
<1>2. QED
  BY <1>1 DEF TypeOK

LEMMA ScenarioType == ASSUME TypeOK PROVE scenario \in Scenario
BY ScenarioAssumption DEF TypeOK

LEMMA RunNumbers ==
  ASSUME NEW l \in RunState, NEW k \in Keys
  PROVE  l.listing[k] \in Nat /\ l.results[k] \in Nat
<1>1. l.listing \in [Keys -> Nat] /\ l.results \in [Keys -> Nat]
  BY DEF RunState
<1>2. QED
  BY <1>1

LEMMA InitIInv == Init => IInv
<1> SUFFICES ASSUME Init PROVE IInv
  OBVIOUS
<1>1. TypeOK
  <2>1. bucket \in [Keys -> Nat] /\ clock \in Nat
    BY NumKeysAssumption DEF Init, Keys
  <2>8. scenario \in Scenarios
    BY DEF Init
  <2>2. marker \in [Projects -> Markers] /\ run \in [Triggers -> RunState]
    BY IdleType, MarkerAssumption DEF Init
  <2>3. /\ files \in [Keys -> Row \cup {NoRow}]
        /\ projects \in [Projects -> ProjectRow \cup {NoProject}]
    BY DEF Init, NoRows
  <2>4. last_ingest \in [trigger : Triggers \cup {"none"},
                        status : {"none", "running", "ok", "error"}]
    BY DEF Init
  <2>5. faults \in Nat /\ restarts \in Nat /\ parser_version \in Nat \ {0}
    BY DEF Init
  <2>6. startup_due \in BOOLEAN /\ dirty \in BOOLEAN
    BY DEF Init
  <2>7. QED
    BY <2>1, <2>2, <2>3, <2>4, <2>5, <2>6, <2>8 DEF TypeOK
<1>2. TablesInv
  BY NumKeysAssumption DEF Init, TablesInv, Past, Keys, NoRow, NoRows
<1>3. \A r \in Triggers : RunInv(run[r])
  BY <1>1, IdleInv DEF Init, TypeOK
<1>4. QED
  BY <1>1, <1>2, <1>3 DEF IInv

-----------------------------------------------------------------------------
(* What the steps have in common.                                          *)

\* A write to the bucket leaves what was read before in the past.
LEMMA BucketStep ==
  ASSUME IInv, TypeOK', UNCHANGED <<tables, run>>,
         \A k \in Keys, v \in Nat : Past(k, v) => Past(k, v)',
         \A k \in Keys : Past(k, bucket[k])'
  PROVE  IInv'
<1>1. TablesInv'
  BY Numbers DEF IInv, TablesInv, tables
<1>2. ASSUME NEW r \in Triggers PROVE RunInv(run[r])'
  <2>1. run[r] \in RunState
    BY DEF IInv, TypeOK
  <2>2. QED
    BY <2>1, RunNumbers DEF IInv, RunInv
<1>3. QED
  BY <1>1, <1>2 DEF IInv

\* A step of one run that leaves bucket, `files` and `projects` alone.
LEMMA LocalStep ==
  ASSUME IInv, NEW r \in Triggers, NEW l \in RunState, RunInv(l),
         Become(r, l),
         UNCHANGED <<external, files, projects, parser_version, restarts>>,
         dirty' \in BOOLEAN, startup_due' \in BOOLEAN, faults' \in Nat,
         last_ingest' \in [trigger : Triggers \cup {"none"},
                           status : {"none", "running", "ok", "error"}]
  PROVE  IInv'
<1>1. TypeOK'
  <2>1. run' \in [Triggers -> RunState]
    BY DEF IInv, TypeOK, Become
  <2>2. QED
    BY <2>1 DEF IInv, TypeOK, external
<1>2. TablesInv'
  BY DEF IInv, TablesInv, Past, external
<1>3. ASSUME NEW s \in Triggers PROVE RunInv(run[s])'
  <2>1. run'[s] = IF s = r THEN l ELSE run[s]
    BY DEF IInv, TypeOK, Become
  <2>2. RunInv(run'[s])
    BY <2>1 DEF IInv
  <2>3. QED
    BY <2>2 DEF RunInv, Past, external
<1>4. QED
  BY <1>1, <1>2, <1>3 DEF IInv

-----------------------------------------------------------------------------
(* The bucket.                                                             *)

LEMMA PutStep == ASSUME IInv, NEW k \in Keys, Put(k) PROVE IInv'
<1>1. TypeOK'
  BY DEF IInv, Put, TypeOK, tables, server
<1>2. \A j \in Keys, v \in Nat : Past(j, v) => Past(j, v)'
  BY DEF IInv, Put, TypeOK, Past
<1>3. \A j \in Keys : Past(j, bucket[j])'
  BY Numbers DEF IInv, Put, TypeOK, Past, TablesInv
<1>4. QED
  BY <1>1, <1>2, <1>3, BucketStep DEF Put

LEMMA RemoveStep == ASSUME IInv, NEW k \in Keys, Remove(k) PROVE IInv'
<1>1. TypeOK'
  BY DEF IInv, Remove, TypeOK, tables, server
<1>2. \A j \in Keys, v \in Nat : Past(j, v) => Past(j, v)'
  BY DEF IInv, Remove, TypeOK, Past
<1>3. \A j \in Keys : Past(j, bucket[j])'
  BY Numbers DEF IInv, Remove, TypeOK, Past, TablesInv
<1>4. QED
  BY <1>1, <1>2, <1>3, BucketStep DEF Remove

LEMMA SetMarkerStep ==
  ASSUME IInv, NEW p \in Projects, NEW m \in Markers, SetMarker(p, m) PROVE IInv'
<1>1. TypeOK'
  BY DEF IInv, SetMarker, TypeOK, tables, server
<1>2. \A j \in Keys, v \in Nat : Past(j, v) => Past(j, v)'
  BY DEF IInv, SetMarker, TypeOK, Past
<1>3. \A j \in Keys : Past(j, bucket[j])'
  BY Numbers DEF IInv, SetMarker, TypeOK, Past, TablesInv
<1>4. QED
  BY <1>1, <1>2, <1>3, BucketStep DEF SetMarker

-----------------------------------------------------------------------------
(* One run, up to the first write.                                         *)

\* The parts of a run's local state, and what the invariant says of them.
LEMMA LocalState ==
  ASSUME IInv, NEW r \in Triggers
  PROVE  /\ run[r] \in RunState /\ RunInv(run[r])
         /\ dirty \in BOOLEAN /\ startup_due \in BOOLEAN /\ faults \in Nat
         /\ last_ingest \in [trigger : Triggers \cup {"none"},
                             status : {"none", "running", "ok", "error"}]
BY DEF IInv, TypeOK

\* Whether a run met another is of no matter to what it has in hand.
LEMMA MetState ==
  ASSUME NEW l \in RunState, RunInv(l), NEW b \in BOOLEAN
  PROVE  [l EXCEPT !.met = b] \in RunState /\ RunInv([l EXCEPT !.met = b])
BY DEF RunState, RunInv

LEMMA StartStep == ASSUME IInv, NEW r \in Triggers, Start(r) PROVE IInv'
<1> DEFINE others == {s \in Triggers \ {r} : InTry(s)}
           began == [run[r] EXCEPT !.phase = "existing"]
           l(s) == IF s = r THEN [began EXCEPT !.met = others # {}]
                   ELSE [run[s] EXCEPT !.met = run[s].met \/ s \in others]
<1>1. began \in RunState /\ RunInv(began)
  BY LocalState DEF RunInv, RunState, Phases, TryPhases, Start
<1>2. ASSUME NEW s \in Triggers PROVE run'[s] = l(s)
  BY <1>1 DEF Start
<1>3. ASSUME NEW s \in Triggers PROVE l(s) \in RunState /\ RunInv(l(s))
  <2>1. run[s] \in RunState /\ RunInv(run[s])
    BY LocalState
  <2>2. run[s].met \in BOOLEAN
    BY <2>1 DEF RunState
  <2> HIDE DEF began, others
  <2>3. QED
    BY <1>1, <2>1, <2>2, MetState
<1>4. run' \in [Triggers -> RunState]
  <2>1. run' = [s \in Triggers |-> run'[s]]
    BY DEF Start
  <2>2. QED
    BY <1>2, <1>3, <2>1
<1>5. startup_due' \in BOOLEAN
  BY LocalState DEF Start
<1>6. last_ingest' \in [trigger : Triggers \cup {"none"},
                       status : {"none", "running", "ok", "error"}]
  BY DEF Start
<1>7. TypeOK'
  BY <1>4, <1>5, <1>6 DEF IInv, TypeOK, Start, external
<1>8. TablesInv'
  BY DEF IInv, TablesInv, Past, Start, external
<1>9. ASSUME NEW s \in Triggers PROVE RunInv(run[s])'
  <2>1. RunInv(run'[s])
    BY <1>2, <1>3
  <2>2. QED
    BY <2>1 DEF RunInv, Past, Start, external
<1>10. QED
  BY <1>7, <1>8, <1>9 DEF IInv

LEMMA ReadExistingStep == ASSUME IInv, NEW r \in Triggers, ReadExisting(r) PROVE IInv'
<1> DEFINE l == [run[r] EXCEPT !.phase = "list", !.existing = files]
<1>1. l \in RunState
  <2>1. files \in [Keys -> Row \cup {NoRow}]
    BY DEF IInv, TypeOK
  <2>2. QED
    BY <2>1, LocalState DEF RunState, Phases, TryPhases
<1>2. RunInv(l)
  BY LocalState DEF RunInv, RunState, ReadExisting
<1>3. QED
  BY <1>1, <1>2, LocalState, LocalStep DEF ReadExisting, server, tables

LEMMA ListPageStep == ASSUME IInv, NEW r \in Triggers, ListPage(r) PROVE IInv'
<1> DEFINE ahead == {k \in Keys : k > run[r].cursor /\ bucket[k] # 0}
           page  == FirstOf(scenario.page_size, ahead)
           listing == [k \in Keys |-> IF k \in page THEN bucket[k] ELSE run[r].listing[k]]
           cursor == IF page = ahead THEN run[r].cursor ELSE Max(page)
           phase == IF page = ahead THEN "markers" ELSE "list"
           l == [run[r] EXCEPT !.listing = listing, !.cursor = cursor, !.phase = phase]
<1>1. page \subseteq ahead /\ page \subseteq Keys
  BY DEF FirstOf
<1>2. listing \in [Keys -> Nat]
  BY LocalState DEF IInv, TypeOK, RunState
<1>3. cursor \in Nat
  <2>1. CASE page = ahead
    BY <2>1, LocalState DEF RunState
  <2>2. CASE page # ahead
    <3>1. page # {}
      BY <2>2, <1>1, FirstOfSome, ScenarioType DEF IInv, Scenario
    <3>2. page \in SUBSET Nat
      BY <1>1 DEF Keys
    <3>3. NumKeys \in Nat /\ \A k \in page : k <= NumKeys
      BY <1>1, NumKeysAssumption DEF Keys
    <3>4. Max(page) \in page
      BY <3>1, <3>2, <3>3, MaxOfNats
    <3>5. QED
      BY <2>2, <3>2, <3>4
  <2>3. QED
    BY <2>1, <2>2
<1>4. phase \in Phases /\ phase \notin {"fetch", "persist"}
  BY DEF Phases, TryPhases
<1>5. \A k \in Keys : listing[k] = bucket[k] \/ listing[k] = run[r].listing[k]
  OBVIOUS
<1>6. \A k \in Keys : run[r].listing[k] # 0 => listing[k] # 0
  BY <1>1
<1> HIDE DEF page, listing, cursor, phase
<1>7. l \in RunState
  BY <1>2, <1>3, <1>4, LocalState DEF RunState
<1>8. RunInv(l)
  <2>1. /\ l.listing = listing /\ l.results = run[r].results /\ l.phase = phase
        /\ l.batch = run[r].batch /\ l.todo = run[r].todo
    BY LocalState DEF RunState
  <2>2. run[r].batch = {} /\ run[r].todo \subseteq Keys
    BY LocalState DEF RunInv, RunState, ListPage
  <2>3. QED
    BY <2>1, <2>2, <1>4, <1>5, <1>6, LocalState DEF RunInv, IInv, TablesInv
<1>9. QED
  BY <1>7, <1>8, LocalState, LocalStep
     DEF ListPage, server, tables, page, listing, cursor, phase

LEMMA FetchMarkersStep == ASSUME IInv, NEW r \in Triggers, FetchMarkers(r) PROVE IInv'
<1> DEFINE todo == {k \in Listed(r) : NeedsReparse(r, k)}
           l == [run[r] EXCEPT !.paths = marker, !.todo = todo,
                               !.existing = NoRows, !.phase = "chunk"]
<1>1. todo \subseteq Keys /\ \A k \in todo : run[r].listing[k] # 0
  BY DEF Listed
<1> HIDE DEF todo
<1>2. l \in RunState
  <2>1. marker \in [Projects -> Markers] /\ "chunk" \in Phases
    BY DEF IInv, TypeOK, Phases, TryPhases
  <2>2. NoRows \in [Keys -> Row \cup {NoRow}]
    BY DEF NoRows
  <2>3. run[r] \in RunState /\ todo \in SUBSET Keys
    BY <1>1, LocalState
  <2>4. QED
    BY <2>1, <2>2, <2>3 DEF RunState
<1>3. RunInv(l)
  BY <1>1, LocalState DEF RunInv, RunState, FetchMarkers
<1>4. QED
  BY <1>2, <1>3, LocalState, LocalStep DEF FetchMarkers, server, tables, todo

LEMMA NextChunkStep == ASSUME IInv, NEW r \in Triggers, NextChunk(r) PROVE IInv'
<1> DEFINE chunk == FirstOf(ChunkSize, run[r].todo)
           l == [run[r] EXCEPT !.todo = run[r].todo \ chunk, !.batch = chunk,
                               !.phase = "fetch"]
<1>1. chunk \subseteq run[r].todo
  BY DEF FirstOf
<1> HIDE DEF chunk
<1>2. l \in RunState
  BY <1>1, LocalState DEF RunState, Phases, TryPhases
<1>3. RunInv(l)
  BY <1>1, LocalState DEF RunInv, RunState, NextChunk
<1>4. QED
  BY <1>2, <1>3, LocalState, LocalStep DEF NextChunk, server, tables, chunk

LEMMA FetchStep ==
  ASSUME IInv, NEW r \in Triggers, NEW k \in Keys, Fetch(r, k) PROVE IInv'
<1> DEFINE phase == IF \A j \in run[r].batch \ {k} : run[r].results[j] # 0
                    THEN "persist" ELSE "fetch"
           results == [run[r].results EXCEPT ![k] = bucket[k]]
           l == [run[r] EXCEPT !.results = results, !.phase = phase]
<1>1. results \in [Keys -> Nat] /\ phase \in Phases
  BY LocalState DEF RunState, IInv, TypeOK, Phases, TryPhases
<1>2. results[k] = bucket[k] /\ \A j \in Keys \ {k} : results[j] = run[r].results[j]
  BY LocalState DEF RunState
<1>3. run[r].listing[k] <= bucket[k]
  BY LocalState DEF RunInv, Past, Fetch
<1>4. phase = "persist" => \A j \in run[r].batch : results[j] # 0
  BY <1>2, LocalState DEF Fetch, RunState
<1>5. phase \in {"fetch", "persist"}
  OBVIOUS
<1> HIDE DEF phase, results
<1>6. l \in RunState
  BY <1>1, LocalState DEF RunState
<1>7. RunInv(l)
  <2>1. /\ l.listing = run[r].listing /\ l.results = results /\ l.phase = phase
        /\ l.batch = run[r].batch /\ l.todo = run[r].todo
    BY LocalState DEF RunState
  <2>2. QED
    BY <2>1, <1>2, <1>3, <1>4, <1>5, LocalState DEF RunInv, IInv, TablesInv, Fetch
<1>8. QED
  BY <1>6, <1>7, LocalState, LocalStep DEF Fetch, server, tables, phase, results

-----------------------------------------------------------------------------
(* The tables.                                                             *)

\* The span of a project with listed files is real and covers each of them.
LEMMA SeenSpan ==
  ASSUME IInv, NEW r \in Triggers, NEW k \in Listed(r)
  PROVE  LET p == SeenProject(r, ProjectOf[k])
         IN p \in ProjectRow /\ p.first_seen <= run[r].listing[k]
                             /\ run[r].listing[k] <= p.last_seen
<1> DEFINE same == {j \in Listed(r) : ProjectOf[j] = ProjectOf[k]}
           seen == {run[r].listing[j] : j \in same}
<1>1. same \subseteq Keys /\ k \in same /\ \A j \in same : run[r].listing[j] # 0
  BY DEF Listed
<1>2. run[r].listing \in [Keys -> Nat]
  BY LocalState DEF RunState
<1>3. \A j \in Keys : run[r].listing[j] <= clock
  BY LocalState DEF RunInv, Past
<1>4. clock \in Nat
  BY DEF IInv, TypeOK
<1> HIDE DEF same
<1>5. /\ seen \in SUBSET (Nat \ {0}) /\ seen \in SUBSET Nat
      /\ run[r].listing[k] \in seen /\ seen # {}
      /\ \A y \in seen : y <= clock
  BY <1>1, <1>2, <1>3
<1> HIDE DEF seen
<1>6. /\ Min(seen) \in Nat \ {0} /\ Min(seen) <= run[r].listing[k]
  BY <1>5, MinOfNats
<1>7. /\ Max(seen) \in Nat \ {0} /\ run[r].listing[k] <= Max(seen)
  BY <1>4, <1>5, MaxOfNats
<1>8. run[r].paths[ProjectOf[k]] \in Markers
  BY <1>1, LocalState, ProjectAssumption DEF RunState
<1>9. SeenProject(r, ProjectOf[k]) =
        [display_name |-> run[r].paths[ProjectOf[k]],
         first_seen |-> Min(seen), last_seen |-> Max(seen)]
  BY DEF SeenProject, seen, same
<1>10. QED
  BY <1>6, <1>7, <1>8, <1>9 DEF ProjectRow

\* The upsert of a project keeps a row a row and only widens its span.
LEMMA UpsertWidens ==
  ASSUME NEW old \in ProjectRow \cup {NoProject}, NEW new \in ProjectRow
  PROVE  LET p == UpsertProject(old, new)
         IN /\ p \in ProjectRow
            /\ p.first_seen <= new.first_seen /\ new.last_seen <= p.last_seen
            /\ old # NoProject => p.first_seen <= old.first_seen
                                  /\ old.last_seen <= p.last_seen
<1>1. CASE old = NoProject
  BY <1>1 DEF UpsertProject, ProjectRow
<1>2. CASE old # NoProject
  <2>1. /\ old.first_seen \in Nat \ {0} /\ old.last_seen \in Nat \ {0}
        /\ new.first_seen \in Nat \ {0} /\ new.last_seen \in Nat \ {0}
        /\ new.display_name \in Markers
    BY <1>2 DEF ProjectRow
  <2>2. PICK f \in Nat \ {0} : /\ f = Min({old.first_seen, new.first_seen})
                               /\ f <= old.first_seen /\ f <= new.first_seen
    BY <2>1, MinOfNats
  <2>3. PICK t \in Nat \ {0} : /\ t = Max({old.last_seen, new.last_seen})
                               /\ old.last_seen <= t /\ new.last_seen <= t
    <3> DEFINE S == {old.last_seen, new.last_seen}
               b == old.last_seen + new.last_seen
    <3>1. /\ S \in SUBSET Nat /\ S # {} /\ b \in Nat
          /\ old.last_seen \in S /\ new.last_seen \in S
          /\ \A y \in S : y # 0 /\ y <= b
      BY <2>1
    <3> HIDE DEF b, S
    <3>2. Max(S) \in S /\ \A y \in S : y <= Max(S)
      BY <3>1, MaxOfNats
    <3>3. Max(S) \in Nat \ {0}
      BY <3>1, <3>2
    <3>4. QED
      BY <3>1, <3>2, <3>3 DEF S
  <2>4. UpsertProject(old, new) = [display_name |-> new.display_name,
                                   first_seen |-> f, last_seen |-> t]
    BY <1>2, <2>2, <2>3 DEF UpsertProject, ProjectRow
  <2>5. QED
    BY <2>1, <2>2, <2>3, <2>4 DEF ProjectRow
<1>3. QED
  BY <1>1, <1>2

\* A step of one run that writes tables: rows and project rows of the right
\* shape, every row within the past and not claiming to be newer than its body.
LEMMA WriteStep ==
  ASSUME IInv, NEW r \in Triggers, NEW l \in RunState, RunInv(l), Become(r, l),
         UNCHANGED <<external, last_ingest, server, faults>>,
         dirty' \in BOOLEAN,
         files' \in [Keys -> Row \cup {NoRow}],
         projects' \in [Projects -> ProjectRow \cup {NoProject}],
         \A k \in Keys : Past(k, files'[k].body) /\ files'[k].etag <= files'[k].body
  PROVE  IInv'
<1>1. TypeOK'
  <2>1. run' \in [Triggers -> RunState]
    BY DEF IInv, TypeOK, Become
  <2>2. QED
    BY <2>1 DEF IInv, TypeOK, external, server
<1>2. TablesInv'
  BY DEF IInv, TablesInv, Past, external
<1>3. ASSUME NEW s \in Triggers PROVE RunInv(run[s])'
  <2>1. run'[s] = IF s = r THEN l ELSE run[s]
    BY DEF IInv, TypeOK, Become
  <2>2. RunInv(run'[s])
    BY <2>1 DEF IInv
  <2>3. QED
    BY <2>2 DEF RunInv, Past, external
<1>4. QED
  BY <1>1, <1>2, <1>3 DEF IInv

LEMMA PersistStep ==
  ASSUME IInv, NEW r \in Triggers, NEW k \in Keys, Persist(r, k) PROVE IInv'
<1> DEFINE p == ProjectOf[k]
           batch == run[r].batch \ {k}
           phase == IF run[r].batch = {k} THEN "chunk" ELSE run[r].phase
           l == [run[r] EXCEPT !.batch = batch, !.results[k] = 0, !.changed = TRUE,
                               !.phase = phase]
           results == [run[r].results EXCEPT ![k] = 0]
<1>1. k \in run[r].batch /\ run[r].phase = "persist" /\ Become(r, l)
  BY DEF Persist
<1>2. /\ run[r].listing[k] \in Nat \ {0} /\ run[r].results[k] \in Nat \ {0}
      /\ run[r].listing[k] <= run[r].results[k] /\ Past(k, run[r].results[k])
  BY <1>1, LocalState, RunNumbers DEF RunInv
<1>3. results \in [Keys -> Nat] /\ results[k] = 0
      /\ \A j \in Keys \ {k} : results[j] = run[r].results[j]
  BY LocalState DEF RunState
<1>4. phase = IF batch = {} THEN "chunk" ELSE "persist"
  BY <1>1
<1>5. batch \subseteq run[r].batch /\ k \notin batch /\ \A j \in run[r].batch \ {k} : j \in batch
  OBVIOUS
<1> HIDE DEF batch, phase
<1>6. l \in RunState
  <2>1. /\ run[r] \in RunState /\ phase \in Phases /\ batch \in SUBSET Keys
    BY <1>4, <1>5, LocalState DEF RunState, Phases, TryPhases
  <2>2. l = [run[r] EXCEPT !.batch = batch, !.results = results, !.changed = TRUE,
                           !.phase = phase]
    OBVIOUS
  <2> HIDE DEF results, l
  <2>3. QED
    BY <1>3, <2>1, <2>2 DEF RunState
<1>7. RunInv(l)
  <2>1. /\ l.listing = run[r].listing /\ l.results = results /\ l.phase = phase
        /\ l.batch = batch /\ l.todo = run[r].todo
    BY LocalState DEF RunState
  <2>2. \A j \in Keys : Past(j, 0)
    BY DEF IInv, TypeOK, Past
  <2> HIDE DEF results, l
  <2>3. QED
    BY <1>1, <1>3, <1>4, <1>5, <2>1, <2>2, LocalState DEF RunInv, RunState
<1>8. FileRow(r, k) \in Row /\ FileRow(r, k).etag = run[r].listing[k]
      /\ FileRow(r, k).body = run[r].results[k]
  BY <1>2 DEF FileRow, Row, IInv, TypeOK
<1>9. files' \in [Keys -> Row \cup {NoRow}]
  BY <1>8 DEF Persist, IInv, TypeOK
<1>10. \A j \in Keys : Past(j, files'[j].body) /\ files'[j].etag <= files'[j].body
  <2>1. files' = [files EXCEPT ![k] = FileRow(r, k)]
    BY DEF Persist
  <2>2. \A j \in Keys : files'[j] = IF j = k THEN FileRow(r, k) ELSE files[j]
    BY <2>1 DEF IInv, TypeOK
  <2>3. QED
    BY <1>2, <1>8, <2>2 DEF IInv, TablesInv
<1>11. projects' \in [Projects -> ProjectRow \cup {NoProject}]
  <2>1. k \in Listed(r) /\ p \in Projects
    BY <1>1, <1>2, ProjectAssumption DEF Listed
  <2>2. SeenProject(r, p) \in ProjectRow /\ projects[p] \in ProjectRow \cup {NoProject}
    BY <2>1, SeenSpan DEF IInv, TypeOK
  <2>3. UpsertProject(projects[p], SeenProject(r, p)) \in ProjectRow
    BY <2>2, UpsertWidens
  <2>4. projects' = [projects EXCEPT ![p] = UpsertProject(projects[p], SeenProject(r, p))]
    BY DEF Persist
  <2>5. QED
    BY <2>3, <2>4 DEF IInv, TypeOK
<1>12. QED
  BY <1>1, <1>6, <1>7, <1>9, <1>10, <1>11, WriteStep DEF Persist

LEMMA UpsertProjectsStep == ASSUME IInv, NEW r \in Triggers, UpsertProjects(r) PROVE IInv'
<1> DEFINE l == [run[r] EXCEPT !.phase = "orphans"]
<1>1. l \in RunState
  <2>1. run[r] \in RunState /\ "orphans" \in Phases
    BY LocalState DEF Phases, TryPhases
  <2>2. QED
    BY <2>1 DEF RunState
<1>2. RunInv(l)
  BY LocalState DEF RunInv, RunState, UpsertProjects
<1>3. projects' \in [Projects -> ProjectRow \cup {NoProject}]
  <2>1. ASSUME NEW p \in Projects PROVE projects'[p] \in ProjectRow \cup {NoProject}
    <3>1. CASE \E k \in Listed(r) : ProjectOf[k] = p
      <4>1. SeenProject(r, p) \in ProjectRow /\ projects[p] \in ProjectRow \cup {NoProject}
        BY <3>1, SeenSpan DEF IInv, TypeOK
      <4>2. projects'[p] = UpsertProject(projects[p], SeenProject(r, p))
        BY <3>1 DEF UpsertProjects
      <4>3. QED
        BY <4>1, <4>2, UpsertWidens
    <3>2. CASE ~ \E k \in Listed(r) : ProjectOf[k] = p
      BY <3>2 DEF UpsertProjects, IInv, TypeOK
    <3>3. QED
      BY <3>1, <3>2
  <2>2. QED
    BY <2>1 DEF UpsertProjects
<1>4. QED
  BY <1>1, <1>2, <1>3, LocalState, WriteStep
     DEF UpsertProjects, Go, IInv, TypeOK, TablesInv

LEMMA DeleteOrphansStep == ASSUME IInv, NEW r \in Triggers, DeleteOrphans(r) PROVE IInv'
<1> DEFINE orphans == {k \in Keys \ Listed(r) : files[k] # NoRow}
           changed == run[r].changed \/ orphans # {}
           l == [Idle EXCEPT !.phase = "finish", !.changed = changed]
<1>1. changed \in BOOLEAN /\ "finish" \in Phases
  BY LocalState DEF RunState, Phases, TryPhases
<1>2. l.batch = {} /\ l.todo = {} /\ l.phase = "finish"
      /\ l.listing = Idle.listing /\ l.results = Idle.results
  BY DEF Idle
<1> HIDE DEF changed, orphans
<1>3. l \in RunState
  BY <1>1, IdleType DEF RunState
<1>4. RunInv(l)
  <2>1. RunInv(Idle) /\ Idle.batch = {}
    BY IdleInv DEF IInv, TypeOK, Idle
  <2>2. QED
    BY <1>2, <2>1 DEF RunInv
<1>5. files' \in [Keys -> Row \cup {NoRow}]
  BY DEF DeleteOrphans, IInv, TypeOK
<1>6. \A k \in Keys : Past(k, files'[k].body) /\ files'[k].etag <= files'[k].body
  <2>1. \A k \in Keys : files'[k] = files[k] \/ files'[k] = NoRow
    BY DEF DeleteOrphans
  <2>2. \A k \in Keys : Past(k, NoRow.body) /\ NoRow.etag <= NoRow.body
    BY DEF NoRow, Past, IInv, TypeOK
  <2>3. QED
    BY <2>1, <2>2 DEF IInv, TablesInv
<1>7. dirty' \in BOOLEAN
  BY LocalState DEF DeleteOrphans
<1>8. QED
  BY <1>3, <1>4, <1>5, <1>6, <1>7, WriteStep
     DEF DeleteOrphans, IInv, TypeOK, changed, orphans

-----------------------------------------------------------------------------
(* The end of a run, and failures.                                         *)

\* A run whose local state is reset, up to its phase and flags, satisfies RunInv.
LEMMA ResetState ==
  ASSUME IInv
  PROVE  LET l == [Idle EXCEPT !.phase = "finish", !.err = TRUE]
         IN /\ Idle \in RunState /\ RunInv(Idle)
            /\ l \in RunState /\ RunInv(l)
<1> DEFINE l == [Idle EXCEPT !.phase = "finish", !.err = TRUE]
<1>1. Idle \in RunState /\ RunInv(Idle)
  BY IdleType, IdleInv DEF IInv, TypeOK
<1>2. l.batch = {} /\ l.todo = {} /\ l.phase = "finish"
      /\ l.listing = Idle.listing /\ l.results = Idle.results
  BY DEF Idle
<1>3. l \in RunState
  BY <1>1 DEF RunState, Phases, TryPhases
<1>4. RunInv(l)
  BY <1>1, <1>2 DEF RunInv, Idle
<1>5. QED
  BY <1>1, <1>3, <1>4

LEMMA FinishStep == ASSUME IInv, NEW r \in Triggers, Finish(r) PROVE IInv'
<1> DEFINE l == [run[r] EXCEPT !.phase = "announce"]
<1>1. l \in RunState
  <2>1. run[r] \in RunState /\ "announce" \in Phases
    BY LocalState DEF Phases, TryPhases
  <2>2. QED
    BY <2>1 DEF RunState
<1>2. RunInv(l)
  BY LocalState DEF RunInv, RunState, Finish
<1>3. last_ingest' \in [trigger : Triggers \cup {"none"},
                       status : {"none", "running", "ok", "error"}]
  BY LocalState DEF Finish
<1>4. QED
  BY <1>1, <1>2, <1>3, LocalState, LocalStep DEF Finish, Go, server

LEMMA AnnounceStep == ASSUME IInv, NEW r \in Triggers, Announce(r) PROVE IInv'
<1>1. dirty' \in BOOLEAN
  BY LocalState DEF Announce
<1>2. QED
  BY <1>1, ResetState, LocalState, LocalStep DEF Announce, server, tables

\* Every failure winds the run up or drops it.
LEMMA FailureStep ==
  ASSUME IInv, NEW r \in Triggers,
         \/ BadMarker(r) \/ CallFails(r) \/ FinishFails(r) \/ StartFails(r)
         \/ \E k \in Keys : FetchFails(r, k)
  PROVE  IInv'
<1>1. CASE BadMarker(r)
  BY <1>1, ResetState, LocalState, LocalStep DEF BadMarker, Abort, server, tables
<1>2. CASE \E k \in Keys : FetchFails(r, k)
  BY <1>2, ResetState, LocalState, LocalStep DEF FetchFails, Abort, server, tables
<1>3. CASE CallFails(r)
  BY <1>3, ResetState, LocalState, LocalStep DEF CallFails, Abort, server, tables
<1>4. CASE FinishFails(r)
  BY <1>4, ResetState, LocalState, LocalStep DEF FinishFails, server, tables
<1>5. CASE StartFails(r)
  <2>1. Become(r, run[r])
    BY <1>5 DEF StartFails, Become, IInv, TypeOK
  <2>2. startup_due' \in BOOLEAN
    BY <1>5, LocalState DEF StartFails
  <2>3. QED
    BY <1>5, <2>1, <2>2, LocalState, LocalStep DEF StartFails, tables
<1>6. QED
  BY <1>1, <1>2, <1>3, <1>4, <1>5

LEMMA RestartStep == ASSUME IInv, Restart PROVE IInv'
<1>1. run' \in [Triggers -> RunState]
  BY IdleType DEF Restart
<1>2. parser_version' \in Nat \ {0} /\ restarts' \in Nat
  BY DEF IInv, TypeOK, Restart
<1>3. startup_due' \in BOOLEAN
  BY DEF Restart
<1>4. TypeOK'
  BY <1>1, <1>2, <1>3 DEF IInv, TypeOK, Restart, external, tables
<1>5. TablesInv'
  BY DEF IInv, TablesInv, Past, Restart, external, tables
<1>6. ASSUME NEW r \in Triggers PROVE RunInv(run[r])'
  <2>1. RunInv(run'[r])
    BY ResetState DEF Restart
  <2>2. QED
    BY <2>1 DEF RunInv, Past, Restart, external
<1>7. QED
  BY <1>4, <1>5, <1>6 DEF IInv

-----------------------------------------------------------------------------
(* The theorems.                                                           *)

LEMMA NextIInv == IInv /\ [Next]_vars => IInv'
<1> SUFFICES ASSUME IInv, [Next]_vars PROVE IInv'
  OBVIOUS
<1>1. CASE Archiver
  BY <1>1, PutStep, RemoveStep, SetMarkerStep DEF Archiver
<1>2. ASSUME NEW r \in Triggers, Start(r) PROVE IInv'
  BY <1>2, StartStep
<1>3. ASSUME NEW r \in Triggers, Step(r) PROVE IInv'
  BY <1>3, ReadExistingStep, ListPageStep, FetchMarkersStep, NextChunkStep, FetchStep,
     PersistStep, UpsertProjectsStep, DeleteOrphansStep, FinishStep, AnnounceStep,
     FailureStep DEF Step
<1>4. ASSUME NEW r \in Triggers, StartFails(r) \/ CallFails(r) \/ FinishFails(r)
      PROVE  IInv'
  BY <1>4, FailureStep
<1>5. CASE Restart
  BY <1>5, RestartStep
<1>6. CASE UNCHANGED vars
  <2>1. TypeOK'
    BY <1>6 DEF IInv, TypeOK, vars, external, tables, server
  <2>2. TablesInv' /\ \A r \in Triggers : RunInv(run[r])'
    BY <1>6 DEF IInv, TablesInv, RunInv, Past, vars, external, tables
  <2>3. QED
    BY <2>1, <2>2 DEF IInv
<1>7. QED
  BY <1>1, <1>2, <1>3, <1>4, <1>5, <1>6 DEF Next

\* Types hold however many runs overlap, calls fail and restarts cut in: no row
\* is ever stored without an etag and a body (the phases of run_ingest,
\* ingest.py:27-222, hand over only what the next one may use).
THEOREM TypeCorrect == Spec => []TypeOK
<1>1. IInv => TypeOK
  BY DEF IInv
<1>2. QED
  BY InitIInv, NextIInv, <1>1, PTL DEF Spec

\* A stale row can always be told from a fresh one by the test of
\* ingest.py:123-127, for any number of overlapping runs: the etag stored is the
\* one listed before the body was fetched, so it is never newer than the body,
\* and the live object is newer than every body fetched before it was written.
THEOREM StaleRowsDetectable == Spec => []StaleRowIsDetectable
<1>1. IInv => StaleRowIsDetectable
  <2> SUFFICES ASSUME IInv, NEW k \in Keys,
                      bucket[k] # 0, files[k].body # bucket[k]
               PROVE  files[k].etag # bucket[k]
    BY DEF StaleRowIsDetectable
  <2>1. files[k].etag <= files[k].body /\ files[k].body <= bucket[k]
    BY DEF IInv, TablesInv, Past
  <2>2. QED
    BY <2>1, Numbers DEF IInv
<1>2. QED
  BY InitIInv, NextIInv, <1>1, PTL DEF Spec

-----------------------------------------------------------------------------
(* Projects span their files.                                              *)

Covers(row, v) == row # NoProject /\ row.first_seen <= v /\ v <= row.last_seen

\* What either side of an upsert covers, the merged row covers.
LEMMA UpsertCovers ==
  ASSUME NEW old \in ProjectRow \cup {NoProject}, NEW new \in ProjectRow,
         NEW v \in Nat, Covers(old, v) \/ Covers(new, v)
  PROVE  Covers(UpsertProject(old, new), v)
<1> DEFINE row == UpsertProject(old, new)
<1>1. /\ row \in ProjectRow
      /\ row.first_seen <= new.first_seen /\ new.last_seen <= row.last_seen
      /\ old # NoProject => row.first_seen <= old.first_seen
                            /\ old.last_seen <= row.last_seen
  BY UpsertWidens
<1> HIDE DEF row
<1>2. /\ row.first_seen \in Nat /\ row.last_seen \in Nat /\ row # NoProject
      /\ new.first_seen \in Nat /\ new.last_seen \in Nat
  BY <1>1 DEF ProjectRow, NoProject
<1>3. old # NoProject => old.first_seen \in Nat /\ old.last_seen \in Nat
  BY DEF ProjectRow
<1>4. Covers(row, v)
  BY <1>1, <1>2, <1>3 DEF Covers
<1>5. QED
  BY <1>4 DEF row

\* Tables that do not change, or only lose rows of `files`, still match.
LEMMA SpansKept ==
  ASSUME ProjectSpansFiles, UNCHANGED projects,
         \A k \in Keys : files'[k] \in {files[k], NoRow}
  PROVE  ProjectSpansFiles'
BY DEF ProjectSpansFiles

LEMMA PersistSpans ==
  ASSUME IInv, ProjectSpansFiles, NEW r \in Triggers, NEW k \in Keys, Persist(r, k)
  PROVE  ProjectSpansFiles'
<1> DEFINE p == ProjectOf[k]
           seen == SeenProject(r, p)
           row == UpsertProject(projects[p], seen)
<1>1. k \in Listed(r) /\ p \in Projects /\ FileRow(r, k).etag = run[r].listing[k]
  BY LocalState, ProjectAssumption DEF Persist, RunInv, Listed, FileRow
<1>2. /\ seen \in ProjectRow /\ projects[p] \in ProjectRow \cup {NoProject}
      /\ Covers(seen, run[r].listing[k])
  BY <1>1, SeenSpan DEF IInv, TypeOK, Covers, ProjectRow, NoProject
<1>3. \A q \in Projects : projects'[q] = IF q = p THEN row ELSE projects[q]
  BY DEF Persist, IInv, TypeOK
<1>4. \A j \in Keys : files'[j] = IF j = k THEN FileRow(r, k) ELSE files[j]
  BY DEF Persist, IInv, TypeOK
<1>5. run[r].listing[k] \in Nat
  BY LocalState, RunNumbers
<1> HIDE DEF p, seen, row
<1>6. ASSUME NEW j \in Keys, files'[j] # NoRow
      PROVE  Covers(projects'[ProjectOf[j]], files'[j].etag)
  <2>1. ProjectOf[j] \in Projects /\ files[j].etag \in Nat
    BY ProjectAssumption, Numbers DEF IInv
  <2>2. CASE j = k
    <3>1. Covers(UpsertProject(projects[p], seen), run[r].listing[k])
      BY <1>2, <1>5, UpsertCovers
    <3>2. QED
      BY <1>1, <1>3, <1>4, <2>2, <3>1 DEF row, p
  <2>3. CASE j # k
    <3>1. files'[j] = files[j] /\ Covers(projects[ProjectOf[j]], files[j].etag)
      BY <1>4, <1>6, <2>3 DEF ProjectSpansFiles, Covers
    <3>2. CASE ProjectOf[j] = p
      <4>1. Covers(projects[p], files[j].etag)
        BY <3>1, <3>2
      <4>2. Covers(UpsertProject(projects[p], seen), files[j].etag)
        BY <1>2, <2>1, <4>1, UpsertCovers
      <4>3. QED
        BY <1>3, <2>1, <3>1, <3>2, <4>2 DEF row
    <3>3. CASE ProjectOf[j] # p
      BY <1>3, <2>1, <3>1, <3>3
    <3>4. QED
      BY <3>2, <3>3
  <2>4. QED
    BY <2>2, <2>3
<1>7. QED
  BY <1>6 DEF ProjectSpansFiles, Covers

LEMMA UpsertProjectsSpans ==
  ASSUME IInv, ProjectSpansFiles, NEW r \in Triggers, UpsertProjects(r)
  PROVE  ProjectSpansFiles'
<1>1. ASSUME NEW j \in Keys, files'[j] # NoRow
      PROVE  Covers(projects'[ProjectOf[j]], files'[j].etag)
  <2> DEFINE p == ProjectOf[j]
             seen == SeenProject(r, p)
  <2>1. p \in Projects /\ files[j].etag \in Nat /\ files' = files
    BY ProjectAssumption, Numbers DEF IInv, UpsertProjects
  <2>2. Covers(projects[p], files[j].etag)
    BY <1>1, <2>1 DEF ProjectSpansFiles, Covers
  <2>3. CASE \E k \in Listed(r) : ProjectOf[k] = p
    <3>1. seen \in ProjectRow /\ projects[p] \in ProjectRow \cup {NoProject}
      BY <2>1, <2>3, SeenSpan DEF IInv, TypeOK
    <3>2. projects'[p] = UpsertProject(projects[p], seen)
      BY <2>1, <2>3 DEF UpsertProjects
    <3> HIDE DEF p, seen
    <3>3. Covers(projects'[p], files[j].etag)
      BY <2>1, <2>2, <3>1, <3>2, UpsertCovers
    <3>4. QED
      BY <2>1, <3>3 DEF p
  <2>4. CASE ~ \E k \in Listed(r) : ProjectOf[k] = p
    BY <2>1, <2>2, <2>4 DEF UpsertProjects
  <2>5. QED
    BY <2>3, <2>4
<1>2. QED
  BY <1>1 DEF ProjectSpansFiles, Covers

LEMMA NextSpans == IInv /\ ProjectSpansFiles /\ [Next]_vars => ProjectSpansFiles'
<1> SUFFICES ASSUME IInv, ProjectSpansFiles, [Next]_vars PROVE ProjectSpansFiles'
  OBVIOUS
<1>1. ASSUME UNCHANGED <<files, projects>> PROVE ProjectSpansFiles'
  BY <1>1 DEF ProjectSpansFiles
<1>2. CASE Archiver \/ Restart
  BY <1>1, <1>2 DEF Archiver, Put, Remove, SetMarker, Restart, tables
<1>3. ASSUME NEW r \in Triggers,
             Start(r) \/ StartFails(r) \/ CallFails(r) \/ FinishFails(r)
      PROVE  ProjectSpansFiles'
  BY <1>1, <1>3 DEF Start, StartFails, CallFails, FinishFails, tables
<1>4. ASSUME NEW r \in Triggers, Step(r) PROVE ProjectSpansFiles'
  <2>1. CASE \E k \in Keys : Persist(r, k)
    BY <2>1, PersistSpans
  <2>2. CASE UpsertProjects(r)
    BY <2>2, UpsertProjectsSpans
  <2>3. CASE DeleteOrphans(r)
    BY <2>3, SpansKept DEF DeleteOrphans
  <2>4. CASE \/ ReadExisting(r) \/ ListPage(r) \/ FetchMarkers(r) \/ NextChunk(r)
             \/ Finish(r) \/ Announce(r) \/ BadMarker(r)
             \/ \E k \in Keys : Fetch(r, k) \/ FetchFails(r, k)
    BY <1>1, <2>4 DEF ReadExisting, ListPage, FetchMarkers, NextChunk, Finish, Announce,
                      BadMarker, Fetch, FetchFails, tables
  <2>5. QED
    BY <1>4, <2>1, <2>2, <2>3, <2>4 DEF Step
<1>5. CASE UNCHANGED vars
  BY <1>1, <1>5 DEF vars, tables
<1>6. QED
  BY <1>2, <1>3, <1>4, <1>5 DEF Next

\* The span of a project in `projects` covers the last_modified of each file stored
\* for it, whichever overlapping run wrote either last: LEAST and GREATEST
\* (ingest.py:174-179, 272-277) only ever widen the span.
THEOREM ProjectSpans == Spec => []ProjectSpansFiles
<1>1. Init => ProjectSpansFiles
  BY DEF Init, ProjectSpansFiles, NoRows
<1>2. QED
  BY InitIInv, NextIInv, NextSpans, <1>1, PTL DEF Spec

-----------------------------------------------------------------------------
(* Runs that meet no other.                                                *)

\* The listing of a run (whose local state is l) has come past key k.
Passed(l, k) ==
  \/ l.phase = "list" /\ k <= l.cursor
  \/ l.phase \in {"markers", "chunk", "fetch", "persist", "orphans"}

\* A key that was not there when the listing passed it, or the object that was
\* there, is gone for good: its row, if any, is not of the object there is by now.
Unlisted(l, rows, objects) ==
  \A k \in Keys : Passed(l, k) /\ l.listing[k] = 0 =>
    rows[k] = NoRow \/ rows[k].etag # objects[k]

\* What the plan did not put off is as it was listed.
Planned(l, rows, version) ==
  l.phase \in {"chunk", "fetch", "persist", "orphans"} =>
    \A k \in Keys : l.listing[k] # 0 =>
      \/ k \in l.todo \cup l.batch
      \/ rows[k].etag = l.listing[k] /\ rows[k].parser_version = version

\* The snapshot of `files` is still true where it is used.
Alone(l, rows, objects, version) ==
  /\ l.phase \in {"idle", "existing"} => l.cursor = 0
  /\ l.phase \in {"list", "markers"} => l.existing = rows
  /\ l.phase = "orphans" => l.todo = {}
  /\ Unlisted(l, rows, objects)
  /\ Planned(l, rows, version)

\* A run that met no other is the only one inside its try block.
AllAlone ==
  \A r \in Triggers :
    \/ run[r].met /\ InTry(r)
    \/ /\ ~run[r].met
       /\ Alone(run[r], files, bucket, parser_version)
       /\ InTry(r) => \A s \in Triggers : InTry(s) => s = r

\* The first keys of a set come before the others.
LEMMA FirstOfLower ==
  ASSUME NEW S \in SUBSET Keys, NEW n \in Nat, NEW m \in FirstOf(n, S),
         NEW k \in S, k < m
  PROVE  k \in FirstOf(n, S)
<1> DEFINE below(i) == {j \in S : j < i}
<1>1. m \in Int /\ k \in Int /\ \A j \in S : j \in Int
  BY DEF FirstOf, Keys
<1>2. below(k) \subseteq below(m)
  <2>1. ASSUME NEW j \in S, j < k PROVE j < m
    BY <1>1, <2>1
  <2>2. QED
    BY <2>1
<1>3. IsFiniteSet(Keys)
  BY NumKeysAssumption, FS_Interval DEF Keys
<1>4. IsFiniteSet(below(m))
  <2>1. below(m) \subseteq Keys
    OBVIOUS
  <2>2. QED
    BY <1>3, <2>1, FS_Subset
<1>5. /\ Cardinality(below(k)) <= Cardinality(below(m))
      /\ Cardinality(below(k)) \in Nat /\ Cardinality(below(m)) \in Nat
  BY <1>2, <1>4, FS_Subset, FS_CardinalityType
<1>6. Cardinality(below(m)) < n
  BY DEF FirstOf
<1>7. Cardinality(below(k)) < n
  BY <1>5, <1>6
<1>8. QED
  BY <1>7 DEF FirstOf

\* A step of one run: the other runs met it, or are not in their try blocks.
LEMMA OneRunStep ==
  ASSUME IInv, AllAlone, NEW r \in Triggers, NEW l \in RunState,
         Become(r, l), UNCHANGED <<bucket, parser_version>>,
         files' = files \/ InTry(r),
         l.phase \in TryPhases => InTry(r),
         IF l.met THEN run[r].met /\ l.phase \in TryPhases
         ELSE /\ Alone(l, files', bucket', parser_version')
              /\ l.phase \in TryPhases => ~run[r].met
  PROVE  AllAlone'
<1>1. \A s \in Triggers : run'[s] = IF s = r THEN l ELSE run[s]
  BY DEF IInv, TypeOK, Become
<1>2. \A s \in Triggers : InTry(s)' => InTry(s)
  BY <1>1 DEF InTry
<1>3. ASSUME NEW s \in Triggers, s # r, ~run[s].met
      PROVE  Alone(run[s], files', bucket', parser_version')
  <2>1. CASE files' = files
    BY <1>3, <2>1 DEF AllAlone
  <2>2. CASE InTry(r)
    <3>1. ~InTry(s)
      BY <1>3, <2>2 DEF AllAlone
    <3>2. run[s].phase \notin TryPhases
      BY <3>1 DEF InTry
    <3>3. run[s].phase = "idle" => run[s].cursor = 0
      BY <1>3 DEF AllAlone, Alone
    <3>4. QED
      BY <3>2, <3>3 DEF Alone, Unlisted, Planned, Passed, TryPhases
  <2>3. QED
    BY <2>1, <2>2
<1>4. ASSUME NEW s \in Triggers
      PROVE  \/ run'[s].met /\ InTry(s)'
             \/ /\ ~run'[s].met
                /\ Alone(run'[s], files', bucket', parser_version')
                /\ InTry(s)' => \A q \in Triggers : InTry(q)' => q = s
  <2>1. CASE s = r
    <3>1. run'[s] = l /\ (InTry(s)' <=> l.phase \in TryPhases)
      BY <1>1, <2>1 DEF InTry
    <3>2. CASE l.met
      BY <3>1, <3>2
    <3>3. CASE ~l.met
      <4>1. ASSUME InTry(s)' PROVE \A q \in Triggers : InTry(q) => q = s
        BY <2>1, <3>1, <3>3, <4>1 DEF AllAlone
      <4>2. QED
        BY <1>2, <3>1, <3>3, <4>1
    <3>4. QED
      BY <3>2, <3>3
  <2>2. CASE s # r
    <3>1. run'[s] = run[s] /\ (InTry(s)' <=> InTry(s))
      BY <1>1, <2>2 DEF InTry
    <3>2. CASE run[s].met
      BY <3>1, <3>2 DEF AllAlone
    <3>3. CASE ~run[s].met
      <4>1. Alone(run'[s], files', bucket', parser_version')
        BY <1>3, <2>2, <3>1, <3>3
      <4>2. InTry(s) => \A q \in Triggers : InTry(q) => q = s
        BY <3>3 DEF AllAlone
      <4>3. QED
        BY <1>2, <3>1, <3>3, <4>1, <4>2
    <3>4. QED
      BY <3>2, <3>3
  <2>3. QED
    BY <2>1, <2>2
<1>5. QED
  BY <1>4 DEF AllAlone, InTry

\* A step inside the try block: a run that met another has nothing to keep.
LEMMA WithinTry ==
  ASSUME IInv, AllAlone, NEW r \in Triggers, InTry(r), NEW l \in RunState,
         Become(r, l), UNCHANGED <<bucket, parser_version>>,
         l.phase \in TryPhases, l.met = run[r].met,
         ~run[r].met => Alone(l, files', bucket', parser_version')
  PROVE  AllAlone'
<1>1. CASE run[r].met
  BY <1>1, OneRunStep
<1>2. CASE ~run[r].met
  BY <1>2, OneRunStep
<1>3. QED
  BY <1>1, <1>2

LEMMA AloneRun ==
  ASSUME AllAlone, NEW r \in Triggers, ~run[r].met
  PROVE  Alone(run[r], files, bucket, parser_version)
BY DEF AllAlone

\* A run that is outside its try block has nothing to answer for.
LEMMA OutsideAlone ==
  ASSUME NEW l, l.phase \in {"idle", "finish", "announce"},
         l.phase = "idle" => l.cursor = 0,
         NEW rows, NEW objects, NEW version
  PROVE  Alone(l, rows, objects, version)
BY DEF Alone, Unlisted, Planned, Passed

\* A write to the bucket never restores an object that was gone.
LEMMA ArchiverAlone ==
  ASSUME IInv, AllAlone, Archiver
  PROVE  AllAlone'
<1>1. ASSUME NEW k \in Keys, files[k] # NoRow, files[k].etag # bucket[k]
      PROVE  files[k].etag # bucket'[k]
  <2>1. files[k].etag \in Nat /\ files[k].etag # 0
    BY <1>1 DEF IInv, TypeOK, Row
  <2>2. files[k].etag <= clock
    BY Numbers DEF IInv, TablesInv, Past
  <2>3. clock \in Nat /\ bucket \in [Keys -> Nat]
    BY DEF IInv, TypeOK
  <2>4. ASSUME NEW j \in Keys, Put(j) PROVE files[k].etag # bucket'[k]
    <3>1. bucket'[k] = IF k = j THEN clock + 1 ELSE bucket[k]
      BY <2>3, <2>4 DEF Put
    <3>2. QED
      BY <1>1, <2>1, <2>2, <2>3, <3>1
  <2>5. ASSUME NEW j \in Keys, Remove(j) PROVE files[k].etag # bucket'[k]
    <3>1. bucket'[k] = IF k = j THEN 0 ELSE bucket[k]
      BY <2>3, <2>5 DEF Remove
    <3>2. QED
      BY <1>1, <2>1, <3>1
  <2>6. ASSUME NEW p \in Projects, NEW m \in Markers, SetMarker(p, m)
        PROVE  files[k].etag # bucket'[k]
    BY <1>1, <2>6 DEF SetMarker
  <2>7. QED
    BY <2>4, <2>5, <2>6 DEF Archiver
<1>2. UNCHANGED <<run, files, parser_version>>
  BY DEF Archiver, Put, Remove, SetMarker, tables, server
<1>3. ASSUME NEW r \in Triggers, ~run[r].met
      PROVE  Alone(run'[r], files', bucket', parser_version')
  <2>1. Alone(run[r], files, bucket, parser_version)
    BY <1>3 DEF AllAlone
  <2>2. Unlisted(run[r], files, bucket')
    BY <1>1, <2>1 DEF Alone, Unlisted
  <2>3. QED
    BY <1>2, <2>1, <2>2 DEF Alone
<1>4. QED
  BY <1>2, <1>3 DEF AllAlone, InTry

\* A run that begins has nothing in hand, and those it meets are marked.
LEMMA StartAlone ==
  ASSUME IInv, AllAlone, NEW r \in Triggers, Start(r) PROVE AllAlone'
<1> DEFINE others == {s \in Triggers \ {r} : InTry(s)}
           began == [[run[r] EXCEPT !.phase = "existing"] EXCEPT !.met = others # {}]
           l(s) == IF s = r THEN began
                   ELSE [run[s] EXCEPT !.met = run[s].met \/ s \in others]
<1>1. /\ UNCHANGED <<bucket, files, parser_version>>
      /\ \A s \in Triggers : run[s] \in RunState
  BY LocalState DEF Start, external
<1>2. ASSUME NEW s \in Triggers PROVE run'[s] = l(s)
  BY <1>1 DEF Start, RunState
<1>3. ~InTry(r) /\ run[r].cursor = 0
  BY DEF AllAlone, Alone, Start, InTry, TryPhases
<1>4. /\ run'[r].phase = "existing" /\ run'[r].cursor = 0
      /\ run'[r].met = (others # {}) /\ InTry(r)'
  <2>1. run'[r] = began
    BY <1>2
  <2>2. began.phase = "existing" /\ began.cursor = 0 /\ began.met = (others # {})
    BY <1>1, <1>3 DEF RunState
  <2>3. QED
    BY <2>1, <2>2 DEF InTry, TryPhases
<1>5. ASSUME NEW s \in Triggers, s # r
      PROVE  /\ run'[s].met = (run[s].met \/ InTry(s))
             /\ (InTry(s)' <=> InTry(s))
             /\ run'[s].phase = run[s].phase /\ run'[s].cursor = run[s].cursor
  <2>1. run'[s] = [run[s] EXCEPT !.met = run[s].met \/ s \in others]
    BY <1>2, <1>5
  <2>2. run[s] \in RunState /\ (s \in others <=> InTry(s))
    BY <1>1, <1>5
  <2> HIDE DEF others
  <2>3. /\ run'[s].met = (run[s].met \/ s \in others)
        /\ run'[s].phase = run[s].phase /\ run'[s].cursor = run[s].cursor
    BY <2>1, <2>2 DEF RunState
  <2>4. QED
    BY <2>2, <2>3 DEF InTry
<1> HIDE DEF began, l
<1>6. ASSUME others = {}
      PROVE  /\ Alone(run'[r], files', bucket', parser_version')
             /\ \A s \in Triggers : InTry(s)' => s = r
  <2>1. Alone(run'[r], files', bucket', parser_version')
    BY <1>4 DEF Alone, Unlisted, Planned, Passed
  <2>2. QED
    BY <1>5, <1>6, <2>1
<1>7. ASSUME NEW s \in Triggers, s # r, ~run'[s].met
      PROVE  ~InTry(s)' /\ Alone(run'[s], files', bucket', parser_version')
  <2>1. ~run[s].met /\ ~InTry(s) /\ ~InTry(s)'
    BY <1>5, <1>7
  <2>2. run[s].phase = "idle" => run[s].cursor = 0
    BY <1>7, <2>1 DEF AllAlone, Alone
  <2>3. run'[s].phase \notin TryPhases
    BY <2>1 DEF InTry
  <2>4. QED
    BY <1>5, <1>7, <2>1, <2>2, <2>3 DEF Alone, Unlisted, Planned, Passed, TryPhases
<1>8. ASSUME NEW s \in Triggers, s # r, run'[s].met PROVE InTry(s)'
  BY <1>5, <1>8 DEF AllAlone
<1>9. QED
  BY <1>4, <1>6, <1>7, <1>8 DEF AllAlone, InTry

LEMMA ReadExistingAlone ==
  ASSUME IInv, AllAlone, NEW r \in Triggers, ReadExisting(r)
  PROVE  AllAlone'
<1> DEFINE l == [run[r] EXCEPT !.phase = "list", !.existing = files]
<1>1. l \in RunState
  <2>1. files \in [Keys -> Row \cup {NoRow}]
    BY DEF IInv, TypeOK
  <2>2. QED
    BY <2>1, LocalState DEF RunState, Phases, TryPhases
<1>2. /\ l.phase = "list" /\ l.existing = files
      /\ l.cursor = run[r].cursor /\ l.met = run[r].met
  BY LocalState DEF RunState
<1>3. \A k \in Keys : ~ (k <= 0)
  BY DEF Keys
<1>4. /\ UNCHANGED <<bucket, files, parser_version>> /\ Become(r, l)
      /\ run[r].phase = "existing" /\ InTry(r)
  BY DEF ReadExisting, external, tables, server, InTry, TryPhases
<1> HIDE DEF l
<1>5. ASSUME ~run[r].met PROVE Alone(l, files', bucket', parser_version')
  <2>1. l.cursor = 0
    BY <1>2, <1>4, <1>5, AloneRun DEF Alone
  <2>2. QED
    BY <1>2, <1>3, <1>4, <2>1 DEF Alone, Unlisted, Planned, Passed
<1>6. l.phase \in TryPhases
  BY <1>2 DEF TryPhases
<1>7. QED
  BY <1>1, <1>2, <1>4, <1>5, <1>6, WithinTry

\* A page lists what there is between the old cursor and the new one.
LEMMA PageComplete ==
  ASSUME NEW c \in Nat, NEW objects, NEW n \in Nat \ {0},
         NEW k \in Keys, k > c, objects[k] # 0
  PROVE  LET ahead == {j \in Keys : j > c /\ objects[j] # 0}
             page  == FirstOf(n, ahead)
         IN k \in page \/ (page # ahead /\ Max(page) \in Nat /\ k > Max(page))
<1> DEFINE ahead == {j \in Keys : j > c /\ objects[j] # 0}
           page  == FirstOf(n, ahead)
<1>1. ahead \in SUBSET Keys /\ k \in ahead
  OBVIOUS
<1> HIDE DEF ahead
<1>2. page \subseteq ahead /\ page # {}
  BY <1>1, FirstOfSome
<1>3. NumKeys \in Nat /\ page \in SUBSET Nat /\ \A j \in page : j <= NumKeys
  <2>1. \A j \in page : j \in Keys
    BY <1>1, <1>2
  <2> HIDE DEF page
  <2>2. QED
    BY <2>1, NumKeysAssumption DEF Keys
<1>4. Max(page) \in page
  BY <1>2, <1>3, MaxOfNats
<1>5. k < Max(page) => k \in page
  BY <1>1, <1>4, FirstOfLower
<1>6. k \in Nat /\ Max(page) \in Nat
  BY <1>3, <1>4 DEF Keys
<1>7. k \in page \/ k > Max(page)
  BY <1>4, <1>5, <1>6
<1>8. k \in page \/ (page # ahead /\ Max(page) \in Nat /\ k > Max(page))
  BY <1>1, <1>6, <1>7
<1>9. QED
  BY <1>8 DEF ahead

LEMMA ListPageAlone ==
  ASSUME IInv, AllAlone, NEW r \in Triggers, ListPage(r)
  PROVE  AllAlone'
<1> DEFINE ahead == {k \in Keys : k > run[r].cursor /\ bucket[k] # 0}
           page  == FirstOf(scenario.page_size, ahead)
           listing == [k \in Keys |-> IF k \in page THEN bucket[k] ELSE run[r].listing[k]]
           cursor == IF page = ahead THEN run[r].cursor ELSE Max(page)
           phase == IF page = ahead THEN "markers" ELSE "list"
           l == [run[r] EXCEPT !.listing = listing, !.cursor = cursor, !.phase = phase]
<1>1. /\ run[r] \in RunState /\ run[r].cursor \in Nat
      /\ scenario.page_size \in Nat \ {0}
  BY LocalState, ScenarioType DEF RunState, IInv, Scenario
<1>2. /\ run[r].phase = "list" /\ run' = [run EXCEPT ![r] = l] /\ Become(r, l)
      /\ UNCHANGED <<bucket, files, parser_version>> /\ InTry(r)
  BY DEF ListPage, Become, external, tables, server, InTry, TryPhases
<1>3. run' \in [Triggers -> RunState]
  BY ListPageStep DEF IInv, TypeOK
<1>4. run'[r] = l /\ l \in RunState
  <2>1. run'[r] = l
    BY <1>2 DEF IInv, TypeOK
  <2>2. run'[r] \in RunState
    BY <1>3
  <2>3. QED
    BY <2>1, <2>2
<1>5. ASSUME ~run[r].met, NEW k \in Keys, listing[k] = 0, Passed(run'[r], k)
      PROVE  files[k] = NoRow \/ files[k].etag # bucket[k]
  <2>1. k \notin ahead \/ k \notin page
    BY <1>5
  <2>2. run[r].listing[k] = 0 \/ k \in page
    BY <1>5
  <2>3. CASE bucket[k] = 0
    BY <2>3 DEF IInv, TypeOK, Row
  <2>4. CASE bucket[k] # 0
    <3>1. k \notin page
      BY <1>5, <2>4
    <3>2. CASE k <= run[r].cursor
      <4>1. Passed(run[r], k) /\ run[r].listing[k] = 0
        BY <1>2, <2>2, <3>1, <3>2 DEF Passed
      <4>2. QED
        BY <1>5, <4>1, AloneRun DEF Alone, Unlisted
    <3>3. CASE k > run[r].cursor
      <4>1. page # ahead /\ Max(page) \in Nat /\ k > Max(page)
        BY <1>1, <2>4, <3>1, <3>3, PageComplete
      <4>2. phase = "list" /\ cursor = Max(page)
        BY <4>1
      <4>3. run'[r].phase = phase /\ run'[r].cursor = cursor
        <5> HIDE DEF phase, cursor, listing
        <5>1. QED
          BY <1>1, <1>4 DEF RunState
      <4> HIDE DEF phase, cursor, page, ahead
      <4>4. k <= Max(page)
        BY <1>5, <4>2, <4>3 DEF Passed
      <4>5. k \in Nat
        BY DEF Keys
      <4>6. QED
        BY <4>1, <4>4, <4>5
    <3>4. k \in Nat
      BY DEF Keys
    <3>5. QED
      BY <1>1, <3>2, <3>3, <3>4
  <2>5. QED
    BY <2>3, <2>4
<1>6. phase \in {"list", "markers"}
  OBVIOUS
<1> HIDE DEF phase, cursor, listing
<1>7. /\ l.listing = listing /\ l.phase = phase
      /\ l.existing = run[r].existing /\ l.met = run[r].met
  BY <1>1 DEF RunState
<1>8. ASSUME ~run[r].met PROVE Unlisted(l, files, bucket)
  BY <1>4, <1>5, <1>7, <1>8 DEF Unlisted
<1> HIDE DEF l
<1>9. ASSUME ~run[r].met PROVE Alone(l, files', bucket', parser_version')
  <2>1. l.existing = files
    BY <1>2, <1>7, <1>9, AloneRun DEF Alone
  <2>2. QED
    BY <1>2, <1>6, <1>7, <1>8, <1>9, <2>1 DEF Alone, Planned
<1>10. l.phase \in TryPhases
  BY <1>6, <1>7 DEF TryPhases
<1>11. QED
  BY <1>2, <1>4, <1>7, <1>9, <1>10, WithinTry

LEMMA FetchMarkersAlone ==
  ASSUME IInv, AllAlone, NEW r \in Triggers, FetchMarkers(r)
  PROVE  AllAlone'
<1> DEFINE todo == {k \in Listed(r) : NeedsReparse(r, k)}
           l == [run[r] EXCEPT !.paths = marker, !.todo = todo,
                               !.existing = NoRows, !.phase = "chunk"]
<1>1. run[r] \in RunState /\ run[r].phase = "markers" /\ InTry(r)
  BY LocalState DEF FetchMarkers, InTry, TryPhases
<1>2. ASSUME ~run[r].met, NEW k \in Keys, run[r].listing[k] # 0, k \notin todo
      PROVE  /\ files[k].etag = run[r].listing[k]
             /\ files[k].parser_version = parser_version
  <2>1. run[r].existing = files
    BY <1>1, <1>2, AloneRun DEF Alone
  <2>2. QED
    BY <1>2, <2>1 DEF Listed, NeedsReparse
<1>3. todo \subseteq Keys
  BY DEF Listed
<1>4. UNCHANGED <<bucket, files, parser_version>> /\ Become(r, l)
  BY DEF FetchMarkers, external, tables, server
<1> HIDE DEF todo
<1>5. l \in RunState
  <2>1. marker \in [Projects -> Markers] /\ "chunk" \in Phases
    BY DEF IInv, TypeOK, Phases, TryPhases
  <2>2. NoRows \in [Keys -> Row \cup {NoRow}]
    BY DEF NoRows
  <2>3. todo \in SUBSET Keys
    BY <1>3
  <2>4. QED
    BY <1>1, <2>1, <2>2, <2>3 DEF RunState
<1>6. /\ l.phase = "chunk" /\ l.listing = run[r].listing /\ l.todo = todo
      /\ l.met = run[r].met
  BY <1>1 DEF RunState
<1> HIDE DEF l
<1>7. ASSUME ~run[r].met PROVE Alone(l, files', bucket', parser_version')
  <2>1. Unlisted(run[r], files, bucket)
    BY <1>7, AloneRun DEF Alone
  <2>2. Unlisted(l, files, bucket)
    BY <1>1, <1>6, <2>1 DEF Unlisted, Passed
  <2>3. Planned(l, files, parser_version)
    BY <1>2, <1>6, <1>7 DEF Planned
  <2>4. QED
    BY <1>4, <1>6, <2>2, <2>3 DEF Alone
<1>8. l.phase \in TryPhases
  BY <1>6 DEF TryPhases
<1>9. QED
  BY <1>1, <1>4, <1>5, <1>6, <1>7, <1>8, WithinTry

\* A run goes on with its plan: what it listed stays, and nothing leaves the plan.
LEMMA PlanKept ==
  ASSUME IInv, AllAlone, NEW r \in Triggers, NEW l \in RunState,
         run[r].phase \in {"chunk", "fetch", "persist"},
         l.phase \in {"chunk", "fetch", "persist", "orphans"},
         l.listing = run[r].listing, l.met = run[r].met,
         run[r].todo \cup run[r].batch \subseteq l.todo \cup l.batch,
         l.phase = "orphans" => l.todo = {},
         Become(r, l), UNCHANGED <<bucket, files, parser_version>>
  PROVE  AllAlone'
<1>1. ASSUME ~run[r].met PROVE Alone(l, files, bucket, parser_version)
  <2>1. Alone(run[r], files, bucket, parser_version)
    BY <1>1, AloneRun
  <2>2. Unlisted(l, files, bucket)
    BY <2>1 DEF Alone, Unlisted, Passed
  <2>3. Planned(l, files, parser_version)
    BY <2>1 DEF Alone, Planned
  <2>4. QED
    BY <2>2, <2>3 DEF Alone
<1>2. InTry(r) /\ l.phase \in TryPhases
  BY DEF InTry, TryPhases
<1>3. QED
  BY <1>1, <1>2, WithinTry

LEMMA NextChunkAlone ==
  ASSUME IInv, AllAlone, NEW r \in Triggers, NextChunk(r)
  PROVE  AllAlone'
<1> DEFINE chunk == FirstOf(ChunkSize, run[r].todo)
           l == [run[r] EXCEPT !.todo = run[r].todo \ chunk, !.batch = chunk,
                               !.phase = "fetch"]
<1>1. chunk \subseteq run[r].todo
  BY DEF FirstOf
<1>2. /\ UNCHANGED <<bucket, files, parser_version>> /\ Become(r, l)
      /\ run[r].phase = "chunk" /\ run[r].batch = {}
  BY LocalState DEF NextChunk, RunInv, external, tables, server
<1> HIDE DEF chunk
<1>3. l \in RunState
  BY <1>1, LocalState DEF RunState, Phases, TryPhases
<1>4. /\ l.phase = "fetch" /\ l.listing = run[r].listing /\ l.met = run[r].met
      /\ l.todo = run[r].todo \ chunk /\ l.batch = chunk
  BY LocalState DEF RunState
<1> HIDE DEF l
<1>5. run[r].todo \cup run[r].batch \subseteq l.todo \cup l.batch
  BY <1>1, <1>2, <1>4
<1>6. QED
  BY <1>2, <1>3, <1>4, <1>5, PlanKept

LEMMA FetchAlone ==
  ASSUME IInv, AllAlone, NEW r \in Triggers, NEW k \in Keys, Fetch(r, k)
  PROVE  AllAlone'
<1> DEFINE phase == IF \A j \in run[r].batch \ {k} : run[r].results[j] # 0
                    THEN "persist" ELSE "fetch"
           results == [run[r].results EXCEPT ![k] = bucket[k]]
           l == [run[r] EXCEPT !.results = results, !.phase = phase]
<1>1. results \in [Keys -> Nat] /\ phase \in {"fetch", "persist"}
  BY LocalState DEF RunState, IInv, TypeOK
<1>2. /\ UNCHANGED <<bucket, files, parser_version>> /\ Become(r, l)
      /\ run[r].phase = "fetch"
  BY DEF Fetch, external, tables, server
<1> HIDE DEF phase, results
<1>3. l \in RunState
  BY <1>1, LocalState DEF RunState, Phases, TryPhases
<1>4. /\ l.phase = phase /\ l.listing = run[r].listing /\ l.met = run[r].met
      /\ l.todo = run[r].todo /\ l.batch = run[r].batch
  BY LocalState DEF RunState
<1> HIDE DEF l
<1>5. QED
  BY <1>1, <1>2, <1>3, <1>4, PlanKept

\* The row written is of the listed object and by this parser, and its key is a
\* listed one: nothing is said of the others.
LEMMA PersistAlone ==
  ASSUME IInv, AllAlone, NEW r \in Triggers, NEW k \in Keys, Persist(r, k)
  PROVE  AllAlone'
<1> DEFINE phase == IF run[r].batch = {k} THEN "chunk" ELSE run[r].phase
           results == [run[r].results EXCEPT ![k] = 0]
           l == [run[r] EXCEPT !.batch = run[r].batch \ {k}, !.results = results,
                               !.changed = TRUE, !.phase = phase]
<1>1. /\ run[r].phase = "persist" /\ k \in run[r].batch /\ Become(r, l)
      /\ UNCHANGED <<bucket, parser_version>>
  BY DEF Persist, external, server
<1>2. phase \in {"chunk", "persist"} /\ results \in [Keys -> Nat]
  BY <1>1, LocalState DEF RunState
<1>3. /\ files'[k].etag = run[r].listing[k]
      /\ files'[k].parser_version = parser_version
      /\ \A j \in Keys : j # k => files'[j] = files[j]
  <2>1. files' = [files EXCEPT ![k] = FileRow(r, k)]
    BY DEF Persist
  <2>2. QED
    BY <2>1 DEF IInv, TypeOK, FileRow
<1>4. run[r].listing[k] # 0
  BY <1>1, LocalState DEF RunInv
<1> HIDE DEF phase, results
<1>5. l \in RunState
  BY <1>2, LocalState DEF RunState, Phases, TryPhases
<1>6. /\ l.phase = phase /\ l.listing = run[r].listing /\ l.met = run[r].met
      /\ l.todo = run[r].todo /\ l.batch = run[r].batch \ {k}
  BY LocalState DEF RunState
<1> HIDE DEF l
<1>7. ASSUME ~run[r].met PROVE Alone(run[r], files, bucket, parser_version)
  BY <1>7, AloneRun
<1>8. ASSUME ~run[r].met PROVE Unlisted(l, files', bucket')
  BY <1>1, <1>2, <1>3, <1>4, <1>6, <1>7, <1>8 DEF Alone, Unlisted, Passed
<1>9. ASSUME ~run[r].met PROVE Planned(l, files', parser_version')
  <2>1. SUFFICES ASSUME NEW j \in Keys, l.listing[j] # 0, j \notin l.todo \cup l.batch
                 PROVE  /\ files'[j].etag = l.listing[j]
                        /\ files'[j].parser_version = parser_version
    BY <1>1 DEF Planned
  <2>2. CASE j = k
    BY <1>3, <1>6, <2>2
  <2>3. CASE j # k
    BY <1>1, <1>3, <1>6, <1>7, <1>9, <2>1, <2>3 DEF Alone, Planned
  <2>4. QED
    BY <2>2, <2>3
<1>10. ASSUME ~run[r].met PROVE Alone(l, files', bucket', parser_version')
  BY <1>2, <1>6, <1>8, <1>9, <1>10 DEF Alone
<1>11. InTry(r) /\ l.phase \in TryPhases
  BY <1>1, <1>2, <1>6 DEF InTry, TryPhases
<1>12. QED
  BY <1>1, <1>5, <1>6, <1>10, <1>11, WithinTry

LEMMA UpsertProjectsAlone ==
  ASSUME IInv, AllAlone, NEW r \in Triggers, UpsertProjects(r)
  PROVE  AllAlone'
<1> DEFINE l == [run[r] EXCEPT !.phase = "orphans"]
<1>1. /\ UNCHANGED <<bucket, files, parser_version>> /\ Become(r, l)
      /\ run[r].phase = "chunk" /\ run[r].todo = {}
  BY DEF UpsertProjects, Go, external, server
<1>2. l \in RunState
  <2>1. run[r] \in RunState /\ "orphans" \in Phases
    BY LocalState DEF Phases, TryPhases
  <2>2. QED
    BY <2>1 DEF RunState
<1>3. /\ l.phase = "orphans" /\ l.listing = run[r].listing /\ l.met = run[r].met
      /\ l.todo = run[r].todo /\ l.batch = run[r].batch
  BY LocalState DEF RunState
<1> HIDE DEF l
<1>4. QED
  BY <1>1, <1>2, <1>3, PlanKept

\* A run that ends its try block, by success or by failure, or that ends.
LEMMA LeaveAlone ==
  ASSUME IInv, AllAlone, NEW r \in Triggers,
         \/ DeleteOrphans(r) \/ Finish(r) \/ Announce(r)
         \/ BadMarker(r) \/ CallFails(r) \/ FinishFails(r)
         \/ \E k \in Keys : FetchFails(r, k)
  PROVE  AllAlone'
<1>1. CASE DeleteOrphans(r)
  <2> DEFINE changed == run[r].changed \/ {k \in Keys \ Listed(r) : files[k] # NoRow} # {}
             l == [Idle EXCEPT !.phase = "finish", !.changed = changed]
  <2>1. Become(r, l) /\ InTry(r) /\ UNCHANGED <<bucket, parser_version>>
    BY <1>1 DEF DeleteOrphans, InTry, TryPhases, external, server
  <2>2. changed \in BOOLEAN /\ "finish" \in Phases
    BY LocalState DEF RunState, Phases, TryPhases
  <2> HIDE DEF changed
  <2>3. l \in RunState /\ l.phase = "finish" /\ ~l.met
    BY <2>2, IdleType DEF RunState, Idle
  <2> HIDE DEF l
  <2>4. Alone(l, files', bucket', parser_version')
    BY <2>3, OutsideAlone
  <2>5. QED
    BY <2>1, <2>3, <2>4, OneRunStep DEF TryPhases
<1>2. CASE Finish(r)
  <2> DEFINE l == [run[r] EXCEPT !.phase = "announce"]
  <2>1. l \in RunState /\ l.phase = "announce" /\ l.met = run[r].met
    BY LocalState DEF RunState, Phases, TryPhases
  <2>2. /\ Become(r, l) /\ UNCHANGED <<bucket, files, parser_version>>
        /\ run[r].phase = "finish"
    BY <1>2 DEF Finish, Go, external, server
  <2> HIDE DEF l
  <2>3. Alone(l, files', bucket', parser_version')
    BY <2>1, OutsideAlone
  <2>4. ~run[r].met
    BY <2>2 DEF AllAlone, InTry, TryPhases
  <2>5. QED
    BY <2>1, <2>2, <2>3, <2>4, OneRunStep DEF TryPhases
<1>3. CASE Announce(r) \/ FinishFails(r)
  <2>1. /\ Become(r, Idle) /\ UNCHANGED <<bucket, files, parser_version>>
    BY <1>3 DEF Announce, FinishFails, external, tables, server
  <2>2. Alone(Idle, files', bucket', parser_version') /\ ~Idle.met /\ Idle.phase = "idle"
    BY OutsideAlone DEF Idle
  <2>3. QED
    BY <2>1, <2>2, IdleType, OneRunStep DEF TryPhases
<1>4. CASE BadMarker(r) \/ CallFails(r) \/ \E k \in Keys : FetchFails(r, k)
  <2> DEFINE l == [Idle EXCEPT !.phase = "finish", !.err = TRUE]
  <2>1. /\ Become(r, l) /\ UNCHANGED <<bucket, files, parser_version>>
    BY <1>4 DEF BadMarker, CallFails, FetchFails, Abort, external, tables, server
  <2>2. l \in RunState /\ l.phase = "finish" /\ ~l.met
    BY ResetState DEF Idle
  <2> HIDE DEF l
  <2>3. Alone(l, files', bucket', parser_version')
    BY <2>2, OutsideAlone
  <2>4. QED
    BY <2>1, <2>2, <2>3, OneRunStep DEF TryPhases
<1>5. QED
  BY <1>1, <1>2, <1>3, <1>4

LEMMA NextAlone == IInv /\ AllAlone /\ [Next]_vars => AllAlone'
<1> SUFFICES ASSUME IInv, AllAlone, [Next]_vars PROVE AllAlone'
  OBVIOUS
<1>1. CASE Archiver
  BY <1>1, ArchiverAlone
<1>2. ASSUME NEW r \in Triggers, Start(r) PROVE AllAlone'
  BY <1>2, StartAlone
<1>3. ASSUME NEW r \in Triggers, Step(r) PROVE AllAlone'
  BY <1>3, ReadExistingAlone, ListPageAlone, FetchMarkersAlone, NextChunkAlone,
     FetchAlone, PersistAlone, UpsertProjectsAlone, LeaveAlone DEF Step
<1>4. ASSUME NEW r \in Triggers, CallFails(r) \/ FinishFails(r) PROVE AllAlone'
  BY <1>4, LeaveAlone
<1>5. ASSUME UNCHANGED <<run, files, bucket, parser_version>> PROVE AllAlone'
  BY <1>5 DEF AllAlone, InTry
<1>6. ASSUME NEW r \in Triggers, StartFails(r) PROVE AllAlone'
  BY <1>5, <1>6 DEF StartFails, external, tables
<1>7. CASE Restart
  <2>1. /\ Alone(Idle, files', bucket', parser_version')
        /\ ~Idle.met /\ Idle.phase \notin TryPhases
    BY OutsideAlone DEF Idle, TryPhases
  <2>2. \A r \in Triggers : run'[r] = Idle
    BY <1>7 DEF Restart
  <2>3. QED
    BY <2>1, <2>2 DEF AllAlone, InTry
<1>8. CASE UNCHANGED vars
  BY <1>5, <1>8 DEF vars, external, tables, server
<1>9. QED
  BY <1>1, <1>2, <1>3, <1>4, <1>6, <1>7, <1>8 DEF Next

LEMMA InitAlone == Init => AllAlone
<1>1. /\ Alone(Idle, files, bucket, parser_version)
      /\ ~Idle.met /\ Idle.phase \notin TryPhases
  BY OutsideAlone DEF Idle, TryPhases
<1>2. QED
  BY <1>1 DEF Init, AllAlone, InTry

\* ingest.py:27-222, for any number of keys, workers, faults, restarts and upgrades
\* of the parser: a run that met no other and gets through its try block leaves in
\* `files` exactly what it listed, though the bucket moves while it lists, fetches and
\* writes, and whatever runs overlapped before it or begin after it.
THEOREM RunsMirror == Spec => SuccessMeansMirrored
<1> DEFINE Leaves(r) == \A k \in Keys :
                          IF k \in Listed(r)
                          THEN /\ files'[k].etag = run[r].listing[k]
                               /\ files'[k].parser_version = parser_version
                          ELSE files'[k] = NoRow
<1>1. ASSUME IInv, AllAlone, NEW r \in Triggers, DeleteOrphans(r), ~run[r].met
      PROVE  Leaves(r)
  <2>1. run[r].batch = {} /\ run[r].todo = {} /\ run[r].phase = "orphans"
    BY <1>1, LocalState, AloneRun DEF RunInv, DeleteOrphans, Alone
  <2>2. Planned(run[r], files, parser_version)
    BY <1>1, AloneRun DEF Alone
  <2>3. ASSUME NEW k \in Keys, k \in Listed(r)
        PROVE  /\ files'[k].etag = run[r].listing[k]
               /\ files'[k].parser_version = parser_version
    <3>1. files'[k] = files[k]
      BY <1>1, <2>3 DEF DeleteOrphans
    <3>2. QED
      BY <2>1, <2>2, <2>3, <3>1 DEF Planned, Listed
  <2>4. ASSUME NEW k \in Keys, k \notin Listed(r) PROVE files'[k] = NoRow
    BY <1>1, <2>4 DEF DeleteOrphans
  <2>5. QED
    BY <2>3, <2>4
<1>2. IInv /\ AllAlone /\ [Next]_vars
        => [\A r \in Triggers : DeleteOrphans(r) /\ ~run[r].met => Leaves(r)]_vars
  BY <1>1
<1>3. QED
  BY InitIInv, NextIInv, InitAlone, NextAlone, <1>2, PTL DEF Spec, SuccessMeansMirrored

\* ingest.py:8 and 200-207, for any number of keys, runs, faults and restarts: the
\* orphans that a run deletes are orphans, unless it met another run.  A row that
\* describes the object in the bucket stays, whatever the archiver did since the key
\* was listed.
THEOREM LiveRowsKept == Spec => LiveRowsStay
<1> DEFINE Stays == \A k \in Keys : files[k] # NoRow /\ files'[k] = NoRow =>
                      \/ files[k].etag # bucket[k]
                      \/ \E r \in Triggers : DeleteOrphans(r) /\ run[r].met
<1>1. ASSUME UNCHANGED files PROVE Stays
  BY <1>1
<1>2. ASSUME IInv, NEW r \in Triggers, NEW j \in Keys, Persist(r, j) PROVE Stays
  <2>1. FileRow(r, j) # NoRow
    <3>1. run[r].listing[j] # 0
      BY <1>2, LocalState DEF RunInv, Persist
    <3>2. QED
      BY <3>1 DEF FileRow, NoRow
  <2>2. \A k \in Keys : files'[k] = IF k = j THEN FileRow(r, j) ELSE files[k]
    BY <1>2 DEF Persist, IInv, TypeOK
  <2>3. QED
    BY <2>1, <2>2
<1>3. ASSUME IInv, AllAlone, NEW r \in Triggers, DeleteOrphans(r) PROVE Stays
  <2>1. CASE run[r].met
    BY <1>3, <2>1
  <2>2. CASE ~run[r].met
    <3>1. Unlisted(run[r], files, bucket) /\ run[r].phase = "orphans"
      BY <1>3, <2>2, AloneRun DEF Alone, DeleteOrphans
    <3>2. \A k \in Keys : files[k] # NoRow /\ files'[k] = NoRow => run[r].listing[k] = 0
      BY <1>3 DEF DeleteOrphans, Listed
    <3>3. QED
      BY <3>1, <3>2 DEF Unlisted, Passed
  <2>3. QED
    BY <2>1, <2>2
<1>4. ASSUME IInv, AllAlone, Next PROVE Stays
  <2>1. CASE Archiver \/ Restart
    BY <1>1, <2>1 DEF Archiver, Put, Remove, SetMarker, Restart, tables
  <2>2. ASSUME NEW r \in Triggers,
               Start(r) \/ StartFails(r) \/ CallFails(r) \/ FinishFails(r)
        PROVE  Stays
    BY <1>1, <2>2 DEF Start, StartFails, CallFails, FinishFails, tables
  <2>3. ASSUME NEW r \in Triggers, Step(r) PROVE Stays
    <3>1. CASE (\E k \in Keys : Persist(r, k)) \/ DeleteOrphans(r)
      BY <1>2, <1>3, <1>4, <3>1
    <3>2. CASE \/ ReadExisting(r) \/ ListPage(r) \/ FetchMarkers(r) \/ NextChunk(r)
               \/ UpsertProjects(r) \/ Finish(r) \/ Announce(r) \/ BadMarker(r)
               \/ \E k \in Keys : Fetch(r, k) \/ FetchFails(r, k)
      BY <1>1, <3>2 DEF ReadExisting, ListPage, FetchMarkers, NextChunk, UpsertProjects,
                        Finish, Announce, BadMarker, Fetch, FetchFails, tables
    <3>3. QED
      BY <2>3, <3>1, <3>2 DEF Step
  <2>4. QED
    BY <1>4, <2>1, <2>2, <2>3 DEF Next
<1>5. IInv /\ AllAlone /\ [Next]_vars => [Stays]_vars
  BY <1>4
<1>6. QED
  BY InitIInv, NextIInv, InitAlone, NextAlone, <1>5, PTL DEF Spec, LiveRowsStay

=============================================================================
