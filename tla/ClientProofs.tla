--------------------------- MODULE ClientProofs ---------------------------
(***************************************************************************)
(* The tab: what it shows (DashClient), and what it hears of ingest runs   *)
(* (LiveUpdates), each for any values of its constants.  The two share no  *)
(* variable.                                                               *)
(*                                                                         *)
(* The invariant of the first says of the requests under way what the      *)
(* properties say of the answers: the newest request of a chart is for     *)
(* what is selected (NewestIsCurrent), and a chart on the page has been    *)
(* answered, has failed or has such a request (NoneForgotten).  What the    *)
(* cache page has failed it shows (ErrorsShow).  Every action ends in      *)
(* Rerender, so each part is proved once, for Rerender, and the actions    *)
(* only have to say what they hand to it.                                  *)
(***************************************************************************)
EXTENDS DashClient, LiveUpdates, SequenceTheorems, TLAPS

NewestIsCurrent ==
  \A r \in flight : r.what \in Charts /\ r.newest => Mounted(r.what) /\ r.key = Query(r.what)

NoneForgotten ==
  network = "ordered" =>
    \A f \in Charts : Mounted(f) =>
      \/ (settled[f] \/ f \in failed) /\ \A r \in flight : r.what # f
      \/ \E r \in flight : r.what = f /\ r.newest

ErrorsShow == IF "view" \in failed THEN view.err.status = "error" ELSE view.err = Nothing

IInv == TypeOK /\ NewestIsCurrent /\ SettledAnswersSelection /\ NoneForgotten /\ ErrorsShow

-----------------------------------------------------------------------------
(* Queries and dependencies.                                               *)

LEMMA QueryType ==
  ASSUME activeProject \in Projects \cup {None}, activeRange \in Ranges,
         activeModel \in Models \cup {None}, dashNonce \in 0 .. MaxRuns, NEW f
  PROVE  Query(f) \in Keys
<1>1. (IF f = "panel" THEN activeModel ELSE None) \in Models \cup {None}
  OBVIOUS
<1>2. (IF f = "view" THEN 0 ELSE dashNonce) \in 0 .. MaxRuns
  BY ClientAssumption
<1> QED BY <1>1, <1>2 DEF Query, Keys

\* What the URL of a chart's request depends on is in its dependency list.
LEMMA QueryFollowsDeps ==
  ASSUME NEW f \in Charts, Mounted(f)', ~Fetches(f)
  PROVE  Mounted(f) /\ Query(f)' = Query(f)
<1>1. Mounted(f) /\ Deps(f)' = Deps(f)
  BY DEF Fetches
<1>2. CASE f = "dashboard"
  BY <1>1, <1>2 DEF Deps, Query
<1>3. CASE f = "panel"
  BY <1>1, <1>3 DEF Deps, Query
<1>4. CASE f = "view"
  BY <1>1, <1>4 DEF Deps, Query, selection
<1> QED BY <1>1, <1>2, <1>3, <1>4 DEF Charts

-----------------------------------------------------------------------------
(* Rerender.                                                               *)

LEMMA RerenderType ==
  ASSUME NEW p \in Answers, NEW v \in [data : Answers, err : Answers],
         NEW m \in Models \cup {None}, NEW rest, NEW done, NEW bad,
         rest \subseteq [what : Fetchers, key : Keys, newest : BOOLEAN],
         activeProject' \in Projects \cup {None}, activeRange' \in Ranges,
         dashNonce' \in 0 .. MaxRuns, bad \subseteq Charts, Rerender(p, v, m, rest, done, bad)
  PROVE  /\ activeModel' \in Models \cup {None} /\ panel' \in Answers
         /\ view' \in [data : Answers, err : Answers]
         /\ flight' \subseteq [what : Fetchers, key : Keys, newest : BOOLEAN]
         /\ settled' \in [Charts -> BOOLEAN] /\ failed' \subseteq Charts
<1>1. Nothing \in Answers
  BY DEF Nothing, Answers
<1>2. activeModel' \in Models \cup {None}
  BY DEF Rerender
<1>3. panel' \in Answers
  BY <1>1 DEF Rerender
<1>4. view' \in [data : Answers, err : Answers]
  BY <1>1 DEF Rerender
<1>5. ASSUME NEW f PROVE Query(f)' \in Keys
  <2>1. (IF f = "panel" THEN activeModel' ELSE None) \in Models \cup {None}
    BY <1>2
  <2>2. (IF f = "view" THEN 0 ELSE dashNonce') \in 0 .. MaxRuns
    BY ClientAssumption
  <2> QED BY <2>1, <2>2 DEF Query, Keys
<1>6. ASSUME NEW r \in flight' PROVE r \in [what : Fetchers, key : Keys, newest : BOOLEAN]
  <2>1. CASE \E q \in rest : r = [q EXCEPT !.newest = @ /\ ~Fetches(q.what)]
    <3>1. PICK q \in rest : r = [q EXCEPT !.newest = @ /\ ~Fetches(q.what)]
      BY <2>1
    <3>2. (q.newest /\ ~Fetches(q.what)) \in BOOLEAN
      OBVIOUS
    <3> HIDE DEF Fetches
    <3> QED BY <3>1, <3>2
  <2>2. CASE \E f \in Fetchers : r = Request(f, Query(f)')
    BY <1>5, <2>2 DEF Request
  <2> QED BY <1>6, <2>1, <2>2 DEF Rerender
<1>7. settled' \in [Charts -> BOOLEAN] /\ failed' \subseteq Charts
  BY DEF Rerender
<1> QED BY <1>2, <1>3, <1>4, <1>6, <1>7

\* The newest request of a chart is for what is selected: what goes on with unchanged
\* dependencies still is, and what is sent now is.
LEMMA RerenderFresh ==
  ASSUME NEW p, NEW v, NEW m, NEW rest, NEW done, NEW bad, rest \subseteq flight,
         flight \subseteq [what : Fetchers, key : Keys, newest : BOOLEAN],
         NewestIsCurrent, Rerender(p, v, m, rest, done, bad)
  PROVE  NewestIsCurrent'
<1> SUFFICES ASSUME NEW r \in flight', r.what \in Charts, r.newest
             PROVE  Mounted(r.what)' /\ r.key = Query(r.what)'
  BY DEF NewestIsCurrent
<1>1. CASE \E q \in rest : Mounted(q.what)' /\ r = [q EXCEPT !.newest = @ /\ ~Fetches(q.what)]
  <2>1. PICK q \in rest : Mounted(q.what)' /\ r = [q EXCEPT !.newest = @ /\ ~Fetches(q.what)]
    BY <1>1
  <2> HIDE DEF Fetches
  <2>2. q.newest /\ ~Fetches(q.what) /\ r.what = q.what /\ r.key = q.key
    BY <2>1
  <2>3. q.key = Query(q.what)
    BY <2>2 DEF NewestIsCurrent
  <2>4. Query(q.what)' = Query(q.what)
    BY <2>1, <2>2, QueryFollowsDeps
  <2> QED BY <2>1, <2>2, <2>3, <2>4
<1>2. CASE \E f \in Fetchers : Fetches(f) /\ r = Request(f, Query(f)')
  BY <1>2 DEF Request, Fetches
<1> QED BY <1>1, <1>2 DEF Rerender

\* A settled chart holds the answer for what is selected.
LEMMA RerenderSettled ==
  ASSUME NEW p, NEW v, NEW m, NEW rest, NEW done, NEW bad, Rerender(p, v, m, rest, done, bad),
         done["dashboard"] => Query("dashboard") = backendDash'.key,
         done["panel"] => Query("panel") = p.key,
         done["view"] => Query("view") \in {v.data.key, v.err.key}
  PROVE  SettledAnswersSelection'
<1> SUFFICES ASSUME NEW f \in Charts, settled'[f]
             PROVE  /\ Mounted(f)'
                    /\ Query(f)' \in {Data(f)'.key} \cup IF f = "view" THEN {view'.err.key} ELSE {}
  BY DEF SettledAnswersSelection
<1>1. done[f] /\ Mounted(f)' /\ ~Fetches(f)
  BY DEF Rerender
<1>2. Query(f)' = Query(f)
  BY <1>1, QueryFollowsDeps
<1>3. CASE f = "dashboard"
  BY <1>1, <1>2, <1>3 DEF Data
<1>4. CASE f = "panel"
  BY <1>1, <1>2, <1>4 DEF Data, Rerender
<1>5. CASE f = "view"
  <2>1. view' = v
    BY <1>1, <1>5 DEF Rerender
  <2> QED BY <1>1, <1>2, <1>5, <2>1 DEF Data
<1> QED BY <1>3, <1>4, <1>5 DEF Charts

\* What the cache page has failed it shows.
LEMMA RerenderErrors ==
  ASSUME NEW p, NEW v, NEW m, NEW rest, NEW done, NEW bad, Rerender(p, v, m, rest, done, bad),
         IF "view" \in bad THEN v.err.status = "error" ELSE v.err = Nothing
  PROVE  ErrorsShow'
<1>1. CASE Fetches("view") \/ ~Mounted("view")'
  <2>1. "view" \notin failed' /\ view'.err = Nothing
    BY <1>1 DEF Rerender
  <2> QED BY <2>1 DEF ErrorsShow, Nothing
<1>2. CASE ~Fetches("view") /\ Mounted("view")'
  <2>1. ("view" \in failed' <=> "view" \in bad) /\ view' = v
    BY <1>2 DEF Rerender
  <2> QED BY <2>1 DEF ErrorsShow, Nothing
<1> QED BY <1>1, <1>2

\* A chart on the page is answered, has failed or waits for its newest request.
LEMMA RerenderWaits ==
  ASSUME NEW p, NEW v, NEW m, NEW rest, NEW done, NEW bad,
         rest \subseteq [what : Fetchers, key : Keys, newest : BOOLEAN],
         Rerender(p, v, m, rest, done, bad),
         network' = "ordered" =>
           \A f \in Charts : Mounted(f) =>
             \/ (done[f] \/ f \in bad) /\ \A r \in rest : r.what # f
             \/ \E r \in rest : r.what = f /\ r.newest
  PROVE  NoneForgotten'
<1> SUFFICES ASSUME network' = "ordered"
             PROVE  \A f \in Charts : Mounted(f)' =>
                      \/ (settled'[f] \/ f \in failed') /\ \A r \in flight' : r.what # f
                      \/ \E r \in flight' : r.what = f /\ r.newest
  BY DEF NoneForgotten
<1>2. ASSUME NEW f \in Charts, Mounted(f)'
      PROVE  \/ (settled'[f] \/ f \in failed') /\ \A r \in flight' : r.what # f
             \/ \E r \in flight' : r.what = f /\ r.newest
  <2>1. CASE Fetches(f)
    <3>1. Request(f, Query(f)') \in flight'
      BY <2>1 DEF Rerender, Charts, Fetchers
    <3> QED BY <3>1 DEF Request
  <2>2. CASE ~Fetches(f)
    <3>1. Mounted(f)
      BY <1>2, <2>2, QueryFollowsDeps
    <3>2. CASE (done[f] \/ f \in bad) /\ \A r \in rest : r.what # f
      <4>1. settled'[f] \/ f \in failed'
        BY <1>2, <2>2, <3>2 DEF Rerender
      <4>2. ASSUME NEW r \in flight' PROVE r.what # f
        <5>1. CASE \E q \in rest : r = [q EXCEPT !.newest = @ /\ ~Fetches(q.what)]
          <6> HIDE DEF Fetches
          <6> QED BY <3>2, <5>1
        <5>2. CASE \E g \in Fetchers : Fetches(g) /\ r = Request(g, Query(g)')
          BY <2>2, <5>2 DEF Request
        <5> QED BY <4>2, <5>1, <5>2 DEF Rerender
      <4> QED BY <4>1, <4>2
    <3>3. CASE \E r \in rest : r.what = f /\ r.newest
      <4>1. PICK r \in rest : r.what = f /\ r.newest
        BY <3>3
      <4>2. [r EXCEPT !.newest = @ /\ ~Fetches(r.what)] \in flight'
        BY <1>2, <4>1 DEF Rerender
      <4> HIDE DEF Fetches
      <4>3. /\ [r EXCEPT !.newest = @ /\ ~Fetches(r.what)].what = f
            /\ [r EXCEPT !.newest = @ /\ ~Fetches(r.what)].newest
        BY <2>2, <4>1
      <4> QED BY <4>2, <4>3
    <3> QED BY <3>1, <3>2, <3>3
  <2> QED BY <2>1, <2>2
<1> QED BY <1>2

-----------------------------------------------------------------------------
(* The invariant.                                                          *)

\* What Rerender does not set.
Frame ==
  /\ cookie \in {"user", "guest", "expired"} /\ network \in {"ordered", "any"}
  /\ isGuest \in BOOLEAN /\ useSynth \in BOOLEAN /\ route \in Routes
  /\ activeProject \in Projects \cup {None} /\ activeRange \in Ranges
  /\ dashNonce \in 0 .. MaxRuns /\ tx \in Sessions \cup {None}
  /\ projects \subseteq Projects /\ backendDash \in Answers
  /\ loads \subseteq [how : {"open", "drop", "merge"}, what : Sessions]
  /\ clicks \in 0 .. MaxClicks

LEMMA InitInv == Init => IInv
<1> SUFFICES ASSUME Init PROVE IInv
  OBVIOUS
<1>1. /\ Nothing \in Answers
      /\ None \in Projects \cup {None} /\ "all" \in Ranges /\ None \in Models \cup {None}
      /\ 0 \in 0 .. MaxRuns /\ 0 \in 0 .. MaxClicks
  BY ClientAssumption DEF Nothing, Answers
<1>2. \A r \in flight : \E f \in Fetchers : Mounted(f) /\ r = Request(f, Query(f))
  BY DEF Init
<1>3. flight \subseteq [what : Fetchers, key : Keys, newest : BOOLEAN]
  <2>1. \A f : Query(f) \in Keys
    BY <1>1, QueryType DEF Init
  <2>2. ASSUME NEW r \in flight
        PROVE  r \in [what : Fetchers, key : Keys, newest : BOOLEAN]
    <3>1. PICK f \in Fetchers : r = Request(f, Query(f))
      BY <1>2
    <3>2. Query(f) \in Keys
      BY <2>1
    <3>3. TRUE \in BOOLEAN
      OBVIOUS
    <3> QED BY <3>1, <3>2, <3>3 DEF Request
  <2> QED BY <2>2
<1>4. TypeOK
  <2>1. cookie \in {"user", "guest", "expired"} /\ network \in {"ordered", "any"}
    BY DEF Init
  <2>2. isGuest \in BOOLEAN /\ useSynth \in BOOLEAN
    BY DEF Init
  <2>3. settled \in [Charts -> BOOLEAN] /\ failed \subseteq Charts
    BY DEF Init
  <2>4. view \in [data : Answers, err : Answers]
    BY <1>1 DEF Init
  <2>5. route \in Routes /\ tx \in Sessions \cup {None} /\ projects \subseteq Projects
    BY DEF Init, Routes
  <2>6. loads \subseteq [how : {"open", "drop", "merge"}, what : Sessions]
    BY DEF Init
  <2>7. /\ activeProject \in Projects \cup {None} /\ activeRange \in Ranges
        /\ activeModel \in Models \cup {None} /\ dashNonce \in 0 .. MaxRuns
        /\ clicks \in 0 .. MaxClicks /\ backendDash \in Answers /\ panel \in Answers
    BY <1>1 DEF Init
  <2> QED BY <1>3, <2>1, <2>2, <2>3, <2>4, <2>5, <2>6, <2>7 DEF TypeOK
<1>5. NewestIsCurrent
  BY <1>2 DEF NewestIsCurrent, Request
<1>6. SettledAnswersSelection
  BY DEF Init, SettledAnswersSelection
<1>7. NoneForgotten
  <2>2. ASSUME NEW f \in Charts, Mounted(f) PROVE \E r \in flight : r.what = f /\ r.newest
    <3>1. Request(f, Query(f)) \in flight
      BY <2>2 DEF Init, Charts, Fetchers
    <3> QED BY <3>1 DEF Request
  <2> QED BY <2>2 DEF NoneForgotten
<1>8. ErrorsShow
  BY DEF Init, ErrorsShow
<1> QED BY <1>4, <1>5, <1>6, <1>7, <1>8 DEF IInv

\* A step that delivers nothing to a chart: the user's clicks, a run announced, a
\* transcript read, a list received.
LEMMA QuietStep ==
  ASSUME IInv, Frame', NEW m \in Models \cup {None}, NEW rest, rest \subseteq flight,
         \A r \in flight : r.what \in Charts => r \in rest,
         UNCHANGED <<cookie, network, backendDash>>,
         Rerender(panel, view, m, rest, settled, failed)
  PROVE  IInv'
<1>1. /\ panel \in Answers /\ view \in [data : Answers, err : Answers]
      /\ flight \subseteq [what : Fetchers, key : Keys, newest : BOOLEAN]
      /\ rest \subseteq [what : Fetchers, key : Keys, newest : BOOLEAN]
      /\ failed \subseteq Charts
  BY DEF IInv, TypeOK
<1>2. TypeOK'
  <2>1. activeProject' \in Projects \cup {None} /\ activeRange' \in Ranges /\ dashNonce' \in 0 .. MaxRuns
    BY DEF Frame
  <2>2. /\ activeModel' \in Models \cup {None} /\ panel' \in Answers
        /\ view' \in [data : Answers, err : Answers]
        /\ flight' \subseteq [what : Fetchers, key : Keys, newest : BOOLEAN]
        /\ settled' \in [Charts -> BOOLEAN] /\ failed' \subseteq Charts
    BY <1>1, <2>1, RerenderType
  <2> QED BY <2>2 DEF TypeOK, Frame
<1>3. NewestIsCurrent'
  BY <1>1, RerenderFresh DEF IInv
<1>4. SettledAnswersSelection'
  <2>1. SettledAnswersSelection
    BY DEF IInv
  <2>2. settled["dashboard"] => Query("dashboard") = backendDash'.key
    BY <2>1 DEF SettledAnswersSelection, Charts, Data
  <2>3. settled["panel"] => Query("panel") = panel.key
    BY <2>1 DEF SettledAnswersSelection, Charts, Data
  <2>4. settled["view"] => Query("view") \in {view.data.key, view.err.key}
    BY <2>1 DEF SettledAnswersSelection, Charts, Data
  <2> QED BY <2>2, <2>3, <2>4, RerenderSettled
<1>5. NoneForgotten'
  <2>1. network' = "ordered" =>
          \A f \in Charts : Mounted(f) =>
            \/ (settled[f] \/ f \in failed) /\ \A r \in rest : r.what # f
            \/ \E r \in rest : r.what = f /\ r.newest
    BY DEF IInv, NoneForgotten
  <2> QED BY <1>1, <2>1, RerenderWaits
<1>6. ErrorsShow'
  BY RerenderErrors DEF IInv, ErrorsShow
<1> QED BY <1>2, <1>3, <1>4, <1>5, <1>6 DEF IInv

\* An answer of a chart.
LEMMA DeliverStep ==
  ASSUME IInv, NEW r \in flight, r.what \in Charts, NEW status \in Outcomes(r.what),
         Deliver(r, status)
  PROVE  IInv'
<1> DEFINE body == [status |-> status, key |-> r.key]
           p == IF r.what = "panel" /\ status # "lost" THEN body ELSE panel
           v == IF r.what # "view" THEN view
                  ELSE IF status = "error" THEN [view EXCEPT !.err = body]
                  ELSE [view EXCEPT !.data = body]
           rest == flight \ {r}
           done == [settled EXCEPT ![r.what] = IF status = "lost" THEN @ ELSE r.newest]
           misses == status \in {"lost", "error"} /\ (r.newest \/ r.what = "view")
           bad == IF misses THEN failed \cup {r.what} ELSE failed
<1>1. Rerender(p, v, activeModel, rest, done, bad)
  BY DEF Deliver
<1>2. /\ TypeOK /\ r.key \in Keys /\ r.newest \in BOOLEAN
      /\ rest \subseteq [what : Fetchers, key : Keys, newest : BOOLEAN]
      /\ panel \in Answers /\ view \in [data : Answers, err : Answers]
      /\ settled \in [Charts -> BOOLEAN] /\ activeModel \in Models \cup {None}
      /\ bad \subseteq Charts
  BY DEF IInv, TypeOK
<1>3. /\ status \in {"lost", "rows", "blank", "error"}
      /\ r.what = "view" => status \in {"rows", "error"}
      /\ r.what # "view" => status # "error"
  BY <1>2 DEF Outcomes, Charts, TypeOK
<1>4. status # "lost" => body \in Answers
  BY <1>2, <1>3 DEF Answers, Statuses
<1>5. p \in Answers
  BY <1>2, <1>4
<1>6. v \in [data : Answers, err : Answers]
  BY <1>2, <1>3, <1>4
<1>7. backendDash' = IF r.what = "dashboard" /\ status # "lost" THEN body ELSE backendDash
  BY DEF Deliver
<1>8. UNCHANGED <<cookie, network, isGuest, route, activeProject, activeRange, dashNonce, tx,
                  useSynth, projects, loads, clicks>>
  BY DEF Deliver
<1>9. network = "ordered" /\ r.newest => \A q \in flight \ {r} : q.what # r.what
  BY DEF Deliver
<1>10. done = [settled EXCEPT ![r.what] = IF status = "lost" THEN @ ELSE r.newest]
  OBVIOUS
<1>16. ErrorsShow'
  <2>1. IF "view" \in bad THEN v.err.status = "error" ELSE v.err = Nothing
    <3>1. IF "view" \in failed THEN view.err.status = "error" ELSE view.err = Nothing
      BY DEF IInv, ErrorsShow
    <3>2. CASE r.what = "view" /\ status = "error"
      BY <1>2, <3>2
    <3>3. CASE r.what = "view" /\ status # "error"
      BY <1>2, <1>3, <3>1, <3>3
    <3>4. CASE r.what # "view"
      BY <3>1, <3>4
    <3> QED BY <3>2, <3>3, <3>4
  <2> HIDE DEF p, v, bad, rest, done
  <2> QED BY <1>1, <2>1, RerenderErrors
<1>17. \A f \in failed : f \in bad
  OBVIOUS
<1>18. status = "lost" /\ r.newest => r.what \in bad
  OBVIOUS
<1> HIDE DEF done, rest, bad
<1>11. TypeOK'
  <2>1. backendDash' \in Answers
    BY <1>2, <1>4, <1>7 DEF TypeOK
  <2>2. activeProject' \in Projects \cup {None} /\ activeRange' \in Ranges /\ dashNonce' \in 0 .. MaxRuns
    BY <1>2, <1>8 DEF TypeOK
  <2> HIDE DEF p, v
  <2>3. /\ activeModel' \in Models \cup {None} /\ panel' \in Answers
        /\ view' \in [data : Answers, err : Answers]
        /\ flight' \subseteq [what : Fetchers, key : Keys, newest : BOOLEAN]
        /\ settled' \in [Charts -> BOOLEAN] /\ failed' \subseteq Charts
    BY <1>1, <1>2, <1>5, <1>6, <2>2, RerenderType
  <2> QED BY <1>2, <1>8, <2>1, <2>3 DEF TypeOK
<1>12. NewestIsCurrent'
  <2> HIDE DEF p, v
  <2>1. rest \subseteq flight /\ NewestIsCurrent
    BY DEF rest, IInv
  <2>2. flight \subseteq [what : Fetchers, key : Keys, newest : BOOLEAN]
    BY <1>2 DEF TypeOK
  <2> QED BY <1>1, <2>1, <2>2, RerenderFresh
<1>13. r.newest => r.key = Query(r.what)
  BY DEF IInv, NewestIsCurrent
<1>14. SettledAnswersSelection'
  <2>1. SettledAnswersSelection
    BY DEF IInv
  <2>2. \A f \in Charts : done[f] => IF f = r.what /\ status # "lost" THEN r.newest ELSE settled[f]
    BY <1>2, <1>10
  <2>3. done["dashboard"] => Query("dashboard") = backendDash'.key
    <3>1. CASE r.what = "dashboard" /\ status # "lost"
      BY <1>7, <1>13, <2>2, <3>1 DEF Charts
    <3>2. CASE ~(r.what = "dashboard" /\ status # "lost")
      BY <1>7, <2>1, <2>2, <3>2 DEF Charts, SettledAnswersSelection, Data
    <3> QED BY <3>1, <3>2
  <2>4. done["panel"] => Query("panel") = p.key
    <3>1. CASE r.what = "panel" /\ status # "lost"
      BY <1>13, <2>2, <3>1 DEF Charts
    <3>2. CASE ~(r.what = "panel" /\ status # "lost")
      BY <2>1, <2>2, <3>2 DEF Charts, SettledAnswersSelection, Data
    <3> QED BY <3>1, <3>2
  <2>5. done["view"] => Query("view") \in {v.data.key, v.err.key}
    <3>1. CASE r.what = "view"
      BY <1>2, <1>3, <1>13, <2>2, <3>1 DEF Charts
    <3>2. CASE r.what # "view"
      BY <2>1, <2>2, <3>2 DEF Charts, SettledAnswersSelection, Data
    <3> QED BY <3>1, <3>2
  <2> HIDE DEF p, v
  <2> QED BY <1>1, <2>3, <2>4, <2>5, RerenderSettled
<1>15. NoneForgotten'
  <2>1. ASSUME network' = "ordered"
        PROVE  \A f \in Charts : Mounted(f) =>
                 \/ (done[f] \/ f \in bad) /\ \A q \in rest : q.what # f
                 \/ \E q \in rest : q.what = f /\ q.newest
    <3>1. /\ network = "ordered"
          /\ \A f \in Charts : Mounted(f) =>
               \/ (settled[f] \/ f \in failed) /\ \A q \in flight : q.what # f
               \/ \E q \in flight : q.what = f /\ q.newest
      BY <1>8, <2>1 DEF IInv, NoneForgotten
    <3>3. ASSUME NEW f \in Charts, Mounted(f)
          PROVE  \/ (done[f] \/ f \in bad) /\ \A q \in rest : q.what # f
                 \/ \E q \in rest : q.what = f /\ q.newest
      <4>1. CASE f # r.what
        <5>1. done[f] = settled[f]
          BY <1>2, <1>10, <4>1
        <5> QED BY <1>17, <3>1, <3>3, <4>1, <5>1 DEF rest
      <4>2. CASE f = r.what /\ r.newest
        <5>1. done[f] \/ f \in bad
          BY <1>2, <1>10, <1>18, <4>2
        <5> QED BY <1>9, <3>1, <4>2, <5>1 DEF rest
      <4>3. CASE f = r.what /\ ~r.newest
        BY <3>1, <3>3, <4>3 DEF rest
      <4> QED BY <1>2, <4>1, <4>2, <4>3
    <3> QED BY <3>3
  <2> HIDE DEF p, v
  <2> QED BY <1>1, <1>2, <2>1, RerenderWaits
<1> QED BY <1>11, <1>12, <1>14, <1>15, <1>16 DEF IInv

LEMMA StepInv == IInv /\ [Next]_vars => IInv'
<1> SUFFICES ASSUME IInv, [Next]_vars PROVE IInv'
  OBVIOUS
<1>1. TypeOK /\ Frame
  BY DEF IInv, TypeOK, Frame
<1>2. /\ activeModel \in Models \cup {None}
      /\ flight \subseteq flight /\ \A r \in flight : r.what \in Charts => r \in flight
  BY <1>1 DEF TypeOK
<1>3. Click => clicks' \in 0 .. MaxClicks
  BY <1>1, ClientAssumption DEF Click, Frame
<1>4. ASSUME NEW r \in Ranges, SelectRange(r) PROVE IInv'
  <2>1. Frame' /\ UNCHANGED <<cookie, network, backendDash>>
    BY <1>1, <1>3, <1>4 DEF SelectRange, Frame
  <2> QED BY <1>2, <1>4, <2>1, QuietStep DEF SelectRange, Same
<1>5. ASSUME NEW p \in Projects \cup {None}, SelectProject(p) PROVE IInv'
  <2>1. Frame' /\ UNCHANGED <<cookie, network, backendDash>>
    BY <1>1, <1>3, <1>5 DEF SelectProject, Frame
  <2> QED BY <1>2, <1>5, <2>1, QuietStep DEF SelectProject, Same
<1>6. ASSUME NEW m \in Models \cup {None}, SelectModel(m) PROVE IInv'
  <2>1. Frame' /\ UNCHANGED <<cookie, network, backendDash>>
    BY <1>1, <1>3, <1>6 DEF SelectModel, Frame
  <2> QED BY <1>2, <1>6, <2>1, QuietStep DEF SelectModel
<1>7. ASSUME NEW to \in Routes, Navigate(to) PROVE IInv'
  <2>1. Frame' /\ UNCHANGED <<cookie, network, backendDash>>
    BY <1>1, <1>3, <1>7 DEF Navigate, Frame
  <2> QED BY <1>2, <1>7, <2>1, QuietStep DEF Navigate, Same
<1>8. ASSUME NEW how \in {"open", "drop", "merge"}, NEW s \in Sessions, Load(how, s) PROVE IInv'
  <2>1. loads' \subseteq [how : {"open", "drop", "merge"}, what : Sessions]
    BY <1>1, <1>8 DEF Load, Frame
  <2>2. Frame' /\ UNCHANGED <<cookie, network, backendDash>>
    BY <1>1, <1>3, <1>8, <2>1 DEF Load, Frame
  <2> QED BY <1>2, <1>8, <2>2, QuietStep DEF Load, Same
<1>9. CASE IngestDone
  <2>1. dashNonce' \in 0 .. MaxRuns
    BY <1>1, <1>9, ClientAssumption DEF IngestDone, Frame
  <2>2. Frame' /\ UNCHANGED <<cookie, network, backendDash>>
    BY <1>1, <1>9, <2>1 DEF IngestDone, Frame
  <2> QED BY <1>2, <1>9, <2>2, QuietStep DEF IngestDone, Same
<1>10. ASSUME NEW l \in loads, Loaded(l) PROVE IInv'
  <2>1. /\ tx' \in Sessions \cup {None} /\ useSynth' \in BOOLEAN /\ route' \in Routes
        /\ loads' \subseteq loads
    BY <1>1, <1>10 DEF Loaded, StatsDefined, Frame
  <2>2. Frame' /\ UNCHANGED <<cookie, network, backendDash>>
    BY <1>1, <1>10, <2>1 DEF Loaded, Frame
  <2> QED BY <1>2, <1>10, <2>2, QuietStep DEF Loaded, Same
<1>11. ASSUME NEW r \in flight, Listed(r) PROVE IInv'
  <2>1. isGuest' \in BOOLEAN
    BY <1>1, <1>11 DEF Listed, Frame
  <2>2. projects' \subseteq Projects
    BY <1>1, <1>11 DEF Listed, Frame
  <2>3. Frame' /\ UNCHANGED <<cookie, network, backendDash>>
    BY <1>1, <1>11, <2>1, <2>2 DEF Listed, Frame
  <2>4. /\ flight \ {r} \subseteq flight
        /\ \A q \in flight : q.what \in Charts => q \in flight \ {r}
    BY <1>11 DEF Listed
  <2> QED BY <1>2, <1>11, <2>3, <2>4, QuietStep DEF Listed
<1>12. ASSUME NEW r \in flight, Answered(r) PROVE IInv'
  BY <1>12, DeliverStep DEF Answered
<1>13. CASE CookieExpires \/ UNCHANGED vars
  <2>1. cookie' \in {"expired", cookie}
    BY <1>13 DEF CookieExpires, vars
  <2>2. UNCHANGED <<network, isGuest, route, activeProject, activeRange, dashNonce, tx, useSynth,
                    projects, backendDash, activeModel, panel, view, flight, loads, settled, failed, clicks>>
    BY <1>13 DEF CookieExpires, vars
  <2>3. TypeOK'
    BY <1>1, <2>1, <2>2 DEF TypeOK
  <2>4. \A f : Query(f)' = Query(f) /\ Mounted(f)' = Mounted(f)
    BY <2>2 DEF Query, Mounted, dashData
  <2>5. NewestIsCurrent'
    BY <2>2, <2>4 DEF IInv, NewestIsCurrent
  <2>6. SettledAnswersSelection'
    BY <2>2, <2>4 DEF IInv, SettledAnswersSelection, Data
  <2>7. NoneForgotten' /\ ErrorsShow'
    BY <2>2, <2>4 DEF IInv, NoneForgotten, ErrorsShow, Nothing
  <2> QED BY <2>3, <2>5, <2>6, <2>7 DEF IInv
<1> QED BY <1>4, <1>5, <1>6, <1>7, <1>8, <1>9, <1>10, <1>11, <1>12, <1>13 DEF Next, Replies

LEMMA Inductive == Spec => []IInv
BY InitInv, StepInv, PTL DEF Spec

-----------------------------------------------------------------------------
\* Everything the tab holds has the form the render functions take.
THEOREM TypeCorrect == Spec => []TypeOK
<1>1. IInv => TypeOK
  BY DEF IInv
<1> QED BY Inductive, <1>1, PTL

\* No change of a filter, of the page or of a mounted panel, and no ingest run, goes by
\* without a request: what the newest one brought is for what is selected.
THEOREM SettledShowsSelection == Spec => []SettledAnswersSelection
<1>1. IInv => SettledAnswersSelection
  BY DEF IInv
<1> QED BY Inductive, <1>1, PTL

\* Where the requests of a chart end in their order, a chart that waits for nothing shows
\* what is selected, unless its newest request failed; the cache page then, and after the
\* failure of an older request, shows an error and no other rows.
THEOREM QuietIsCurrent == Spec => []QuietShowsSelection
<1>1. IInv => QuietShowsSelection
  <2> SUFFICES ASSUME IInv, network = "ordered", NEW f \in Charts, Mounted(f),
                      \A r \in flight : r.what # f
               PROVE  \/ Shown(f).key = Query(f)
                      \/ f \in failed /\ (f = "view" => Shown(f).status = "error")
    BY DEF QuietShowsSelection
  <2>1. settled[f] \/ f \in failed
    BY DEF IInv, NoneForgotten
  <2>2. CASE f \in failed
    <3>1. f = "view" => view.err.status = "error"
      BY <2>2 DEF IInv, ErrorsShow
    <3>2. f = "view" => Shown(f).status = "error"
      <4>1. Nothing.status # "error"
        BY DEF Nothing, None
      <4> QED BY <3>1, <4>1 DEF Shown
    <3> QED BY <2>2, <3>2
  <2>3. CASE f \notin failed
    <3>1. settled[f] /\ (f = "view" => view.err = Nothing)
      BY <2>1, <2>3 DEF IInv, ErrorsShow
    <3>2. Query(f) \in {Data(f).key} \cup IF f = "view" THEN {view.err.key} ELSE {}
      BY <3>1 DEF IInv, SettledAnswersSelection
    <3>3. Query(f) # Nothing.key
      BY DEF Query, Nothing
    <3>4. Query(f) = Data(f).key
      BY <3>1, <3>2, <3>3
    <3> QED BY <3>1, <3>4 DEF Shown
  <2> QED BY <2>2, <2>3
<1> QED BY Inductive, <1>1, PTL

-----------------------------------------------------------------------------
(* LiveUpdates: the inductive invariant.                                   *)

\* A tab that listens to no request has been told nothing it could still miss.
LiveInv == LiveTypeOK /\ SubscribersRun /\ AnnouncedIsOnItsWay /\ (es = 0 => ~told)

LEMMA InitLiveInv == LiveInit => LiveInv
<1> SUFFICES ASSUME LiveInit PROVE LiveInv
  OBVIOUS
<1>1. queue \in [Conns -> 0 .. QueueSize] /\ wire \in [Conns -> Nat]
  BY SizesAssumption DEF LiveInit
<1>2. gen \in [Conns -> {"none", "new", "top", "wait", "closed"}]
  BY DEF LiveInit
<1>3. LiveTypeOK
  <2>1. callbacks \in Seq(SUBSET Conns) /\ subscribers \subseteq Conns /\ es \in Conns \cup {0}
    BY DEF LiveInit
  <2>2. commits \in Nat /\ unannounced \in Nat
    BY DEF LiveInit
  <2>3. /\ shutdown \in BOOLEAN /\ due \in BOOLEAN
        /\ told \in BOOLEAN /\ current \in BOOLEAN
    BY DEF LiveInit
  <2>4. QED
    BY <1>1, <1>2, <2>1, <2>2, <2>3 DEF LiveTypeOK
<1>4. SubscribersRun /\ AnnouncedIsOnItsWay /\ (es = 0 => ~told)
  BY DEF LiveInit, SubscribersRun, AnnouncedIsOnItsWay
<1>5. QED
  BY <1>3, <1>4 DEF LiveInv

\* Appending the targets of a broadcast keeps those that are scheduled before it.
LEMMA AppendTargets ==
  ASSUME NEW s \in Seq(SUBSET Conns), NEW t \in SUBSET Conns
  PROVE  LET u == Append(s, t)
         IN /\ u \in Seq(SUBSET Conns)
            /\ \E i \in DOMAIN u : u[i] = t
            /\ \A i \in DOMAIN s : i \in DOMAIN u /\ u[i] = s[i]
OBVIOUS

\* The callbacks but the first are those that are left when it has run.
LEMMA TailTargets ==
  ASSUME NEW s \in Seq(SUBSET Conns), s # <<>>
  PROVE  /\ Tail(s) \in Seq(SUBSET Conns) /\ Head(s) \in SUBSET Conns
         /\ \A i \in DOMAIN s : i = 1 \/ (i - 1 \in DOMAIN Tail(s) /\ Tail(s)[i - 1] = s[i])
         /\ s[1] = Head(s)
OBVIOUS

-----------------------------------------------------------------------------
(* One step.                                                               *)

LEMMA CommitStep == ASSUME LiveInv, Commit PROVE LiveInv'
<1>1. LiveTypeOK'
  <2>1. commits' \in Nat /\ unannounced' \in Nat
    BY DEF LiveInv, LiveTypeOK, Commit
  <2>2. current' \in BOOLEAN
    BY Zenon DEF Commit
  <2>3. QED
    BY <2>1, <2>2 DEF LiveInv, LiveTypeOK, Commit, hub, streams
<1>2. SubscribersRun' /\ AnnouncedIsOnItsWay' /\ (es' = 0 => ~told')
  BY DEF LiveInv, SubscribersRun, AnnouncedIsOnItsWay, Commit, hub, streams
<1>3. QED
  BY <1>1, <1>2 DEF LiveInv

LEMMA BroadcastStep == ASSUME LiveInv, Broadcast PROVE LiveInv'
<1>1. callbacks' = Append(callbacks, subscribers) /\ callbacks \in Seq(SUBSET Conns)
      /\ subscribers \in SUBSET Conns
  BY DEF LiveInv, LiveTypeOK, Broadcast
<1>2. /\ callbacks' \in Seq(SUBSET Conns)
      /\ \E i \in DOMAIN callbacks' : callbacks'[i] = subscribers
      /\ \A i \in DOMAIN callbacks : i \in DOMAIN callbacks' /\ callbacks'[i] = callbacks[i]
  BY <1>1, AppendTargets
<1>3. LiveTypeOK' /\ SubscribersRun'
  BY <1>2 DEF LiveInv, LiveTypeOK, SubscribersRun, Broadcast, streams
<1>4. AnnouncedIsOnItsWay'
  BY <1>2 DEF LiveInv, AnnouncedIsOnItsWay, Broadcast, streams
<1>5. es' = 0 => ~told'
  BY ConnsAssumption DEF LiveInv, LiveTypeOK, Broadcast, streams
<1>6. QED
  BY <1>3, <1>4, <1>5 DEF LiveInv

LEMMA PutAllStep == ASSUME LiveInv, PutAll PROVE LiveInv'
<1>1. /\ callbacks' = Tail(callbacks)
      /\ Tail(callbacks) \in Seq(SUBSET Conns) /\ callbacks[1] = Head(callbacks)
      /\ \A i \in DOMAIN callbacks : i = 1 \/ (/\ i - 1 \in DOMAIN Tail(callbacks)
                                               /\ Tail(callbacks)[i - 1] = callbacks[i])
  BY TailTargets DEF LiveInv, LiveTypeOK, PutAll
<1>2. queue' \in [Conns -> 0 .. QueueSize]
  BY SizesAssumption DEF LiveInv, LiveTypeOK, PutAll
<1>3. LiveTypeOK' /\ SubscribersRun' /\ (es' = 0 => ~told')
  BY <1>1, <1>2 DEF LiveInv, LiveTypeOK, SubscribersRun, PutAll, ingest, streams, history
<1>4. ASSUME told, ~shutdown PROVE AnnouncedIsOnItsWay'
  <2>1. es \in Conns
    BY <1>4 DEF LiveInv, LiveTypeOK
  <2>2. CASE es \in Head(callbacks)
    <3>1. queue'[es] > 0
      BY <2>1, <2>2, SizesAssumption DEF LiveInv, LiveTypeOK, PutAll
    <3>2. QED
      BY <3>1 DEF AnnouncedIsOnItsWay, PutAll, streams
  <2>3. CASE es \notin Head(callbacks)
    <3>1. queue'[es] = queue[es]
      BY <2>1, <2>3 DEF PutAll
    <3>2. (\E i \in DOMAIN callbacks : es \in callbacks[i])
            => \E i \in DOMAIN callbacks' : es \in callbacks'[i]
      BY <1>1, <2>3
    <3>3. QED
      BY <1>4, <3>1, <3>2 DEF LiveInv, AnnouncedIsOnItsWay, PutAll, streams
  <2>4. QED
    BY <2>2, <2>3
<1>5. AnnouncedIsOnItsWay'
  BY <1>4 DEF AnnouncedIsOnItsWay, PutAll, history
<1>6. QED
  BY <1>3, <1>5 DEF LiveInv

LEMMA SignalShutdownStep == ASSUME LiveInv, SignalShutdown PROVE LiveInv'
BY DEF LiveInv, LiveTypeOK, SubscribersRun, AnnouncedIsOnItsWay, SignalShutdown, ingest, streams,
       history

\* The generator of request c, whichever way it goes.
LEMMA GeneratorStep ==
  ASSUME LiveInv, NEW c \in Conns, Loop(c) \/ Heartbeat(c) \/ Cancel(c) PROVE LiveInv'
<1>1. CASE Subscribe(c)
  <2>1. LiveTypeOK' /\ SubscribersRun'
    BY <1>1 DEF LiveInv, LiveTypeOK, SubscribersRun, Subscribe, ingest, history
  <2>2. AnnouncedIsOnItsWay' /\ (es' = 0 => ~told')
    BY <1>1 DEF LiveInv, AnnouncedIsOnItsWay, Subscribe, history
  <2>3. QED
    BY <2>1, <2>2 DEF LiveInv
<1>2. ASSUME Leave(c), gen[c] \in {"new", "top", "wait", "got"},
             UNCHANGED <<ingest, queue, callbacks, shutdown, wire, due, current>>
      PROVE  LiveInv'
  <2>1. LiveTypeOK'
    BY <1>2 DEF LiveInv, LiveTypeOK, Leave, ingest
  <2>2. SubscribersRun'
    BY <1>2 DEF LiveInv, LiveTypeOK, SubscribersRun, Leave
  <2>3. es' = 0 => ~told'
    BY <1>2 DEF LiveInv, Leave
  <2>4. AnnouncedIsOnItsWay'
    <3>1. told' => told /\ es # c /\ es' = es /\ gen'[es] = gen[es]
      BY <1>2, ConnsAssumption DEF LiveInv, LiveTypeOK, Leave
    <3>2. QED
      BY <1>2, <3>1 DEF LiveInv, AnnouncedIsOnItsWay
  <2>5. QED
    BY <2>1, <2>2, <2>3, <2>4 DEF LiveInv
<1>3. CASE Top(c)
  <2>1. CASE es # c \/ shutdown
    BY <1>2, <1>3, <2>1 DEF Top
  <2>2. CASE ~(es # c \/ shutdown)
    <3>1. LiveTypeOK' /\ SubscribersRun'
      BY <1>3, <2>2 DEF LiveInv, LiveTypeOK, SubscribersRun, Top, ingest
    <3>2. AnnouncedIsOnItsWay' /\ (es' = 0 => ~told')
      BY <1>3, <2>2 DEF LiveInv, AnnouncedIsOnItsWay, Top
    <3>3. QED
      BY <3>1, <3>2 DEF LiveInv
  <2>3. QED
    BY <2>1, <2>2
<1>4. CASE Get(c)
  <2>1. /\ gen' = [gen EXCEPT ![c] = "got"] /\ gen'[c] = "got" /\ queue[c] > 0
        /\ queue' = [queue EXCEPT ![c] = @ - 1]
    BY <1>4 DEF LiveInv, LiveTypeOK, Get
  <2>2. LiveTypeOK' /\ SubscribersRun'
    BY <1>4, SizesAssumption DEF LiveInv, LiveTypeOK, SubscribersRun, Get, ingest, history
  <2>3. AnnouncedIsOnItsWay' /\ (es' = 0 => ~told')
    <3>1. es \in Conns \ {c} => queue'[es] = queue[es] /\ gen'[es] = gen[es]
      BY <2>1 DEF LiveInv, LiveTypeOK
    <3>2. QED
      BY <1>4, <2>1, <3>1 DEF LiveInv, LiveTypeOK, AnnouncedIsOnItsWay, Get, history
  <2>4. QED
    BY <2>2, <2>3 DEF LiveInv
<1>5. CASE SendPayload(c)
  <2>1. /\ wire' = [wire EXCEPT ![c] = @ + 1] /\ wire'[c] > 0
        /\ gen' = [gen EXCEPT ![c] = "top"]
    BY <1>5 DEF LiveInv, LiveTypeOK, SendPayload
  <2>2. LiveTypeOK' /\ SubscribersRun'
    BY <1>5 DEF LiveInv, LiveTypeOK, SubscribersRun, SendPayload, ingest, hub, history
  <2>3. AnnouncedIsOnItsWay' /\ (es' = 0 => ~told')
    <3>1. es \in Conns \ {c} => gen'[es] = gen[es] /\ wire'[es] = wire[es]
      BY <2>1 DEF LiveInv, LiveTypeOK
    <3>2. QED
      BY <1>5, <2>1, <3>1 DEF LiveInv, LiveTypeOK, AnnouncedIsOnItsWay, SendPayload, hub, history
  <2>4. QED
    BY <2>2, <2>3 DEF LiveInv
<1>6. CASE WakeForShutdown(c)
  BY <1>2, <1>6 DEF WakeForShutdown
<1>7. CASE Heartbeat(c)
  <2>1. LiveTypeOK' /\ SubscribersRun'
    BY <1>7 DEF LiveInv, LiveTypeOK, SubscribersRun, Heartbeat, ingest, hub, history
  <2>2. AnnouncedIsOnItsWay' /\ (es' = 0 => ~told')
    BY <1>7 DEF LiveInv, AnnouncedIsOnItsWay, Heartbeat, hub, history
  <2>3. QED
    BY <2>1, <2>2 DEF LiveInv
<1>8. CASE Cancel(c)
  BY <1>2, <1>8 DEF Cancel
<1>9. QED
  BY <1>1, <1>3, <1>4, <1>5, <1>6, <1>7, <1>8 DEF Loop

LEMMA TabStep ==
  ASSUME LiveInv,
         (\E c \in Conns : Connect(c)) \/ Disconnect \/ OnIngest \/ FetchDashboard
  PROVE  LiveInv'
<1>1. ASSUME NEW c \in Conns, Connect(c) PROVE LiveInv'
  <2>1. LiveTypeOK' /\ SubscribersRun'
    BY <1>1 DEF LiveInv, LiveTypeOK, SubscribersRun, Connect, ingest, hub, history
  <2>2. AnnouncedIsOnItsWay' /\ (es' = 0 => ~told')
    BY <1>1 DEF LiveInv, AnnouncedIsOnItsWay, Connect, history
  <2>3. QED
    BY <2>1, <2>2 DEF LiveInv
<1>2. CASE Disconnect
  <2>1. LiveTypeOK' /\ SubscribersRun'
    BY <1>2 DEF LiveInv, LiveTypeOK, SubscribersRun, Disconnect, ingest, hub
  <2>2. AnnouncedIsOnItsWay' /\ (es' = 0 => ~told')
    BY <1>2 DEF AnnouncedIsOnItsWay, Disconnect
  <2>3. QED
    BY <2>1, <2>2 DEF LiveInv
<1>3. CASE OnIngest
  <2>1. LiveTypeOK' /\ SubscribersRun'
    BY <1>3 DEF LiveInv, LiveTypeOK, SubscribersRun, OnIngest, ingest, hub, history
  <2>2. AnnouncedIsOnItsWay' /\ (es' = 0 => ~told')
    BY <1>3 DEF LiveInv, AnnouncedIsOnItsWay, OnIngest, history
  <2>3. QED
    BY <2>1, <2>2 DEF LiveInv
<1>4. CASE FetchDashboard
  <2>1. LiveTypeOK' /\ SubscribersRun'
    BY <1>4 DEF LiveInv, LiveTypeOK, SubscribersRun, FetchDashboard, ingest, hub, streams
  <2>2. AnnouncedIsOnItsWay' /\ (es' = 0 => ~told')
    BY <1>4 DEF AnnouncedIsOnItsWay, FetchDashboard
  <2>3. QED
    BY <2>1, <2>2 DEF LiveInv
<1>5. QED
  BY <1>1, <1>2, <1>3, <1>4

LEMMA NextLiveInv == LiveInv /\ [LiveNext]_liveVars => LiveInv'
<1> SUFFICES ASSUME LiveInv, [LiveNext]_liveVars PROVE LiveInv'
  OBVIOUS
<1>1. CASE UNCHANGED liveVars
  BY <1>1 DEF LiveInv, LiveTypeOK, SubscribersRun, AnnouncedIsOnItsWay, liveVars, ingest, hub,
              streams, history
<1>2. QED
  BY <1>1, CommitStep, BroadcastStep, PutAllStep, SignalShutdownStep, GeneratorStep,
     TabStep DEF LiveNext

-----------------------------------------------------------------------------
(* The theorems.                                                           *)

\* The hub's queues stay within their maxsize, for any number of commits, tabs and
\* reconnects (events.py:18-29, 66-74).
THEOREM LiveTypeCorrect == LiveSpec => []LiveTypeOK
<1>1. LiveInv => LiveTypeOK
  BY DEF LiveInv
<1>2. QED
  BY InitLiveInv, NextLiveInv, <1>1, PTL DEF LiveSpec

\* Only running generators are subscribed, however they are left (api.py:388-423,
\* events.py:47-56).
THEOREM OnlyRunningSubscribed == LiveSpec => []SubscribersRun
<1>1. LiveInv => SubscribersRun
  BY DEF LiveInv
<1>2. QED
  BY InitLiveInv, NextLiveInv, <1>1, PTL DEF LiveSpec

\* No announcement to a subscribed tab is lost before the tab has asked for the
\* dashboard again, for queues of any size: one payload left in a full queue does
\* for all that were dropped (events.py:69-74, app.jsx:163-182).
THEOREM NoAnnouncementLost == LiveSpec => []AnnouncedIsOnItsWay
<1>1. LiveInv => AnnouncedIsOnItsWay
  BY DEF LiveInv
<1>2. QED
  BY InitLiveInv, NextLiveInv, <1>1, PTL DEF LiveSpec
===============================================================================
