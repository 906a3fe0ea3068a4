------------------------------- MODULE Overview -------------------------------
(***************************************************************************)
(* The overview page: Dashboard and SessionsList of src/app.jsx, with the  *)
(* time series and bars of src/dashboard-charts.jsx.  All of it is drawn   *)
(* from one answer of /api/dashboard, which aggregates the records of the  *)
(* selected range in several ways; answers replace one another under a     *)
(* page with a mouse on it.                                                *)
(***************************************************************************)
EXTENDS Integers, Sequences, FiniteSets, SequencesExt, SetSums, StableSort

CONSTANTS
  Records,       \* billing records: [ts, model, session, input, output, cr]
  MaxRecords,    \* bound: records in one answer
  Short,         \* shortModelName: drops the prefix, the tag and the date of a name
  Rates,         \* rateForModel of a short name, per kind of token
  BucketS,       \* width of the server's buckets, even
  SessionLimit,  \* LIMIT of the sessions' query, 500
  SessionGap, WindowGap,   \* 30 minutes and 5 hours
  NiceBins, MinBins,       \* widths of a bar, and how many bars make a chart
  PlotW,         \* width of a plot
  DenseSteps     \* points between two sessions of a curve, even

Kinds == {"input", "output", "cr"}
Names == {Short[m] : m \in DOMAIN Short}

ASSUME OverviewAssumption ==
  /\ MaxRecords \in Nat
  /\ BucketS \in Nat \ {0} /\ BucketS % 2 = 0 /\ SessionLimit \in Nat \ {0}
  /\ SessionGap \in Nat /\ WindowGap \in Nat /\ SessionGap <= WindowGap
  /\ NiceBins \subseteq Nat \ {0} /\ NiceBins # {} /\ IsFiniteSet(NiceBins)
  /\ MinBins \in Nat \ {0} /\ PlotW \in Nat \ {0}
  /\ DenseSteps \in Nat \ {0} /\ DenseSteps % 2 = 0

\* Times, numbers of tokens and prices are not negative.
ASSUME RecordsAssumption ==
  /\ \A r \in Records : /\ r.ts \in Nat /\ r.model \in DOMAIN Short
                        /\ \A k \in Kinds : r[k] \in Nat
  /\ \A m \in Names, k \in Kinds : Rates[m][k] \in Nat

VARIABLES
  synth,         \* what the page is drawn from: the last answer, reshaped
  hover,         \* hover of the HBar under the mouse
  activeModel,   \* model select of TokenBreakdownPanel
  page           \* "up", or "gone" when React has unmounted the tree

vars == <<synth, hover, activeModel, page>>

HBars == {"models", "tokens", "costs"}
NoHover == [bar |-> "none", row |-> 0]
NoRange == [start |-> 0, end |-> 0]

-----------------------------------------------------------------------------
(* The server's answer (backend/api.py 922-1020), for the records R.       *)

Tokens(e) == e.input + e.output + e.cr
Cost(m, e) == e.input * Rates[m].input + e.output * Rates[m].output + e.cr * Rates[m].cr
cost_usd(r) == Cost(Short[r.model], r)

\* hourly: by bucket, at its middle, and model, in order of time.
bucket(r) == (r.ts \div BucketS) * BucketS + BucketS \div 2
hourly(R) ==
  LET of(k) == {r \in R : <<bucket(r), r.model>> = k}
      row(k) == [ts     |-> k[1], model |-> k[2],
                 input  |-> Sum([r \in R |-> r.input], of(k)),
                 output |-> Sum([r \in R |-> r.output], of(k)),
                 cr     |-> Sum([r \in R |-> r.cr], of(k)),
                 cost   |-> Sum([r \in R |-> cost_usd(r)], of(k))]
      rows == {row(k) : k \in {<<bucket(r), r.model>> : r \in R}}
  IN  SortedSet(rows, [w \in rows |-> w.ts])

\* sessions: by session, dearest first, and only so many of them.
session_rows(R) ==
  LET of(s) == {r \in R : r.session = s}
      row(s) == [session |-> s, start |-> Min({r.ts : r \in of(s)}), end |-> Max({r.ts : r \in of(s)}),
                 input  |-> Sum([r \in R |-> r.input], of(s)),
                 output |-> Sum([r \in R |-> r.output], of(s)),
                 cr     |-> Sum([r \in R |-> r.cr], of(s)),
                 cost   |-> Sum([r \in R |-> cost_usd(r)], of(s))]
      rows == {row(s) : s \in {r.session : r \in R}}
      dearest == SortedSet(rows, [w \in rows |-> -w.cost])
  IN  SubSeq(dearest, 1, Min({SessionLimit, Len(dearest)}))

-----------------------------------------------------------------------------
(* backendDashToShape.                                                     *)

\* Mutant of rangeOf: the range ends at the last event.
rangeOfClosed(rows) ==
  IF rows = <<>> THEN NoRange ELSE [start |-> rows[1].ts, end |-> Last(rows).ts]

\* +1, so that the last event is before the end of the range.
rangeOf(rows) ==
  IF rows = <<>> THEN NoRange ELSE [start |-> rows[1].ts, end |-> Last(rows).ts + 1]

\* The events have short names. records: what the answer was made from.
backendDashToShape(R) ==
  LET rows == hourly(R)
  IN  [records |-> R, range |-> rangeOf(rows),
       events  |-> [i \in DOMAIN rows |-> [rows[i] EXCEPT !.model = Short[@]]],
       costByModel |-> [m \in {Short[r.model] : r \in R} |->
                          Sum([r \in R |-> cost_usd(r)], {r \in R : Short[r.model] = m})],
       sessions |-> session_rows(R)]

\* No event, no dashboard.
Mounted == page = "up" /\ synth.events # <<>>

events == synth.events
range == synth.range

-----------------------------------------------------------------------------
(* computeSessions: sessions and window boundaries of the hourly events.   *)

\* Mutant of Clustered: a session that grows keeps its end.
ClusteredKeepingEnd(cs, e) ==
  IF cs = <<>> \/ e.ts - Last(Last(cs).events).ts > SessionGap
    THEN Append(cs, [start |-> e.ts, end |-> e.ts, events |-> <<e>>])
    ELSE [cs EXCEPT ![Len(cs)].events = Append(@, e)]

\* The next event, in order of time: of the last session, or the first of another.
Clustered(cs, e) ==
  IF cs = <<>> \/ e.ts - Last(cs).end > SessionGap
    THEN Append(cs, [start |-> e.ts, end |-> e.ts, events |-> <<e>>])
    ELSE [cs EXCEPT ![Len(cs)] = [start |-> @.start, end |-> e.ts, events |-> Append(@.events, e)]]

inTime == Sorted(events, [i \in DOMAIN events |-> events[i].ts])
computeSessions ==
  LET made[n \in 0 .. Len(inTime)] == IF n = 0 THEN <<>> ELSE Clustered(made[n - 1], inTime[n])
  IN  made[Len(inTime)]

\* Twice the middle of each gap that is wide enough.
windowBoundaries ==
  LET after == {i \in 2 .. Len(events) : events[i].ts - events[i - 1].ts > WindowGap}
  IN  {events[i].ts + events[i - 1].ts : i \in after}

-----------------------------------------------------------------------------
(* SessionsList: the sessions the server names, else clusters of hours.    *)

SessionRow(s) == [start |-> s.start, end |-> s.end, cost |-> s.cost, total |-> Tokens(s)]

ClusterRow(c) ==
  LET es == c.events
  IN  [start |-> c.start, end |-> c.end, cost |-> Sum([i \in DOMAIN es |-> es[i].cost], DOMAIN es),
       total |-> Sum([i \in DOMAIN es |-> Tokens(es[i])], DOMAIN es)]

SessionsList(override) ==
  IF override # <<>> THEN [i \in DOMAIN override |-> SessionRow(override[i])]
  ELSE [i \in DOMAIN computeSessions |-> ClusterRow(computeSessions[i])]

-----------------------------------------------------------------------------
(* TimeSeriesPanel.                                                        *)

\* Dashboard: the widest of the nice bins, tried in order, that leaves enough bars.
span == range.end - range.start
binMs ==
  LET fits == {b \in NiceBins : \A c \in NiceBins : c <= b => span >= MinBins * c}
  IN  IF fits = {} THEN Min(NiceBins) ELSE Max(fits)

nBins == (span + binMs - 1) \div binMs

\* The charts of all tokens and of the cost; those of one kind are alike.
ValueOf(e, valueKey) == IF valueKey = "cost_usd" THEN e.cost ELSE Tokens(e)

\* One pointer runs through the events: it stops at the first that is not before t.
Reached(t) == Max({0} \cup {i \in DOMAIN events : \A j \in 1 .. i : events[j].ts < t})

\* bins, from 0; and the cumulative line, which starts at 0 before the first.
binEnd(k) == range.start + (k + 1) * binMs
cumPts(valueKey, k) ==
  Sum([i \in DOMAIN events |-> ValueOf(events[i], valueKey)], 1 .. Reached(binEnd(k)))
bins(valueKey, k) ==
  cumPts(valueKey, k) - IF k = 0 THEN 0 ELSE cumPts(valueKey, k - 1)

\* Twenty times the width of a bar; in pixels a bar and a gap are pitch wide.
barW20 == Max({20, (18 * PlotW) \div nBins})

\* Mutant of BinAt: the bar whose left edge is nearest to x.
BinAtLeftEdge(x) ==
  LET pitch20 == 20 * PlotW * binMs
      idx == (20 * x * span + pitch20 \div 2) \div pitch20
  IN  Max({0, Min({idx, nBins - 1})})

\* onMouseMove: the bar whose middle is nearest to x, from the plot's left edge; the
\* band in which the mouse is followed is one bar wider than the plot.
BinAt(x) ==
  LET pitch20 == 20 * PlotW * binMs     \* times span
      idx == ((20 * x - barW20 \div 2) * span + pitch20 \div 2) \div pitch20
  IN  Max({0, Min({idx, nBins - 1})})

Followed(x) == 20 * x <= 20 * PlotW + barW20

-----------------------------------------------------------------------------
(* BurnRatePanel: a dot for each session at its middle, and curves through *)
(* the middles.                                                            *)

\* Twice the middle.
mid2(s) == s.start + s.end

\* The server's sessions come dearest first; curves need them in order of time.
sessionData(override) ==
  LET list == SessionsList(override) IN Sorted(list, [i \in DOMAIN list |-> mid2(list[i])])

\* From the first middle to the last, doubled; the range of the hours when they coincide.
burnRange(override) ==
  LET mids == {mid2(s) : s \in ToSet(sessionData(override))}
  IN  IF Cardinality(mids) = 1 THEN [start |-> 2 * range.start, end |-> 2 * range.end]
      ELSE [start |-> Min(mids), end |-> Max(mids)]

\* The points the mouse may find on a curve, their times 2 * DenseSteps times as large, and
\* the session each is said to be of.
densify(data) ==
  LET n == Len(data)
      point(i, s) == [at  |-> mid2(data[i]) * (DenseSteps - s) + mid2(data[i + 1]) * s,
                      src |-> IF 2 * s < DenseSteps THEN i ELSE i + 1]
  IN  {point(i, s) : i \in 1 .. n - 1, s \in 0 .. DenseSteps - 1}
        \cup {[at |-> DenseSteps * mid2(data[n]), src |-> n]}

-----------------------------------------------------------------------------
(* HBar: the cost by model, and the token breakdown twice.                 *)

modelOpts == {e.model : e \in ToSet(events)}

\* computeTokenBreakdown of the events es of the selected model.
filtered(es, m) == {i \in DOMAIN es : m = "" \/ es[i].model = m}
breakdown(es, m) ==
  LET value(k) == Sum([i \in DOMAIN es |-> es[i][k]], filtered(es, m))
      cost(k)  == Sum([i \in DOMAIN es |-> es[i][k] * Rates[es[i].model][k]], filtered(es, m))
  IN  {[label |-> k, value |-> value(k), cost |-> cost(k)] : k \in {j \in Kinds : value(j) > 0}}

\* The rows of a bar, longest first, for an answer a and a selected model m.
Rows(a, m, bar) ==
  LET byModel == {[label |-> n, value |-> a.costByModel[n]] : n \in DOMAIN a.costByModel}
      costs   == {[r EXCEPT !.value = r.cost] : r \in breakdown(a.events, m)}
      rows    == CASE bar = "models" -> {r \in byModel : r.value > 0}
                   [] bar = "tokens" -> breakdown(a.events, m)
                   [] bar = "costs"  -> costs
  IN  SortedSet(rows, [r \in rows |-> -r.value])

-----------------------------------------------------------------------------
Init ==
  /\ synth = backendDashToShape({}) /\ page = "up"
  /\ hover = NoHover /\ activeModel = ""

\* rowTip(rows[hover]) of a row that is not there throws while it renders, and nothing
\* catches it: React takes the whole tree down.
Throws(a, m) == hover # NoHover /\ hover.row > Len(Rows(a, m, hover.bar))

Rendered(a, m) ==
  /\ synth' = a
  /\ page' = IF a.events # <<>> /\ Throws(a, m) THEN "gone" ELSE "up"
  /\ IF a.events # <<>> /\ ~Throws(a, m)
       THEN activeModel' = m /\ UNCHANGED hover
       ELSE activeModel' = "" /\ hover' = NoHover

\* An answer, of another selection or after an ingest. Without a row the dashboard is
\* unmounted, and its panels with it.
Arrive(R) == page = "up" /\ Rendered(backendDashToShape(R), activeModel)

\* Mutant of Enter: rows counted from 0 where they are from 1.
EnterOffByOne(bar, i) ==
  /\ Mounted /\ i \in DOMAIN Rows(synth, activeModel, bar)
  /\ hover' = [bar |-> bar, row |-> i - 1]
  /\ UNCHANGED <<synth, activeModel, page>>

Enter(bar, i) ==
  /\ Mounted /\ i \in DOMAIN Rows(synth, activeModel, bar)
  /\ hover' = [bar |-> bar, row |-> i]
  /\ UNCHANGED <<synth, activeModel, page>>

Leave ==
  /\ hover # NoHover /\ hover' = NoHover
  /\ UNCHANGED <<synth, activeModel, page>>

\* The keyboard moves the select while the mouse is where it is.
SelectModel(m) ==
  /\ Mounted /\ m \in (modelOpts \cup {""}) \ {activeModel}
  /\ Rendered(synth, m)

Reload ==
  /\ page = "gone"
  /\ synth' = backendDashToShape({}) /\ page' = "up"
  /\ hover' = NoHover /\ activeModel' = ""

Answers == {R \in SUBSET Records : IsFiniteSet(R) /\ Cardinality(R) <= MaxRecords}

Next ==
  \/ \E R \in Answers : Arrive(R)
  \/ \E bar \in HBars : \E i \in 1 .. Cardinality(Names \cup Kinds) : Enter(bar, i)
  \/ Leave
  \/ \E m \in Names \cup {""} : SelectModel(m)
  \/ Reload

Spec == Init /\ [][Next]_vars
-----------------------------------------------------------------------------
(* Properties.                                                             *)

\* The page has the state its render functions take; no panel has any when it is not there.
TypeOK ==
  /\ synth.records \in Answers
  /\ hover \in {NoHover} \cup [bar : HBars, row : 1 .. Cardinality(Names \cup Kinds)]
  /\ activeModel \in Names \cup {""}
  /\ page \in {"up", "gone"}
  /\ ~Mounted => hover = NoHover /\ activeModel = ""

\* The records of the sessions that an answer lists.
Listed(a) == {r \in a.records : \E s \in ToSet(a.sessions) : s.session = r.session}

\* However the records are aggregated - by hour, model, kind of token, cluster of hours or
\* bar - nothing is lost or counted twice, and each bar holds the events of its own time; by
\* session, too, for the sessions the server lists, which are all of them or SessionLimit
\* that no other is dearer than (backend/api.py 995-1034; src/app.jsx 427-496, 558-585,
\* 661-691, 808-861; src/dashboard-charts.jsx 265-296: an end that is the last event's cost
\* the chart its last bar).
TotalsAgree ==
  Mounted =>
    LET R      == synth.records
        shown  == Listed(synth)
        tokens(H) == Sum([r \in H |-> Tokens(r)], H)
        cost(H)   == Sum([r \in H |-> cost_usd(r)], H)
        inBar(k) == {i \in DOMAIN events : binEnd(k - 1) <= events[i].ts /\ events[i].ts < binEnd(k)}
        models == Rows(synth, "", "models")
        kinds  == breakdown(events, "")
    IN  /\ cumPts("_t", nBins - 1) = tokens(R) /\ cumPts("cost_usd", nBins - 1) = cost(R)
        /\ \A k \in 0 .. nBins - 1 :
             bins("_t", k) = Sum([i \in DOMAIN events |-> Tokens(events[i])], inBar(k))
        /\ Sum([i \in DOMAIN models |-> models[i].value], DOMAIN models) = cost(R)
        /\ Sum([r \in kinds |-> r.value], kinds) = tokens(R)
        /\ Sum([r \in kinds |-> r.cost], kinds) = cost(R)
        /\ \A override \in {synth.sessions, <<>>} :
             LET list == SessionsList(override)
                 of   == IF override = <<>> THEN R ELSE shown
             IN  /\ Sum([i \in DOMAIN list |-> list[i].total], DOMAIN list) = tokens(of)
                 /\ Sum([i \in DOMAIN list |-> list[i].cost], DOMAIN list) = cost(of)
        /\ shown = R \/ Len(synth.sessions) = SessionLimit
        /\ \A r \in R \ shown, s \in ToSet(synth.sessions) :
             cost({q \in R : q.session = r.session}) <= s.cost

\* Each hour is in one session; a session has no gap inside, there is one around it, and
\* its ends are those of its hours; a window boundary is in no session
\* (src/app.jsx 531-552).
SessionsPartition ==
  LET cs == computeSessions IN
  /\ \E cut \in [0 .. Len(cs) -> 0 .. Len(events)] :
       /\ cut[0] = 0 /\ cut[Len(cs)] = Len(events)
       /\ \A i \in DOMAIN cs : /\ cut[i - 1] < cut[i]
                              /\ cs[i].events = SubSeq(inTime, cut[i - 1] + 1, cut[i])
  /\ \A i \in DOMAIN cs :
       LET es == cs[i].events IN
       /\ cs[i].start = es[1].ts /\ cs[i].end = Last(es).ts
       /\ \A j \in 2 .. Len(es) : es[j].ts - es[j - 1].ts <= SessionGap
       /\ i > 1 => cs[i].start - cs[i - 1].end > SessionGap
  /\ \A b \in windowBoundaries : \E i \in 2 .. Len(cs) : 2 * cs[i - 1].end < b /\ b < 2 * cs[i].start

\* A point of a burn-rate curve names the session nearest to it in time, and all of them lie
\* in the plot, unless all middles coincide (src/dashboard-charts.jsx 596-704).
CurveNamesNearest ==
  Mounted =>
    \A override \in {synth.sessions, <<>>} :
      LET data == sessionData(override)
          plot == burnRange(override)
          off(p, i) == LET d == p.at - DenseSteps * mid2(data[i]) IN Max({d, -d})
      IN  \A p \in densify(data) :
            /\ \A i \in DOMAIN data : off(p, p.src) <= off(p, i)
            /\ mid2(data[1]) # mid2(Last(data)) =>
                 DenseSteps * plot.start <= p.at /\ p.at <= DenseSteps * plot.end

\* As long as a bar is a pixel wide, the mouse on a bar is told of that bar, the last and
\* often partial one, which overhangs the plot, like any other
\* (src/dashboard-charts.jsx 316-351).
BarUnderMouse ==
  Mounted /\ 18 * PlotW >= 20 * nBins =>
    \A k \in 0 .. nBins - 1, x \in 0 .. 2 * PlotW :
      LET left == 20 * k * PlotW * binMs   \* of bar k, times 20 * span
      IN  left <= 20 * x * span /\ 20 * x * span <= left + barW20 * span
            => Followed(x) /\ BinAt(x) = k

\* What the mouse points at is what it is told of.
UnderMouse == BarUnderMouse /\ CurveNamesNearest

\* "No page reload - only the data refetches" (src/app.jsx 173-174).  Violated: an answer
\* with fewer bars than the one that is under the mouse.
StaysUp == page = "up"
=============================================================================
