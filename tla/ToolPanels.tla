------------------------------ MODULE ToolPanels ------------------------------
(***************************************************************************)
(* The panels of src/dashboard-charts-extra.jsx: ToolUsagePanel,           *)
(* ToolErrorRatePanel, ContextGrowthPanel, ResponseSizesPanel and          *)
(* ReplyLatencyPanel draw what is checked of their last answer; what the   *)
(* user has clicked is kept as overrides of defaults that follow the       *)
(* answers.  ActivityHeatmapPanel draws all of it, by a metric.  The       *)
(* panels share no state: a behaviour follows one of them.                 *)
(***************************************************************************)
EXTENDS Integers, Sequences, FiniteSets, SequencesExt, SetSums

CONSTANTS
  Answers,   \* per panel, the answers it may get: sequences of rows, in order of time
  UsageTop,  \* tools of a bucket that get a band (7)
  ErrTop,    \* tools with a line in an error panel (5)
  ErrOn,     \* of them checked at first (3)
  CtxOn      \* models compared at first (2)

ASSUME ToolPanelsAssumption ==
  /\ UsageTop \in Nat \ {0} /\ ErrTop \in Nat \ {0}
  /\ ErrOn \in 1 .. ErrTop /\ CtxOn \in Nat \ {0}

VARIABLES
  panel,     \* which panel this is
  data,      \* its last answer, pivoted (a useMemo)
  overrides, \* [k |-> checked] for what the user has clicked
  metric,    \* what the heatmap shows
  tip        \* the tooltip: where, and for each line its key, its part, and of how many

vars == <<panel, data, overrides, metric, tip>>

Panels == {"usage", "errors", "context", "sizes", "latency", "heat"}
Metrics == {"requests", "cost_usd"}
AGGREGATE == "__AGG__"
Other == "__OTHER__"
Sigma == "all hours"
\* No tool or model has one of these names, and every group that a query returns has
\* counted something.
WellFormed(p, R) ==
  /\ R \in Seq(ToSet(R))
  /\ \A r \in ToSet(R) :
       /\ r.key \notin {AGGREGATE, Other, Sigma}
       /\ IF p = "context" THEN r.turns \in Seq(Nat)
          ELSE /\ r.ts \in Nat \ {0} /\ r.n \in Nat \ {0} /\ r.err \in Nat
               /\ p = "errors" => r.err <= r.n

ASSUME AnswersAssumption == \A p \in Panels : \A R \in Answers[p] : WellFormed(p, R)

NoTip == [at |-> -1, lines |-> {}]
NoOverrides == [k \in {} |-> FALSE]

-----------------------------------------------------------------------------
(* An answer is a sequence of rows [ts, key, n, err], of a tool or a model *)
(* in a bucket; for "context" of [key, turns], a file's context sizes; for *)
(* "heat" of cells, whose ts is a weekday, from 1, and whose key an hour,  *)
(* n the requests and err the cost.                                        *)

Keys(R) == {r.key : r \in ToSet(R)}
Rows(R, K) == {i \in DOMAIN R : R[i].key \in K}
N(R, I) == Sum([i \in DOMAIN R |-> R[i].n], I)
Errors(R, I) == Sum([i \in DOMAIN R |-> R[i].err], I)

\* A sort by weight, descending, of the keys in the order their rows came in, cut off.
Top(R, weight, top) ==
  LET first(k) == Min(Rows(R, {k}))
      ahead(j, k) == weight[j] > weight[k] \/ (weight[j] = weight[k] /\ first(j) < first(k))
  IN  {k \in DOMAIN weight : Cardinality({j \in DOMAIN weight : ahead(j, k)}) < top}

\* Mutant of promoted: the tools most used over the whole range.
promotedOverall(R, B, count, weight) == Top(R, weight, UsageTop)

\* ToolUsagePanel: the tools that are among the first of any one bucket.
promoted(R, B, count, weight) ==
  UNION {Top(R, [k \in {j \in DOMAIN count : count[j][b] > 0} |-> count[k][b]], UsageTop) : b \in B}

\* The buckets B in order of time: the i-th has i - 1 before it.
InTime(B) == [i \in 1 .. Cardinality(B) |-> CHOOSE b \in B : Cardinality({c \in B : c < b}) = i - 1]

\* What the memos of panel p make of R.  count, errors: of a key in a bucket; weight: of a
\* key over the range; own: the keys with a box, and a band or a line, of their own.
pivot(p, R) ==
  LET B      == IF p = "context" THEN {} ELSE {r.ts : r \in ToSet(R)}
      in(k, b) == {i \in Rows(R, {k}) : R[i].ts = b}
      count  == [k \in Keys(R) |-> [b \in B |-> N(R, in(k, b))]]
      weight == [k \in Keys(R) |-> IF p = "context" THEN Cardinality(Rows(R, {k})) ELSE N(R, Rows(R, {k}))]
  IN  [rows |-> R, buckets |-> InTime(B), count |-> count, weight |-> weight,
       errors |-> [k \in Keys(R) |-> [b \in B |-> Errors(R, in(k, b))]],
       own    |-> CASE p = "usage"  -> promoted(R, B, count, weight)
                    [] p = "errors" -> Top(R, weight, ErrTop)
                    [] OTHER        -> Keys(R)]

keys == DOMAIN data.weight
buckets == data.buckets
otherTools == keys \ data.own

-----------------------------------------------------------------------------
(* Which keys have a checkbox, and which are checked.                      *)

hasOther == IF otherTools = {} THEN {} ELSE {Other}
Boxes == IF panel = "heat" THEN {} ELSE data.own \cup hasOther \cup (IF panel = "errors" THEN {AGGREGATE} ELSE {})

Defaults ==
  CASE panel = "usage"   -> data.own \cup {Other}
    [] panel = "errors"  -> {AGGREGATE} \cup Top(data.rows, data.weight, ErrOn) \cup hasOther
    [] panel = "context" -> Top(data.rows, data.weight, CtxOn)
    [] OTHER             -> keys

Set(on) == {k \in DOMAIN overrides : overrides[k] = on}
sel == (Defaults \cup Set(TRUE)) \ Set(FALSE)
Checked == sel \cap Boxes

-----------------------------------------------------------------------------
(* ToolUsagePanel: a stack of bands that fills the height at each bucket.  *)

bands == sel \ {Other}
showOther == otherTools # {} /\ Other \in sel
layers == bands \cup (IF showOther THEN {Other} ELSE {})

Tools(k) == IF k = Other THEN otherTools ELSE {k}
CallsOf(ts, b) == Sum([t \in keys |-> data.count[t][b]], ts)
Calls(k, b) == CallsOf(Tools(k) \cap keys, b)
shownDenom(b) == Sum([k \in layers |-> Calls(k, b)], layers)

\* Half a bucket beyond an end the shares go on in a straight line, cut off at 0; the
\* share of a bucket that shows nothing is 0.
edge(k, b, next) ==
  Max({0, 3 * Calls(k, b) * Max({1, shownDenom(next)}) - Calls(k, next) * Max({1, shownDenom(b)})})

\* The points of the grid: 1 .. n the buckets, and, of two buckets or more, both ends.
grid ==
  IF Len(buckets) < 2 THEN DOMAIN buckets ELSE 0 .. Len(buckets) + 1

\* What k weighs at point i; its share is this over the point's height, which
\* normalises the ends.
share(k, i) ==
  LET n == Len(buckets) IN
  CASE i \in DOMAIN buckets -> Calls(k, buckets[i])
    [] i = 0                -> edge(k, buckets[1], buckets[2])
    [] i = n + 1            -> edge(k, buckets[n], buckets[n - 1])
height(i) == Sum([k \in layers |-> share(k, i)], layers)

\* The paths walk these; a bucket that shows nothing is bridged.
liveIdx == {i \in grid : height(i) > 0}

\* Mutant of usageTip: of all calls of the bucket.
usageTipOfAll(k, i) ==
  LET b == buckets[i]
      line(t) == [key |-> t, part |-> Calls(t, b), of |-> CallsOf(keys, b)]
  IN  [at |-> b, lines |-> {line(t) : t \in {u \in Tools(k) \cap keys : Calls(u, b) > 0}}]

\* onMove over layer k at bucket i. At an end there are no counts to show: the handler
\* throws, and the tooltip stays what it was.
usageTip(k, i) ==
  LET b == buckets[i]
      line(t) == [key |-> t, part |-> Calls(t, b), of |-> Max({1, shownDenom(b)})]
  IN  [at |-> b, lines |-> {line(t) : t \in {u \in Tools(k) \cap keys : Calls(u, b) > 0}}]

-----------------------------------------------------------------------------
(* ToolErrorSubPanel: a rate per checked series and bucket with calls.     *)

errTools(k) == keys \cap (IF k = AGGREGATE THEN keys ELSE Tools(k))
point(k, b) ==
  [key |-> k, part |-> Sum([t \in keys |-> data.errors[t][b]], errTools(k)),
   of |-> CallsOf(errTools(k), b)]

\* series and emaSeries: what the polyline of k is made from.
series(k) ==
  IF k \in {AGGREGATE, Other} \cup data.own
    THEN {[at |-> b, point |-> point(k, b)] : b \in {c \in ToSet(buckets) : point(k, c).of > 0}}
    ELSE {}

errTip(b) == [at |-> b, lines |-> {p \in {point(k, b) : k \in sel \cup {AGGREGATE}} : p.of > 0}]

-----------------------------------------------------------------------------
(* ContextGrowthPanel: statistics of the files of a model, turn by turn.   *)

\* A file is at 0 at turn 0; its turns follow, one by one.
turns(i) == data.rows[i].turns
files(m, t) == {i \in Rows(data.rows, {m}) : t <= Len(turns(i))}
ctx(i, t) == IF t = 0 THEN 0 ELSE turns(i)[t]
maxT(m) == Max({Len(turns(i)) : i \in files(m, 0)})

\* The j-th of vals in order of size, where vals[i] is the context of file i: the least
\* that j of them do not exceed.
nth(vals, j) ==
  Min({vals[i] : i \in {h \in DOMAIN vals : Cardinality({g \in DOMAIN vals : vals[g] <= vals[h]}) >= j}})

\* pick: the value at a hundredth of the way up.
pick(vals, hundredth) ==
  LET n == Cardinality(DOMAIN vals)
  IN  nth(vals, Min({n, (n * hundredth) \div 100 + 1}))

perTurnStats(m, t) ==
  LET vals == [i \in files(m, t) |-> ctx(i, t)]
  IN  [count |-> Cardinality(DOMAIN vals), p25 |-> pick(vals, 25), median |-> pick(vals, 50),
       p75 |-> pick(vals, 75), p90 |-> pick(vals, 90)]

\* The chart of one model, and of those compared.
ctxLine(m, t) ==
  [key |-> m, part |-> IF t > maxT(m) THEN 0 ELSE perTurnStats(m, t).count, of |-> data.weight[m]]
subTip(m, t) == [at |-> t, lines |-> {ctxLine(m, t)}]

cmpModels == keys \cap sel
ctxTip(t) == [at |-> t, lines |-> {ctxLine(m, t) : m \in cmpModels}]

-----------------------------------------------------------------------------
(* ResponseSizesPanel and ReplyLatencyPanel: a line per checked model.     *)

\* A point for each bucket in which m has something, by times that are doubled; and one
\* more half a bucket beyond each end, with the n of the bucket there.
visible == keys \cap sel
at(m) == {b \in ToSet(buckets) : data.count[m][b] > 0}
extendBucketSeries(m, x) == Min({b \in at(m) : x <= 2 * b + 1})
linePoints(m) ==
  LET xs == {2 * b : b \in at(m)} \cup {2 * Min(at(m)) - 1, 2 * Max(at(m)) + 1}
  IN  [x \in xs |-> data.count[m][extendBucketSeries(m, x)]]

\* Math.round of the value a part/whole of the way from a to b.
between(a, b, part, whole) == (2 * (a * whole + part * (b - a)) + whole) \div (2 * whole)

\* onMove on the line of m: its segment is the first that ends at x or after it.
lineTip(m, x) ==
  LET pts == linePoints(m)
      xs  == DOMAIN pts
      x1  == IF x = Min(xs) THEN x ELSE Max({p \in xs : p < x})
      x2  == Min({p \in xs : p > x1})
  IN  [at |-> x, lines |-> {[key |-> m, part |-> between(pts[x1], pts[x2], x - x1, x2 - x1), of |-> 0]}]

-----------------------------------------------------------------------------
(* ActivityHeatmapPanel: a cell by weekday and hour, and margins.          *)

\* byCell: what is drawn at a cell that has records.
byCell(d, h) == IF metric = "requests" THEN data.count[h][d] ELSE data.errors[h][d]

\* rowTotals, colTotals and grand are summed over the cells as they came.
Totals(D, H) ==
  LET I == {i \in DOMAIN data.rows : data.rows[i].ts \in D /\ data.rows[i].key \in H}
  IN  IF metric = "requests" THEN N(data.rows, I) ELSE Errors(data.rows, I)

Days(d) == IF d = 0 THEN ToSet(buckets) ELSE {d}
Hours(h) == IF h = Sigma THEN keys ELSE {h}

\* Over a cell, a day's margin (h = Sigma), an hour's (d = 0) or the corner. A margin is
\* also shown as a share of the total.
heatTip(d, h) ==
  [at |-> d,
   lines |-> {[key  |-> h, part |-> Totals(Days(d), Hours(h)),
               of   |-> IF (d = 0) # (h = Sigma) THEN Totals(Days(0), keys) ELSE 0]}]

-----------------------------------------------------------------------------
Init ==
  /\ panel \in Panels
  /\ data = pivot(panel, <<>>) /\ overrides = NoOverrides /\ tip = NoTip
  /\ metric = "cost_usd"

\* Mutant of Kept: only the response sizes go.
KeptErrors(R) == panel = "sizes" => R # <<>>

\* The panels that are only there when there is something to draw.
Kept(R) == panel \in {"errors", "sizes"} => R # <<>>

\* An answer, to another selection or after an ingest. The choices stay, while the panel
\* does; so does the tooltip, until the mouse moves.
Answer(R) ==
  /\ R \in Answers[panel] \ {data.rows} /\ data' = pivot(panel, R)
  /\ IF Kept(R) THEN UNCHANGED <<overrides, tip>>
     ELSE overrides' = NoOverrides /\ tip' = NoTip
  /\ UNCHANGED <<panel, metric>>

\* The dashboard goes, and comes back anew.
Remount ==
  /\ keys # {}
  /\ data' = pivot(panel, <<>>) /\ overrides' = NoOverrides /\ tip' = NoTip
  /\ metric' = "cost_usd"
  /\ UNCHANGED panel

\* {...prev, [k]: on}
Clicked(k, on) == [j \in DOMAIN overrides \cup {k} |-> IF j = k THEN on ELSE overrides[j]]

\* Mutant of toggle: it turns what was clicked before, not what is seen.
toggleOfOverride(k) ==
  /\ keys # {} /\ k \in Boxes
  /\ overrides' = Clicked(k, k \notin Set(TRUE))
  /\ UNCHANGED <<panel, data, metric, tip>>

toggle(k) ==
  /\ keys # {} /\ k \in Boxes
  /\ overrides' = Clicked(k, k \notin sel)
  /\ UNCHANGED <<panel, data, metric, tip>>

\* The buttons "all" and "none" forget what was clicked of other tools.
SetAll(on) ==
  /\ panel = "usage"
  /\ overrides' = [k \in data.own \cup {Other} |-> on]
  /\ UNCHANGED <<panel, data, metric, tip>>

\* The tooltip stays what it was.
SetMetric(k) ==
  /\ panel = "heat" /\ k # metric /\ metric' = k
  /\ UNCHANGED <<panel, data, overrides, tip>>

Hover ==
  /\ \/ panel = "usage"  /\ \E i \in liveIdx \cap DOMAIN buckets :
                              \E k \in {j \in layers : share(j, i) > 0} : tip' = usageTip(k, i)
     \/ panel = "errors" /\ \E b \in ToSet(buckets) : tip' = errTip(b)
     \/ panel = "context" /\ \E t \in 0 .. Max({1} \cup {maxT(m) : m \in cmpModels}) : tip' = ctxTip(t)
     \/ panel = "context" /\ \E m \in keys : \E t \in 0 .. maxT(m) : tip' = subTip(m, t)
     \/ /\ panel \in {"sizes", "latency"}
        /\ \E m \in visible : \E x \in Min(DOMAIN linePoints(m)) .. Max(DOMAIN linePoints(m)) : tip' = lineTip(m, x)
     \/ panel = "heat" /\ \E d \in {0} \cup ToSet(buckets), h \in {Sigma} \cup keys : tip' = heatTip(d, h)
  /\ UNCHANGED <<panel, data, overrides, metric>>

Leave ==
  /\ tip # NoTip /\ tip' = NoTip
  /\ UNCHANGED <<panel, data, overrides, metric>>

Next ==
  \/ \E R \in Answers[panel] : Answer(R)
  \/ Remount
  \/ \E k \in Boxes : toggle(k)
  \/ \E on \in BOOLEAN : SetAll(on)
  \/ \E k \in Metrics : SetMetric(k)
  \/ Hover
  \/ Leave

Spec == Init /\ [][Next]_vars
-----------------------------------------------------------------------------
(* Properties.                                                             *)

\* A panel that is not there remembers nothing; a tooltip has a line for a key of some
\* answer.
TypeOK ==
  LET seen == {AGGREGATE, Other, Sigma} \cup UNION {{r.key : r \in ToSet(R)} : R \in Answers[panel]} IN
  /\ panel \in Panels /\ metric \in Metrics /\ data.rows \in Answers[panel] \cup {<<>>}
  /\ DOMAIN overrides \subseteq seen /\ \A k \in DOMAIN overrides : overrides[k] \in BOOLEAN
  /\ \A l \in tip.lines : l.key \in seen /\ l.part \in Nat /\ l.of \in Nat
  /\ panel \in {"errors", "sizes"} /\ keys = {} => overrides = NoOverrides /\ tip = NoTip

\* A click changes the box under it and no other, or makes all boxes alike; and what the
\* user has set is not unset by an answer, however the tools rank in it, for as long as the
\* panel is there (src/dashboard-charts-extra.jsx 1296-1310, 1610-1624: the defaults move
\* with every answer, the overrides are kept apart from them).
ChecksFollowUser ==
  [][/\ data' = data /\ overrides' # overrides =>
          \/ \E k \in Boxes : /\ SymDiff(Checked, Checked') = {k}
                              /\ k \in DOMAIN overrides' /\ overrides'[k] = (k \in Checked')
          \/ panel = "usage" /\ Checked' \in {{}, Boxes}
     /\ data' # data /\ keys' # {} =>
          \A k \in DOMAIN overrides \cap Boxes' : (k \in Checked') = overrides[k]
    ]_vars

\* Each call is in one band of its bucket, except what the user hides, and a tool that was
\* checked by hand and has since fallen into Other, which is then drawn in both; no tool in
\* Other is ever among a bucket's first; and the ends are drawn when their bucket is.
UsageAccounted ==
  LET drawn(t) == {k \in layers : t \in Tools(k)}
      n == Len(buckets)
      rivals(t, b) == {u \in keys : u # t /\ Calls(u, b) >= Calls(t, b)}
  IN  /\ \A t \in keys :
           \/ Cardinality(drawn(t)) = 1
           \/ drawn(t) = {} /\ Set(FALSE) \cap {t, Other} # {}
           \/ drawn(t) = {t, Other} /\ t \in Set(TRUE) \cap otherTools
      /\ \A t \in otherTools, b \in ToSet(buckets) :
           Calls(t, b) > 0 => Cardinality(rivals(t, b)) >= UsageTop
      /\ 0 \in grid => (0 \in liveIdx <=> 1 \in liveIdx) /\ (n + 1 \in liveIdx <=> n \in liveIdx)

\* The lines of the tools and of Other add up to the aggregate, errors within calls; a line
\* that is drawn has a box to take it away.
ErrorsAccounted ==
  /\ \A b \in ToSet(buckets) :
       LET parts == [k \in data.own \cup {Other} |-> point(k, b)]
           sum(part) == Sum(part, DOMAIN parts)
       IN  /\ sum([k \in DOMAIN parts |-> parts[k].of]) = point(AGGREGATE, b).of
           /\ sum([k \in DOMAIN parts |-> parts[k].part]) = point(AGGREGATE, b).part
           /\ \A k \in DOMAIN parts : parts[k].part <= parts[k].of
  /\ \A k \in sel : series(k) # {} => k \in Boxes

\* Each turn's curves are in order, and the files only get fewer.
StatsOrdered ==
  \A m \in keys : \A t \in 0 .. maxT(m) :
    LET s == perTurnStats(m, t) IN
    /\ s.p25 <= s.median /\ s.median <= s.p75 /\ s.p75 <= s.p90
    /\ (t = 0 => s.count = data.weight[m])
    /\ t > 0 => s.count <= perTurnStats(m, t - 1).count

\* What the charts show accounts for every call and file of the answer, whatever is checked
\* (src/dashboard-charts-extra.jsx 65-97, 1274-1345, 1572-1716).
ChartsAccount ==
  CASE panel = "usage"   -> UsageAccounted
    [] panel = "errors"  -> ErrorsAccounted
    [] panel = "context" -> StatsOrdered
    [] OTHER             -> TRUE

\* What the mouse is told is what is drawn under it, although each handler works it out anew:
\* the share of a band, the point of a line, the files that reach a turn, between two
\* buckets of a line a number between theirs, and of a day or an hour the sum of its cells
\* (src/dashboard-charts-extra.jsx 957-1018, 1402-1443, 1747-1818, 2111-2186, 2418-2480).
TipMatchesChart ==
  [][tip' # tip /\ tip' # NoTip =>
       LET total == Sum([l \in tip'.lines |-> l.part], tip'.lines) IN
       CASE panel = "usage" ->
              \E i \in liveIdx \cap DOMAIN buckets :
                \E k \in layers : /\ buckets[i] = tip'.at
                                  /\ \A l \in tip'.lines : total * height(i) = share(k, i) * l.of
         [] panel = "errors" ->
              \A l \in tip'.lines : l.key \in Checked => [at |-> tip'.at, point |-> l] \in series(l.key)
         [] panel = "context" ->
              \A l \in tip'.lines :
                l.part = Cardinality(files(l.key, tip'.at))
         [] panel = "heat" ->
              \A l \in tip'.lines :
                LET cells == Days(tip'.at) \X Hours(l.key)
                IN  l.part = Sum([c \in cells |-> byCell(c[1], c[2])], cells)
         [] OTHER ->
              \A l \in tip'.lines :
                LET near == {b \in at(l.key) : \A c \in at(l.key) :
                               ~(b < c /\ 2 * c <= tip'.at) /\ ~(tip'.at <= 2 * c /\ c < b)}
                    ns   == {data.count[l.key][b] : b \in near}
                IN  Min(ns) <= l.part /\ l.part <= Max(ns)
    ]_vars
=============================================================================
