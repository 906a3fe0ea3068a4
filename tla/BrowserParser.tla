---------------------------- MODULE BrowserParser ----------------------------
(***************************************************************************)
(* src/parser.js: the in-browser parser of the Inspector reads the same    *)
(* file as backend/parse.py (module WireParser), line by line beside it,   *)
(* so that what the two make of a file can be compared.                    *)
(*                                                                         *)
(* Both tell the format alike (_detectFormat is parse_file's loop).  The   *)
(* open turn and its statusLines are left out: parser.js keeps them, but   *)
(* nothing it returns depends on them.  Where the backend raises, there is *)
(* nothing to compare and the browser's reading is not followed further.   *)
(***************************************************************************)
EXTENDS WireParser

CONSTANT
  BrowserK3Cutoff   \* K3_CUTOFF_EPOCH of parser.js, later than the backend's

ASSUME BrowserCutoffAssumption == BrowserK3Cutoff \in Nat

VARIABLE
  js    \* locals of _parseLegacy and _parseKimiCode, and what they return

browser_vars == <<vars, js>>

BrowserInit ==
  js = [pending    |-> NoTime,     \* pendingTurnBeginTs
        text       |-> 0,          \* textCharsSinceTurn
        turn_id    |-> "null",     \* currentTurnId; a missing turnId differs from it
        event_ts   |-> NoTime,     \* time of the first of events that has one
        meta_ts    |-> NoTime,     \* the same of metaEvents
        updates    |-> <<>>,       \* the status_update entries of metaEvents
        called     |-> {},         \* ids in toolCallMap, or in toolUses
        errors     |-> {},         \* ids whose last result is an error
        results    |-> {},         \* ids with a result
        records    |-> <<>>,
        ctx_turns  |-> {}]

-----------------------------------------------------------------------------
First(a, b) == IF a = NoTime THEN b ELSE a

\* Line x as the browser reads it, format f: _iterJsonObjects recovers the object that
\* ends a malformed legacy line, and a tool.result has failed by either spelling.
AsRead(x, f) ==
  [x EXCEPT !.kind = IF f = "legacy" /\ @ = "torn" THEN x.tail ELSE @,
            !.err  = @ \/ (x.kind = "tool.result" /\ x.is_error)]

Is(x, format, kinds) == fmt = format /\ x.kind \in kinds

WithCalls(s, x) == [s EXCEPT !.called = @ \cup {x.calls[i] : i \in DOMAIN x.calls}]

WithResult(s, x) ==
  IF x.id = "" THEN s
  ELSE [s EXCEPT !.results = @ \cup {x.id},
                 !.errors = IF x.err THEN @ \cup {x.id} ELSE @ \ {x.id}]

\* An entry of `events` has the time of its line.
WithEvent(s, x) == [s EXCEPT !.event_ts = First(@, x.ts)]

WithMeta(s, x) == [s EXCEPT !.meta_ts = First(@, x.ts)]

\* A status_update of metaEvents.
WithUpdate(s, x, usage, latency) ==
  [s EXCEPT !.updates = Append(@, [line_num |-> Len(lines) + 1, usage |-> usage,
                                   model |-> x.model, latency |-> latency])]

-----------------------------------------------------------------------------
(* _parseLegacy                                                            *)

JSTurnBegin(x) ==
  /\ Is(x, "legacy", {"TurnBegin"})
  /\ js' = [WithMeta(WithEvent(js, x), x) EXCEPT !.pending = x.ts, !.text = 0]

JSTurnEnd(x) ==
  /\ Is(x, "legacy", {"TurnEnd"})
  /\ js' = [WithMeta(js, x) EXCEPT !.pending = NoTime]

JSContentPart(x) ==
  /\ Is(x, "legacy", {"ContentPart"})
  /\ js' = [WithEvent(js, x) EXCEPT !.text = @ + x.chars]

JSToolCall(x) ==
  /\ Is(x, "legacy", {"ToolCall"})
  /\ js' = WithCalls(WithEvent(js, x), x)

JSToolResult(x) ==
  /\ Is(x, "legacy", {"ToolResult"})
  /\ js' = WithResult(WithEvent(js, x), x)

\* token_usage is {} when it is missing, and tells of no tokens.
NoUse == [fresh |-> 0, create |-> 0, read |-> 0, output |-> 0]

\* No latency is measured.
JSStatusUpdate(x) ==
  /\ Is(x, "legacy", {"StatusUpdate"})
  /\ js' = WithUpdate(WithMeta(js, x), x, IF x.has_usage THEN x.usage ELSE NoUse, NoLatency)

-----------------------------------------------------------------------------
(* _parseKimiCode                                                          *)

JSPrompt(x) ==
  /\ Is(x, "kimi-code", {"turn.prompt"})
  /\ js' = [js EXCEPT !.pending = x.ts, !.text = 0]

JSAssistant(x) ==
  /\ Is(x, "kimi-code", {"assistant"})
  /\ js' = [WithCalls(js, x) EXCEPT !.text = @ + x.chars]

JSToolAnswer(x) ==
  /\ Is(x, "kimi-code", {"tool", "tool.result"})
  /\ js' = WithResult(js, x)

JSStepBegin(x) ==
  /\ Is(x, "kimi-code", {"step.begin"})
  /\ js' = IF x.id # js.turn_id THEN [js EXCEPT !.turn_id = x.id, !.text = 0] ELSE js

JSLoopContent(x) ==
  /\ Is(x, "kimi-code", {"content.part"})
  /\ js' = [js EXCEPT !.text = @ + x.chars]

JSLoopToolCall(x) ==
  /\ Is(x, "kimi-code", {"tool.call"})
  /\ js' = WithCalls(js, x)

JSLatency(x) ==
  IF js.pending # NoTime /\ x.ts # NoTime /\ x.ts >= js.pending THEN x.ts - js.pending
  ELSE NoLatency

\* Mutant of JSUsageRecord: each usage line of a turn gets a latency.
JSUsageRecordKeepingStart(x) ==
  /\ Is(x, "kimi-code", {"usage.record"})
  /\ js' = WithUpdate(js, x, x.usage, JSLatency(x))

JSUsageRecord(x) ==
  /\ Is(x, "kimi-code", {"usage.record"})
  /\ js' = [WithUpdate(js, x, x.usage, JSLatency(x)) EXCEPT !.pending = NoTime]

\* Metadata, step.end, unknown and foreign lines, and malformed ones of kimi-code; a
\* legacy line that is unknown still has its time in metaEvents.
JSOther(x) ==
  \/ /\ Is(x, "legacy", {"other"})
     /\ js' = WithMeta(js, x)
  \/ /\ \/ Is(x, "legacy", Kinds \ (LegacyKinds \cup {"other"}))
        \/ Is(x, "kimi-code", LegacyKinds \cup {"metadata", "step.end", "other", "bad", "torn"})
     /\ UNCHANGED js

-----------------------------------------------------------------------------
(* What is returned.                                                       *)

\* modelForSession: by the first of events that has a time, else of metaEvents.
session_model ==
  LET ts == First(js.event_ts, js.meta_ts)
  IN  IF ts = NoTime               THEN "kimi-k2-7-code"
      ELSE IF ts < ModelCutoff     THEN "kimi-k2-6"
      ELSE IF ts < BrowserK3Cutoff THEN "kimi-k2-7-code"
      ELSE "kimi-k3"

\* The text at the end of the file goes into every record.
JSRecord(m) ==
  [line_num |-> m.line_num, usage |-> m.usage, text_chars |-> js.text,
   model |-> IF fmt = "legacy" THEN session_model ELSE m.model,
   reply_latency_s |-> m.latency]

\* Mutant of JSContext: only what was not in the cache counts as input.
JSContextOfFresh(us) ==
  LET points == {i \in DOMAIN us : us[i].usage.fresh > 0}
  IN  {[line |-> us[i].line_num, input |-> us[i].usage.fresh] : i \in points}

\* A point for each status_update that tells of input.  delta follows from these.
JSContext(us) ==
  LET points == {i \in DOMAIN us : ctx_input(us[i].usage) > 0}
  IN  {[line |-> us[i].line_num, input |-> ctx_input(us[i].usage)] : i \in points}

JSReturn ==
  js' = [js EXCEPT !.records   = [i \in DOMAIN js.updates |-> JSRecord(js.updates[i])],
                   !.ctx_turns = JSContext(js.updates)]

JSRead(x) ==
  \/ JSTurnBegin(x) \/ JSTurnEnd(x) \/ JSContentPart(x) \/ JSToolCall(x) \/ JSToolResult(x)
  \/ JSStatusUpdate(x)
  \/ JSPrompt(x) \/ JSAssistant(x) \/ JSToolAnswer(x) \/ JSStepBegin(x) \/ JSLoopContent(x)
  \/ JSLoopToolCall(x) \/ JSUsageRecord(x)
  \/ JSOther(x)

BothNext == \/ \E x \in NextLines : Read(x) /\ JSRead(AsRead(x, fmt))
            \/ EndOfFile /\ JSReturn

BothInit == Init /\ BrowserInit

BothSpec == BothInit /\ [][BothNext]_browser_vars

-----------------------------------------------------------------------------
(* Properties.                                                             *)

\* The lines s as the browser reads them.
AllAsRead(s, f) == [i \in DOMAIN s |-> AsRead(s[i], f)]

\* What is billed by the records I of recs.
Billed(recs, I) == {[line_num |-> recs[k].line_num, usage |-> recs[k].usage] : k \in I}

\* The browser bills the lines the backend bills, for the same tokens, in the same
\* order.  Beyond them it has StatusUpdates without token_usage, as records of no
\* tokens, and those that end a malformed legacy line, which the backend skips
\* (parser.js 75-93, 136-142, 235-248, 282-310; parse.py 149-152, 223-226).
UsageAgrees ==
  phase = "done" =>
    LET told == {k \in DOMAIN js.records : TellsUsage(lines, fmt, js.records[k].line_num)}
    IN  /\ InOrder(js.records)
        /\ Billed(js.records, told) = Billed(records, DOMAIN records)
        /\ \A k \in DOMAIN js.records \ told :
             LET x == lines[js.records[k].line_num]
             IN  IF x.kind = "torn" THEN fmt = "legacy" /\ x.tail = "StatusUpdate"
                 ELSE js.records[k].usage = NoUse

\* In kimi-code, the format for which the browser measures it, the latency of
\* each record is the backend's (parser.js 523-528; parse.py 516-521).
LatencyAgrees ==
  phase = "done" /\ fmt = "kimi-code" =>
    \A j \in DOMAIN js.records, k \in DOMAIN records :
      js.records[j].line_num = records[k].line_num =>
        js.records[j].reply_latency_s = records[k].reply_latency_s

\* The stored context chart is the part of the Inspector's that is of the last usage
\* lines of turns, with the same sizes.  A point that only the Inspector has is of a line
\* that another usage line of its turn follows, of a line outside all turns, or of the
\* end of a malformed line (parser.js 312-323, 607-618; parse.py 281-306).
ChartCoversBackend ==
  phase = "done" =>
    {[line |-> p.line, input |-> p.input] : p \in ctx_turns} =
      {q \in js.ctx_turns : q.line \in Charted(lines, fmt)}

\* A call fails in the Inspector exactly when its stored tool use failed, if the two read
\* alike the last result that the browser finds for it (parser.js 254-262, 504, 561-567;
\* parse.py 275-279, 496-504).
ToolErrorsAgree ==
  phase = "done" =>
    \A k \in DOMAIN tool_uses :
      LET id     == tool_uses[k].tool_call_id
          found  == Results(AllAsRead(lines, fmt), fmt, id)
          decides == lines[Max(found)]
      IN  /\ id # "" => id \in js.called
          /\ found = {} \/ AsRead(decides, fmt) = decides =>
               tool_uses[k].is_error = IF id \notin js.results THEN "null"
                                       ELSE IF id \in js.errors THEN "true" ELSE "false"

\* The Inspector and the tables tell the same of a file's usage, latencies and failed
\* calls (parser.js 3: "Mirrors backend/parse.py"), but for malformed legacy lines and
\* for results that spell is_error.
RecordsAgree == UsageAgrees /\ LatencyAgrees /\ ToolErrorsAgree
=============================================================================
