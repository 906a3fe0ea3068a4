----------------------------- MODULE WireParser -----------------------------
(***************************************************************************)
(* backend/parse.py and backend/pricing.py: parse_file folds the lines of  *)
(* one wire.jsonl, in one of two formats, into billing records, tool uses  *)
(* and the context size of each turn.                                      *)
(*                                                                         *)
(* A file is read a line at a time, so that each prefix of a file is a     *)
(* state.  parse_file looks ahead for the line that tells the format; here *)
(* `fmt` is guessed at the start, and only the guess that the whole file   *)
(* confirms reaches EndOfFile.  A line is a record: its kind (blank and    *)
(* unknown lines are "other", JSON that is not an object is "bad"), time,  *)
(* turn or tool id, the characters of visible text, the ids of the tool    *)
(* calls, and what it says of tokens and model.  A malformed line is       *)
(* "torn" if it ends in a complete object, which is of kind `tail` and of  *)
(* which the other fields speak, and "other" without a time if not.  0 and *)
(* "" are what the code takes for absent; turn.steer is handled as         *)
(* turn.prompt.                                                            *)
(***************************************************************************)
EXTENDS Integers, Sequences, FiniteSetsExt

CONSTANTS
  Menu,           \* format -> place -> the lines a file may have there
  Ids,            \* of turns and tool calls
  MaxLines,       \* bound: lines of a file
  ModelCutoff,    \* MODEL_CUTOFF_EPOCH
  K3Cutoff        \* K3_CUTOFF_EPOCH

Formats == {"legacy", "kimi-code"}

Kinds == {"TurnBegin", "TurnEnd", "ContentPart", "ToolCall", "ToolResult", "StatusUpdate",
          "metadata", "turn.prompt", "assistant", "tool", "step.begin", "step.end",
          "content.part", "tool.call", "tool.result", "usage.record", "other", "bad", "torn"}

Usage  == [fresh : Nat, create : Nat, read : Nat, output : Nat]
NoTime == 0

OptionalIds == Ids \cup {""}

\* "kimi-for-coding" stands for any id that is not k3's.
WireModels == {"", "k3", "kimi-for-coding"}

\* is_error is how a tool.result of kimi-code may spell isError, which is err.
Lines == [kind : Kinds, tail : Kinds \ {"bad", "torn"}, ts : Nat, id : OptionalIds,
          err : BOOLEAN, is_error : BOOLEAN, chars : Nat, calls : Seq(OptionalIds),
          has_usage : BOOLEAN, usage : Usage, model : WireModels]

ASSUME MenuAssumption   == Menu \in [Formats -> [1 .. MaxLines -> SUBSET Lines]]
ASSUME CutoffAssumption == {MaxLines, ModelCutoff, K3Cutoff} \subseteq Nat

VARIABLES
  lines,                  \* the lines read so far
  fmt,                    \* the format guessed
  phase,                  \* "reading", "done" or "raised"
  first_event_ts,
  current_turn,           \* the open turn, if any, and its status_lines
  current_turn_id,        \* kimi-code: turnId of the last step.begin
  turns,                  \* status_lines of each closed turn
  pending_turn_begin_ts,
  text_chars_since_turn,
  records,                \* records_in_order
  tool_uses,
  tool_result_is_error,   \* the last result of each tool call id
  ctx_turns

turn_vars == <<current_turn, current_turn_id, turns>>
tool_vars == <<tool_uses, tool_result_is_error>>
vars == <<lines, fmt, phase, first_event_ts, turn_vars, pending_turn_begin_ts,
          text_chars_since_turn, records, tool_vars, ctx_turns>>

Closed == [open |-> FALSE, status_lines |-> <<>>]
Opened == [open |-> TRUE, status_lines |-> <<>>]

NoLatency == -1

-----------------------------------------------------------------------------
(* Model attribution and price.                                            *)

Models == {"kimi-k3", "kimi-k2-7-code", "kimi-k2-6"}

\* Hundredths of a dollar per million tokens.
MODEL_RATES ==
  [m \in Models |->
     CASE m = "kimi-k3"        -> [fresh |-> 300, create |-> 0, read |-> 30, output |-> 1500]
       [] m = "kimi-k2-7-code" -> [fresh |-> 95,  create |-> 0, read |-> 19, output |-> 400]
       [] m = "kimi-k2-6"      -> [fresh |-> 95,  create |-> 0, read |-> 16, output |-> 400]]

\* A label that is no key of the table is billed at the oldest model's rates.
rate_for(model) == MODEL_RATES[IF model \in Models THEN model ELSE "kimi-k2-6"]

compute_cost(model, u) ==
  LET r == rate_for(model)
  IN  u.fresh * r.fresh + u.create * r.create + u.read * r.read + u.output * r.output

\* "" stands for None.
canonical_model(wire_model) == IF wire_model = "k3" THEN "kimi-k3" ELSE ""

\* The label of one billing record: the wire's, or else by date.
model_for(wire_model, ts) ==
  IF canonical_model(wire_model) # "" THEN canonical_model(wire_model)
  ELSE IF ts = NoTime                 THEN "kimi-k2-7-code"
  ELSE IF ts < ModelCutoff            THEN "kimi-k2-6"
  ELSE IF wire_model # "" \/ ts < K3Cutoff THEN "kimi-k2-7-code"
  ELSE "kimi-k3"

-----------------------------------------------------------------------------
(* The format: the first line that tells decides, "legacy" if none does.   *)

Telltale(x) ==
  IF \/ x.kind \in {"assistant", "tool", "turn.prompt", "step.begin", "step.end",
                    "content.part", "tool.call", "tool.result", "usage.record"}
     \/ x.kind = "metadata" /\ x.ts # NoTime
    THEN {"kimi-code"}
  ELSE IF \/ x.kind \in {"StatusUpdate", "TurnBegin", "ToolCall", "ContentPart"} /\ x.ts # NoTime
          \/ x.kind = "metadata"
    THEN {"legacy"}
  ELSE {}

Detected(s) ==
  LET telling == {i \in DOMAIN s : Telltale(s[i]) # {}}
  IN  IF telling = {} THEN {"legacy"} ELSE Telltale(s[Min(telling)])

Init ==
  /\ lines = <<>>
  /\ fmt \in Formats
  /\ phase = "reading"
  /\ first_event_ts = NoTime
  /\ current_turn = Closed
  /\ current_turn_id = ""
  /\ turns = <<>>
  /\ pending_turn_begin_ts = NoTime
  /\ text_chars_since_turn = 0
  /\ records = <<>>
  /\ tool_uses = <<>>
  /\ tool_result_is_error = [id \in {} |-> FALSE]
  /\ ctx_turns = {}

-----------------------------------------------------------------------------
(* What the handlers of the two formats share.                             *)

\* x is the next line and of one of these kinds.
ReadLine(x, kinds) ==
  /\ phase = "reading"
  /\ x.kind \in kinds
  /\ lines' = Append(lines, x)
  /\ UNCHANGED <<fmt, ctx_turns>>

Stamp(x) == first_event_ts' = IF first_event_ts = NoTime THEN x.ts ELSE first_event_ts

\* A line of a kind of the format's own, with its time.
Event(x, format, kinds) ==
  /\ fmt = format
  /\ ReadLine(x, kinds)
  /\ Stamp(x)
  /\ phase' = "reading"

\* The turns once the open one is closed.
AllTurns == IF current_turn.open THEN Append(turns, current_turn.status_lines) ELSE turns

StartTurn == /\ turns' = AllTurns
             /\ current_turn' = Opened
             /\ text_chars_since_turn' = 0

AddText(x) == text_chars_since_turn' = text_chars_since_turn + x.chars

AddCalls(x) ==
  tool_uses' = tool_uses \o [i \in DOMAIN x.calls |->
                  [line_num |-> Len(lines) + 1, tool_call_id |-> x.calls[i], is_error |-> "null"]]

AddResult(x) ==
  tool_result_is_error' =
    [id \in DOMAIN tool_result_is_error \cup ({x.id} \ {""}) |->
       IF id = x.id THEN x.err ELSE tool_result_is_error[id]]

\* Mutant of Latency: clocks that went back are not noticed.
LatencySigned(x) ==
  IF pending_turn_begin_ts # NoTime /\ x.ts # NoTime
    THEN x.ts - pending_turn_begin_ts ELSE NoLatency

Latency(x) ==
  IF pending_turn_begin_ts # NoTime /\ x.ts # NoTime /\ x.ts >= pending_turn_begin_ts
    THEN x.ts - pending_turn_begin_ts ELSE NoLatency

ctx_input(u) == u.fresh + u.create + u.read

\* first_event_ts' is the first time up to and including this line's.
BillingRecord(x) ==
  LET model == model_for("", first_event_ts')
  IN  [line_num |-> Len(lines) + 1, ts |-> x.ts, model |-> model, usage |-> x.usage,
       cost |-> compute_cost(model, x.usage), text_chars |-> text_chars_since_turn,
       reply_latency_s |-> Latency(x)]

\* Mutant of AddUsage: each usage line of a turn gets a latency.
AddUsageKeepingStart(x) ==
  /\ records' = Append(records, BillingRecord(x))
  /\ current_turn' = IF current_turn.open
                       THEN [current_turn EXCEPT !.status_lines = Append(@, Len(lines) + 1)]
                       ELSE current_turn
  /\ UNCHANGED <<current_turn_id, turns, pending_turn_begin_ts, text_chars_since_turn, tool_vars>>

\* A usage line becomes a record, of the open turn if there is one, and uses up
\* the start from which latency is measured.
AddUsage(x) ==
  /\ records' = Append(records, BillingRecord(x))
  /\ pending_turn_begin_ts' = NoTime
  /\ current_turn' = IF current_turn.open
                       THEN [current_turn EXCEPT !.status_lines = Append(@, Len(lines) + 1)]
                       ELSE current_turn
  /\ UNCHANGED <<current_turn_id, turns, text_chars_since_turn, tool_vars>>

-----------------------------------------------------------------------------
(* _parse_legacy                                                           *)

TurnBegin(x) ==
  /\ Event(x, "legacy", {"TurnBegin"})
  /\ StartTurn
  /\ pending_turn_begin_ts' = x.ts
  /\ UNCHANGED <<current_turn_id, records, tool_vars>>

\* Mutant of TurnEnd: the turn is stored but stays open.
TurnEndStaysOpen(x) ==
  /\ Event(x, "legacy", {"TurnEnd"})
  /\ turns' = AllTurns
  /\ pending_turn_begin_ts' = NoTime
  /\ UNCHANGED <<current_turn, current_turn_id, text_chars_since_turn, records, tool_vars>>

\* Without an open turn nothing happens; then no start is pending either.
TurnEnd(x) ==
  /\ Event(x, "legacy", {"TurnEnd"})
  /\ turns' = AllTurns
  /\ current_turn' = Closed
  /\ pending_turn_begin_ts' = IF current_turn.open THEN NoTime ELSE pending_turn_begin_ts
  /\ UNCHANGED <<current_turn_id, text_chars_since_turn, records, tool_vars>>

ContentPart(x) ==
  /\ Event(x, "legacy", {"ContentPart"})
  /\ AddText(x)
  /\ UNCHANGED <<turn_vars, pending_turn_begin_ts, records, tool_vars>>

ToolCall(x) ==
  /\ Event(x, "legacy", {"ToolCall"})
  /\ AddCalls(x)
  /\ UNCHANGED <<turn_vars, pending_turn_begin_ts, text_chars_since_turn, records,
                 tool_result_is_error>>

ToolResult(x) ==
  /\ Event(x, "legacy", {"ToolResult"})
  /\ AddResult(x)
  /\ UNCHANGED <<turn_vars, pending_turn_begin_ts, text_chars_since_turn, records, tool_uses>>

StatusUpdate(x) ==
  /\ Event(x, "legacy", {"StatusUpdate"})
  /\ x.has_usage
  /\ AddUsage(x)

-----------------------------------------------------------------------------
(* _parse_kimi_code                                                        *)

Metadata(x) ==
  /\ Event(x, "kimi-code", {"metadata"})
  /\ UNCHANGED <<turn_vars, pending_turn_begin_ts, text_chars_since_turn, records, tool_vars>>

Prompt(x) ==
  /\ Event(x, "kimi-code", {"turn.prompt"})
  /\ StartTurn
  /\ pending_turn_begin_ts' = x.ts
  /\ UNCHANGED <<current_turn_id, records, tool_vars>>

\* context.append_message of the assistant: text and any number of calls.
AssistantMessage(x) ==
  /\ Event(x, "kimi-code", {"assistant"})
  /\ AddText(x)
  /\ AddCalls(x)
  /\ UNCHANGED <<turn_vars, pending_turn_begin_ts, records, tool_result_is_error>>

\* context.append_message of a tool, or a tool.result event.
ToolAnswer(x) ==
  /\ Event(x, "kimi-code", {"tool", "tool.result"})
  /\ AddResult(x)
  /\ UNCHANGED <<turn_vars, pending_turn_begin_ts, text_chars_since_turn, records, tool_uses>>

\* A step of another turn than the step before it begins a turn, but the start
\* from which latency is measured stays the prompt's.
StepBegin(x) ==
  /\ Event(x, "kimi-code", {"step.begin"})
  /\ IF x.id # current_turn_id
       THEN StartTurn /\ current_turn_id' = x.id
       ELSE UNCHANGED <<turn_vars, text_chars_since_turn>>
  /\ UNCHANGED <<pending_turn_begin_ts, records, tool_vars>>

LoopContent(x) ==
  /\ Event(x, "kimi-code", {"content.part"})
  /\ AddText(x)
  /\ UNCHANGED <<turn_vars, pending_turn_begin_ts, records, tool_vars>>

LoopToolCall(x) ==
  /\ Event(x, "kimi-code", {"tool.call"})
  /\ AddCalls(x)
  /\ UNCHANGED <<turn_vars, pending_turn_begin_ts, text_chars_since_turn, records,
                 tool_result_is_error>>

\* The model the line names is not looked at.
UsageRecord(x) ==
  /\ Event(x, "kimi-code", {"usage.record"})
  /\ AddUsage(x)

-----------------------------------------------------------------------------
(* Lines of no effect, the line that raises, and the end of the file.      *)

\* Only the time counts: of an unknown line, a StatusUpdate without
\* token_usage, a step.end.
TimeOnly(x) ==
  /\ \/ Event(x, fmt, {"other"})
     \/ Event(x, "legacy", {"StatusUpdate"}) /\ ~x.has_usage
     \/ Event(x, "kimi-code", {"step.end"})
  /\ UNCHANGED <<turn_vars, pending_turn_begin_ts, text_chars_since_turn, records, tool_vars>>

LegacyKinds == {"TurnBegin", "TurnEnd", "ContentPart", "ToolCall", "ToolResult", "StatusUpdate"}

\* A line of the other format, whose fields have other names, or a malformed one.
Foreign(x) ==
  /\ ReadLine(x, IF fmt = "legacy" THEN Kinds \ (LegacyKinds \cup {"other", "bad"})
                 ELSE LegacyKinds \cup {"torn"})
  /\ UNCHANGED <<phase, first_event_ts, turn_vars, pending_turn_begin_ts,
                 text_chars_since_turn, records, tool_vars>>

\* obj.get of something that is not an object: the whole file fails.
Raise(x) ==
  /\ ReadLine(x, {"bad"})
  /\ phase' = "raised"
  /\ UNCHANGED <<first_event_ts, turn_vars, pending_turn_begin_ts, text_chars_since_turn,
                 records, tool_vars>>

RecordAt(line) == records[CHOOSE i \in DOMAIN records : records[i].line_num = line]

\* Mutant of Representative: the first usage line of a turn.
FirstUsage(turn) == RecordAt(turn[1])

\* The usage record that stands for a turn: its last.
Representative(turn) == RecordAt(turn[Len(turn)])

\* A point for each turn with a usage record, unless that tells of no input.
\* The array ctx_turns is this set in the order of idx.
ContextOf(ts) ==
  LET input(i)  == ctx_input(Representative(ts[i]).usage)
      used      == {i \in DOMAIN ts : ts[i] # <<>> /\ input(i) > 0}
      before(i) == {j \in used : j < i}
      prev(i)   == IF before(i) = {} THEN 0 ELSE input(Max(before(i)))
  IN  {[idx   |-> Cardinality(before(i)) + 1, line |-> Representative(ts[i]).line_num,
        input |-> input(i), delta |-> input(i) - prev(i)] : i \in used}

Resolved(u) ==
  [u EXCEPT !.is_error = IF u.tool_call_id \in DOMAIN tool_result_is_error
                           THEN IF tool_result_is_error[u.tool_call_id] THEN "true" ELSE "false"
                           ELSE "null"]

EndOfFile ==
  /\ phase = "reading"
  /\ fmt \in Detected(lines)
  /\ phase' = "done"
  /\ turns' = AllTurns
  /\ current_turn' = Closed
  /\ tool_uses' = [i \in DOMAIN tool_uses |-> Resolved(tool_uses[i])]
  /\ ctx_turns' = ContextOf(AllTurns)
  /\ UNCHANGED <<lines, fmt, first_event_ts, current_turn_id, pending_turn_begin_ts,
                 text_chars_since_turn, records, tool_result_is_error>>

Read(x) ==
  \/ TurnBegin(x) \/ TurnEnd(x) \/ ContentPart(x) \/ ToolCall(x) \/ ToolResult(x)
  \/ StatusUpdate(x)
  \/ Metadata(x) \/ Prompt(x) \/ AssistantMessage(x) \/ ToolAnswer(x) \/ StepBegin(x)
  \/ LoopContent(x) \/ LoopToolCall(x) \/ UsageRecord(x)
  \/ TimeOnly(x) \/ Foreign(x) \/ Raise(x)

NextLines == IF Len(lines) < MaxLines THEN Menu[fmt][Len(lines) + 1] ELSE {}

Next == (\E x \in NextLines : Read(x)) \/ EndOfFile

Spec == Init /\ [][Next]_vars

-----------------------------------------------------------------------------
(* Properties.  `lines` is what the file says; the rest is what the code   *)
(* made of it in one pass.                                                 *)

Turn   == [open : BOOLEAN, status_lines : Seq(Nat)]
Record == [line_num : Nat, ts : Nat, model : Models, usage : Usage, cost : Nat,
           text_chars : Nat, reply_latency_s : Nat \cup {NoLatency}]
Use    == [line_num : Nat, tool_call_id : OptionalIds, is_error : {"null", "true", "false"}]
Point  == [idx : Nat, line : Nat, input : Nat, delta : Int]

\* The parser's locals have their types: lists of line numbers, records whose
\* model is a label of the price table (parse.py 124-144, 346-360).
TypeOK ==
  /\ lines \in Seq(Lines)
  /\ fmt \in Formats
  /\ phase \in {"reading", "done", "raised"}
  /\ {first_event_ts, pending_turn_begin_ts, text_chars_since_turn} \subseteq Nat
  /\ current_turn \in Turn
  /\ current_turn_id \in OptionalIds
  /\ turns \in Seq(Seq(Nat))
  /\ records \in Seq(Record)
  /\ tool_uses \in Seq(Use)
  /\ DOMAIN tool_result_is_error \subseteq Ids
  /\ \A id \in DOMAIN tool_result_is_error : tool_result_is_error[id] \in BOOLEAN
  /\ ctx_turns \subseteq Point

Backed(ts, recs) ==
  \A i \in DOMAIN ts : \A a \in DOMAIN ts[i] :
    \E k \in DOMAIN recs : recs[k].line_num = ts[i][a]

Ascending(ts) ==
  \A i, j \in DOMAIN ts : \A a \in DOMAIN ts[i], b \in DOMAIN ts[j] :
    i < j \/ (i = j /\ a < b) => ts[i][a] < ts[j][b]

\* Every line number a turn holds is that of a record, and no record is counted
\* in two turns or twice in one: read in order, the turns' line numbers ascend
\* (parse.py 162-177, 267-273, 462-467, 545-550).  ctx_turns looks records up
\* by these numbers.
EachUsageInOneTurn == Backed(AllTurns, records) /\ Ascending(AllTurns)

\* What the lines s of a file of format f say by themselves.
LastTurnId(s, i) ==
  LET steps == {j \in 1 .. i - 1 : s[j].kind = "step.begin"}
  IN  IF steps = {} THEN "" ELSE s[Max(steps)].id

Begins(s, f, i) ==
  IF f = "legacy" THEN s[i].kind = "TurnBegin"
  ELSE \/ s[i].kind = "turn.prompt"
       \/ s[i].kind = "step.begin" /\ s[i].id # LastTurnId(s, i)

Ends(s, f, i) == f = "legacy" /\ s[i].kind = "TurnEnd"

Prompts(s, f, i) == s[i].kind = IF f = "legacy" THEN "TurnBegin" ELSE "turn.prompt"

TellsUsage(s, f, i) ==
  IF f = "legacy" THEN s[i].kind = "StatusUpdate" /\ s[i].has_usage
  ELSE s[i].kind = "usage.record"

HasText(s, f, i) ==
  s[i].kind \in IF f = "legacy" THEN {"ContentPart"} ELSE {"assistant", "content.part"}

HasResult(s, f, i) ==
  s[i].kind \in IF f = "legacy" THEN {"ToolResult"} ELSE {"tool", "tool.result"}

Stamped(s, f, i) ==
  /\ s[i].ts # NoTime /\ s[i].kind # "torn"
  /\ s[i].kind = "other" \/ (s[i].kind \in LegacyKinds <=> f = "legacy")

\* No turn begins or ends after line i, up to line j.
SameTurn(s, f, i, j) == \A b \in i + 1 .. j : ~Begins(s, f, b) /\ ~Ends(s, f, b)

InTurn(s, f, i) == \E b \in 1 .. i : Begins(s, f, b) /\ SameTurn(s, f, b, i)

\* The lines that are the last usage of a turn, if that usage tells of input.
Charted(s, f) ==
  {i \in DOMAIN s : /\ TellsUsage(s, f, i) /\ ctx_input(s[i].usage) > 0
                    /\ InTurn(s, f, i)
                    /\ \A j \in i + 1 .. Len(s) : TellsUsage(s, f, j) => ~SameTurn(s, f, i, j)}

Chart(s, f) ==
  LET before(i) == {j \in Charted(s, f) : j < i}
      input(i)  == ctx_input(s[i].usage)
  IN  {[idx   |-> Cardinality(before(i)) + 1, line |-> i, input |-> input(i),
        delta |-> input(i) - (IF before(i) = {} THEN 0 ELSE input(Max(before(i))))] :
         i \in Charted(s, f)}

\* The context chart has one point for each turn whose last usage line tells of
\* input, at that line, in order, with the growth since the point before
\* (parse.py 281-306: "Use the last StatusUpdate in this turn as the canonical
\* one").  A usage line before the first turn or after TurnEnd gives none.
ContextIsLastUsageOfTurn == phase = "done" => ctx_turns = Chart(lines, fmt)

\* The time of the last prompt before line n, while no usage was told and the
\* turn did not end.
PromptTime(s, f, n) ==
  LET prompts == {i \in 1 .. n - 1 : Prompts(s, f, i)}
  IN  IF /\ prompts # {}
         /\ \A i \in Max(prompts) + 1 .. n - 1 : ~TellsUsage(s, f, i) /\ ~Ends(s, f, i)
        THEN s[Max(prompts)].ts ELSE NoTime

\* A record has a latency exactly when it is the first usage since the last
\* prompt, that turn has not ended, and both lines have times in order; it is
\* then the time between the two (parse.py 232-241, 516-521).  In kimi-code
\* the steps in between begin turns but leave the prompt's time alone.
LatencyIsFirstUsageAfterPrompt ==
  \A k \in DOMAIN records :
    LET n == records[k].line_num
        prompted == PromptTime(lines, fmt, n)
    IN  records[k].reply_latency_s =
          IF prompted # NoTime /\ lines[n].ts >= prompted THEN lines[n].ts - prompted
          ELSE NoLatency

\* n -> the visible characters of the first n lines
TextUpTo(s, f) ==
  LET sum[n \in 0 .. Len(s)] ==
        IF n = 0 THEN 0 ELSE IF HasText(s, f, n) THEN sum[n - 1] + s[n].chars ELSE sum[n - 1]
  IN  sum

\* The last line up to n that begins a turn.
LastBegin(s, f, n) == Max({0} \cup {b \in 1 .. n : Begins(s, f, b)})

\* The visible characters of a record are those since its turn began, and no
\* others (parse.py 139-140, 176, 187-190, 380, 474-477).
TextIsOfTurn ==
  \A k \in DOMAIN records :
    LET n == records[k].line_num
    IN  records[k].text_chars =
          TextUpTo(lines, fmt)[n] - TextUpTo(lines, fmt)[LastBegin(lines, fmt, n)]

\* The lines with a result of the call that has this id.
Results(s, f, id) == {i \in DOMAIN s : s[i].id = id /\ id # "" /\ HasResult(s, f, i)}

\* The last result of a call, before or after it, decides whether a tool use
\* failed; without a result, or without an id, that stays open
\* (parse.py 213-221, 275-279, 449-452, 496-504).
ToolErrorsAreLastResults ==
  phase = "done" => \A k \in DOMAIN tool_uses :
    LET results == Results(lines, fmt, tool_uses[k].tool_call_id)
    IN  tool_uses[k].is_error = IF results = {} THEN "null"
                                ELSE IF lines[Max(results)].err THEN "true" ELSE "false"

FirstTime(s, f, n) ==
  LET stamped == {i \in 1 .. n : Stamped(s, f, i)}
  IN  IF stamped = {} THEN NoTime ELSE s[Min(stamped)].ts

\* In the legacy format, whose lines name no model, all records of a file from its
\* first time stamp on are labelled by that stamp, however long the session runs
\* (parse.py 143, 243-245: "First event timestamp drives the per-session model label").
LabelIsOfFirstEvent ==
  fmt = "legacy" => \A k \in DOMAIN records :
    records[k].model = model_for("", FirstTime(lines, fmt, records[k].line_num))

InOrder(recs) == \A j, k \in DOMAIN recs : j < k => recs[j].line_num < recs[k].line_num

\* The records are the lines that tell of usage, each once and in their order, with
\* the line's time and tokens, at the price of the record's own label.
RecordsAreUsageLines ==
  /\ InOrder(records)
  /\ {records[k].line_num : k \in DOMAIN records} = {i \in DOMAIN lines : TellsUsage(lines, fmt, i)}
  /\ \A k \in DOMAIN records :
       LET x == lines[records[k].line_num]
       IN  /\ records[k].ts = x.ts /\ records[k].usage = x.usage
           /\ records[k].cost = compute_cost(records[k].model, x.usage)

\* No usage is lost, counted twice or priced as another's, and what a billing row says
\* beside it is what the lines up to it say: latency, text, and label where dates alone
\* decide it.
RecordsFollowLines ==
  RecordsAreUsageLines /\ LatencyIsFirstUsageAfterPrompt /\ TextIsOfTurn /\ LabelIsOfFirstEvent

\* parse.py 24-26: a usage.record "carries the provider id [...] on the record that
\* becomes a billing row, so it is authoritative when it names a model unambiguously";
\* 67: "The wire wins".  A record whose own line names a model is labelled by it.
WireModelWins ==
  fmt = "kimi-code" => \A k \in DOMAIN records :
    LET named == canonical_model(lines[records[k].line_num].model)
    IN  named # "" => records[k].model = named

\* Where several lines tell of one turn or one call, the last is believed.
LastLineWins == ContextIsLastUsageOfTurn /\ ToolErrorsAreLastResults
=============================================================================
