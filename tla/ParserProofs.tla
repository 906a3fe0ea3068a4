---------------------------- MODULE ParserProofs ----------------------------
(***************************************************************************)
(* The invariants of the two parsers for every menu of lines, files of any *)
(* length and any cut-offs.  Of WireParser: the locals have their types;   *)
(* each usage line belongs to at most one turn, at one place; what a       *)
(* record says is what the lines up to it say; and the chart and the tool  *)
(* uses follow the last line that tells of a turn or a call.  Of           *)
(* BrowserParser: what it makes of a file agrees with all that.            *)
(*                                                                         *)
(* Each property speaks of `lines` alone on one side.  For each of its     *)
(* operators a lemma (...Step) tells how it changes from a sequence to one *)
(* with a line more; TimesRead and TurnsRead tell, once for all actions,   *)
(* what a line does to the parser's locals; Carried, Turned and Errors are *)
(* the invariant that relates the two.  Of the browser's locals, Beside    *)
(* tells what they have in common with the backend's, line after line.     *)
(***************************************************************************)
EXTENDS BrowserParser, DataLemmas, FiniteSetTheorems, FunctionTheorems, TLAPS

UpTo(ts, n) == \A i \in DOMAIN ts : \A a \in DOMAIN ts[i] : ts[i][a] <= n

\* What the turns are worth after n lines.
Sound(ts, recs, n) == Backed(ts, recs) /\ Ascending(ts) /\ UpTo(ts, n)

\* The types of what a line may change.
Locals ==
  /\ lines \in Seq(Lines)
  /\ phase \in {"reading", "done", "raised"}
  /\ first_event_ts \in Nat /\ pending_turn_begin_ts \in Nat /\ text_chars_since_turn \in Nat
  /\ current_turn \in Turn
  /\ current_turn_id \in OptionalIds
  /\ turns \in Seq(Seq(Nat))
  /\ records \in Seq(Record)
  /\ tool_uses \in Seq(Use)
  /\ DOMAIN tool_result_is_error \subseteq Ids
  /\ \A id \in DOMAIN tool_result_is_error : tool_result_is_error[id] \in BOOLEAN

Inv == Locals /\ fmt \in Formats /\ Sound(AllTurns, records, Len(lines))

-----------------------------------------------------------------------------
(* Operators.                                                              *)

\* Every label has its rates, and every cost is a number of their units.
LEMMA CostType ==
  ASSUME NEW m \in Models, NEW u \in Usage
  PROVE  compute_cost(m, u) \in Nat
<1>1. rate_for(m) \in Usage
  BY DEF rate_for, MODEL_RATES, Models, Usage
<1>2. /\ u.fresh * rate_for(m).fresh \in Nat
      /\ u.create * rate_for(m).create \in Nat
      /\ u.read * rate_for(m).read \in Nat
      /\ u.output * rate_for(m).output \in Nat
  BY <1>1 DEF Usage
<1>3. QED
  BY <1>2 DEF compute_cost

\* The label of a record is a key of the price table, whatever the line says.
LEMMA LabelType ==
  ASSUME NEW w, NEW ts \in Nat
  PROVE  model_for(w, ts) \in Models
BY DEF model_for, canonical_model, Models

LEMMA AllTurnsType ==
  ASSUME Locals
  PROVE  AllTurns \in Seq(Seq(Nat))
BY DEF Locals, AllTurns, Turn

\* An empty turn more leaves sound turns sound.
LEMMA EmptyTurn ==
  ASSUME NEW ts \in Seq(Seq(Nat)), NEW recs, NEW n \in Nat, Sound(ts, recs, n)
  PROVE  Sound(Append(ts, <<>>), recs, n)
<1> DEFINE new == Append(ts, <<>>)
<1>1. /\ DOMAIN new = 1 .. Len(ts) + 1 /\ DOMAIN ts = 1 .. Len(ts)
      /\ \A i \in DOMAIN ts : new[i] = ts[i]
      /\ new[Len(ts) + 1] = <<>>
  OBVIOUS
<1>2. DOMAIN new[Len(ts) + 1] = {}
  BY <1>1
<1> HIDE DEF new
<1>3. \A i \in DOMAIN new : \A a \in DOMAIN new[i] : i \in DOMAIN ts /\ new[i] = ts[i]
  BY <1>1, <1>2
<1>4. Backed(new, recs) /\ UpTo(new, n)
  BY <1>3 DEF Sound, Backed, UpTo
<1>5. Ascending(new)
  BY <1>3 DEF Sound, Ascending
<1>6. QED
  BY <1>4, <1>5 DEF Sound, new

\* A line more, of no turn.
LEMMA NextLine ==
  ASSUME NEW ts \in Seq(Seq(Nat)), NEW recs, NEW n \in Nat, Sound(ts, recs, n)
  PROVE  Sound(ts, recs, n + 1)
BY DEF Sound, UpTo

\* A line more, with a record of its own and of no turn.
LEMMA NextRecord ==
  ASSUME NEW ts \in Seq(Seq(Nat)), NEW recs \in Seq(Record), NEW n \in Nat, Sound(ts, recs, n),
         NEW r \in Record
  PROVE  Sound(ts, Append(recs, r), n + 1)
<1>1. Backed(ts, Append(recs, r))
  <2>1. \A k \in DOMAIN recs : Append(recs, r)[k] = recs[k] /\ k \in DOMAIN Append(recs, r)
    OBVIOUS
  <2>2. QED
    BY <2>1 DEF Sound, Backed
<1>2. QED
  BY <1>1 DEF Sound, UpTo

\* A line more, with a record of its own, in the last turn.
LEMMA NextUsage ==
  ASSUME NEW ts \in Seq(Seq(Nat)), NEW t \in Seq(Nat), NEW recs \in Seq(Record), NEW n \in Nat,
         Sound(Append(ts, t), recs, n), NEW r \in Record, r.line_num = n + 1
  PROVE  Sound(Append(ts, Append(t, n + 1)), Append(recs, r), n + 1)
<1> DEFINE old == Append(ts, t)
           new == Append(ts, Append(t, n + 1))
           last == Len(ts) + 1
<1>1. /\ DOMAIN new = 1 .. last /\ DOMAIN old = 1 .. last
      /\ \A i \in 1 .. Len(ts) : new[i] = old[i] /\ new[i] \in Seq(Nat)
      /\ old[last] = t
      /\ new[last] = Append(t, n + 1)
  OBVIOUS
<1>2. /\ DOMAIN new[last] = 1 .. Len(t) + 1
      /\ \A a \in 1 .. Len(t) : new[last][a] = old[last][a]
      /\ new[last][Len(t) + 1] = n + 1
      /\ DOMAIN old[last] = 1 .. Len(t)
  BY <1>1
<1>3. \A i \in DOMAIN new : \A a \in DOMAIN new[i] :
        \/ i \in DOMAIN old /\ a \in DOMAIN old[i] /\ new[i][a] = old[i][a]
        \/ i = last /\ a = Len(t) + 1 /\ new[i][a] = n + 1
  BY <1>1, <1>2
<1>4. \A i \in DOMAIN old : \A a \in DOMAIN old[i] : old[i][a] <= n
  BY DEF Sound, UpTo
<1>5. \A i \in DOMAIN old : \A a \in DOMAIN old[i] : old[i][a] \in Nat
  OBVIOUS
<1> HIDE DEF old, new, last
<1>6. UpTo(new, n + 1)
  BY <1>3, <1>4, <1>5 DEF UpTo
<1>7. Backed(new, Append(recs, r))
  <2>1. Append(recs, r)[Len(recs) + 1].line_num = n + 1 /\ Len(recs) + 1 \in DOMAIN Append(recs, r)
    OBVIOUS
  <2>2. \A k \in DOMAIN recs : Append(recs, r)[k] = recs[k] /\ k \in DOMAIN Append(recs, r)
    OBVIOUS
  <2>3. \A i \in DOMAIN old : \A a \in DOMAIN old[i] :
          \E k \in DOMAIN recs : recs[k].line_num = old[i][a]
    BY DEF Sound, Backed, old
  <2>4. QED
    BY <1>3, <2>1, <2>2, <2>3 DEF Backed
<1>8. Ascending(new)
  <2> SUFFICES ASSUME NEW i \in DOMAIN new, NEW j \in DOMAIN new,
                      NEW a \in DOMAIN new[i], NEW b \in DOMAIN new[j],
                      i < j \/ (i = j /\ a < b)
               PROVE  new[i][a] < new[j][b]
    BY DEF Ascending
  <2>1. i \in DOMAIN old /\ a \in DOMAIN old[i] /\ new[i][a] = old[i][a]
    BY <1>1, <1>2, <1>3 DEF last
  <2>2. CASE j \in DOMAIN old /\ b \in DOMAIN old[j] /\ new[j][b] = old[j][b]
    BY <2>1, <2>2 DEF Sound, Ascending, old
  <2>3. CASE new[j][b] = n + 1
    BY <2>1, <2>3, <1>4, <1>5
  <2>4. QED
    BY <1>3, <2>2, <2>3
<1>9. QED
  BY <1>6, <1>7, <1>8 DEF Sound, new

-----------------------------------------------------------------------------
(* One line.                                                               *)

\* What every line of a format's own does.
LEMMA EventType ==
  ASSUME Locals, NEW x \in Lines, NEW format, NEW kinds, Event(x, format, kinds)
  PROVE  /\ lines' \in Seq(Lines) /\ Len(lines') = Len(lines) + 1
         /\ phase' \in {"reading", "done", "raised"}
         /\ first_event_ts' \in Nat
         /\ x.ts \in Nat /\ x.chars \in Nat /\ x.id \in OptionalIds /\ x.err \in BOOLEAN
         /\ x.calls \in Seq(OptionalIds) /\ x.usage \in Usage
         /\ fmt' = fmt /\ ctx_turns' = ctx_turns
<1>1. /\ x.ts \in Nat /\ x.chars \in Nat /\ x.id \in OptionalIds /\ x.err \in BOOLEAN
      /\ x.calls \in Seq(OptionalIds) /\ x.usage \in Usage
  BY DEF Lines
<1>2. first_event_ts' \in Nat
  BY <1>1 DEF Event, Stamp, Locals
<1>3. QED
  BY <1>1, <1>2 DEF Event, ReadLine, Locals

LEMMA StartTurnType ==
  ASSUME Locals, StartTurn
  PROVE  turns' \in Seq(Seq(Nat)) /\ current_turn' \in Turn /\ text_chars_since_turn' \in Nat
BY AllTurnsType DEF StartTurn, Opened, Turn

LEMMA CallsType ==
  ASSUME Locals, NEW x \in Lines, x.calls \in Seq(OptionalIds), AddCalls(x)
  PROVE  tool_uses' \in Seq(Use)
<1> DEFINE new == [i \in DOMAIN x.calls |->
                     [line_num |-> Len(lines) + 1, tool_call_id |-> x.calls[i], is_error |-> "null"]]
<1>1. \A i \in DOMAIN x.calls : new[i] \in Use
  BY DEF Locals, Use
<1>2. new \in Seq(Use)
  <2>1. DOMAIN x.calls = 1 .. Len(x.calls) /\ Len(x.calls) \in Nat
    OBVIOUS
  <2>2. new \in [1 .. Len(x.calls) -> Use]
    BY <1>1, <2>1
  <2>3. QED
    BY <2>1, <2>2
<1>3. QED
  BY <1>2 DEF AddCalls, Locals

LEMMA ResultType ==
  ASSUME Locals, NEW x, x.id \in OptionalIds, x.err \in BOOLEAN, AddResult(x)
  PROVE  /\ DOMAIN tool_result_is_error' \subseteq Ids
         /\ \A id \in DOMAIN tool_result_is_error' : tool_result_is_error'[id] \in BOOLEAN
<1> DEFINE ids == DOMAIN tool_result_is_error \cup ({x.id} \ {""})
           new == [id \in ids |-> IF id = x.id THEN x.err ELSE tool_result_is_error[id]]
<1>1. ids \subseteq Ids
  BY DEF Locals, OptionalIds
<1>2. \A id \in ids : new[id] \in BOOLEAN
  <2>1. ASSUME NEW id \in ids, id = x.id PROVE new[id] \in BOOLEAN
    BY <2>1
  <2>2. ASSUME NEW id \in ids, id # x.id PROVE new[id] \in BOOLEAN
    <3>1. new[id] = tool_result_is_error[id] /\ id \in DOMAIN tool_result_is_error
      BY <2>2
    <3>2. QED
      BY <3>1 DEF Locals
  <2>3. QED
    BY <2>1, <2>2
<1>3. tool_result_is_error' = new /\ DOMAIN new = ids
  BY DEF AddResult
<1>4. QED
  BY <1>1, <1>2, <1>3

LEMMA RecordType ==
  ASSUME Locals, NEW x, x.ts \in Nat, x.usage \in Usage, first_event_ts' \in Nat
  PROVE  BillingRecord(x) \in Record /\ BillingRecord(x).line_num = Len(lines) + 1
<1> DEFINE model == model_for("", first_event_ts')
<1>1. model \in Models
  BY LabelType
<1> HIDE DEF model
<1>2. compute_cost(model, x.usage) \in Nat
  BY <1>1, CostType
<1>3. Latency(x) \in Nat \cup {NoLatency}
  BY DEF Latency, Locals, NoTime
<1>4. Len(lines) + 1 \in Nat /\ text_chars_since_turn \in Nat
  BY DEF Locals
<1>5. QED
  BY <1>1, <1>2, <1>3, <1>4 DEF BillingRecord, Record, model

LEMMA UsageType ==
  ASSUME Locals, NEW x, x.ts \in Nat, x.usage \in Usage, first_event_ts' \in Nat, AddUsage(x)
  PROVE  records' \in Seq(Record) /\ current_turn' \in Turn /\ pending_turn_begin_ts' \in Nat
<1>1. records' \in Seq(Record)
  BY RecordType DEF AddUsage, Locals
<1>2. current_turn' \in Turn
  <2>1. current_turn.open \in BOOLEAN /\ Append(current_turn.status_lines, Len(lines) + 1) \in Seq(Nat)
    BY DEF Locals, Turn
  <2>2. QED
    BY <2>1 DEF AddUsage, Locals, Turn
<1>3. QED
  BY <1>1, <1>2 DEF AddUsage, NoTime

\* A line leaves the parser's locals well typed.
LEMMA ReadLocals ==
  ASSUME Locals, NEW x \in Lines, Read(x)
  PROVE  Locals'
<1>1. CASE TurnBegin(x)
  BY <1>1, EventType, StartTurnType DEF TurnBegin, Locals, turn_vars, tool_vars
<1>2. CASE TurnEnd(x)
  BY <1>2, EventType, AllTurnsType DEF TurnEnd, Locals, turn_vars, tool_vars, Closed, Turn, NoTime
<1>3. CASE ContentPart(x)
  BY <1>3, EventType DEF ContentPart, Locals, turn_vars, tool_vars, AddText
<1>4. CASE ToolCall(x)
  BY <1>4, EventType, CallsType DEF ToolCall, Locals, turn_vars, tool_vars
<1>5. CASE ToolResult(x)
  BY <1>5, EventType, ResultType DEF ToolResult, Locals, turn_vars, tool_vars
<1>6. CASE StatusUpdate(x)
  BY <1>6, EventType, UsageType DEF StatusUpdate, Locals, turn_vars, tool_vars, AddUsage
<1>7. CASE Metadata(x)
  BY <1>7, EventType DEF Metadata, Locals, turn_vars, tool_vars
<1>8. CASE Prompt(x)
  BY <1>8, EventType, StartTurnType DEF Prompt, Locals, turn_vars, tool_vars
<1>9. CASE AssistantMessage(x)
  BY <1>9, EventType, CallsType DEF AssistantMessage, Locals, turn_vars, tool_vars, AddText
<1>10. CASE ToolAnswer(x)
  BY <1>10, EventType, ResultType DEF ToolAnswer, Locals, turn_vars, tool_vars
<1>11. CASE StepBegin(x)
  BY <1>11, EventType, StartTurnType DEF StepBegin, Locals, turn_vars, tool_vars
<1>12. CASE LoopContent(x)
  BY <1>12, EventType DEF LoopContent, Locals, turn_vars, tool_vars, AddText
<1>13. CASE LoopToolCall(x)
  BY <1>13, EventType, CallsType DEF LoopToolCall, Locals, turn_vars, tool_vars
<1>14. CASE UsageRecord(x)
  BY <1>14, EventType, UsageType DEF UsageRecord, Locals, turn_vars, tool_vars, AddUsage
<1>15. CASE TimeOnly(x)
  BY <1>15, EventType DEF TimeOnly, Locals, turn_vars, tool_vars
<1>16. CASE Foreign(x)
  BY <1>16 DEF Foreign, Locals, turn_vars, tool_vars, ReadLine
<1>17. CASE Raise(x)
  BY <1>17 DEF Raise, Locals, turn_vars, tool_vars, ReadLine
<1>18. QED
  BY <1>1, <1>2, <1>3, <1>4, <1>5, <1>6, <1>7, <1>8, <1>9, <1>10, <1>11, <1>12, <1>13, <1>14, <1>15, <1>16, <1>17 DEF Read

\* The three ways a line may change the turns and records.
LEMMA UnchangedSound ==
  ASSUME Inv, Len(lines') = Len(lines) + 1, UNCHANGED <<turns, current_turn, records>>
  PROVE  Sound(AllTurns, records, Len(lines))'
<1>1. Sound(AllTurns, records, Len(lines) + 1)
  BY AllTurnsType, NextLine DEF Inv, Locals
<1>2. AllTurns' = AllTurns
  BY DEF AllTurns
<1>3. Sound(AllTurns', records', Len(lines'))
  BY <1>1, <1>2
<1>4. QED
  BY <1>3 DEF Sound, Backed, Ascending, UpTo

LEMMA BoundarySound ==
  ASSUME Inv, Len(lines') = Len(lines) + 1, turns' = AllTurns,
         current_turn' \in {Opened, Closed}, UNCHANGED records
  PROVE  Sound(AllTurns, records, Len(lines))'
<1>1. Sound(AllTurns, records, Len(lines) + 1) /\ AllTurns \in Seq(Seq(Nat)) /\ Len(lines) \in Nat
  BY AllTurnsType, NextLine DEF Inv, Locals
<1>2. Sound(Append(AllTurns, <<>>), records, Len(lines) + 1)
  BY <1>1, EmptyTurn
<1>3. AllTurns' = AllTurns \/ AllTurns' = Append(AllTurns, <<>>)
  BY DEF AllTurns, Opened, Closed
<1>4. Sound(AllTurns', records', Len(lines'))
  BY <1>1, <1>2, <1>3
<1>5. QED
  BY <1>4 DEF Sound, Backed, Ascending, UpTo

LEMMA UsageSound ==
  ASSUME Inv, NEW x, x.ts \in Nat, x.usage \in Usage, first_event_ts' \in Nat,
         Len(lines') = Len(lines) + 1, AddUsage(x)
  PROVE  Sound(AllTurns, records, Len(lines))'
<1>1. /\ records \in Seq(Record) /\ Len(lines) \in Nat
      /\ turns \in Seq(Seq(Nat)) /\ current_turn.status_lines \in Seq(Nat)
      /\ Sound(AllTurns, records, Len(lines))
  BY DEF Inv, Locals, Turn
<1>2. /\ BillingRecord(x) \in Record /\ BillingRecord(x).line_num = Len(lines) + 1
      /\ records' = Append(records, BillingRecord(x))
  BY RecordType DEF AddUsage, Inv
<1>3. Sound(AllTurns', records', Len(lines'))
  <2>1. CASE current_turn.open
    <3>1. AllTurns = Append(turns, current_turn.status_lines)
      BY <2>1 DEF AllTurns
    <3>2. AllTurns' = Append(turns, Append(current_turn.status_lines, Len(lines) + 1))
      BY <2>1 DEF AllTurns, AddUsage, Inv, Locals, Turn
    <3>3. QED
      BY <1>1, <1>2, <3>1, <3>2, NextUsage
  <2>2. CASE ~ current_turn.open
    <3>1. AllTurns' = AllTurns
      BY <2>2 DEF AllTurns, AddUsage
    <3>2. QED
      BY <1>1, <1>2, <3>1, AllTurnsType, NextRecord DEF Inv
  <2>3. QED
    BY <2>1, <2>2
<1>4. QED
  BY <1>3 DEF Sound, Backed, Ascending, UpTo

\* A line leaves the turns sound.
LEMMA ReadSound ==
  ASSUME Inv, NEW x \in Lines, Read(x)
  PROVE  Sound(AllTurns, records, Len(lines))'
<1> USE DEF turn_vars
<1>1. CASE TurnBegin(x)
  BY <1>1, EventType, BoundarySound DEF TurnBegin, Inv, StartTurn
<1>2. CASE TurnEnd(x)
  BY <1>2, EventType, BoundarySound DEF TurnEnd, Inv
<1>3. CASE ContentPart(x)
  BY <1>3, EventType, UnchangedSound DEF ContentPart, Inv
<1>4. CASE ToolCall(x)
  BY <1>4, EventType, UnchangedSound DEF ToolCall, Inv
<1>5. CASE ToolResult(x)
  BY <1>5, EventType, UnchangedSound DEF ToolResult, Inv
<1>6. CASE StatusUpdate(x)
  BY <1>6, EventType, UsageSound DEF StatusUpdate, Inv
<1>7. CASE Metadata(x)
  BY <1>7, EventType, UnchangedSound DEF Metadata, Inv
<1>8. CASE Prompt(x)
  BY <1>8, EventType, BoundarySound DEF Prompt, Inv, StartTurn
<1>9. CASE AssistantMessage(x)
  BY <1>9, EventType, UnchangedSound DEF AssistantMessage, Inv
<1>10. CASE ToolAnswer(x)
  BY <1>10, EventType, UnchangedSound DEF ToolAnswer, Inv
<1>11. CASE StepBegin(x)
  <2>1. Len(lines') = Len(lines) + 1 /\ UNCHANGED records
    BY <1>11, EventType DEF StepBegin, Inv
  <2>2. CASE x.id # current_turn_id
    BY <1>11, <2>1, <2>2, BoundarySound DEF StepBegin, StartTurn
  <2>3. CASE x.id = current_turn_id
    BY <1>11, <2>1, <2>3, UnchangedSound DEF StepBegin
  <2>4. QED
    BY <2>2, <2>3
<1>12. CASE LoopContent(x)
  BY <1>12, EventType, UnchangedSound DEF LoopContent, Inv
<1>13. CASE LoopToolCall(x)
  BY <1>13, EventType, UnchangedSound DEF LoopToolCall, Inv
<1>14. CASE UsageRecord(x)
  BY <1>14, EventType, UsageSound DEF UsageRecord, Inv
<1>15. CASE TimeOnly(x)
  BY <1>15, EventType, UnchangedSound DEF TimeOnly, Inv
<1>16. CASE Foreign(x)
  BY <1>16, UnchangedSound DEF Foreign, ReadLine, Inv, Locals
<1>17. CASE Raise(x)
  BY <1>17, UnchangedSound DEF Raise, ReadLine, Inv, Locals
<1>18. QED
  BY <1>1, <1>2, <1>3, <1>4, <1>5, <1>6, <1>7, <1>8, <1>9, <1>10, <1>11, <1>12, <1>13, <1>14, <1>15, <1>16, <1>17 DEF Read

-----------------------------------------------------------------------------
(* The end of the file.                                                    *)

\* The last line number of a turn finds a record.
LEMMA RepresentativeType ==
  ASSUME Locals, NEW ts \in Seq(Seq(Nat)), Backed(ts, records), NEW i \in DOMAIN ts, ts[i] # <<>>
  PROVE  Representative(ts[i]) \in Record
<1>1. Len(ts[i]) \in DOMAIN ts[i]
  OBVIOUS
<1>2. PICK k \in DOMAIN records : records[k].line_num = ts[i][Len(ts[i])]
  BY <1>1 DEF Backed
<1> DEFINE c == CHOOSE m \in DOMAIN records : records[m].line_num = ts[i][Len(ts[i])]
<1>3. c \in DOMAIN records
  BY <1>2
<1>4. records[c] \in Record
  BY <1>3 DEF Locals
<1>5. Representative(ts[i]) = records[c]
  BY DEF Representative, RecordAt
<1> HIDE DEF c
<1>6. QED
  BY <1>4, <1>5

LEMMA ContextType ==
  ASSUME Locals, NEW ts \in Seq(Seq(Nat)), Backed(ts, records)
  PROVE  ContextOf(ts) \subseteq Point
<1> DEFINE input(i)  == ctx_input(Representative(ts[i]).usage)
           used      == {i \in DOMAIN ts : ts[i] # <<>> /\ input(i) > 0}
           before(i) == {j \in used : j < i}
           prev(i)   == IF before(i) = {} THEN 0 ELSE input(Max(before(i)))
<1>1. \A i \in used : Representative(ts[i]).line_num \in Nat /\ input(i) \in Nat
  BY RepresentativeType DEF Record, Usage, ctx_input
<1>2. used \subseteq 1 .. Len(ts) /\ Len(ts) \in Nat
  OBVIOUS
<1> HIDE DEF input, used
<1>3. ASSUME NEW i \in used
      PROVE  Cardinality(before(i)) \in Nat /\ prev(i) \in Nat
  <2>1. before(i) \subseteq 1 .. Len(ts) /\ before(i) \in SUBSET Nat
    <3>1. before(i) \subseteq used
      OBVIOUS
    <3> HIDE DEF before
    <3>2. before(i) \subseteq 1 .. Len(ts)
      BY <1>2, <3>1
    <3>3. 1 .. Len(ts) \subseteq Nat
      BY <1>2
    <3>4. QED
      BY <3>2, <3>3
  <2>2. IsFiniteSet(before(i))
    <3> HIDE DEF before
    <3>1. IsFiniteSet(1 .. Len(ts))
      BY <1>2, FS_Interval
    <3>2. QED
      BY <2>1, <3>1, FS_Subset
  <2>3. Cardinality(before(i)) \in Nat
    BY <2>2, FS_CardinalityType
  <2>4. CASE before(i) # {}
    <3>1. \A y \in before(i) : y <= Len(ts)
      BY <2>1
    <3>2. before(i) \subseteq used
      OBVIOUS
    <3> HIDE DEF before
    <3>3. Max(before(i)) \in before(i)
      BY <1>2, <2>1, <2>4, <3>1, MaxOfNats
    <3>4. QED
      BY <1>1, <2>3, <2>4, <3>2, <3>3
  <2>5. QED
    BY <2>3, <2>4
<1> HIDE DEF before, prev
<1>4. \A i \in used :
        [idx |-> Cardinality(before(i)) + 1, line |-> Representative(ts[i]).line_num,
         input |-> input(i), delta |-> input(i) - prev(i)] \in Point
  BY <1>1, <1>3 DEF Point
<1>5. ContextOf(ts) =
        {[idx |-> Cardinality(before(i)) + 1, line |-> Representative(ts[i]).line_num,
          input |-> input(i), delta |-> input(i) - prev(i)] : i \in used}
  BY DEF ContextOf, input, used, before, prev
<1>6. QED
  BY <1>4, <1>5

LEMMA EndLocals ==
  ASSUME Locals, EndOfFile
  PROVE  Locals'
<1>1. \A u \in Use : Resolved(u) \in Use
  BY DEF Resolved, Use
<1>2. tool_uses' \in Seq(Use)
  <2>1. DOMAIN tool_uses = 1 .. Len(tool_uses) /\ Len(tool_uses) \in Nat
    BY DEF Locals
  <2>2. tool_uses' \in [1 .. Len(tool_uses) -> Use]
    BY <1>1, <2>1 DEF EndOfFile, Locals
  <2>3. QED
    BY <2>1, <2>2
<1>3. current_turn' \in Turn /\ turns' \in Seq(Seq(Nat))
  BY AllTurnsType DEF EndOfFile, Closed, Turn
<1>4. QED
  BY <1>2, <1>3 DEF EndOfFile, Locals

LEMMA EndSound ==
  ASSUME Inv, EndOfFile
  PROVE  Sound(AllTurns, records, Len(lines))'
<1>1. AllTurns' = AllTurns
  BY DEF EndOfFile, AllTurns, Closed
<1>2. Sound(AllTurns', records', Len(lines'))
  BY <1>1 DEF EndOfFile, Inv
<1>3. QED
  BY <1>2 DEF Sound, Backed, Ascending, UpTo

-----------------------------------------------------------------------------
(* The theorems.                                                           *)

IInv == Inv /\ ctx_turns \subseteq Point

LEMMA Initially == Init => IInv
<1> SUFFICES ASSUME Init PROVE IInv
  OBVIOUS
<1>1. Locals /\ fmt \in Formats /\ ctx_turns \subseteq Point
  <2>0. current_turn \in Turn
    <3>1. FALSE \in BOOLEAN /\ <<>> \in Seq(Nat)
      OBVIOUS
    <3>2. Closed \in Turn
      BY <3>1 DEF Closed, Turn
    <3>3. QED
      BY <3>2 DEF Init
  <2>1. /\ lines \in Seq(Lines) /\ turns \in Seq(Seq(Nat)) /\ records \in Seq(Record)
        /\ tool_uses \in Seq(Use) /\ ctx_turns \subseteq Point
    <3>1. \A S : <<>> \in Seq(S)
      OBVIOUS
    <3>2. QED
      BY <3>1 DEF Init
  <2>2. DOMAIN tool_result_is_error = {}
    BY DEF Init
  <2>3. first_event_ts \in Nat /\ pending_turn_begin_ts \in Nat /\ text_chars_since_turn \in Nat
    BY DEF Init, NoTime
  <2>4. current_turn_id \in OptionalIds /\ fmt \in Formats /\ phase = "reading"
    BY DEF Init, OptionalIds
  <2>5. QED
    BY <2>0, <2>1, <2>2, <2>3, <2>4 DEF Locals
<1>2. AllTurns = <<>>
  BY DEF Init, AllTurns, Closed
<1>3. Sound(AllTurns, records, Len(lines))
  BY <1>2 DEF Sound, Backed, Ascending, UpTo
<1>4. QED
  BY <1>1, <1>3 DEF IInv, Inv

LEMMA NextLineType == ASSUME IInv, NEW x \in NextLines PROVE x \in Lines
<1>1. fmt \in Formats /\ Len(lines) \in Nat /\ MaxLines \in Nat
  BY CutoffAssumption DEF IInv, Inv, Locals
<1>2. Len(lines) < MaxLines /\ x \in Menu[fmt][Len(lines) + 1]
  BY DEF NextLines
<1>3. Len(lines) + 1 \in 1 .. MaxLines
  BY <1>1, <1>2
<1>4. Menu[fmt][Len(lines) + 1] \subseteq Lines
  BY <1>1, <1>3, MenuAssumption
<1> QED
  BY <1>2, <1>4

LEMMA Inductive == IInv /\ [Next]_vars => IInv'
<1> SUFFICES ASSUME IInv, [Next]_vars PROVE IInv'
  OBVIOUS
<1>1. ASSUME NEW x \in NextLines, Read(x) PROVE IInv'
  <2>1. x \in Lines
    BY <1>1, NextLineType
  <2>2. fmt' = fmt /\ ctx_turns' = ctx_turns
    BY <1>1 DEF Read, TurnBegin, TurnEnd, ContentPart, ToolCall, ToolResult, StatusUpdate,
                Metadata, Prompt, AssistantMessage, ToolAnswer, StepBegin, LoopContent,
                LoopToolCall, UsageRecord, TimeOnly, Foreign, Raise, Event, ReadLine
  <2>3. QED
    BY <1>1, <2>1, <2>2, ReadLocals, ReadSound DEF IInv, Inv
<1>2. CASE EndOfFile
  <2>1. ctx_turns' \subseteq Point
    BY <1>2, AllTurnsType, ContextType DEF EndOfFile, IInv, Inv, Sound
  <2>2. QED
    BY <1>2, <2>1, EndLocals, EndSound DEF IInv, Inv, EndOfFile
<1>3. CASE UNCHANGED vars
  <2>1. Locals' /\ fmt' \in Formats /\ ctx_turns' \subseteq Point
    BY <1>3 DEF vars, turn_vars, tool_vars, IInv, Inv, Locals
  <2>2. AllTurns' = AllTurns /\ records' = records /\ lines' = lines
    BY <1>3 DEF vars, turn_vars, AllTurns
  <2>3. Sound(AllTurns', records', Len(lines'))
    BY <2>2 DEF IInv, Inv
  <2>4. Sound(AllTurns, records, Len(lines))'
    BY <2>3 DEF Sound, Backed, Ascending, UpTo
  <2>5. QED
    BY <2>1, <2>4 DEF IInv, Inv
<1>4. QED
  BY <1>1, <1>2, <1>3 DEF Next

\* The locals of the parser and the points of the context chart have their
\* types: every record's label is a key of the price table, and every turn's
\* last line number finds a record.
THEOREM TypeCorrect == Spec => []TypeOK
<1>1. IInv => TypeOK
  BY DEF IInv, Inv, Locals, TypeOK
<1>2. QED
  BY <1>1, Initially, Inductive, PTL DEF Spec

\* However lines follow each other, no usage line is counted in two turns, or
\* twice, and a turn holds the line numbers of records only.
THEOREM UsageCountedOnce == Spec => []EachUsageInOneTurn
<1>1. IInv => EachUsageInOneTurn
  BY DEF IInv, Inv, Sound, EachUsageInOneTurn
<1>2. QED
  BY <1>1, Initially, Inductive, PTL DEF Spec

-----------------------------------------------------------------------------
(* What the lines say, from one line to the next: t is s with x behind.    *)

Extends(t, s, x) ==
  /\ s \in Seq(Lines) /\ t \in Seq(Lines) /\ x \in Lines
  /\ Len(s) \in Nat /\ Len(t) = Len(s) + 1
  /\ t[Len(t)] = x
  /\ \A i \in 1..Len(s) : t[i] = s[i]

LEMMA ALineMore ==
  ASSUME NEW s \in Seq(Lines), NEW x \in Lines
  PROVE  Extends(Append(s, x), s, x)
<1> QED
  BY AppendProperties DEF Extends

LEMMA LastTurnIdStep ==
  ASSUME NEW s, NEW t, NEW x, Extends(t, s, x)
  PROVE  /\ \A i \in 1..Len(t) : LastTurnId(t, i) = LastTurnId(s, i)
         /\ LastTurnId(t, Len(t) + 1) = IF x.kind = "step.begin" THEN x.id ELSE LastTurnId(s, Len(t))
<1> DEFINE steps(q, i) == {j \in 1 .. i - 1 : q[j].kind = "step.begin"}
<1>1. ASSUME NEW i \in 1..Len(t) PROVE LastTurnId(t, i) = LastTurnId(s, i)
  <2>1. \A j \in 1 .. i - 1 : j \in 1..Len(s) /\ j \in Nat
    BY DEF Extends
  <2>2. steps(t, i) = steps(s, i)
    BY <2>1 DEF Extends
  <2>3. CASE steps(s, i) = {}
    BY <2>2, <2>3 DEF LastTurnId
  <2>4. CASE steps(s, i) # {}
    <3>1. Max(steps(s, i)) \in steps(s, i)
      <4>1. steps(s, i) \in SUBSET Nat /\ i \in Nat /\ \A j \in steps(s, i) : j <= i
        BY <2>1 DEF Extends
      <4> QED
        BY <2>4, <4>1, MaxOfNats
    <3>2. t[Max(steps(s, i))] = s[Max(steps(s, i))]
      BY <2>1, <3>1 DEF Extends
    <3> QED
      BY <2>2, <2>4, <3>2 DEF LastTurnId
  <2> QED
    BY <2>3, <2>4
<1>2. CASE x.kind = "step.begin"
  <2>1. Len(t) \in steps(t, Len(t) + 1)
    BY <1>2 DEF Extends
  <2>2. Max(steps(t, Len(t) + 1)) = Len(t)
    <3>1. steps(t, Len(t) + 1) \in SUBSET Nat /\ \A j \in steps(t, Len(t) + 1) : j <= Len(t)
      BY DEF Extends
    <3> HIDE DEF steps
    <3> QED
      BY <2>1, <3>1, MaxIs
  <2>3. LastTurnId(t, Len(t) + 1) = x.id
    BY <2>1, <2>2 DEF LastTurnId, Extends
  <2> QED
    BY <1>1, <1>2, <2>3
<1>3. CASE x.kind # "step.begin"
  <2>1. steps(t, Len(t) + 1) = steps(t, Len(t))
    BY <1>3 DEF Extends
  <2>2. LastTurnId(t, Len(t) + 1) = LastTurnId(t, Len(t))
    BY <2>1 DEF LastTurnId
  <2>3. Len(t) \in 1..Len(t)
    BY DEF Extends
  <2> QED
    BY <1>1, <1>3, <2>2, <2>3
<1> QED
  BY <1>1, <1>2, <1>3

\* What is told of the old lines is not changed by a new one.
LEMMA OldLines ==
  ASSUME NEW s, NEW t, NEW x, Extends(t, s, x), NEW f
  PROVE  \A i \in 1..Len(s) :
           /\ Begins(t, f, i) <=> Begins(s, f, i)
           /\ Ends(t, f, i) <=> Ends(s, f, i)
           /\ Prompts(t, f, i) <=> Prompts(s, f, i)
           /\ TellsUsage(t, f, i) <=> TellsUsage(s, f, i)
           /\ HasText(t, f, i) <=> HasText(s, f, i)
           /\ HasResult(t, f, i) <=> HasResult(s, f, i)
           /\ Stamped(t, f, i) <=> Stamped(s, f, i)
<1> SUFFICES ASSUME NEW i \in 1..Len(s)
             PROVE  /\ Begins(t, f, i) <=> Begins(s, f, i)
                    /\ Ends(t, f, i) <=> Ends(s, f, i)
                    /\ Prompts(t, f, i) <=> Prompts(s, f, i)
                    /\ TellsUsage(t, f, i) <=> TellsUsage(s, f, i)
                    /\ HasText(t, f, i) <=> HasText(s, f, i)
                    /\ HasResult(t, f, i) <=> HasResult(s, f, i)
                    /\ Stamped(t, f, i) <=> Stamped(s, f, i)
  OBVIOUS
<1>1. t[i] = s[i] /\ i \in 1..Len(t)
  BY DEF Extends
<1>2. LastTurnId(t, i) = LastTurnId(s, i)
  BY <1>1, LastTurnIdStep
<1> QED
  BY <1>1, <1>2 DEF Begins, Ends, Prompts, TellsUsage, HasText, HasResult, Stamped

LEMMA FirstTimeStep ==
  ASSUME NEW s, NEW t, NEW x, Extends(t, s, x), NEW f
  PROVE  /\ \A n \in 0..Len(s) : FirstTime(t, f, n) = FirstTime(s, f, n)
         /\ FirstTime(t, f, Len(t)) =
              IF FirstTime(s, f, Len(s)) # NoTime \/ ~Stamped(t, f, Len(t))
                THEN FirstTime(s, f, Len(s)) ELSE x.ts
<1> DEFINE stamped(q, n) == {i \in 1 .. n : Stamped(q, f, i)}
<1>0. /\ \A q, n : FirstTime(q, f, n) = IF stamped(q, n) = {} THEN NoTime ELSE q[Min(stamped(q, n))].ts
      /\ Len(s) \in Nat /\ Len(t) = Len(s) + 1
      /\ \A q, n : n \in Nat => stamped(q, n) \in SUBSET (1..n) /\ stamped(q, n) \in SUBSET Nat
  BY DEF FirstTime, Extends
<1>1. ASSUME NEW n \in 0..Len(s)
      PROVE  stamped(t, n) = stamped(s, n) /\ FirstTime(t, f, n) = FirstTime(s, f, n)
  <2>1. stamped(t, n) = stamped(s, n)
    BY <1>0, OldLines
  <2>2. CASE stamped(s, n) # {}
    <3> HIDE DEF stamped
    <3>1. Min(stamped(s, n)) \in 1..n
      BY <1>0, <2>2, MinOfNats
    <3>2. t[Min(stamped(s, n))] = s[Min(stamped(s, n))]
      BY <1>0, <3>1 DEF Extends
    <3> QED
      BY <1>0, <2>1, <2>2, <3>2
  <2> HIDE DEF stamped
  <2> QED
    BY <1>0, <2>1, <2>2
<1>2. CASE stamped(s, Len(s)) = {}
  <2>1. FirstTime(s, f, Len(s)) = NoTime
    BY <1>0, <1>2
  <2>2. stamped(t, Len(t)) = IF Stamped(t, f, Len(t)) THEN {Len(t)} ELSE {}
    <3>1. \A i \in 1..Len(t) : i \in 1..Len(s) \/ i = Len(t)
      BY <1>0
    <3>2. \A i \in 1..Len(s) : ~Stamped(t, f, i)
      BY <1>2, OldLines
    <3>3. Len(t) \in 1..Len(t)
      BY <1>0
    <3> QED
      BY <3>1, <3>2, <3>3
  <2>3. Min({Len(t)}) = Len(t) /\ t[Len(t)] = x
    <3>1. {Len(t)} \in SUBSET Nat /\ Len(t) \in {Len(t)} /\ \A y \in {Len(t)} : Len(t) <= y
      BY <1>0
    <3>2. Min({Len(t)}) = Len(t)
      BY <3>1, MinIs
    <3> QED
      BY <3>2 DEF Extends
  <2> HIDE DEF stamped
  <2> QED
    BY <1>0, <1>1, <2>1, <2>2, <2>3
<1>3. CASE stamped(s, Len(s)) # {}
  <2> DEFINE b == Min(stamped(s, Len(s)))
  <2>1. b \in stamped(s, Len(s)) /\ \A y \in stamped(s, Len(s)) : b <= y
    <3> HIDE DEF stamped
    <3> QED
      BY <1>0, <1>3, MinOfNats
  <2> HIDE DEF b
  <2>2. b \in 1..Len(s) /\ Stamped(s, f, b) /\ Stamped(t, f, b) /\ t[b] = s[b]
    BY <2>1, OldLines DEF Extends
  <2>3. b \in stamped(t, Len(t)) /\ \A y \in stamped(t, Len(t)) : b <= y
    <3>1. ASSUME NEW y \in stamped(t, Len(t)) PROVE b <= y
      <4>1. CASE y \in 1..Len(s)
        BY <2>1, <4>1, OldLines
      <4>2. CASE y = Len(t)
        BY <1>0, <2>2, <4>2
      <4> QED
        BY <1>0, <4>1, <4>2
    <3> QED
      BY <1>0, <2>2, <3>1
  <2>4. Min(stamped(t, Len(t))) = b
    <3>1. stamped(t, Len(t)) \in SUBSET Nat
      BY <1>0
    <3> HIDE DEF stamped
    <3> QED
      BY <2>3, <3>1, MinIs
  <2>5. FirstTime(t, f, Len(t)) = s[b].ts /\ FirstTime(s, f, Len(s)) = s[b].ts
    <3> HIDE DEF stamped
    <3> QED
      BY <1>0, <1>3, <2>2, <2>3, <2>4 DEF b
  <2>6. s[b].ts # NoTime
    BY <2>2 DEF Stamped
  <2> QED
    BY <1>1, <2>5, <2>6
<1> QED
  BY <1>2, <1>3
LEMMA PromptTimeStep ==
  ASSUME NEW s, NEW t, NEW x, Extends(t, s, x), NEW f
  PROVE  /\ \A n \in 1..Len(t) : PromptTime(t, f, n) = PromptTime(s, f, n)
         /\ PromptTime(t, f, Len(t) + 1) =
              IF Prompts(t, f, Len(t)) THEN x.ts
              ELSE IF TellsUsage(t, f, Len(t)) \/ Ends(t, f, Len(t)) THEN NoTime
              ELSE PromptTime(s, f, Len(t))
<1> DEFINE prompts(q, n) == {i \in 1 .. n - 1 : Prompts(q, f, i)}
           quiet(q, n) == \A i \in Max(prompts(q, n)) + 1 .. n - 1 : ~TellsUsage(q, f, i) /\ ~Ends(q, f, i)
<1>0. /\ \A q, n : PromptTime(q, f, n) =
           IF prompts(q, n) # {} /\ quiet(q, n) THEN q[Max(prompts(q, n))].ts ELSE NoTime
      /\ Len(s) \in Nat /\ Len(t) = Len(s) + 1 /\ t[Len(t)] = x
      /\ \A i \in 1..Len(s) : t[i] = s[i]
  BY DEF PromptTime, Extends
<1>1. ASSUME NEW n \in 1 .. Len(t) + 1, NEW q, prompts(q, n) # {}
      PROVE  Max(prompts(q, n)) \in prompts(q, n) /\ \A y \in prompts(q, n) : y <= Max(prompts(q, n))
  <2>1. prompts(q, n) \in SUBSET Nat /\ n \in Nat /\ \A y \in prompts(q, n) : y <= n
    BY <1>0
  <2> HIDE DEF prompts
  <2> QED
    BY <1>1, <2>1, MaxOfNats
<1>2. ASSUME NEW n \in 1..Len(t) PROVE PromptTime(t, f, n) = PromptTime(s, f, n)
  <2>1. \A i \in 1 .. n - 1 : i \in 1..Len(s)
    BY <1>0
  <2>2. prompts(t, n) = prompts(s, n)
    BY <2>1, OldLines
  <2>3. CASE prompts(s, n) = {}
    BY <1>0, <2>2, <2>3
  <2>4. CASE prompts(s, n) # {}
    <3> DEFINE p == Max(prompts(s, n))
    <3>1. p \in 1 .. n - 1
      <4>1. n \in 1 .. Len(t) + 1
        BY <1>0
      <4> QED
        BY <1>1, <2>4, <4>1
    <3> HIDE DEF p
    <3>2. \A i \in p + 1 .. n - 1 : i \in 1..Len(s)
      BY <2>1, <3>1
    <3>3. t[p] = s[p]
      BY <1>0, <2>1, <3>1
    <3>4. (\A i \in p + 1 .. n - 1 : ~TellsUsage(t, f, i) /\ ~Ends(t, f, i))
            <=> (\A i \in p + 1 .. n - 1 : ~TellsUsage(s, f, i) /\ ~Ends(s, f, i))
      BY <3>2, OldLines
    <3>5. quiet(t, n) <=> quiet(s, n)
      BY <2>2, <3>4 DEF p
    <3>6. t[Max(prompts(t, n))] = s[Max(prompts(s, n))]
      BY <2>2, <3>3 DEF p
    <3> HIDE DEF prompts, quiet
    <3> QED
      BY <1>0, <2>2, <2>4, <3>5, <3>6
  <2> QED
    BY <2>3, <2>4
<1> DEFINE m == Len(t)
<1>3. CASE Prompts(t, f, m)
  <2>1. m \in prompts(t, m + 1)
    BY <1>0, <1>3
  <2>2. Max(prompts(t, m + 1)) = m
    <3>1. prompts(t, m + 1) \in SUBSET Nat /\ \A y \in prompts(t, m + 1) : y <= m
      BY <1>0
    <3> HIDE DEF prompts
    <3> QED
      BY <2>1, <3>1, MaxIs
  <2>3. quiet(t, m + 1)
    <3>1. ASSUME NEW i \in m + 1 .. (m + 1) - 1 PROVE FALSE
      BY <1>0
    <3> QED
      BY <2>2, <3>1
  <2> HIDE DEF prompts, quiet
  <2> QED
    BY <1>0, <1>2, <1>3, <2>1, <2>2, <2>3
<1>4. CASE ~Prompts(t, f, m)
  <2>1. prompts(t, m + 1) = prompts(t, m)
    BY <1>0, <1>4
  <2>2. CASE prompts(t, m) = {}
    <3>1. PromptTime(t, f, m + 1) = NoTime /\ PromptTime(t, f, m) = NoTime
      BY <1>0, <2>1, <2>2
    <3>2. m \in 1..Len(t)
      BY <1>0
    <3> QED
      BY <1>2, <1>4, <3>1, <3>2
  <2>3. CASE prompts(t, m) # {}
    <3> DEFINE p == Max(prompts(t, m))
    <3>1. p \in 1 .. m - 1 /\ p = Max(prompts(t, m + 1))
      <4>1. m \in 1 .. Len(t) + 1
        BY <1>0
      <4> QED
        BY <1>0, <1>1, <2>1, <2>3, <4>1
    <3>2. /\ quiet(t, m + 1) <=> (\A i \in p + 1 .. m : ~TellsUsage(t, f, i) /\ ~Ends(t, f, i))
          /\ quiet(t, m) <=> (\A i \in p + 1 .. m - 1 : ~TellsUsage(t, f, i) /\ ~Ends(t, f, i))
      <4>1. (m + 1) - 1 = m
        BY <1>0
      <4> QED
        BY <2>1, <4>1
    <3> HIDE DEF p, quiet
    <3>3. m \in p + 1 .. m /\ \A i \in p + 1 .. m : i \in p + 1 .. m - 1 \/ i = m
      <4>1. m \in Nat /\ p \in Nat /\ p < m
        BY <1>0, <3>1
      <4> HIDE DEF m
      <4> QED
        BY <4>1
    <3>8. \A i \in p + 1 .. m - 1 : i \in p + 1 .. m
      <4>1. m \in Nat /\ p \in Nat
        BY <1>0, <3>1
      <4> HIDE DEF m
      <4> QED
        BY <4>1
    <3>4. quiet(t, m + 1) <=> quiet(t, m) /\ ~TellsUsage(t, f, m) /\ ~Ends(t, f, m)
      BY <3>2, <3>3, <3>8
    <3>5. m \in 1..Len(t)
      BY <1>0
    <3>6. PromptTime(t, f, m) = PromptTime(s, f, m)
      BY <1>2, <3>5
    <3> HIDE DEF prompts
    <3>7. /\ PromptTime(t, f, m + 1) = IF quiet(t, m + 1) THEN t[p].ts ELSE NoTime
          /\ PromptTime(t, f, m) = IF quiet(t, m) THEN t[p].ts ELSE NoTime
      BY <1>0, <2>1, <2>3, <3>1 DEF p
    <3> QED
      BY <1>2, <1>4, <3>4, <3>6, <3>7
  <2> QED
    BY <2>2, <2>3
<1> QED
  BY <1>3, <1>4

LEMMA LastBeginStep ==
  ASSUME NEW s, NEW t, NEW x, Extends(t, s, x), NEW f
  PROVE  /\ \A n \in 0..Len(s) : LastBegin(t, f, n) = LastBegin(s, f, n) /\ LastBegin(s, f, n) \in 0..n
         /\ LastBegin(t, f, Len(t)) = IF Begins(t, f, Len(t)) THEN Len(t) ELSE LastBegin(s, f, Len(s))
<1> DEFINE begins(q, n) == {0} \cup {b \in 1 .. n : Begins(q, f, b)}
<1>0. Len(s) \in Nat /\ Len(t) = Len(s) + 1
  BY DEF Extends
<1>1. ASSUME NEW n \in 0..Len(s)
      PROVE  /\ begins(t, n) = begins(s, n) /\ LastBegin(t, f, n) = LastBegin(s, f, n)
             /\ LastBegin(s, f, n) \in 0..n
  <2>1. \A b \in 1..n : b \in 1..Len(s)
    BY <1>0
  <2>2. begins(t, n) = begins(s, n)
    BY <2>1, OldLines
  <2>3. Max(begins(s, n)) \in 0..n
    <3>1. /\ begins(s, n) \in SUBSET Nat /\ n \in Nat /\ \A b \in begins(s, n) : b <= n
          /\ begins(s, n) # {} /\ begins(s, n) \subseteq 0..n
      BY <1>0
    <3> HIDE DEF begins
    <3> QED
      BY <3>1, MaxOfNats
  <2> QED
    BY <2>2, <2>3 DEF LastBegin
<1>2. CASE Begins(t, f, Len(t))
  <2>1. /\ begins(t, Len(t)) \in SUBSET Nat /\ Len(t) \in begins(t, Len(t))
        /\ \A b \in begins(t, Len(t)) : b <= Len(t)
    BY <1>0, <1>2
  <2>2. Max(begins(t, Len(t))) = Len(t)
    <3> HIDE DEF begins
    <3> QED
      BY <2>1, MaxIs
  <2> QED
    BY <1>1, <1>2, <2>2 DEF LastBegin
<1>3. CASE ~Begins(t, f, Len(t))
  <2>1. begins(t, Len(t)) = begins(t, Len(s))
    <3>1. 1..Len(t) = (1..Len(s)) \cup {Len(t)}
      BY <1>0
    <3> QED
      BY <1>3, <3>1
  <2>2. begins(t, Len(s)) = begins(s, Len(s)) /\ Len(s) \in 0..Len(s)
    BY <1>0, <1>1
  <2> QED
    BY <1>1, <1>3, <2>1, <2>2 DEF LastBegin
<1> QED
  BY <1>1, <1>2, <1>3
\* The visible characters of the first lines.
Adds(g, n, s, f) ==
  g = [i \in 0..n |-> IF i = 0 THEN 0
                      ELSE IF HasText(s, f, i) THEN g[i - 1] + s[i].chars ELSE g[i - 1]]

LEMMA TextExists ==
  ASSUME NEW s, NEW f, NEW k \in Nat
  PROVE  \E g : Adds(g, k, s, f)
<1> DEFINE G == {n \in 0..k : \E g : Adds(g, n, s, f)}
<1>1. 0 \in G
  <2> DEFINE g == [i \in 0..0 |-> 0]
  <2>1. Adds(g, 0, s, f)
    BY DEF Adds
  <2> QED
    BY <2>1
<1>2. ASSUME NEW n \in 0..(k - 1), n \in G
      PROVE  n + 1 \in G
  <2>1. PICK g : Adds(g, n, s, f)
    BY <1>2
  <2> DEFINE next == IF HasText(s, f, n + 1) THEN g[n] + s[n + 1].chars ELSE g[n]
             h == [i \in 0..(n + 1) |-> IF i = n + 1 THEN next ELSE g[i]]
  <2>2. ASSUME NEW i \in 0..(n + 1)
        PROVE  h[i] = IF i = 0 THEN 0
                      ELSE IF HasText(s, f, i) THEN h[i - 1] + s[i].chars ELSE h[i - 1]
    <3>1. CASE i = n + 1
      <4>1. h[i] = next /\ i # 0 /\ h[i - 1] = g[n]
        BY <3>1
      <4> QED
        BY <3>1, <4>1
    <3>2. CASE i = 0
      BY <3>2, <2>1 DEF Adds
    <3>3. CASE i # n + 1 /\ i # 0
      <4>1. i \in 0..n /\ i - 1 \in 0..n
        BY <3>3
      <4>2. h[i] = g[i] /\ h[i - 1] = g[i - 1]
        BY <3>3, <4>1
      <4> QED
        BY <3>3, <4>1, <4>2, <2>1 DEF Adds
    <3> QED
      BY <3>1, <3>2, <3>3
  <2>3. Adds(h, n + 1, s, f)
    <3>1. h = [i \in 0..(n + 1) |-> h[i]]
      OBVIOUS
    <3> HIDE DEF h
    <3> QED
      BY <2>2, <3>1 DEF Adds
  <2> QED
    BY <2>3
<1> HIDE DEF G
<1>3. k \in G
  BY <1>1, <1>2, CountingUp
<1> QED
  BY <1>3 DEF G

LEMMA TextUnfolds ==
  ASSUME NEW s \in Seq(Lines), NEW f
  PROVE  /\ TextUpTo(s, f)[0] = 0
         /\ \A n \in 1..Len(s) :
              TextUpTo(s, f)[n] = IF HasText(s, f, n) THEN TextUpTo(s, f)[n - 1] + s[n].chars
                                  ELSE TextUpTo(s, f)[n - 1]
<1> DEFINE g == TextUpTo(s, f)
<1>1. Adds(g, Len(s), s, f)
  <2>1. \E h : Adds(h, Len(s), s, f)
    <3>1. Len(s) \in Nat
      OBVIOUS
    <3> QED
      BY <3>1, TextExists
  <2>2. g = CHOOSE h : Adds(h, Len(s), s, f)
    BY DEF TextUpTo, Adds
  <2> HIDE DEF g
  <2> QED
    BY <2>1, <2>2
<1>2. g = [i \in 0..Len(s) |-> IF i = 0 THEN 0
                    ELSE IF HasText(s, f, i) THEN g[i - 1] + s[i].chars ELSE g[i - 1]]
  BY <1>1 DEF Adds
<1> HIDE DEF g
<1>3. g[0] = 0
  BY <1>2
<1>4. ASSUME NEW n \in 1..Len(s)
      PROVE  g[n] = IF HasText(s, f, n) THEN g[n - 1] + s[n].chars ELSE g[n - 1]
  <2>1. n \in 0..Len(s) /\ n # 0
    OBVIOUS
  <2> QED
    BY <1>2, <2>1
<1> QED
  BY <1>3, <1>4 DEF g

LEMMA TextType ==
  ASSUME NEW s \in Seq(Lines), NEW f, NEW k \in 0..Len(s)
  PROVE  TextUpTo(s, f)[k] \in Nat
<1> DEFINE g == TextUpTo(s, f)
           G == {n \in 0..k : g[n] \in Nat}
<1>1. 0 \in G
  BY TextUnfolds
<1>2. ASSUME NEW n \in 0..(k - 1), n \in G PROVE n + 1 \in G
  <2>1. n + 1 \in 1..Len(s) /\ (n + 1) - 1 = n
    OBVIOUS
  <2>2. s[n + 1].chars \in Nat
    <3>1. s[n + 1] \in Lines
      BY <2>1, ElementOfSeq
    <3> QED
      BY <3>1 DEF Lines
  <2>3. g[n + 1] = IF HasText(s, f, n + 1) THEN g[n] + s[n + 1].chars ELSE g[n]
    BY <2>1, TextUnfolds
  <2> HIDE DEF g
  <2> QED
    BY <1>2, <2>2, <2>3
<1> HIDE DEF G
<1>3. k \in G
  BY <1>1, <1>2, CountingUp
<1> QED
  BY <1>3 DEF G

LEMMA TextStep ==
  ASSUME NEW s, NEW t, NEW x, Extends(t, s, x), NEW f
  PROVE  /\ \A n \in 0..Len(s) : TextUpTo(t, f)[n] = TextUpTo(s, f)[n]
         /\ TextUpTo(t, f)[Len(t)] =
              IF HasText(t, f, Len(t)) THEN TextUpTo(s, f)[Len(s)] + x.chars
              ELSE TextUpTo(s, f)[Len(s)]
<1> DEFINE g == TextUpTo(s, f)
           h == TextUpTo(t, f)
<1>0. /\ Len(s) \in Nat /\ Len(t) = Len(s) + 1 /\ t[Len(t)] = x
      /\ s \in Seq(Lines) /\ t \in Seq(Lines)
      /\ \A i \in 1..Len(s) : t[i] = s[i]
  BY DEF Extends
<1>1. /\ g[0] = 0 /\ h[0] = 0
      /\ \A n \in 1..Len(s) : g[n] = IF HasText(s, f, n) THEN g[n - 1] + s[n].chars ELSE g[n - 1]
      /\ \A n \in 1..Len(t) : h[n] = IF HasText(t, f, n) THEN h[n - 1] + t[n].chars ELSE h[n - 1]
  BY <1>0, TextUnfolds
<1> HIDE DEF g, h
<1>2. ASSUME NEW k \in 0..Len(s) PROVE h[k] = g[k]
  <2> DEFINE G == {n \in 0..k : h[n] = g[n]}
  <2>1. 0 \in G
    BY <1>1
  <2>2. ASSUME NEW n \in 0..(k - 1), n \in G PROVE n + 1 \in G
    <3>1. /\ n + 1 \in 1..Len(s) /\ n + 1 \in 1..Len(t) /\ n + 1 \in 0..k
          /\ (n + 1) - 1 = n /\ h[n] = g[n]
      BY <1>0, <2>2
    <3>2. HasText(t, f, n + 1) <=> HasText(s, f, n + 1)
      BY <3>1, OldLines
    <3>3. t[n + 1] = s[n + 1]
      BY <1>0, <3>1
    <3>4. /\ g[n + 1] = IF HasText(s, f, n + 1) THEN g[n] + s[n + 1].chars ELSE g[n]
          /\ h[n + 1] = IF HasText(t, f, n + 1) THEN h[n] + t[n + 1].chars ELSE h[n]
      BY <1>1, <3>1
    <3> QED
      BY <3>1, <3>2, <3>3, <3>4
  <2> HIDE DEF G
  <2>3. k \in G
    <3>1. k \in Nat
      BY <1>0
    <3> QED
      BY <2>1, <2>2, <3>1, CountingUp
  <2> QED
    BY <2>3 DEF G
<1>3. Len(t) \in 1..Len(t) /\ Len(t) - 1 = Len(s) /\ Len(s) \in 0..Len(s)
  BY <1>0
<1>4. h[Len(t)] = IF HasText(t, f, Len(t)) THEN h[Len(s)] + x.chars ELSE h[Len(s)]
  BY <1>0, <1>1, <1>3
<1>5. h[Len(s)] = g[Len(s)]
  BY <1>2, <1>3
<1> QED
  BY <1>2, <1>4, <1>5 DEF g, h
-----------------------------------------------------------------------------
(* What a line does to the parser's locals, by what the line says.         *)

LEMMA Reading ==
  ASSUME Locals, NEW x \in Lines, Read(x)
  PROVE  /\ phase = "reading" /\ lines' = Append(lines, x) /\ UNCHANGED <<fmt, ctx_turns>>
         /\ Extends(lines', lines, x)
         /\ phase' = "reading" \/ (x.kind = "bad" /\ UNCHANGED records)
         /\ phase' # "done"
<1>1. phase = "reading" /\ lines' = Append(lines, x) /\ UNCHANGED <<fmt, ctx_turns>>
  BY DEF Read, TurnBegin, TurnEnd, ContentPart, ToolCall, ToolResult, StatusUpdate, Metadata, Prompt,
         AssistantMessage, ToolAnswer, StepBegin, LoopContent, LoopToolCall, UsageRecord, TimeOnly,
         Foreign, Raise, Event, ReadLine
<1>2. Extends(lines', lines, x)
  BY <1>1, ALineMore DEF Locals
<1>3. phase' = "reading" \/ (phase' = "raised" /\ x.kind = "bad" /\ UNCHANGED records)
  BY <1>1 DEF Read, TurnBegin, TurnEnd, ContentPart, ToolCall, ToolResult, StatusUpdate, Metadata, Prompt,
         AssistantMessage, ToolAnswer, StepBegin, LoopContent, LoopToolCall, UsageRecord, TimeOnly,
         Foreign, Raise, Event, ReadLine
<1> QED
  BY <1>1, <1>2, <1>3

\* t[m] is the line that is read, and its turn id is new if the code takes it for new.
Reads(x, t, m) ==
  /\ phase' = "reading"
  /\ t[m] = x
  /\ fmt = "kimi-code" => LastTurnId(t, m) = current_turn_id

LEMMA TimesRead ==
  ASSUME Locals, fmt \in Formats, NEW x \in Lines, Read(x), NEW t, NEW m, Reads(x, t, m)
  PROVE  /\ first_event_ts' = IF first_event_ts # NoTime \/ ~Stamped(t, fmt, m)
                                THEN first_event_ts ELSE x.ts
         /\ pending_turn_begin_ts' =
              IF Prompts(t, fmt, m) THEN x.ts
              ELSE IF TellsUsage(t, fmt, m) \/ (Ends(t, fmt, m) /\ current_turn.open) THEN NoTime
              ELSE pending_turn_begin_ts
         /\ text_chars_since_turn' =
              IF Begins(t, fmt, m) THEN 0
              ELSE IF HasText(t, fmt, m) THEN text_chars_since_turn + x.chars
              ELSE text_chars_since_turn
         /\ current_turn_id' = IF fmt = "kimi-code" /\ x.kind = "step.begin" THEN x.id
                               ELSE current_turn_id
         /\ records' = IF TellsUsage(t, fmt, m) THEN Append(records, BillingRecord(x)) ELSE records
<1> USE DEF Reads, Formats, Stamped, Prompts, TellsUsage, Ends, Begins, HasText, Event, ReadLine, Stamp,
            NoTime, LegacyKinds, turn_vars, tool_vars
<1>1. CASE TurnBegin(x)
  BY <1>1 DEF TurnBegin, StartTurn
<1>2. CASE TurnEnd(x)
  BY <1>2 DEF TurnEnd
<1>3. CASE ContentPart(x)
  BY <1>3 DEF ContentPart, AddText
<1>4. CASE ToolCall(x)
  BY <1>4 DEF ToolCall
<1>5. CASE ToolResult(x)
  BY <1>5 DEF ToolResult
<1>6. CASE StatusUpdate(x)
  BY <1>6 DEF StatusUpdate, AddUsage
<1>7. CASE Metadata(x)
  BY <1>7 DEF Metadata
<1>8. CASE Prompt(x)
  BY <1>8 DEF Prompt, StartTurn
<1>9. CASE AssistantMessage(x)
  BY <1>9 DEF AssistantMessage, AddText
<1>10. CASE ToolAnswer(x)
  BY <1>10 DEF ToolAnswer
<1>11. CASE StepBegin(x)
  BY <1>11 DEF StepBegin, StartTurn
<1>12. CASE LoopContent(x)
  BY <1>12 DEF LoopContent, AddText
<1>13. CASE LoopToolCall(x)
  BY <1>13 DEF LoopToolCall
<1>14. CASE UsageRecord(x)
  BY <1>14 DEF UsageRecord, AddUsage
<1>15. CASE TimeOnly(x)
  BY <1>15 DEF TimeOnly
<1>16. CASE Foreign(x)
  BY <1>16 DEF Foreign, Kinds
<1>17. CASE Raise(x)
  BY <1>17 DEF Raise
<1> QED
  BY <1>1, <1>2, <1>3, <1>4, <1>5, <1>6, <1>7, <1>8, <1>9, <1>10, <1>11, <1>12, <1>13, <1>14, <1>15, <1>16, <1>17 DEF Read

HasCalls(s, f, i) ==
  s[i].kind \in IF f = "legacy" THEN {"ToolCall"} ELSE {"assistant", "tool.call"}

LEMMA TurnsRead ==
  ASSUME Locals, fmt \in Formats, NEW x \in Lines, Read(x), NEW t, NEW m, Reads(x, t, m)
  PROVE  /\ Begins(t, fmt, m) => turns' = AllTurns /\ current_turn' = Opened
         /\ Ends(t, fmt, m) => turns' = AllTurns /\ current_turn' = Closed
         /\ ~Begins(t, fmt, m) /\ ~Ends(t, fmt, m) =>
              /\ turns' = turns
              /\ current_turn' = IF TellsUsage(t, fmt, m) /\ current_turn.open
                                   THEN [current_turn EXCEPT !.status_lines = Append(@, Len(lines) + 1)]
                                   ELSE current_turn
         /\ IF HasResult(t, fmt, m) THEN AddResult(x) ELSE UNCHANGED tool_result_is_error
         /\ IF HasCalls(t, fmt, m) THEN AddCalls(x) ELSE UNCHANGED tool_uses
<1> USE DEF Reads, Formats, TellsUsage, Ends, Begins, HasResult, HasCalls, Event, ReadLine, LegacyKinds,
            turn_vars, tool_vars
<1>1. CASE TurnBegin(x)
  BY <1>1 DEF TurnBegin, StartTurn
<1>2. CASE TurnEnd(x)
  BY <1>2 DEF TurnEnd
<1>3. CASE ContentPart(x)
  BY <1>3 DEF ContentPart
<1>4. CASE ToolCall(x)
  BY <1>4 DEF ToolCall
<1>5. CASE ToolResult(x)
  BY <1>5 DEF ToolResult
<1>6. CASE StatusUpdate(x)
  BY <1>6 DEF StatusUpdate, AddUsage
<1>7. CASE Metadata(x)
  BY <1>7 DEF Metadata
<1>8. CASE Prompt(x)
  BY <1>8 DEF Prompt, StartTurn
<1>9. CASE AssistantMessage(x)
  BY <1>9 DEF AssistantMessage
<1>10. CASE ToolAnswer(x)
  BY <1>10 DEF ToolAnswer
<1>11. CASE StepBegin(x)
  BY <1>11 DEF StepBegin, StartTurn
<1>12. CASE LoopContent(x)
  BY <1>12 DEF LoopContent
<1>13. CASE LoopToolCall(x)
  BY <1>13 DEF LoopToolCall
<1>14. CASE UsageRecord(x)
  BY <1>14 DEF UsageRecord, AddUsage
<1>15. CASE TimeOnly(x)
  BY <1>15 DEF TimeOnly
<1>16. CASE Foreign(x)
  BY <1>16 DEF Foreign, Kinds
<1>17. CASE Raise(x)
  BY <1>17 DEF Raise
<1> QED
  BY <1>1, <1>2, <1>3, <1>4, <1>5, <1>6, <1>7, <1>8, <1>9, <1>10, <1>11, <1>12, <1>13, <1>14, <1>15, <1>16, <1>17 DEF Read

-----------------------------------------------------------------------------
(* The lines that tell of usage, and what is made of them in their order.  *)

\* The lines that parser.js takes for a status_update, with usage or without.
Updates(s, f, i) == s[i].kind = IF f = "legacy" THEN "StatusUpdate" ELSE "usage.record"

Told(s, f)    == {i \in 1..Len(s) : TellsUsage(s, f, i)}
Updated(s, f) == {i \in 1..Len(s) : Updates(s, f, i)}

\* The elements of q are of the lines in W, one of each, in their order.
Enumerates(q, W) ==
  /\ \A j, k \in DOMAIN q : j < k => q[j].line_num < q[k].line_num
  /\ {q[k].line_num : k \in DOMAIN q} = W

\* One element more, of a later line.
LEMMA EnumerateNext ==
  ASSUME NEW S, NEW q \in Seq(S), NEW e, NEW W \in SUBSET Nat, NEW n \in Nat,
         Enumerates(q, W), e.line_num = n, \A i \in W : i < n
  PROVE  Enumerates(Append(q, e), W \cup {n})
<1> DEFINE new == Append(q, e)
           m == Len(q) + 1
<1>1. /\ DOMAIN new = DOMAIN q \cup {m} /\ new[m] = e /\ \A k \in DOMAIN q : new[k] = q[k]
      /\ \A k \in DOMAIN q : k \in Nat /\ k < m
  <2>1. Len(q) \in Nat /\ DOMAIN q = 1..Len(q) /\ DOMAIN new = 1..m
    OBVIOUS
  <2>2. \A k \in 1..Len(q) : new[k] = q[k]
    OBVIOUS
  <2>3. new[m] = e
    OBVIOUS
  <2> HIDE DEF new
  <2> QED
    BY <2>1, <2>2, <2>3
<1>2. m \in Nat
  OBVIOUS
<1> HIDE DEF new, m
<1>3. \A k \in DOMAIN q : q[k].line_num \in W /\ q[k].line_num < n
  BY DEF Enumerates
<1>4. ASSUME NEW j \in DOMAIN new, NEW k \in DOMAIN new, j < k
      PROVE  new[j].line_num < new[k].line_num
  <2>1. j \in DOMAIN q
    BY <1>1, <1>2, <1>4
  <2>2. CASE k \in DOMAIN q
    BY <1>1, <1>4, <2>1, <2>2 DEF Enumerates
  <2>3. CASE k = m
    BY <1>1, <1>3, <2>1, <2>3
  <2> QED
    BY <1>1, <2>2, <2>3
<1>5. {new[k].line_num : k \in DOMAIN new} = W \cup {n}
  <2>1. ASSUME NEW k \in DOMAIN new PROVE new[k].line_num \in W \cup {n}
    BY <1>1, <1>3
  <2>2. ASSUME NEW i \in W PROVE \E k \in DOMAIN new : new[k].line_num = i
    <3>1. PICK k \in DOMAIN q : q[k].line_num = i
      BY DEF Enumerates
    <3> QED
      BY <1>1, <3>1
  <2>3. \E k \in DOMAIN new : new[k].line_num = n
    BY <1>1
  <2> QED
    BY <2>1, <2>2, <2>3
<1> QED
  BY <1>4, <1>5 DEF Enumerates, new

\* The lines that tell of usage, and the status updates, from one line to the next.
LEMMA ToldStep ==
  ASSUME NEW s, NEW t, NEW x, Extends(t, s, x), NEW f
  PROVE  /\ Told(t, f) = IF TellsUsage(t, f, Len(t)) THEN Told(s, f) \cup {Len(t)} ELSE Told(s, f)
         /\ Updated(t, f) = IF Updates(t, f, Len(t)) THEN Updated(s, f) \cup {Len(t)} ELSE Updated(s, f)
         /\ Told(s, f) \in SUBSET Nat /\ Updated(s, f) \in SUBSET Nat
         /\ \A i \in Told(s, f) \cup Updated(s, f) : i < Len(t)
         /\ Len(t) \in Nat
<1>1. /\ Len(s) \in Nat /\ Len(t) = Len(s) + 1 /\ \A i \in 1..Len(s) : t[i] = s[i]
      /\ 1..Len(t) = 1..Len(s) \cup {Len(t)}
  BY DEF Extends
<1>2. \A i \in 1..Len(s) : TellsUsage(t, f, i) <=> TellsUsage(s, f, i)
  BY OldLines
<1>3. \A i \in 1..Len(s) : Updates(t, f, i) <=> Updates(s, f, i)
  BY <1>1 DEF Updates
<1>4. Told(t, f) = IF TellsUsage(t, f, Len(t)) THEN Told(s, f) \cup {Len(t)} ELSE Told(s, f)
  BY <1>1, <1>2 DEF Told
<1>5. Updated(t, f) = IF Updates(t, f, Len(t)) THEN Updated(s, f) \cup {Len(t)} ELSE Updated(s, f)
  BY <1>1, <1>3 DEF Updated
<1>6. \A i \in Told(s, f) \cup Updated(s, f) : i \in Nat /\ i < Len(t)
  BY <1>1 DEF Told, Updated
<1> QED
  BY <1>1, <1>4, <1>5, <1>6

-----------------------------------------------------------------------------
(* What the parser carries from line to line, and what its records say.    *)

\* What a record says is what the lines s up to its own say.
Fits(r, s, f) ==
  /\ r.line_num \in 1..Len(s)
  /\ r.ts = s[r.line_num].ts /\ r.usage = s[r.line_num].usage
  /\ r.cost = compute_cost(r.model, r.usage)
  /\ r.reply_latency_s =
       (IF PromptTime(s, f, r.line_num) # NoTime /\ s[r.line_num].ts >= PromptTime(s, f, r.line_num)
          THEN s[r.line_num].ts - PromptTime(s, f, r.line_num) ELSE NoLatency)
  /\ r.text_chars = TextUpTo(s, f)[r.line_num] - TextUpTo(s, f)[LastBegin(s, f, r.line_num)]
  /\ r.model = model_for("", FirstTime(s, f, r.line_num))

Carried ==
  /\ first_event_ts = FirstTime(lines, fmt, Len(lines))
  /\ pending_turn_begin_ts = PromptTime(lines, fmt, Len(lines) + 1)
  /\ text_chars_since_turn =
       TextUpTo(lines, fmt)[Len(lines)] - TextUpTo(lines, fmt)[LastBegin(lines, fmt, Len(lines))]
  /\ fmt = "kimi-code" => current_turn_id = LastTurnId(lines, Len(lines) + 1)
  /\ fmt = "legacy" /\ ~current_turn.open => pending_turn_begin_ts = NoTime

Follows ==
  /\ phase = "reading" => Carried
  /\ Enumerates(records, Told(lines, fmt))
  /\ \A k \in DOMAIN records : Fits(records[k], lines, fmt)

LEMMA FitsStays ==
  ASSUME NEW s, NEW t, NEW x, Extends(t, s, x), NEW f, NEW r, Fits(r, s, f)
  PROVE  Fits(r, t, f)
<1> DEFINE n == r.line_num
<1>1. n \in 1..Len(s)
  BY DEF Fits
<1> HIDE DEF n
<1>2. n \in 1..Len(t) /\ n \in 0..Len(s) /\ t[n] = s[n]
  BY <1>1 DEF Extends
<1>3. PromptTime(t, f, n) = PromptTime(s, f, n)
  <2>1. \A i \in 1..Len(t) : PromptTime(t, f, i) = PromptTime(s, f, i)
    BY PromptTimeStep
  <2> QED
    BY <1>2, <2>1
<1>4. LastBegin(t, f, n) = LastBegin(s, f, n) /\ LastBegin(s, f, n) \in 0..Len(s)
  <2>1. LastBegin(t, f, n) = LastBegin(s, f, n) /\ LastBegin(s, f, n) \in 0..n
    BY <1>2, LastBeginStep
  <2> QED
    BY <1>2, <2>1 DEF Extends
<1>5. /\ TextUpTo(t, f)[n] = TextUpTo(s, f)[n]
      /\ TextUpTo(t, f)[LastBegin(s, f, n)] = TextUpTo(s, f)[LastBegin(s, f, n)]
  BY <1>2, <1>4, TextStep
<1>6. FirstTime(t, f, n) = FirstTime(s, f, n)
  BY <1>2, FirstTimeStep
<1> QED
  BY <1>2, <1>3, <1>4, <1>5, <1>6 DEF Fits, n

LEMMA Initial ==
  ASSUME NEW f
  PROVE  /\ FirstTime(<<>>, f, 0) = NoTime /\ PromptTime(<<>>, f, 0 + 1) = NoTime
         /\ LastBegin(<<>>, f, 0) = 0 /\ TextUpTo(<<>>, f)[0] = 0
         /\ LastTurnId(<<>>, 0 + 1) = ""
<1>1. 1..0 = {} /\ 1 .. (0 + 1) - 1 = {}
  OBVIOUS
<1>2. LastBegin(<<>>, f, 0) = 0
  <2>1. {0} \cup {b \in 1 .. 0 : Begins(<<>>, f, b)} = {0}
    BY <1>1
  <2>2. {0} \in SUBSET Nat /\ 0 \in {0} /\ \A y \in {0} : y <= 0
    OBVIOUS
  <2>3. Max({0}) = 0
    BY <2>2, MaxIs
  <2> QED
    BY <2>1, <2>3 DEF LastBegin
<1>3. TextUpTo(<<>>, f)[0] = 0
  <2>1. <<>> \in Seq(Lines)
    OBVIOUS
  <2> QED
    BY <2>1, TextUnfolds
<1>4. FirstTime(<<>>, f, 0) = NoTime
  BY <1>1 DEF FirstTime
<1>5. PromptTime(<<>>, f, 0 + 1) = NoTime
  BY <1>1 DEF PromptTime
<1>6. LastTurnId(<<>>, 0 + 1) = ""
  BY <1>1 DEF LastTurnId
<1> QED
  BY <1>2, <1>3, <1>4, <1>5, <1>6

LEMMA CarriedStep ==
  ASSUME Locals, fmt \in Formats, Carried, NEW x \in Lines, Read(x), phase' = "reading"
  PROVE  Carried'
<1> DEFINE s == lines
           t == lines'
           m == Len(lines')
<1>1. Extends(t, s, x) /\ fmt' = fmt
  BY Reading
<1>2. m = Len(s) + 1 /\ t[m] = x /\ Len(s) \in Nat /\ m \in 1..m /\ Len(s) \in 0..Len(s)
      /\ s \in Seq(Lines) /\ t \in Seq(Lines) /\ x.ts \in Nat /\ x.chars \in Nat
  BY <1>1 DEF Extends, Lines
<1>3. /\ LastTurnId(t, m) = LastTurnId(s, m)
      /\ LastTurnId(t, m + 1) = IF x.kind = "step.begin" THEN x.id ELSE LastTurnId(s, m)
  BY <1>1, <1>2, LastTurnIdStep
<1>4. Reads(x, t, m)
  BY <1>2, <1>3 DEF Reads, Carried
<1> HIDE DEF s, t, m
<1>5. /\ first_event_ts' = IF first_event_ts # NoTime \/ ~Stamped(t, fmt, m) THEN first_event_ts ELSE x.ts
      /\ pending_turn_begin_ts' =
           IF Prompts(t, fmt, m) THEN x.ts
           ELSE IF TellsUsage(t, fmt, m) \/ (Ends(t, fmt, m) /\ current_turn.open) THEN NoTime
           ELSE pending_turn_begin_ts
      /\ text_chars_since_turn' =
           IF Begins(t, fmt, m) THEN 0
           ELSE IF HasText(t, fmt, m) THEN text_chars_since_turn + x.chars
           ELSE text_chars_since_turn
      /\ current_turn_id' = IF fmt = "kimi-code" /\ x.kind = "step.begin" THEN x.id ELSE current_turn_id
  BY <1>4, TimesRead
<1>6. /\ first_event_ts = FirstTime(s, fmt, Len(s))
      /\ pending_turn_begin_ts = PromptTime(s, fmt, m)
      /\ text_chars_since_turn = TextUpTo(s, fmt)[Len(s)] - TextUpTo(s, fmt)[LastBegin(s, fmt, Len(s))]
      /\ fmt = "kimi-code" => current_turn_id = LastTurnId(s, m)
      /\ fmt = "legacy" /\ ~current_turn.open => pending_turn_begin_ts = NoTime
  BY <1>2 DEF Carried, s
<1>7. first_event_ts' = FirstTime(t, fmt, m)
  <2>1. FirstTime(t, fmt, Len(t)) = IF FirstTime(s, fmt, Len(s)) # NoTime \/ ~Stamped(t, fmt, Len(t))
                                      THEN FirstTime(s, fmt, Len(s)) ELSE x.ts
    BY <1>1, FirstTimeStep
  <2>2. m = Len(t)
    BY DEF m, t
  <2> QED
    BY <1>5, <1>6, <2>1, <2>2
<1>8. m = Len(t)
  BY DEF m, t
<1>9. pending_turn_begin_ts' = PromptTime(t, fmt, m + 1)
  <2>1. PromptTime(t, fmt, m + 1) = IF Prompts(t, fmt, m) THEN x.ts
                                    ELSE IF TellsUsage(t, fmt, m) \/ Ends(t, fmt, m) THEN NoTime
                                    ELSE PromptTime(s, fmt, m)
    BY <1>1, <1>8, PromptTimeStep
  <2>2. Ends(t, fmt, m) /\ ~current_turn.open => pending_turn_begin_ts = NoTime
    BY <1>6 DEF Ends
  <2> QED
    BY <1>5, <1>6, <2>1, <2>2
<1>10. text_chars_since_turn' = TextUpTo(t, fmt)[m] - TextUpTo(t, fmt)[LastBegin(t, fmt, m)]
  <2>1. TextUpTo(t, fmt)[m] = IF HasText(t, fmt, m) THEN TextUpTo(s, fmt)[Len(s)] + x.chars
                              ELSE TextUpTo(s, fmt)[Len(s)]
    BY <1>1, <1>8, TextStep
  <2>2. /\ LastBegin(t, fmt, m) = IF Begins(t, fmt, m) THEN m ELSE LastBegin(s, fmt, Len(s))
        /\ LastBegin(s, fmt, Len(s)) \in 0..Len(s)
    BY <1>1, <1>2, <1>8, LastBeginStep
  <2>3. TextUpTo(t, fmt)[LastBegin(s, fmt, Len(s))] = TextUpTo(s, fmt)[LastBegin(s, fmt, Len(s))]
    BY <1>1, <2>2, TextStep
  <2>4. /\ TextUpTo(s, fmt)[Len(s)] \in Nat /\ TextUpTo(s, fmt)[LastBegin(s, fmt, Len(s))] \in Nat
        /\ TextUpTo(t, fmt)[m] \in Nat
    <3>1. m \in 0..Len(t)
      BY <1>2, <1>8
    <3> QED
      BY <1>2, <2>2, <3>1, TextType
  <2>5. CASE Begins(t, fmt, m)
    BY <1>5, <2>2, <2>4, <2>5
  <2>6. CASE ~Begins(t, fmt, m)
    <3> DEFINE a == TextUpTo(s, fmt)[Len(s)]
               b == TextUpTo(s, fmt)[LastBegin(s, fmt, Len(s))]
               c == x.chars
    <3>1. /\ text_chars_since_turn' = IF HasText(t, fmt, m) THEN (a - b) + c ELSE a - b
          /\ TextUpTo(t, fmt)[m] = IF HasText(t, fmt, m) THEN a + c ELSE a
          /\ TextUpTo(t, fmt)[LastBegin(t, fmt, m)] = b
          /\ a \in Nat /\ b \in Nat /\ c \in Nat
      BY <1>2, <1>5, <1>6, <2>1, <2>2, <2>3, <2>4, <2>6
    <3> HIDE DEF a, b, c
    <3> QED
      BY <3>1
  <2> QED
    BY <2>5, <2>6
<1>11. fmt = "kimi-code" => current_turn_id' = LastTurnId(t, m + 1)
  BY <1>3, <1>5, <1>6, <1>8 DEF m, s, t
<1>12. fmt = "legacy" /\ ~current_turn'.open => pending_turn_begin_ts' = NoTime
  <2> SUFFICES ASSUME fmt = "legacy", ~current_turn'.open PROVE pending_turn_begin_ts' = NoTime
    OBVIOUS
  <2>1. /\ Begins(t, fmt, m) => turns' = AllTurns /\ current_turn' = Opened
        /\ ~Begins(t, fmt, m) /\ ~Ends(t, fmt, m) =>
              current_turn' = IF TellsUsage(t, fmt, m) /\ current_turn.open
                                THEN [current_turn EXCEPT !.status_lines = Append(@, Len(lines) + 1)]
                                ELSE current_turn
    BY <1>4, TurnsRead
  <2>2. ~Begins(t, fmt, m)
    BY <2>1 DEF Opened
  <2>3. ~Prompts(t, fmt, m)
    BY <2>2 DEF Begins, Prompts
  <2>4. CASE Ends(t, fmt, m)
    BY <1>5, <1>6, <2>3, <2>4
  <2>5. CASE ~Ends(t, fmt, m)
    <3>1. ~current_turn.open
      BY <2>1, <2>2, <2>5 DEF Locals, Turn
    <3> QED
      BY <1>5, <1>6, <2>3, <2>5, <3>1
  <2> QED
    BY <2>4, <2>5
<1> QED
  BY <1>1, <1>7, <1>9, <1>10, <1>11, <1>12 DEF Carried, m, t
LEMMA FollowsInit == Init => Follows
<1> SUFFICES ASSUME Init PROVE Follows
  OBVIOUS
<1>1. lines = <<>> /\ Len(<<>>) = 0
  BY DEF Init
<1>2. Carried
  <2>1. /\ FirstTime(lines, fmt, Len(lines)) = NoTime /\ PromptTime(lines, fmt, Len(lines) + 1) = NoTime
        /\ LastBegin(lines, fmt, Len(lines)) = 0 /\ TextUpTo(lines, fmt)[0] = 0
        /\ LastTurnId(lines, Len(lines) + 1) = "" /\ Len(lines) = 0
    BY <1>1, Initial
  <2>2. TextUpTo(lines, fmt)[Len(lines)] - TextUpTo(lines, fmt)[LastBegin(lines, fmt, Len(lines))] = 0
    <3>1. TextUpTo(lines, fmt)[Len(lines)] = 0
      BY <2>1
    <3>2. TextUpTo(lines, fmt)[LastBegin(lines, fmt, Len(lines))] = 0
      BY <2>1
    <3> QED
      BY <3>1, <3>2
  <2> QED
    BY <2>1, <2>2 DEF Init, Carried
<1>3. DOMAIN records = {}
  <2>1. records = <<>>
    BY DEF Init
  <2> QED
    BY <2>1
<1>4. Enumerates(records, Told(lines, fmt))
  BY <1>1, <1>3 DEF Enumerates, Told
<1> QED
  BY <1>2, <1>3, <1>4 DEF Follows

\* The record of a usage line says what the lines up to it say.
LEMMA NewFits ==
  ASSUME Locals, fmt \in Formats, Carried, NEW x \in Lines, Read(x), phase' = "reading", Carried',
         TellsUsage(lines', fmt, Len(lines'))
  PROVE  Fits(BillingRecord(x), lines', fmt)
<1> DEFINE s == lines
           t == lines'
           m == Len(lines')
           r == BillingRecord(x)
<1>1. Extends(t, s, x) /\ fmt' = fmt
  BY Reading
<1>2. m = Len(s) + 1 /\ t[m] = x /\ Len(s) \in Nat /\ m \in 1..m /\ m = Len(t)
      /\ s \in Seq(Lines) /\ t \in Seq(Lines) /\ x.ts \in Nat
  BY <1>1 DEF Extends, Lines
<1>3. ~Begins(t, fmt, m) /\ ~HasText(t, fmt, m) /\ TellsUsage(t, fmt, m)
  BY DEF Begins, HasText, TellsUsage
<1>4. /\ r.line_num = m /\ r.usage = x.usage /\ r.ts = x.ts
      /\ r.cost = compute_cost(r.model, r.usage)
      /\ r.text_chars = text_chars_since_turn
      /\ r.reply_latency_s = Latency(x)
      /\ r.model = model_for("", first_event_ts')
  BY <1>2 DEF BillingRecord
<1> HIDE DEF r
<1>5. first_event_ts' = FirstTime(t, fmt, m)
  BY <1>1 DEF Carried
<1>6. pending_turn_begin_ts = PromptTime(t, fmt, m)
  <2>1. \A i \in 1..m : PromptTime(t, fmt, i) = PromptTime(s, fmt, i)
    BY <1>1, PromptTimeStep
  <2> QED
    BY <1>2, <2>1 DEF Carried
<1>7. text_chars_since_turn = TextUpTo(t, fmt)[m] - TextUpTo(t, fmt)[LastBegin(t, fmt, m)]
  <2>1. Len(s) \in 0..Len(s)
    BY <1>2
  <2>2. /\ LastBegin(t, fmt, m) = LastBegin(s, fmt, Len(s)) /\ LastBegin(s, fmt, Len(s)) \in 0..Len(s)
    BY <1>1, <1>3, <2>1, LastBeginStep
  <2>3. TextUpTo(t, fmt)[m] = TextUpTo(s, fmt)[Len(s)]
    BY <1>1, <1>3, TextStep
  <2>4. TextUpTo(t, fmt)[LastBegin(s, fmt, Len(s))] = TextUpTo(s, fmt)[LastBegin(s, fmt, Len(s))]
    BY <1>1, <2>2, TextStep
  <2> QED
    BY <2>2, <2>3, <2>4 DEF Carried
<1> DEFINE p == PromptTime(t, fmt, m)
<1>8. r.reply_latency_s = IF p # NoTime /\ t[m].ts >= p THEN t[m].ts - p ELSE NoLatency
  <2>1. Latency(x) = IF pending_turn_begin_ts # NoTime /\ x.ts # NoTime /\ x.ts >= pending_turn_begin_ts
                       THEN x.ts - pending_turn_begin_ts ELSE NoLatency
    BY DEF Latency
  <2>2. pending_turn_begin_ts \in Nat /\ p = pending_turn_begin_ts
    BY <1>6 DEF Locals
  <2>3. p # NoTime /\ x.ts >= p => x.ts # NoTime
    <3> HIDE DEF p
    <3> QED
      BY <1>2, <2>2 DEF NoTime
  <2> HIDE DEF p
  <2> QED
    BY <1>2, <1>4, <2>1, <2>2, <2>3
<1>9. /\ r.line_num = m /\ m \in 1..Len(t) /\ r.ts = t[m].ts /\ r.usage = t[m].usage
      /\ r.cost = compute_cost(r.model, r.usage)
  BY <1>2, <1>4
<1>10. r.text_chars = TextUpTo(t, fmt)[m] - TextUpTo(t, fmt)[LastBegin(t, fmt, m)]
  BY <1>4, <1>7
<1>11. r.model = model_for("", FirstTime(t, fmt, m))
  BY <1>4, <1>5
<1>12. Fits(r, t, fmt)
  <2> HIDE DEF m, t
  <2> QED
    BY <1>8, <1>9, <1>10, <1>11 DEF Fits
<1> QED
  BY <1>12 DEF r

LEMMA FollowsStep ==
  ASSUME Locals, fmt \in Formats, Follows, NEW x \in Lines, Read(x)
  PROVE  Follows'
<1>1. Extends(lines', lines, x) /\ fmt' = fmt /\ phase = "reading"
  BY Reading
<1>2. \A k \in DOMAIN records : Fits(records[k], lines', fmt)
  BY <1>1, FitsStays DEF Follows
<1> DEFINE m == Len(lines')
           old == Told(lines, fmt)
           new == Told(lines', fmt)
<1>0. /\ new = IF TellsUsage(lines', fmt, m) THEN old \cup {m} ELSE old
      /\ old \in SUBSET Nat /\ m \in Nat /\ \A i \in old : i < m
      /\ m = Len(lines) + 1 /\ lines'[m] = x
      /\ Enumerates(records, old)
  BY <1>1, ToldStep DEF Extends, Follows
<1> HIDE DEF m, old, new
<1>3. CASE phase' = "reading"
  <2>1. Carried'
    BY <1>1, <1>3, CarriedStep DEF Follows
  <2>2. records' = IF TellsUsage(lines', fmt, Len(lines')) THEN Append(records, BillingRecord(x))
                   ELSE records
    <3>1. Reads(x, lines', Len(lines'))
      <4>1. LastTurnId(lines', Len(lines')) = LastTurnId(lines, Len(lines) + 1)
        <5>1. Len(lines') \in 1..Len(lines') /\ Len(lines') = Len(lines) + 1
          BY <1>1 DEF Extends
        <5> QED
          BY <1>1, <5>1, LastTurnIdStep
      <4> QED
        BY <1>1, <1>3, <4>1 DEF Reads, Follows, Carried, Extends
    <3> QED
      BY <3>1, TimesRead
  <2>3. CASE TellsUsage(lines', fmt, Len(lines'))
    <3>1. Fits(BillingRecord(x), lines', fmt)
      BY <1>1, <1>3, <2>1, <2>3, NewFits DEF Follows
    <3>2. records' = Append(records, BillingRecord(x)) /\ records \in Seq(Record)
      BY <2>2, <2>3 DEF Locals
    <3>3. \A k \in DOMAIN records' : \/ k \in DOMAIN records /\ records'[k] = records[k]
                                   \/ records'[k] = BillingRecord(x)
      BY <3>2
    <3>4. \A k \in DOMAIN records' : Fits(records'[k], lines', fmt)
      BY <1>2, <3>1, <3>3
    <3>5. BillingRecord(x).line_num = m
      BY <1>0 DEF BillingRecord
    <3>6. Enumerates(Append(records, BillingRecord(x)), old \cup {m})
      BY <1>0, <3>2, <3>5, EnumerateNext
    <3>7. Enumerates(records', new)
      BY <1>0, <2>3, <3>2, <3>6 DEF m
    <3> QED
      BY <1>1, <1>3, <2>1, <3>4, <3>7 DEF Follows, new
  <2>4. CASE ~TellsUsage(lines', fmt, Len(lines'))
    <3>1. new = old
      BY <1>0, <2>4 DEF m
    <3> QED
      BY <1>0, <1>1, <1>2, <1>3, <2>1, <2>2, <2>4, <3>1 DEF Follows, new
  <2> QED
    BY <2>3, <2>4
<1>4. CASE phase' # "reading"
  <2>1. records' = records /\ x.kind = "bad"
    BY <1>4, Reading
  <2>2. new = old
    BY <1>0, <2>1 DEF TellsUsage
  <2> QED
    BY <1>0, <1>1, <1>2, <1>4, <2>1, <2>2 DEF Follows, new
<1> QED
  BY <1>3, <1>4

LEMMA FollowsNext == IInv /\ Follows /\ [Next]_vars => Follows'
<1> SUFFICES ASSUME IInv, Follows, [Next]_vars PROVE Follows'
  OBVIOUS
<1>1. ASSUME NEW x \in NextLines, Read(x) PROVE Follows'
  <2>1. x \in Lines
    BY <1>1, NextLineType
  <2> QED
    BY <1>1, <2>1, FollowsStep DEF IInv, Inv
<1>2. CASE EndOfFile
  BY <1>2 DEF EndOfFile, Follows
<1>3. CASE UNCHANGED vars
  BY <1>3 DEF vars, turn_vars, Follows, Carried
<1> QED
  BY <1>1, <1>2, <1>3 DEF Next

LEMMA FollowsAlways == Spec => [](IInv /\ Follows)
<1> QED
  BY Initially, Inductive, FollowsInit, FollowsNext, PTL DEF Spec

\* For files of any length, the records are the usage lines, each once and in their
\* order, with the line's time and tokens at the price of the record's label; the latency
\* is measured from the last prompt and only once, the characters are those since the
\* turn began, and in the legacy format the label is that of the first time stamp
\* (parse.py 223-266, 507-544).
THEOREM RecordsSayLines == Spec => []RecordsFollowLines
<1>1. IInv /\ Follows => RecordsFollowLines
  <2> SUFFICES ASSUME IInv, Follows PROVE RecordsFollowLines
    OBVIOUS
  <2>1. \A k \in DOMAIN records : Fits(records[k], lines, fmt)
    BY DEF Follows
  <2>2. RecordsAreUsageLines
    <3>1. InOrder(records) /\ {records[k].line_num : k \in DOMAIN records} = Told(lines, fmt)
      BY DEF Follows, Enumerates, InOrder
    <3>2. Told(lines, fmt) = {i \in DOMAIN lines : TellsUsage(lines, fmt, i)}
      BY DEF Told, IInv, Inv, Locals
    <3> QED
      BY <2>1, <3>1, <3>2 DEF RecordsAreUsageLines, Fits
  <2> QED
    BY <2>1, <2>2 DEF Fits, RecordsFollowLines, LatencyIsFirstUsageAfterPrompt, TextIsOfTurn,
                      LabelIsOfFirstEvent
<1> QED
  BY <1>1, FollowsAlways, PTL

-----------------------------------------------------------------------------
(* Turns and lines.                                                        *)

\* Whether two lines are of one turn, from one line to the next.
LEMMA TurnStep ==
  ASSUME NEW s, NEW t, NEW x, Extends(t, s, x), NEW f
  PROVE  /\ \A i, j \in 1..Len(s) : SameTurn(t, f, i, j) <=> SameTurn(s, f, i, j)
         /\ \A i \in 1..Len(s) : InTurn(t, f, i) <=> InTurn(s, f, i)
         /\ \A i \in 1..Len(s) :
              SameTurn(t, f, i, Len(t)) <=>
                SameTurn(s, f, i, Len(s)) /\ ~Begins(t, f, Len(t)) /\ ~Ends(t, f, Len(t))
         /\ SameTurn(t, f, Len(t), Len(t))
         /\ InTurn(t, f, Len(t)) <=>
              \/ Begins(t, f, Len(t))
              \/ InTurn(s, f, Len(s)) /\ ~Begins(t, f, Len(t)) /\ ~Ends(t, f, Len(t))
<1> DEFINE n == Len(s)
           m == Len(t)
<1>0. n \in Nat /\ m = n + 1 /\ \A i \in 1..m : i \in 1..n \/ i = m
  BY DEF Extends
<1>1. ASSUME NEW i \in 1..n, NEW j \in 1..n PROVE SameTurn(t, f, i, j) <=> SameTurn(s, f, i, j)
  <2>1. \A b \in i + 1 .. j : b \in 1..n
    BY <1>0
  <2> QED
    BY <2>1, OldLines DEF SameTurn
<1>2. ASSUME NEW i \in 1..n PROVE InTurn(t, f, i) <=> InTurn(s, f, i)
  <2>1. \A b \in 1..i : b \in 1..n
    BY <1>0
  <2> QED
    BY <1>1, <2>1, OldLines DEF InTurn
<1>3. ASSUME NEW i \in 1..n
      PROVE  SameTurn(t, f, i, m) <=> SameTurn(s, f, i, n) /\ ~Begins(t, f, m) /\ ~Ends(t, f, m)
  <2>1. m \in i + 1 .. m /\ \A b \in i + 1 .. n : b \in i + 1 .. m
    BY <1>0
  <2>2. \A b \in i + 1 .. m : b \in i + 1 .. n \/ b = m
    BY <1>0
  <2>3. SameTurn(t, f, i, m) <=> SameTurn(t, f, i, n) /\ ~Begins(t, f, m) /\ ~Ends(t, f, m)
    BY <2>1, <2>2 DEF SameTurn
  <2>4. n \in 1..n
    BY <1>0
  <2> QED
    BY <1>1, <2>3, <2>4
<1>4. SameTurn(t, f, m, m)
  <2>1. m + 1 .. m = {}
    BY <1>0
  <2> QED
    BY <2>1 DEF SameTurn
<1>5. InTurn(t, f, m) <=> \/ Begins(t, f, m)
                          \/ InTurn(s, f, n) /\ ~Begins(t, f, m) /\ ~Ends(t, f, m)
  <2>1. \A b \in 1..m : b \in 1..n \/ b = m
    BY <1>0
  <2>2. m \in 1..m /\ \A b \in 1..n : b \in 1..m
    BY <1>0
  <2>3. \A b \in 1..n : Begins(t, f, b) <=> Begins(s, f, b)
    BY OldLines
  <2> HIDE DEF n, m
  <2> QED
    BY <1>3, <1>4, <2>1, <2>2, <2>3 DEF InTurn
<1> QED
  BY <1>1, <1>2, <1>3, <1>4, <1>5

\* The turns ts hold the usage lines of turns, each turn its own.
Held(ts, s, f) ==
  /\ \A c \in DOMAIN ts : \A a \in DOMAIN ts[c] :
       ts[c][a] \in 1..Len(s) /\ TellsUsage(s, f, ts[c][a]) /\ InTurn(s, f, ts[c][a])
  /\ \A i \in 1..Len(s) : TellsUsage(s, f, i) /\ InTurn(s, f, i)
       => \E c \in DOMAIN ts : \E a \in DOMAIN ts[c] : ts[c][a] = i
  /\ \A c \in DOMAIN ts : \A a, b \in DOMAIN ts[c] : a < b => SameTurn(s, f, ts[c][a], ts[c][b])
  /\ \A c, d \in DOMAIN ts : \A a \in DOMAIN ts[c], b \in DOMAIN ts[d] :
       c < d => ~SameTurn(s, f, ts[c][a], ts[d][b])

\* The lines of a turn are of one turn with line n; those of turns are not.
Still(turn, s, f, n) == \A a \in DOMAIN turn : SameTurn(s, f, turn[a], n)
Over(ts, s, f, n) == \A c \in DOMAIN ts : \A a \in DOMAIN ts[c] : ~SameTurn(s, f, ts[c][a], n)

\* A line that tells of no usage in a turn.
LEMMA HeldStays ==
  ASSUME NEW s, NEW t, NEW x, Extends(t, s, x), NEW f, NEW ts, Held(ts, s, f),
         ~(TellsUsage(t, f, Len(t)) /\ InTurn(t, f, Len(t)))
  PROVE  Held(ts, t, f)
<1>1. \A i \in 1..Len(t) : i \in 1..Len(s) \/ i = Len(t)
  BY DEF Extends
<1>2. \A c \in DOMAIN ts : \A a \in DOMAIN ts[c] : ts[c][a] \in 1..Len(s) /\ ts[c][a] \in 1..Len(t)
  BY DEF Extends, Held
<1>3. \A i \in 1..Len(s) : /\ TellsUsage(t, f, i) <=> TellsUsage(s, f, i)
                           /\ InTurn(t, f, i) <=> InTurn(s, f, i)
  BY OldLines, TurnStep
<1>4. \A i, j \in 1..Len(s) : SameTurn(t, f, i, j) <=> SameTurn(s, f, i, j)
  BY TurnStep
<1>5. \A c \in DOMAIN ts : \A a \in DOMAIN ts[c] :
        ts[c][a] \in 1..Len(t) /\ TellsUsage(t, f, ts[c][a]) /\ InTurn(t, f, ts[c][a])
  BY <1>2, <1>3 DEF Held
<1>6. \A i \in 1..Len(t) : TellsUsage(t, f, i) /\ InTurn(t, f, i)
        => \E c \in DOMAIN ts : \E a \in DOMAIN ts[c] : ts[c][a] = i
  BY <1>1, <1>3 DEF Held
<1>7. \A c \in DOMAIN ts : \A a, b \in DOMAIN ts[c] : a < b => SameTurn(t, f, ts[c][a], ts[c][b])
  BY <1>2, <1>4 DEF Held
<1>8. \A c, d \in DOMAIN ts : \A a \in DOMAIN ts[c], b \in DOMAIN ts[d] :
       c < d => ~SameTurn(t, f, ts[c][a], ts[d][b])
  BY <1>2, <1>4 DEF Held
<1> QED
  BY <1>5, <1>6, <1>7, <1>8 DEF Held

\* An empty turn more.
LEMMA HeldEmpty ==
  ASSUME NEW ts \in Seq(Seq(Nat)), NEW s, NEW f, Held(ts, s, f)
  PROVE  Held(Append(ts, <<>>), s, f)
<1> DEFINE new == Append(ts, <<>>)
<1>1. /\ DOMAIN new = 1 .. Len(ts) + 1 /\ DOMAIN ts = 1 .. Len(ts)
      /\ \A i \in DOMAIN ts : new[i] = ts[i]
      /\ new[Len(ts) + 1] = <<>>
  OBVIOUS
<1>2. DOMAIN new[Len(ts) + 1] = {}
  BY <1>1
<1> HIDE DEF new
<1>3. \A i \in DOMAIN new : \A a \in DOMAIN new[i] : i \in DOMAIN ts /\ new[i] = ts[i]
  BY <1>1, <1>2
<1>4. \A c \in DOMAIN new : \A a \in DOMAIN new[c] :
       new[c][a] \in 1..Len(s) /\ TellsUsage(s, f, new[c][a]) /\ InTurn(s, f, new[c][a])
  BY <1>3 DEF Held
<1>5. \A i \in 1..Len(s) : TellsUsage(s, f, i) /\ InTurn(s, f, i)
       => \E c \in DOMAIN new : \E a \in DOMAIN new[c] : new[c][a] = i
  <2>1. \A c \in DOMAIN ts : c \in DOMAIN new /\ new[c] = ts[c]
    BY <1>1
  <2> QED
    BY <2>1 DEF Held
<1>6. \A c \in DOMAIN new : \A a, b \in DOMAIN new[c] : a < b => SameTurn(s, f, new[c][a], new[c][b])
  BY <1>3 DEF Held
<1>7. \A c, d \in DOMAIN new : \A a \in DOMAIN new[c], b \in DOMAIN new[d] :
       c < d => ~SameTurn(s, f, new[c][a], new[d][b])
  BY <1>3 DEF Held
<1>8. Held(new, s, f)
  BY <1>4, <1>5, <1>6, <1>7 DEF Held
<1> QED
  BY <1>8 DEF new

\* A usage line more, in the open turn.
LEMMA HeldUsage ==
  ASSUME NEW s, NEW t, NEW x, Extends(t, s, x), NEW f,
         NEW ts \in Seq(Seq(Nat)), NEW turn \in Seq(Nat),
         Held(Append(ts, turn), s, f), Still(turn, s, f, Len(s)), Over(ts, s, f, Len(s)),
         TellsUsage(t, f, Len(t)), InTurn(t, f, Len(t)), ~Begins(t, f, Len(t)), ~Ends(t, f, Len(t))
  PROVE  Held(Append(ts, Append(turn, Len(t))), t, f)
<1> DEFINE m == Len(t)
           old == Append(ts, turn)
           new == Append(ts, Append(turn, m))
           last == Len(ts) + 1
<1>0. m \in Nat /\ m \in 1..m /\ Len(s) \in Nat /\ m = Len(s) + 1 /\ \A i \in 1..m : i \in 1..Len(s) \/ i = m
  BY DEF Extends
<1> HIDE DEF m
<1>1. /\ DOMAIN new = 1 .. last /\ DOMAIN old = 1 .. last
      /\ \A i \in 1 .. Len(ts) : new[i] = ts[i] /\ old[i] = ts[i]
      /\ DOMAIN ts = 1 .. Len(ts)
      /\ old[last] = turn
      /\ new[last] = Append(turn, m)
  BY <1>0
<1>2. /\ DOMAIN new[last] = 1 .. Len(turn) + 1
      /\ \A a \in 1 .. Len(turn) : new[last][a] = old[last][a]
      /\ new[last][Len(turn) + 1] = m
      /\ DOMAIN turn = 1 .. Len(turn) /\ old[last] = turn
  BY <1>0, <1>1
<1> HIDE DEF old, new
<1>a. Len(ts) \in Nat /\ Len(turn) \in Nat
  OBVIOUS
<1>b. /\ \A c \in 1 .. last : c \in 1 .. Len(ts) \/ c = last
      /\ \A c \in 1 .. Len(ts) : c \in 1 .. last /\ c # last
      /\ last \in 1 .. last
      /\ \A a \in 1 .. Len(turn) + 1 : a \in 1 .. Len(turn) \/ a = Len(turn) + 1
      /\ \A a \in 1 .. Len(turn) : a \in 1 .. Len(turn) + 1 /\ a <= Len(turn)
      /\ Len(turn) + 1 \in 1 .. Len(turn) + 1
  BY <1>a
<1> HIDE DEF last
<1>3. ASSUME NEW c \in DOMAIN new, NEW a \in DOMAIN new[c]
      PROVE  \/ /\ c \in DOMAIN old /\ a \in DOMAIN old[c] /\ new[c][a] = old[c][a]
                /\ c = last => a <= Len(turn)
             \/ c = last /\ a = Len(turn) + 1 /\ new[c][a] = m
  <2>1. CASE c \in 1 .. Len(ts)
    <3>1. c \in DOMAIN old /\ new[c] = old[c] /\ c # last
      BY <1>1, <1>b, <2>1
    <3> QED
      BY <3>1
  <2>2. CASE c = last
    <3>1. a \in 1 .. Len(turn) \/ a = Len(turn) + 1
      BY <1>2, <1>b, <2>2
    <3>2. c \in DOMAIN old
      BY <1>1, <1>b, <2>2
    <3> QED
      BY <1>2, <1>b, <2>2, <3>1, <3>2
  <2> QED
    BY <1>1, <1>b, <2>1, <2>2
<1>4. ASSUME NEW c \in DOMAIN old, NEW a \in DOMAIN old[c]
      PROVE  c \in DOMAIN new /\ a \in DOMAIN new[c] /\ new[c][a] = old[c][a]
  <2>1. CASE c \in 1 .. Len(ts)
    <3>1. c \in DOMAIN new /\ new[c] = old[c]
      BY <1>1, <1>b, <2>1
    <3> QED
      BY <3>1
  <2>2. CASE c = last
    <3>1. a \in 1 .. Len(turn)
      BY <1>2, <2>2
    <3>2. c \in DOMAIN new
      BY <1>1, <1>b, <2>2
    <3> QED
      BY <1>2, <1>b, <2>2, <3>1, <3>2
  <2> QED
    BY <1>1, <1>b, <2>1, <2>2
<1>5. \A c \in DOMAIN old : \A a \in DOMAIN old[c] :
        old[c][a] \in 1..Len(s) /\ TellsUsage(s, f, old[c][a]) /\ InTurn(s, f, old[c][a])
  BY DEF Held, old
<1>6. \A i \in 1..Len(s) : /\ TellsUsage(t, f, i) <=> TellsUsage(s, f, i)
                           /\ InTurn(t, f, i) <=> InTurn(s, f, i)
  BY OldLines, TurnStep
<1>7. /\ \A i, j \in 1..Len(s) : SameTurn(t, f, i, j) <=> SameTurn(s, f, i, j)
      /\ \A i \in 1..Len(s) : SameTurn(t, f, i, m) <=> SameTurn(s, f, i, Len(s))
  BY TurnStep DEF m
<1>8. \A c \in DOMAIN new : \A a \in DOMAIN new[c] :
        new[c][a] \in 1..m /\ TellsUsage(t, f, new[c][a]) /\ InTurn(t, f, new[c][a])
  <2>1. \A i \in 1..Len(s) : i \in 1..m
    BY <1>0
  <2>2. TellsUsage(t, f, m) /\ InTurn(t, f, m)
    BY DEF m
  <2> QED
    BY <1>0, <1>3, <1>5, <1>6, <2>1, <2>2
<1>9. ASSUME NEW i \in 1..m, TellsUsage(t, f, i), InTurn(t, f, i)
      PROVE  \E c \in DOMAIN new : \E a \in DOMAIN new[c] : new[c][a] = i
  <2>1. CASE i = m
    <3>1. last \in DOMAIN new /\ Len(turn) + 1 \in DOMAIN new[last] /\ new[last][Len(turn) + 1] = m
      BY <1>1, <1>2, <1>b
    <3> QED
      BY <2>1, <3>1
  <2>2. CASE i \in 1..Len(s)
    <3>1. \E c \in DOMAIN old : \E a \in DOMAIN old[c] : old[c][a] = i
      BY <1>6, <1>9, <2>2 DEF Held, old
    <3> QED
      BY <1>4, <3>1
  <2> QED
    BY <1>0, <2>1, <2>2
<1>10. ASSUME NEW c \in DOMAIN new, NEW a \in DOMAIN new[c], NEW b \in DOMAIN new[c], a < b
       PROVE  SameTurn(t, f, new[c][a], new[c][b])
  <2>1. /\ c \in DOMAIN old /\ a \in DOMAIN old[c] /\ new[c][a] = old[c][a]
        /\ c = last => a <= Len(turn)
    <3>1. ~(c = last /\ a = Len(turn) + 1)
      BY <1>1, <1>2, <1>10, <1>a
    <3> QED
      BY <1>3, <3>1
  <2>2. CASE b \in DOMAIN old[c] /\ new[c][b] = old[c][b]
    <3>1. SameTurn(s, f, old[c][a], old[c][b])
      BY <1>10, <2>1, <2>2 DEF Held, old
    <3> QED
      BY <1>5, <1>7, <2>1, <2>2, <3>1
  <2>3. CASE c = last /\ b = Len(turn) + 1 /\ new[c][b] = m
    <3>1. SameTurn(s, f, old[c][a], Len(s))
      <4>1. a \in DOMAIN turn /\ old[c][a] = turn[a]
        BY <1>2, <2>1, <2>3
      <4> QED
        BY <4>1 DEF Still
    <3> QED
      BY <1>5, <1>7, <2>1, <2>3, <3>1
  <2> QED
    BY <1>3, <2>2, <2>3
<1>11. ASSUME NEW c \in DOMAIN new, NEW d \in DOMAIN new, NEW a \in DOMAIN new[c], NEW b \in DOMAIN new[d], c < d
       PROVE  ~SameTurn(t, f, new[c][a], new[d][b])
  <2>1. c \in 1..Len(ts)
    <3>1. c \in 1 .. last /\ d \in 1 .. last
      BY <1>1
    <3> QED
      BY <1>11, <1>a, <3>1 DEF last
  <2>2. c \in DOMAIN old /\ a \in DOMAIN old[c] /\ new[c][a] = old[c][a] /\ old[c] = ts[c]
    BY <1>1, <2>1, <1>a
  <2>3. CASE d \in DOMAIN old /\ b \in DOMAIN old[d] /\ new[d][b] = old[d][b]
    <3>1. ~SameTurn(s, f, old[c][a], old[d][b])
      BY <1>11, <2>2, <2>3 DEF Held, old
    <3> QED
      BY <1>5, <1>7, <2>2, <2>3, <3>1
  <2>4. CASE new[d][b] = m
    <3>1. ~SameTurn(s, f, ts[c][a], Len(s))
      BY <1>1, <2>1, <2>2 DEF Over
    <3> QED
      BY <1>5, <1>7, <2>2, <2>4, <3>1
  <2> QED
    BY <1>3, <2>3, <2>4
<1>12. Held(new, t, f)
  BY <1>8, <1>9, <1>10, <1>11 DEF Held, m
<1> QED
  BY <1>12 DEF new, m

Turned ==
  /\ Held(AllTurns, lines, fmt)
  /\ current_turn.open <=> InTurn(lines, fmt, Len(lines))
  /\ current_turn.open => Still(current_turn.status_lines, lines, fmt, Len(lines))
  /\ Over(turns, lines, fmt, Len(lines))

LEMMA Within ==
  ASSUME Locals, Held(AllTurns, lines, fmt)
  PROVE  /\ \A c \in DOMAIN turns : \A a \in DOMAIN turns[c] : turns[c][a] \in 1..Len(lines)
         /\ current_turn.open => \A a \in DOMAIN current_turn.status_lines :
              current_turn.status_lines[a] \in 1..Len(lines)
<1>1. \A c \in DOMAIN AllTurns : \A a \in DOMAIN AllTurns[c] : AllTurns[c][a] \in 1..Len(lines)
  BY DEF Held
<1>2. CASE current_turn.open
  <2>1. AllTurns = Append(turns, current_turn.status_lines) /\ turns \in Seq(Seq(Nat))
        /\ current_turn.status_lines \in Seq(Nat)
    BY <1>2 DEF AllTurns, Locals, Turn
  <2>2. \A c \in DOMAIN turns : c \in DOMAIN AllTurns /\ AllTurns[c] = turns[c]
    BY <2>1
  <2>3. Len(turns) + 1 \in DOMAIN AllTurns /\ AllTurns[Len(turns) + 1] = current_turn.status_lines
    BY <2>1
  <2> QED
    BY <1>1, <2>2, <2>3
<1>3. CASE ~current_turn.open
  BY <1>1, <1>3 DEF AllTurns
<1> QED
  BY <1>2, <1>3

\* A line leaves the turns that are over, and ends the others if it begins or ends one.
LEMMA OverStep ==
  ASSUME NEW s, NEW t, NEW x, Extends(t, s, x), NEW f, NEW ts,
         \A c \in DOMAIN ts : \A a \in DOMAIN ts[c] : ts[c][a] \in 1..Len(s),
         Over(ts, s, f, Len(s)) \/ Begins(t, f, Len(t)) \/ Ends(t, f, Len(t))
  PROVE  Over(ts, t, f, Len(t))
<1>1. \A i \in 1..Len(s) : SameTurn(t, f, i, Len(t)) <=>
            SameTurn(s, f, i, Len(s)) /\ ~Begins(t, f, Len(t)) /\ ~Ends(t, f, Len(t))
  BY TurnStep
<1> QED
  BY <1>1 DEF Over

LEMMA TurnedStep ==
  ASSUME Locals, fmt \in Formats, Turned, NEW x \in Lines, Read(x), Reads(x, lines', Len(lines'))
  PROVE  Turned'
<1> DEFINE s == lines
           t == lines'
           m == Len(lines')
           status == current_turn.status_lines
<1>1. Extends(t, s, x) /\ fmt' = fmt
  BY Reading
<1>2. m = Len(t) /\ m = Len(s) + 1 /\ t[m] = x /\ turns \in Seq(Seq(Nat)) /\ status \in Seq(Nat)
      /\ AllTurns \in Seq(Seq(Nat)) /\ current_turn \in Turn /\ current_turn.open \in BOOLEAN
  BY <1>1, AllTurnsType DEF Extends, Locals, Turn
<1> HIDE DEF s, t, m, status
<1>3. /\ Begins(t, fmt, m) => turns' = AllTurns /\ current_turn' = Opened
      /\ Ends(t, fmt, m) => turns' = AllTurns /\ current_turn' = Closed
      /\ ~Begins(t, fmt, m) /\ ~Ends(t, fmt, m) =>
            /\ turns' = turns
            /\ current_turn' = IF TellsUsage(t, fmt, m) /\ current_turn.open
                                 THEN [current_turn EXCEPT !.status_lines = Append(@, Len(lines) + 1)]
                                 ELSE current_turn
  BY TurnsRead DEF t, m
<1>4. Held(AllTurns, s, fmt) /\ Over(turns, s, fmt, Len(s))
      /\ (current_turn.open <=> InTurn(s, fmt, Len(s)))
      /\ (current_turn.open => Still(status, s, fmt, Len(s)))
  BY DEF Turned, s, status
<1>5. /\ \A c \in DOMAIN turns : \A a \in DOMAIN turns[c] : turns[c][a] \in 1..Len(s)
      /\ current_turn.open => \A a \in DOMAIN status : status[a] \in 1..Len(s)
      /\ \A c \in DOMAIN AllTurns : \A a \in DOMAIN AllTurns[c] : AllTurns[c][a] \in 1..Len(s)
  BY <1>4, Within DEF s, status, Held
<1>6. /\ \A i \in 1..Len(s) : SameTurn(t, fmt, i, m) <=>
            SameTurn(s, fmt, i, Len(s)) /\ ~Begins(t, fmt, m) /\ ~Ends(t, fmt, m)
      /\ SameTurn(t, fmt, m, m)
      /\ InTurn(t, fmt, m) <=>
           \/ Begins(t, fmt, m)
           \/ InTurn(s, fmt, Len(s)) /\ ~Begins(t, fmt, m) /\ ~Ends(t, fmt, m)
  <2>1. /\ \A i \in 1..Len(s) : SameTurn(t, fmt, i, Len(t)) <=>
             SameTurn(s, fmt, i, Len(s)) /\ ~Begins(t, fmt, Len(t)) /\ ~Ends(t, fmt, Len(t))
        /\ SameTurn(t, fmt, Len(t), Len(t))
        /\ InTurn(t, fmt, Len(t)) <=>
             \/ Begins(t, fmt, Len(t))
             \/ InTurn(s, fmt, Len(s)) /\ ~Begins(t, fmt, Len(t)) /\ ~Ends(t, fmt, Len(t))
    BY <1>1, TurnStep
  <2>2. m = Len(t)
    BY <1>2
  <2> QED
    BY <2>1, <2>2
<1>7. SUFFICES /\ Held(AllTurns', t, fmt)
               /\ current_turn'.open <=> InTurn(t, fmt, m)
               /\ current_turn'.open => Still(current_turn'.status_lines, t, fmt, m)
               /\ Over(turns', t, fmt, m)
  BY <1>1 DEF Turned, t, m, Held, Still, Over
<1>8. /\ Begins(t, fmt, m) => ~TellsUsage(t, fmt, m) /\ ~Ends(t, fmt, m)
      /\ Ends(t, fmt, m) => ~TellsUsage(t, fmt, m)
  BY DEF Begins, Ends, TellsUsage
<1>9. CASE Begins(t, fmt, m)
  <2>1. Held(AllTurns, t, fmt)
    BY <1>1, <1>2, <1>4, <1>8, <1>9, HeldStays
  <2>2. AllTurns' = Append(AllTurns, <<>>)
    BY <1>3, <1>9 DEF AllTurns, Opened
  <2>3. Held(AllTurns', t, fmt)
    BY <1>2, <2>1, <2>2, HeldEmpty
  <2>4. Over(turns', t, fmt, m)
    BY <1>1, <1>2, <1>3, <1>5, <1>9, OverStep
  <2>5. current_turn'.open /\ DOMAIN current_turn'.status_lines = {}
    BY <1>3, <1>9 DEF Opened
  <2> QED
    BY <1>6, <1>9, <2>3, <2>4, <2>5 DEF Still
<1>10. CASE Ends(t, fmt, m)
  <2>1. Held(AllTurns, t, fmt)
    BY <1>1, <1>2, <1>4, <1>8, <1>10, HeldStays
  <2>2. AllTurns' = AllTurns
    BY <1>3, <1>10 DEF AllTurns, Closed
  <2>3. Over(turns', t, fmt, m)
    BY <1>1, <1>2, <1>3, <1>5, <1>10, OverStep
  <2>4. ~current_turn'.open
    BY <1>3, <1>10 DEF Closed
  <2> QED
    BY <1>6, <1>8, <1>10, <2>1, <2>2, <2>3, <2>4
<1>11. CASE ~Begins(t, fmt, m) /\ ~Ends(t, fmt, m)
  <2>1. turns' = turns /\ Over(turns', t, fmt, m)
    BY <1>1, <1>2, <1>3, <1>4, <1>5, <1>11, OverStep
  <2>2. CASE TellsUsage(t, fmt, m) /\ current_turn.open
    <3>1. current_turn' = [current_turn EXCEPT !.status_lines = Append(@, Len(lines) + 1)]
      BY <1>3, <1>11, <2>2
    <3>2. current_turn'.open /\ current_turn'.status_lines = Append(status, m)
      BY <1>2, <2>2, <3>1 DEF Turn, s, status
    <3>3. AllTurns = Append(turns, status) /\ AllTurns' = Append(turns, Append(status, m))
      BY <2>1, <2>2, <3>2 DEF AllTurns, status
    <3>4. Held(AllTurns', t, fmt)
      BY <1>1, <1>2, <1>4, <1>6, <1>11, <2>2, <3>3, HeldUsage
    <3>5. Still(Append(status, m), t, fmt, m)
      <4>1. \A a \in DOMAIN Append(status, m) :
              (a \in DOMAIN status /\ Append(status, m)[a] = status[a]) \/ Append(status, m)[a] = m
        BY <1>2
      <4>2. \A a \in DOMAIN status : SameTurn(t, fmt, status[a], m)
        BY <1>4, <1>5, <1>6, <1>11, <2>2 DEF Still
      <4> QED
        BY <1>6, <4>1, <4>2 DEF Still
    <3> QED
      BY <1>4, <1>6, <1>11, <2>1, <2>2, <3>2, <3>4, <3>5
  <2>3. CASE ~(TellsUsage(t, fmt, m) /\ current_turn.open)
    <3>1. current_turn' = current_turn /\ AllTurns' = AllTurns
      BY <1>3, <1>11, <2>1, <2>3 DEF AllTurns
    <3>2. Held(AllTurns', t, fmt)
      BY <1>1, <1>2, <1>4, <1>6, <1>11, <2>3, <3>1, HeldStays
    <3>3. current_turn.open => Still(status, t, fmt, m)
      BY <1>4, <1>5, <1>6, <1>11 DEF Still
    <3> QED
      BY <1>4, <1>6, <1>11, <2>1, <3>1, <3>2, <3>3 DEF status
  <2> QED
    BY <2>2, <2>3
<1> QED
  BY <1>9, <1>10, <1>11

-----------------------------------------------------------------------------
(* The results of tool calls.                                              *)

LEMMA ResultsStep ==
  ASSUME NEW s, NEW t, NEW x, Extends(t, s, x), NEW f, NEW id
  PROVE  /\ x.id = id /\ id # "" /\ HasResult(t, f, Len(t)) =>
              /\ Results(t, f, id) # {}
              /\ Max(Results(t, f, id)) = Len(t)
         /\ ~(x.id = id /\ id # "" /\ HasResult(t, f, Len(t))) => Results(t, f, id) = Results(s, f, id)
         /\ Results(s, f, id) # {} => Max(Results(s, f, id)) \in 1..Len(s)
<1>1. /\ DOMAIN s = 1..Len(s) /\ DOMAIN t = 1..Len(t) /\ Len(t) = Len(s) + 1 /\ Len(s) \in Nat
      /\ t[Len(t)] = x /\ \A i \in 1..Len(s) : t[i] = s[i]
  BY DEF Extends
<1>2. \A i \in 1..Len(t) : i \in 1..Len(s) \/ i = Len(t)
  BY <1>1
<1>3. Len(t) \in 1..Len(t) /\ \A i \in 1..Len(s) : i \in 1..Len(t)
  BY <1>1
<1>4. \A i \in 1..Len(s) : HasResult(t, f, i) <=> HasResult(s, f, i)
  BY OldLines
<1>5. /\ Results(t, f, id) \in SUBSET Nat /\ \A y \in Results(t, f, id) : y <= Len(t)
      /\ Results(s, f, id) \in SUBSET Nat /\ \A y \in Results(s, f, id) : y <= Len(s)
      /\ Results(s, f, id) \subseteq 1..Len(s)
  <2>1. Results(t, f, id) \subseteq 1..Len(t) /\ Results(s, f, id) \subseteq 1..Len(s)
    BY <1>1 DEF Results
  <2>2. /\ \A y \in 1..Len(t) : y \in Nat /\ y <= Len(t)
        /\ \A y \in 1..Len(s) : y \in Nat /\ y <= Len(s)
    BY <1>1
  <2> QED
    BY <2>1, <2>2
<1>6. ASSUME x.id = id, id # "", HasResult(t, f, Len(t))
      PROVE  Results(t, f, id) # {} /\ Max(Results(t, f, id)) = Len(t)
  <2>1. Len(t) \in Results(t, f, id)
    BY <1>1, <1>3, <1>6 DEF Results
  <2> QED
    BY <1>5, <2>1, MaxIs
<1>7. ASSUME ~(x.id = id /\ id # "" /\ HasResult(t, f, Len(t)))
      PROVE  Results(t, f, id) = Results(s, f, id)
  BY <1>1, <1>2, <1>3, <1>4, <1>7 DEF Results
<1>8. ASSUME Results(s, f, id) # {} PROVE Max(Results(s, f, id)) \in 1..Len(s)
  BY <1>1, <1>5, <1>8, MaxOfNats
<1> QED
  BY <1>6, <1>7, <1>8

\* tool_result_is_error holds the last result of each call, and nothing is resolved yet.
Errors ==
  /\ \A id \in OptionalIds :
       /\ id \in DOMAIN tool_result_is_error <=> Results(lines, fmt, id) # {}
       /\ id \in DOMAIN tool_result_is_error =>
            tool_result_is_error[id] = lines[Max(Results(lines, fmt, id))].err
  /\ \A k \in DOMAIN tool_uses : tool_uses[k].is_error = "null"

LEMMA ErrorsStep ==
  ASSUME Locals, fmt \in Formats, Errors, NEW x \in Lines, Read(x), Reads(x, lines', Len(lines'))
  PROVE  Errors'
<1> DEFINE s == lines
           t == lines'
           m == Len(lines')
           old == tool_result_is_error
           new == tool_result_is_error'
<1>1. Extends(t, s, x) /\ fmt' = fmt
  BY Reading
<1>2. m = Len(t) /\ t[m] = x /\ x.id \in OptionalIds
      /\ \A i \in 1..Len(s) : t[i] = s[i]
  BY <1>1 DEF Extends, Lines
<1>3. IF HasResult(t, fmt, m) THEN AddResult(x) ELSE new = old
  BY TurnsRead
<1>4. AddCalls(x) \/ tool_uses' = tool_uses
  BY TurnsRead
<1>5. \A k \in DOMAIN tool_uses' : tool_uses'[k].is_error = "null"
  <2>1. tool_uses \in Seq(Use) /\ x.calls \in Seq(OptionalIds)
    BY DEF Locals, Lines
  <2>2. CASE AddCalls(x)
    <3> DEFINE more == [i \in DOMAIN x.calls |->
                  [line_num |-> Len(lines) + 1, tool_call_id |-> x.calls[i], is_error |-> "null"]]
    <3>1. more \in Seq(Use) /\ \A i \in DOMAIN more : more[i].is_error = "null"
      <4>1. Len(lines) + 1 \in Nat
        BY DEF Locals
      <4>2. \A i \in DOMAIN x.calls : x.calls[i] \in OptionalIds
        BY <2>1
      <4>3. \A i \in DOMAIN x.calls : more[i] \in Use
        BY <4>1, <4>2 DEF Use
      <4>4. DOMAIN x.calls = 1..Len(x.calls) /\ Len(x.calls) \in Nat
        BY <2>1
      <4>5. more \in Seq(Use)
        <5>1. more = [i \in 1..Len(x.calls) |-> more[i]]
          BY <4>4
        <5> HIDE DEF more
        <5> QED
          BY <4>3, <4>4, <5>1
      <4> QED
        BY <4>5
    <3>2. tool_uses' = tool_uses \o more
      BY <2>2 DEF AddCalls
    <3> HIDE DEF more
    <3>3. \A k \in DOMAIN tool_uses' :
            \/ k \in DOMAIN tool_uses /\ tool_uses'[k] = tool_uses[k]
            \/ k - Len(tool_uses) \in DOMAIN more /\ tool_uses'[k] = more[k - Len(tool_uses)]
      BY <2>1, <3>1, <3>2
    <3> QED
      BY <3>1, <3>3 DEF Errors
  <2>3. CASE tool_uses' = tool_uses
    BY <2>3 DEF Errors
  <2> QED
    BY <1>4, <2>2, <2>3
<1> HIDE DEF s, t, m, old, new
<1>6. ASSUME NEW id \in OptionalIds
      PROVE  /\ id \in DOMAIN new <=> Results(t, fmt, id) # {}
             /\ id \in DOMAIN new => new[id] = t[Max(Results(t, fmt, id))].err
  <2>1. /\ id \in DOMAIN old <=> Results(s, fmt, id) # {}
        /\ id \in DOMAIN old => old[id] = s[Max(Results(s, fmt, id))].err
    BY DEF Errors, s, old
  <2>2. /\ x.id = id /\ id # "" /\ HasResult(t, fmt, m) =>
              /\ Results(t, fmt, id) # {}
              /\ Max(Results(t, fmt, id)) = m
        /\ ~(x.id = id /\ id # "" /\ HasResult(t, fmt, m)) => Results(t, fmt, id) = Results(s, fmt, id)
        /\ Results(s, fmt, id) # {} => Max(Results(s, fmt, id)) \in 1..Len(s)
    <3>1. /\ x.id = id /\ id # "" /\ HasResult(t, fmt, Len(t)) =>
                /\ Results(t, fmt, id) # {}
                /\ Max(Results(t, fmt, id)) = Len(t)
          /\ ~(x.id = id /\ id # "" /\ HasResult(t, fmt, Len(t))) =>
                Results(t, fmt, id) = Results(s, fmt, id)
          /\ Results(s, fmt, id) # {} => Max(Results(s, fmt, id)) \in 1..Len(s)
      BY <1>1, ResultsStep
    <3>2. m = Len(t)
      BY <1>2
    <3> QED
      BY <3>1, <3>2
  <2>3. HasResult(t, fmt, m) => /\ DOMAIN new = DOMAIN old \cup ({x.id} \ {""})
                                /\ id \in DOMAIN new => new[id] = IF id = x.id THEN x.err ELSE old[id]
    BY <1>3 DEF AddResult, old, new
  <2>4. "" \notin DOMAIN old
    <3>1. Results(s, fmt, "") = {}
      BY DEF Results
    <3>2. "" \in OptionalIds
      BY DEF OptionalIds
    <3> QED
      BY <3>1, <3>2 DEF Errors, s, old
  <2>5. CASE x.id = id /\ id # "" /\ HasResult(t, fmt, m)
    BY <1>2, <2>2, <2>3, <2>5
  <2>6. CASE ~(x.id = id /\ id # "" /\ HasResult(t, fmt, m))
    <3>1. (id \in DOMAIN new <=> id \in DOMAIN old) /\ (id \in DOMAIN old => new[id] = old[id])
      BY <1>3, <2>3, <2>4, <2>6
    <3>2. Results(s, fmt, id) # {} => t[Max(Results(s, fmt, id))] = s[Max(Results(s, fmt, id))]
      BY <1>2, <2>2
    <3> QED
      BY <2>1, <2>2, <2>6, <3>1, <3>2
  <2> QED
    BY <2>5, <2>6
<1> QED
  BY <1>1, <1>5, <1>6 DEF Errors, t, new

-----------------------------------------------------------------------------
(* Numbers mapped to others in the same order.                             *)

Under(S, i) == {j \in S : j < i}
Images(S, g) == {g[j] : j \in S}

\* g maps the numbers in S to others in the same order.
Renumbers(S, g, n, m) ==
  /\ n \in Nat /\ S \in SUBSET (1..n) /\ m \in Nat /\ g \in [S -> 0..m]
  /\ \A i, j \in S : i < j => g[i] < g[j]

\* Numbers that are mapped to others in the same order have as many below them.
LEMMA SameOrder ==
  ASSUME NEW S, NEW g, NEW n, NEW m, Renumbers(S, g, n, m), NEW i \in S
  PROVE  /\ Cardinality(Under(Images(S, g), g[i])) = Cardinality(Under(S, i))
         /\ Under(Images(S, g), g[i]) = {} <=> Under(S, i) = {}
         /\ Under(S, i) # {} =>
              Max(Under(S, i)) \in Under(S, i) /\ Max(Under(Images(S, g), g[i])) = g[Max(Under(S, i))]
<1> DEFINE T == {g[j] : j \in S}
           under == {j \in S : j < i}
           below == {k \in T : k < g[i]}
<1>0. /\ n \in Nat /\ S \in SUBSET (1..n) /\ m \in Nat /\ g \in [S -> 0..m]
      /\ \A a, b \in S : a < b => g[a] < g[b]
      /\ i \in S
  BY DEF Renumbers
<1>1. \A j \in S : j \in Nat /\ g[j] \in Nat /\ g[j] <= m /\ j <= n
  <2>1. \A j \in S : j \in 1..n /\ g[j] \in 0..m
    BY <1>0
  <2>2. \A j \in 1..n : j \in Nat /\ j <= n
    BY <1>0
  <2>3. \A j \in 0..m : j \in Nat /\ j <= m
    BY <1>0
  <2> QED
    BY <2>1, <2>2, <2>3
<1>2. \A j, k \in S : j < k <=> g[j] < g[k]
  <2> SUFFICES ASSUME NEW j \in S, NEW k \in S, g[j] < g[k] PROVE j < k
    BY <1>0
  <2>1. k < j => g[k] < g[j]
    BY <1>0
  <2>2. j = k => g[j] = g[k]
    OBVIOUS
  <2> QED
    BY <1>1, <2>1, <2>2
<1>3. below = {g[j] : j \in under}
  BY <1>0, <1>2
<1>4. IsFiniteSet(under)
  <2>1. IsFiniteSet(1..n)
    BY <1>0, FS_Interval
  <2>2. under \subseteq 1..n
    BY <1>0
  <2> QED
    BY <2>1, <2>2, FS_Subset
<1>5. Cardinality(below) = Cardinality(under)
  <2> DEFINE h == [j \in under |-> g[j]]
  <2>1. h \in [under -> below]
    BY <1>3
  <2>2. \A a, b \in under : h[a] = h[b] => a = b
    <3> SUFFICES ASSUME NEW a \in under, NEW b \in under, g[a] = g[b] PROVE a = b
      OBVIOUS
    <3>1. a \in S /\ b \in S
      OBVIOUS
    <3>2. ~(a < b) /\ ~(b < a) /\ a \in Nat /\ b \in Nat
      BY <1>1, <1>2, <3>1
    <3> QED
      BY <3>2
  <2>3. \A k \in below : \E j \in under : h[j] = k
    BY <1>3
  <2> HIDE DEF h
  <2>4. h \in Bijection(under, below)
    BY <2>1, <2>2, <2>3, Fun_IsBij
  <2>5. ExistsBijection(under, below)
    BY <2>4, Fun_ExistsBij
  <2> QED
    BY <1>4, <2>5, FS_Bijection
<1>6. below = {} <=> under = {}
  BY <1>3
<1>7. ASSUME under # {} PROVE Max(under) \in under /\ Max(below) = g[Max(under)]
  <2>1. under \in SUBSET Nat /\ \A y \in under : y <= n
    BY <1>1
  <2>2. Max(under) \in under /\ \A y \in under : y <= Max(under)
    BY <1>0, <1>7, <2>1, MaxOfNats
  <2> DEFINE top == Max(under)
  <2>3. top \in S /\ g[top] \in below
    BY <1>3, <2>2
  <2> HIDE DEF top
  <2>4. \A k \in below : k <= g[top]
    <3> SUFFICES ASSUME NEW j \in under PROVE g[j] <= g[top]
      BY <1>3
    <3>1. j \in S /\ j <= top
      BY <2>2 DEF top
    <3>2. ~(top < j)
      BY <1>1, <2>3, <3>1
    <3> QED
      BY <1>1, <1>2, <2>3, <3>1, <3>2
  <2>5. below \in SUBSET Nat
    BY <1>1, <1>3
  <2>6. Max(below) = g[top]
    BY <2>3, <2>4, <2>5, MaxIs
  <2> QED
    BY <2>2, <2>6 DEF top
<1> QED
  BY <1>5, <1>6, <1>7 DEF Under, Images

-----------------------------------------------------------------------------
(* The context chart.                                                      *)

\* Two lines are of one turn with a third between them.
LEMMA SameTurnJoins ==
  ASSUME NEW s, NEW f, NEW i \in Nat, NEW j \in Nat, NEW k \in Nat, i <= j, j <= k,
         SameTurn(s, f, i, j), SameTurn(s, f, j, k)
  PROVE  SameTurn(s, f, i, k)
<1>1. \A b \in i + 1 .. k : b \in i + 1 .. j \/ b \in j + 1 .. k
  OBVIOUS
<1> QED
  BY <1>1 DEF SameTurn

LastOf(ts) == [c \in DOMAIN ts |-> ts[c][Len(ts[c])]]

\* The last line of a turn is a line of the chart, if its usage tells of input, and the
\* other way round.
LEMMA LastIsCharted ==
  ASSUME NEW s \in Seq(Lines), NEW f, NEW ts \in Seq(Seq(Nat)), Held(ts, s, f), Ascending(ts)
  PROVE  Charted(s, f) = {LastOf(ts)[c] :
                            c \in {d \in DOMAIN ts : ts[d] # <<>> /\ ctx_input(s[LastOf(ts)[d]].usage) > 0}}
<1> DEFINE last == LastOf(ts)
           used == {d \in DOMAIN ts : ts[d] # <<>> /\ ctx_input(s[last[d]].usage) > 0}
<1>0. DOMAIN s = 1..Len(s) /\ Len(s) \in Nat
  OBVIOUS
<1>1. ASSUME NEW c \in DOMAIN ts, ts[c] # <<>>
      PROVE  /\ Len(ts[c]) \in DOMAIN ts[c] /\ ts[c][Len(ts[c])] = last[c]
             /\ \A a \in DOMAIN ts[c] : a \in Nat /\ (a = Len(ts[c]) \/ a < Len(ts[c]))
  <2>1. ts[c] \in Seq(Nat) /\ last[c] = ts[c][Len(ts[c])]
    BY DEF LastOf
  <2> QED
    BY <1>1, <2>1
<1> HIDE DEF last
<1>2. \A c \in DOMAIN ts : \A a \in DOMAIN ts[c] :
        ts[c][a] \in 1..Len(s) /\ TellsUsage(s, f, ts[c][a]) /\ InTurn(s, f, ts[c][a])
  BY DEF Held
<1>3. ASSUME NEW c \in used PROVE last[c] \in Charted(s, f)
  <2>1. Len(ts[c]) \in DOMAIN ts[c] /\ ts[c][Len(ts[c])] = last[c]
    BY <1>1
  <2>2. last[c] \in 1..Len(s) /\ TellsUsage(s, f, last[c]) /\ InTurn(s, f, last[c])
    BY <1>2, <2>1
  <2>3. ASSUME NEW j \in last[c] + 1 .. Len(s), TellsUsage(s, f, j), SameTurn(s, f, last[c], j)
        PROVE  FALSE
    <3>1. j \in 1..Len(s) /\ last[c] < j /\ last[c] \in Nat /\ j \in Nat
      BY <1>0, <2>2
    <3>2. InTurn(s, f, j)
      <4>1. PICK b \in 1 .. last[c] : Begins(s, f, b) /\ SameTurn(s, f, b, last[c])
        BY <2>2 DEF InTurn
      <4>2. b \in 1..j /\ b \in Nat /\ b <= last[c] /\ last[c] <= j
        BY <3>1
      <4>3. SameTurn(s, f, b, j)
        BY <2>3, <3>1, <4>1, <4>2, SameTurnJoins
      <4> QED
        BY <4>1, <4>2, <4>3 DEF InTurn
    <3>3. PICK d \in DOMAIN ts : \E b \in DOMAIN ts[d] : ts[d][b] = j
      BY <2>3, <3>1, <3>2 DEF Held
    <3>4. PICK b \in DOMAIN ts[d] : ts[d][b] = j
      BY <3>3
    <3>5. ts[d] # <<>> /\ d \in Nat /\ c \in Nat
      <4>1. DOMAIN ts[d] # {}
        BY <3>4
      <4>2. DOMAIN ts = 1..Len(ts) /\ Len(ts) \in Nat /\ c \in DOMAIN ts
        OBVIOUS
      <4> HIDE DEF used
      <4> QED
        BY <4>1, <4>2
    <3>6. CASE d < c
      <4>1. ts[d][b] < last[c]
        BY <2>1, <3>6 DEF Ascending
      <4> QED
        BY <3>1, <3>4, <4>1
    <3>7. CASE d = c
      <4>1. b = Len(ts[c]) \/ b < Len(ts[c])
        BY <1>1, <3>5, <3>7
      <4>2. CASE b = Len(ts[c])
        BY <2>1, <3>1, <3>4, <3>7, <4>2
      <4>3. CASE b < Len(ts[c])
        <5>1. ts[c][b] < ts[c][Len(ts[c])]
          BY <2>1, <3>7, <4>3 DEF Ascending
        <5> QED
          BY <2>1, <3>1, <3>4, <3>7, <5>1
      <4> QED
        BY <4>1, <4>2, <4>3
    <3>8. CASE c < d
      <4>1. ~SameTurn(s, f, ts[c][Len(ts[c])], ts[d][b])
        BY <2>1, <3>8 DEF Held
      <4> QED
        BY <2>1, <2>3, <3>4, <4>1
    <3> QED
      BY <3>5, <3>6, <3>7, <3>8
  <2>4. ctx_input(s[last[c]].usage) > 0
    OBVIOUS
  <2> HIDE DEF used
  <2> QED
    BY <1>0, <2>2, <2>3, <2>4 DEF Charted
<1>4. ASSUME NEW k \in Charted(s, f) PROVE \E c \in used : last[c] = k
  <2>1. /\ k \in 1..Len(s) /\ TellsUsage(s, f, k) /\ ctx_input(s[k].usage) > 0 /\ InTurn(s, f, k)
        /\ \A j \in k + 1 .. Len(s) : TellsUsage(s, f, j) => ~SameTurn(s, f, k, j)
    BY <1>0 DEF Charted
  <2>2. PICK c \in DOMAIN ts : \E a \in DOMAIN ts[c] : ts[c][a] = k
    BY <2>1 DEF Held
  <2>3. PICK a \in DOMAIN ts[c] : ts[c][a] = k
    BY <2>2
  <2>4. ts[c] # <<>>
    OBVIOUS
  <2>5. CASE a = Len(ts[c])
    <3>1. last[c] = k
      BY <1>1, <2>3, <2>4, <2>5
    <3> QED
      BY <2>1, <2>4, <3>1
  <2>6. CASE a < Len(ts[c])
    <3>1. Len(ts[c]) \in DOMAIN ts[c] /\ ts[c][Len(ts[c])] = last[c]
      BY <1>1, <2>4
    <3>2. k < last[c]
      BY <2>3, <2>6, <3>1 DEF Ascending
    <3>3. last[c] \in 1..Len(s) /\ TellsUsage(s, f, last[c])
      BY <1>2, <3>1
    <3>4. SameTurn(s, f, k, last[c])
      BY <2>3, <2>6, <3>1 DEF Held
    <3>5. last[c] \in k + 1 .. Len(s)
      BY <2>1, <3>2, <3>3
    <3> QED
      BY <2>1, <3>3, <3>4, <3>5
  <2> QED
    BY <1>1, <2>4, <2>5, <2>6
<1> HIDE DEF used
<1>5. Charted(s, f) = {last[c] : c \in used}
  BY <1>3, <1>4
<1> QED
  BY <1>5 DEF used, last

\* The points of ctx_turns are those that the lines tell of.
LEMMA ContextIsChart ==
  ASSUME Locals, NEW f, NEW ts \in Seq(Seq(Nat)), Backed(ts, records), Ascending(ts), Held(ts, lines, f),
         \A k \in DOMAIN records : Fits(records[k], lines, f)
  PROVE  ContextOf(ts) = Chart(lines, f)
<1> DEFINE input(i)  == ctx_input(Representative(ts[i]).usage)
           used      == {i \in DOMAIN ts : ts[i] # <<>> /\ input(i) > 0}
           before(i) == {j \in used : j < i}
           prev(i)   == IF before(i) = {} THEN 0 ELSE input(Max(before(i)))
           point(i)  == [idx   |-> Cardinality(before(i)) + 1, line |-> Representative(ts[i]).line_num,
                         input |-> input(i), delta |-> input(i) - prev(i)]
           last      == LastOf(ts)
           below(k)  == {j \in Charted(lines, f) : j < k}
           told(k)   == ctx_input(lines[k].usage)
           shown(k)  == [idx   |-> Cardinality(below(k)) + 1, line |-> k, input |-> told(k),
                         delta |-> told(k) - (IF below(k) = {} THEN 0 ELSE told(Max(below(k))))]
<1>1. ASSUME NEW i \in DOMAIN ts, ts[i] # <<>>
      PROVE  /\ Representative(ts[i]).line_num = last[i] /\ input(i) = told(last[i])
             /\ last[i] \in 1..Len(lines)
  <2>1. Len(ts[i]) \in DOMAIN ts[i] /\ ts[i][Len(ts[i])] = last[i]
    <3>1. ts[i] \in Seq(Nat)
      OBVIOUS
    <3> QED
      BY <1>1, <3>1 DEF LastOf
  <2>2. \E k \in DOMAIN records : records[k].line_num = last[i]
    <3>1. \E k \in DOMAIN records : records[k].line_num = ts[i][Len(ts[i])]
      BY <2>1 DEF Backed
    <3> QED
      BY <2>1, <3>1
  <2>3. Representative(ts[i]) = records[CHOOSE k \in DOMAIN records : records[k].line_num = last[i]]
    BY <2>1 DEF Representative, RecordAt
  <2> HIDE DEF last
  <2>4. PICK k \in DOMAIN records : records[k].line_num = last[i] /\ Representative(ts[i]) = records[k]
    BY <2>2, <2>3
  <2>5. Fits(records[k], lines, f)
    BY <2>4
  <2> QED
    BY <2>4, <2>5 DEF Fits
<1>2. used = {d \in DOMAIN ts : ts[d] # <<>> /\ told(last[d]) > 0}
  <2> HIDE DEF last, told, input
  <2> QED
    BY <1>1
<1>3. lines \in Seq(Lines) /\ Len(lines) \in Nat
  BY DEF Locals
<1>4. Charted(lines, f) = {last[c] : c \in used}
  <2>1. Charted(lines, f) =
          {last[c] : c \in {d \in DOMAIN ts : ts[d] # <<>> /\ ctx_input(lines[last[d]].usage) > 0}}
    BY <1>3, LastIsCharted
  <2> HIDE DEF last, used
  <2> QED
    BY <1>2, <2>1
<1> DEFINE g == [c \in used |-> last[c]]
<1>5. /\ g \in [used -> 0..Len(lines)] /\ \A c \in used : g[c] = last[c]
      /\ used \in SUBSET (1..Len(ts)) /\ Len(ts) \in Nat
  <2>1. \A c \in used : last[c] \in 0..Len(lines)
    <3>1. \A c \in used : last[c] \in 1..Len(lines)
      BY <1>1
    <3> HIDE DEF last, used
    <3> QED
      BY <1>3, <3>1
  <2>2. DOMAIN ts = 1..Len(ts) /\ Len(ts) \in Nat
    OBVIOUS
  <2> HIDE DEF last
  <2> QED
    BY <2>1, <2>2
<1>6. \A i, j \in used : i < j => g[i] < g[j]
  <2>1. \A i \in used : Len(ts[i]) \in DOMAIN ts[i] /\ ts[i][Len(ts[i])] = last[i] /\ i \in DOMAIN ts
    <3> SUFFICES ASSUME NEW i \in DOMAIN ts, ts[i] # <<>>
                 PROVE  Len(ts[i]) \in DOMAIN ts[i] /\ ts[i][Len(ts[i])] = last[i]
      OBVIOUS
    <3>1. ts[i] \in Seq(Nat)
      OBVIOUS
    <3> QED
      BY <3>1 DEF LastOf
  <2> HIDE DEF last, used
  <2>2. \A i, j \in used : i < j => last[i] < last[j]
    BY <2>1 DEF Ascending
  <2> QED
    BY <2>2
<1>7. Charted(lines, f) = {g[j] : j \in used}
  <2> HIDE DEF last, used
  <2> QED
    BY <1>4
<1>8. ASSUME NEW i \in used PROVE point(i) = shown(last[i])
  <2>1. before(i) = {j \in used : j < i} /\ below(last[i]) = {k \in Charted(lines, f) : k < g[i]}
    BY <1>5
  <2> DEFINE under == before(i)
             beneath == below(last[i])
  <2>2. /\ Cardinality(beneath) = Cardinality(under)
        /\ beneath = {} <=> under = {}
        /\ under # {} => Max(under) \in under /\ Max(beneath) = g[Max(under)]
    <3> HIDE DEF used, g, under, beneath
    <3>1. under = Under(used, i) /\ beneath = Under(Images(used, g), g[i])
      BY <1>7, <2>1 DEF under, beneath, Under, Images
    <3>2. Renumbers(used, g, Len(ts), Len(lines))
      BY <1>3, <1>5, <1>6 DEF Renumbers
    <3> QED
      BY <1>8, <3>1, <3>2, SameOrder
  <2>3. prev(i) = IF beneath = {} THEN 0 ELSE told(Max(beneath))
    <3>1. CASE under = {}
      BY <2>2, <3>1
    <3>2. CASE under # {}
      <4>1. Max(under) \in used
        BY <2>2, <3>2
      <4>2. Max(beneath) = last[Max(under)]
        BY <1>5, <2>2, <3>2, <4>1
      <4>3. input(Max(under)) = told(last[Max(under)])
        BY <1>1, <4>1
      <4>4. prev(i) = input(Max(under)) /\ beneath # {}
        BY <2>2, <3>2
      <4> HIDE DEF input, told, last, prev, under, beneath
      <4> QED
        BY <4>2, <4>3, <4>4
    <3> QED
      BY <3>1, <3>2
  <2>4. Representative(ts[i]).line_num = last[i] /\ input(i) = told(last[i])
    BY <1>1
  <2>5. Cardinality(before(i)) = Cardinality(below(last[i]))
    BY <2>2
  <2> HIDE DEF input, told, last, prev, used, before, below
  <2> QED
    BY <2>3, <2>4, <2>5
<1>9. ContextOf(ts) = {point(i) : i \in used}
  BY DEF ContextOf
<1>10. Chart(lines, f) = {shown(k) : k \in Charted(lines, f)}
  BY DEF Chart
<1> HIDE DEF point, shown, last, used
<1> QED
  BY <1>4, <1>8, <1>9, <1>10

-----------------------------------------------------------------------------
(* The end of the file.                                                    *)

Believed ==
  /\ phase = "reading" => Turned /\ Errors
  /\ LastLineWins

LEMMA BelievedInit == Init => Believed
<1> SUFFICES ASSUME Init PROVE Believed
  OBVIOUS
<1>0. DOMAIN <<>> = {} /\ Len(<<>>) = 0
  OBVIOUS
<1>1. lines = <<>> /\ Len(lines) = 0 /\ DOMAIN lines = {} /\ AllTurns = <<>> /\ DOMAIN AllTurns = {}
      /\ turns = <<>> /\ DOMAIN turns = {} /\ ~current_turn.open /\ phase = "reading"
      /\ DOMAIN tool_uses = {} /\ DOMAIN tool_result_is_error = {}
  <2>1. lines = <<>> /\ turns = <<>> /\ tool_uses = <<>> /\ ~current_turn.open /\ phase = "reading"
    BY DEF Init, Closed
  <2>2. DOMAIN tool_result_is_error = {}
    BY DEF Init
  <2>3. AllTurns = <<>>
    BY <2>1 DEF AllTurns
  <2> QED
    BY <1>0, <2>1, <2>2, <2>3
<1>2. 1..Len(lines) = {}
  BY <1>1
<1>3. Held(AllTurns, lines, fmt) /\ Over(turns, lines, fmt, Len(lines)) /\ ~InTurn(lines, fmt, Len(lines))
  BY <1>1, <1>2 DEF Held, Over, InTurn
<1>4. \A id : Results(lines, fmt, id) = {}
  BY <1>1 DEF Results
<1>5. Errors
  BY <1>1, <1>4 DEF Errors
<1> QED
  BY <1>1, <1>3, <1>5 DEF Believed, Turned, LastLineWins, ContextIsLastUsageOfTurn, ToolErrorsAreLastResults

LEMMA BelievedEnd ==
  ASSUME Inv, Follows, Believed, EndOfFile
  PROVE  Believed'
<1>1. phase = "reading" /\ phase' = "done" /\ lines' = lines /\ fmt' = fmt
      /\ Turned /\ Errors /\ AllTurns \in Seq(Seq(Nat))
  BY AllTurnsType DEF EndOfFile, Believed, Inv
<1>2. ctx_turns' = Chart(lines, fmt)
  BY <1>1, ContextIsChart DEF EndOfFile, Turned, Inv, Sound, Follows
<1>3. \A k \in DOMAIN tool_uses' :
        tool_uses'[k].is_error =
          IF Results(lines, fmt, tool_uses'[k].tool_call_id) = {} THEN "null"
          ELSE IF lines[Max(Results(lines, fmt, tool_uses'[k].tool_call_id))].err THEN "true" ELSE "false"
  <2> SUFFICES ASSUME NEW k \in DOMAIN tool_uses
               PROVE  tool_uses'[k].is_error =
                 IF Results(lines, fmt, tool_uses'[k].tool_call_id) = {} THEN "null"
                 ELSE IF lines[Max(Results(lines, fmt, tool_uses'[k].tool_call_id))].err THEN "true" ELSE "false"
    BY DEF EndOfFile
  <2> DEFINE u == tool_uses[k]
             id == u.tool_call_id
  <2>1. u \in Use
    BY DEF Inv, Locals
  <2>2. id \in OptionalIds /\ tool_uses'[k] = Resolved(u)
    BY <2>1 DEF EndOfFile, Use
  <2>3. tool_uses'[k].tool_call_id = id
    BY <2>1, <2>2 DEF Resolved, Use
  <2>4. tool_uses'[k].is_error =
          IF id \in DOMAIN tool_result_is_error
            THEN IF tool_result_is_error[id] THEN "true" ELSE "false" ELSE "null"
    BY <2>1, <2>2 DEF Resolved, Use
  <2> HIDE DEF u, id
  <2>5. /\ id \in DOMAIN tool_result_is_error <=> Results(lines, fmt, id) # {}
        /\ id \in DOMAIN tool_result_is_error =>
             tool_result_is_error[id] = lines[Max(Results(lines, fmt, id))].err
    BY <1>1, <2>2 DEF Errors
  <2> QED
    BY <2>3, <2>4, <2>5
<1> QED
  BY <1>1, <1>2, <1>3 DEF Believed, LastLineWins, ContextIsLastUsageOfTurn, ToolErrorsAreLastResults

LEMMA BelievedNext == IInv /\ Follows /\ Believed /\ [Next]_vars => Believed'
<1> SUFFICES ASSUME IInv, Follows, Believed, [Next]_vars PROVE Believed'
  OBVIOUS
<1>1. ASSUME NEW x \in NextLines, Read(x) PROVE Believed'
  <2>1. x \in Lines /\ Locals /\ fmt \in Formats
    BY <1>1, NextLineType DEF IInv, Inv
  <2>2. phase = "reading" /\ phase' # "done" /\ Extends(lines', lines, x)
    BY <1>1, <2>1, Reading
  <2>3. CASE phase' = "reading"
    <3>1. LastTurnId(lines', Len(lines')) = LastTurnId(lines, Len(lines) + 1)
      <4>1. Len(lines') \in 1..Len(lines') /\ Len(lines') = Len(lines) + 1
        BY <2>2 DEF Extends
      <4> QED
        BY <2>2, <4>1, LastTurnIdStep
    <3>2. Reads(x, lines', Len(lines'))
      BY <2>2, <2>3, <3>1 DEF Reads, Follows, Carried, Extends
    <3>3. Turned' /\ Errors'
      BY <1>1, <2>1, <2>2, <3>2, TurnedStep, ErrorsStep DEF Believed
    <3> QED
      BY <2>3, <3>3 DEF Believed, LastLineWins, ContextIsLastUsageOfTurn, ToolErrorsAreLastResults
  <2>4. CASE phase' # "reading"
    BY <2>2, <2>4 DEF Believed, LastLineWins, ContextIsLastUsageOfTurn, ToolErrorsAreLastResults
  <2> QED
    BY <2>3, <2>4
<1>2. CASE EndOfFile
  BY <1>2, BelievedEnd DEF IInv
<1>3. CASE UNCHANGED vars
  BY <1>3 DEF vars, turn_vars, tool_vars, Believed, Turned, Errors, AllTurns, LastLineWins,
              ContextIsLastUsageOfTurn, ToolErrorsAreLastResults
<1> QED
  BY <1>1, <1>2, <1>3 DEF Next

\* For files of any length, the context chart has exactly one point for each turn whose
\* last usage line tells of input, at that line and in order, and a tool use is marked
\* by the last result of its call.
THEOREM LastLineDecides == Spec => []LastLineWins
<1>1. Believed => LastLineWins
  BY DEF Believed
<1> QED
  BY <1>1, FollowsAlways, BelievedInit, BelievedNext, PTL DEF Spec

-----------------------------------------------------------------------------
(* The browser's parser beside the backend's.                              *)

\* What an update says is what the lines say, by the format f: s as the backend reads
\* them, which the latency follows, and h as the browser does.
Alike(u, s, h, f) ==
  /\ u.line_num \in 1..Len(h)
  /\ u.usage = IF TellsUsage(h, f, u.line_num) THEN h[u.line_num].usage ELSE NoUse
  /\ f = "kimi-code" => u.latency =
       (IF PromptTime(s, f, u.line_num) # NoTime /\ s[u.line_num].ts >= PromptTime(s, f, u.line_num)
          THEN s[u.line_num].ts - PromptTime(s, f, u.line_num) ELSE NoLatency)

JSUpdate == [line_num : Nat, usage : Usage, model : WireModels, latency : Nat \cup {NoLatency}]

\* The locals of parser.js while it reads.
JSState == [pending : Nat, text : Nat, turn_id : OptionalIds \cup {"null"}, event_ts : Nat,
            meta_ts : Nat, updates : Seq(JSUpdate), called : SUBSET OptionalIds,
            errors : SUBSET OptionalIds, results : SUBSET OptionalIds,
            records : {<<>>}, ctx_turns : {{}}]

\* The lines as the browser has read them.
Heard == AllAsRead(lines, fmt)

\* The two have read the same lines: what js says of them, and of the backend's locals.
Beside ==
  /\ Enumerates(js.updates, Updated(Heard, fmt))
  /\ \A k \in DOMAIN js.updates : Alike(js.updates[k], lines, Heard, fmt)
  /\ fmt = "kimi-code" => js.pending = pending_turn_begin_ts
  /\ \A id \in OptionalIds :
       /\ id \in js.results <=> Results(Heard, fmt, id) # {}
       /\ id \in js.results =>
            (id \in js.errors <=> Heard[Max(Results(Heard, fmt, id))].err)
  /\ \A k \in DOMAIN tool_uses :
       tool_uses[k].tool_call_id # "" => tool_uses[k].tool_call_id \in js.called

\* The browser changes only the kind of a malformed legacy line and whether a result failed.
LEMMA AsReadIs ==
  ASSUME NEW x \in Lines, NEW f
  PROVE  /\ AsRead(x, f) \in Lines
         /\ AsRead(x, f).kind = IF f = "legacy" /\ x.kind = "torn" THEN x.tail ELSE x.kind
         /\ AsRead(x, f).ts = x.ts /\ AsRead(x, f).id = x.id /\ AsRead(x, f).calls = x.calls
         /\ AsRead(x, f).has_usage = x.has_usage /\ AsRead(x, f).usage = x.usage
<1> DEFINE kind == IF f = "legacy" /\ x.kind = "torn" THEN x.tail ELSE x.kind
           err  == x.err \/ (x.kind = "tool.result" /\ x.is_error)
<1>1. AsRead(x, f) = [[x EXCEPT !.kind = kind] EXCEPT !.err = err]
  BY DEF AsRead, Lines
<1>2. kind \in Kinds /\ err \in BOOLEAN
  BY DEF Lines
<1> HIDE DEF kind, err
<1>3. /\ AsRead(x, f) \in Lines /\ AsRead(x, f).kind = kind
      /\ AsRead(x, f).ts = x.ts /\ AsRead(x, f).id = x.id /\ AsRead(x, f).calls = x.calls
      /\ AsRead(x, f).has_usage = x.has_usage /\ AsRead(x, f).usage = x.usage
  BY <1>1, <1>2 DEF Lines
<1> QED
  BY <1>3 DEF kind

\* The same of all lines.
LEMMA AllAsReadIs ==
  ASSUME NEW s \in Seq(Lines), NEW f
  PROVE  /\ AllAsRead(s, f) \in Seq(Lines) /\ Len(AllAsRead(s, f)) = Len(s)
         /\ \A i \in 1..Len(s) :
              LET y == AllAsRead(s, f)[i]
              IN  /\ y = AsRead(s[i], f)
                  /\ y.kind = IF f = "legacy" /\ s[i].kind = "torn" THEN s[i].tail ELSE s[i].kind
                  /\ y.ts = s[i].ts /\ y.id = s[i].id /\ y.calls = s[i].calls
                  /\ y.has_usage = s[i].has_usage /\ y.usage = s[i].usage
<1>1. DOMAIN s = 1..Len(s) /\ Len(s) \in Nat /\ \A i \in 1..Len(s) : s[i] \in Lines
  OBVIOUS
<1>2. \A i \in 1..Len(s) : /\ AllAsRead(s, f)[i] = AsRead(s[i], f)
                           /\ AsRead(s[i], f) \in Lines
  BY <1>1, AsReadIs DEF AllAsRead
<1>3. AllAsRead(s, f) \in [1..Len(s) -> Lines]
  BY <1>1, AsReadIs DEF AllAsRead
<1>4. AllAsRead(s, f) \in Seq(Lines) /\ Len(AllAsRead(s, f)) = Len(s)
  BY <1>1, <1>3
<1> QED
  BY <1>1, <1>2, <1>4, AsReadIs

LEMMA AsReadStep ==
  ASSUME NEW s, NEW t, NEW x, Extends(t, s, x), NEW f
  PROVE  Extends(AllAsRead(t, f), AllAsRead(s, f), AsRead(x, f))
<1>1. /\ s \in Seq(Lines) /\ t \in Seq(Lines) /\ x \in Lines
      /\ Len(s) \in Nat /\ Len(t) = Len(s) + 1 /\ t[Len(t)] = x
      /\ \A i \in 1..Len(s) : t[i] = s[i]
  BY DEF Extends
<1>2. /\ AllAsRead(s, f) \in Seq(Lines) /\ Len(AllAsRead(s, f)) = Len(s)
      /\ \A i \in 1..Len(s) : AllAsRead(s, f)[i] = AsRead(s[i], f)
  BY <1>1, AllAsReadIs
<1>3. /\ AllAsRead(t, f) \in Seq(Lines) /\ Len(AllAsRead(t, f)) = Len(t)
      /\ \A i \in 1..Len(t) : AllAsRead(t, f)[i] = AsRead(t[i], f)
  BY <1>1, AllAsReadIs
<1>4. Len(t) \in 1..Len(t) /\ \A i \in 1..Len(s) : i \in 1..Len(t)
  BY <1>1
<1>5. AsRead(x, f) \in Lines
  BY <1>1, AsReadIs
<1> QED
  BY <1>1, <1>2, <1>3, <1>4, <1>5 DEF Extends

\* What the backend takes for usage, a result or a call, the browser does too; and the
\* other way round where they read the line alike.
LEMMA HeardToo ==
  ASSUME NEW s \in Seq(Lines), NEW f \in Formats, NEW i \in 1..Len(s)
  PROVE  LET h == AllAsRead(s, f)
         IN  /\ TellsUsage(s, f, i) => TellsUsage(h, f, i) /\ Updates(h, f, i)
             /\ HasResult(s, f, i) => HasResult(h, f, i)
             /\ HasCalls(s, f, i) => HasCalls(h, f, i)
             /\ f # "legacy" \/ s[i].kind # "torn" =>
                  /\ TellsUsage(h, f, i) => TellsUsage(s, f, i)
             /\ h[i] = s[i] => (HasResult(h, f, i) => HasResult(s, f, i))
             /\ f = "kimi-code" =>
                  /\ Prompts(h, f, i) <=> Prompts(s, f, i)
                  /\ TellsUsage(h, f, i) <=> TellsUsage(s, f, i)
             /\ Updates(h, f, i) /\ s[i].kind = "torn" => f = "legacy" /\ s[i].tail = "StatusUpdate"
<1> DEFINE y == AllAsRead(s, f)[i]
<1>1. /\ y.kind = IF f = "legacy" /\ s[i].kind = "torn" THEN s[i].tail ELSE s[i].kind
      /\ y.has_usage = s[i].has_usage
  BY AllAsReadIs
<1> QED
  BY <1>1 DEF TellsUsage, Updates, HasResult, HasCalls, Prompts, Formats

LEMMA AlikeStays ==
  ASSUME NEW s, NEW t, NEW x, Extends(t, s, x), NEW h, NEW g, NEW y, Extends(g, h, y),
         Len(h) = Len(s), NEW f, NEW u, Alike(u, s, h, f)
  PROVE  Alike(u, t, g, f)
<1> DEFINE n == u.line_num
<1>1. n \in 1..Len(s) /\ n \in 1..Len(t) /\ t[n] = s[n]
  BY DEF Extends, Alike
<1>2. n \in 1..Len(h) /\ n \in 1..Len(g) /\ g[n] = h[n]
  BY DEF Extends, Alike
<1>3. TellsUsage(g, f, n) <=> TellsUsage(h, f, n)
  BY <1>2 DEF TellsUsage
<1>4. \A m \in 1..Len(t) : PromptTime(t, f, m) = PromptTime(s, f, m)
  <2>1. /\ \A m \in 1..Len(t) : PromptTime(t, f, m) = PromptTime(s, f, m)
        /\ PromptTime(t, f, Len(t) + 1) =
             IF Prompts(t, f, Len(t)) THEN x.ts
             ELSE IF TellsUsage(t, f, Len(t)) \/ Ends(t, f, Len(t)) THEN NoTime
             ELSE PromptTime(s, f, Len(t))
    BY PromptTimeStep
  <2> QED
    BY <2>1
<1>5. PromptTime(t, f, n) = PromptTime(s, f, n)
  <2> HIDE DEF n
  <2> QED
    BY <1>1, <1>4
<1> QED
  BY <1>1, <1>2, <1>3, <1>5 DEF Alike

\* The status_update that a line becomes.
NewUpdate(x) ==
  [line_num |-> Len(lines) + 1, usage |-> IF fmt = "legacy" /\ ~x.has_usage THEN NoUse ELSE x.usage,
   model |-> x.model, latency |-> IF fmt = "legacy" THEN NoLatency ELSE JSLatency(x)]

LEMMA NewUpdateType ==
  ASSUME Locals, js \in JSState, NEW x \in Lines
  PROVE  NewUpdate(x) \in JSUpdate
<1>1. js.pending \in Nat /\ x.ts \in Nat /\ x.usage \in Usage /\ x.model \in WireModels /\ Len(lines) + 1 \in Nat
  BY DEF Locals, JSState, Lines
<1>2. JSLatency(x) \in Nat \cup {NoLatency}
  BY <1>1 DEF JSLatency
<1>3. NoUse \in Usage
  BY DEF NoUse, Usage
<1> QED
  BY <1>1, <1>2, <1>3 DEF NewUpdate, JSUpdate

\* What a line does to the locals of parser.js, by what the line says (t[m] = x).
LEMMA JSReads ==
  ASSUME Locals, fmt \in Formats, js \in JSState, NEW x \in Lines, JSRead(x), NEW t, NEW m, t[m] = x
  PROVE  /\ js' \in JSState
         /\ js'.updates = IF Updates(t, fmt, m) THEN Append(js.updates, NewUpdate(x)) ELSE js.updates
         /\ fmt = "kimi-code" =>
              js'.pending = IF Prompts(t, fmt, m) THEN x.ts
                            ELSE IF TellsUsage(t, fmt, m) THEN NoTime ELSE js.pending
         /\ js'.results = IF HasResult(t, fmt, m) THEN WithResult(js, x).results ELSE js.results
         /\ js'.errors = IF HasResult(t, fmt, m) THEN WithResult(js, x).errors ELSE js.errors
         /\ js'.called = IF HasCalls(t, fmt, m) THEN WithCalls(js, x).called ELSE js.called
<1>1. /\ x.ts \in Nat /\ x.chars \in Nat /\ x.id \in OptionalIds /\ x.err \in BOOLEAN
      /\ x.usage \in Usage /\ x.kind \in Kinds
      /\ \A i \in DOMAIN x.calls : x.calls[i] \in OptionalIds
  BY DEF Lines
<1>2. NewUpdate(x) \in JSUpdate
  BY NewUpdateType
<1>3. {x.calls[i] : i \in DOMAIN x.calls} \in SUBSET OptionalIds
  BY <1>1
<1>4. js.event_ts \in Nat /\ js.meta_ts \in Nat /\ js.text \in Nat /\ js.updates \in Seq(JSUpdate)
      /\ js.text + x.chars \in Nat
  BY <1>1 DEF JSState
<1>5. First(js.event_ts, x.ts) \in Nat /\ First(js.meta_ts, x.ts) \in Nat
  BY <1>1, <1>4 DEF First
<1>6. Append(js.updates, NewUpdate(x)) \in Seq(JSUpdate)
  BY <1>2, <1>4
<1>7. NoTime \in Nat
  BY DEF NoTime
<1> USE DEF Is, Updates, Prompts, TellsUsage, HasResult, HasCalls, Formats, WithEvent, WithMeta, JSState
<1>8. CASE JSTurnBegin(x)
  BY <1>1, <1>5, <1>8 DEF JSTurnBegin
<1>9. CASE JSTurnEnd(x)
  BY <1>1, <1>5, <1>7, <1>9 DEF JSTurnEnd
<1>10. CASE JSContentPart(x)
  BY <1>1, <1>4, <1>5, <1>10 DEF JSContentPart
<1>11. CASE JSToolCall(x)
  BY <1>1, <1>3, <1>5, <1>11 DEF JSToolCall, WithCalls
<1>12. CASE JSToolResult(x)
  BY <1>1, <1>5, <1>12 DEF JSToolResult, WithResult
<1>13. CASE JSStatusUpdate(x)
  <2>1. Append(js.updates, NewUpdate(x)) =
          Append(js.updates, [line_num |-> Len(lines) + 1,
                              usage |-> IF x.has_usage THEN x.usage ELSE NoUse,
                              model |-> x.model, latency |-> NoLatency])
    BY <1>13 DEF JSStatusUpdate, NewUpdate
  <2> QED
    BY <1>1, <1>5, <1>6, <1>13, <2>1 DEF JSStatusUpdate, WithUpdate
<1>14. CASE JSPrompt(x)
  BY <1>1, <1>14 DEF JSPrompt
<1>15. CASE JSAssistant(x)
  BY <1>1, <1>3, <1>4, <1>15 DEF JSAssistant, WithCalls
<1>16. CASE JSToolAnswer(x)
  BY <1>1, <1>16 DEF JSToolAnswer, WithResult
<1>17. CASE JSStepBegin(x)
  BY <1>1, <1>17 DEF JSStepBegin
<1>18. CASE JSLoopContent(x)
  BY <1>1, <1>4, <1>18 DEF JSLoopContent
<1>19. CASE JSLoopToolCall(x)
  BY <1>1, <1>3, <1>19 DEF JSLoopToolCall, WithCalls
<1>20. CASE JSUsageRecord(x)
  <2>1. Append(js.updates, NewUpdate(x)) =
          Append(js.updates, [line_num |-> Len(lines) + 1, usage |-> x.usage,
                              model |-> x.model, latency |-> JSLatency(x)])
    BY <1>20 DEF JSUsageRecord, NewUpdate
  <2> QED
    BY <1>1, <1>6, <1>7, <1>20, <2>1 DEF JSUsageRecord, WithUpdate
<1>21. CASE JSOther(x)
  BY <1>1, <1>5, <1>21 DEF JSOther, Kinds, LegacyKinds
<1> QED
  BY <1>8, <1>9, <1>10, <1>11, <1>12, <1>13, <1>14, <1>15, <1>16, <1>17, <1>18, <1>19, <1>20, <1>21 DEF JSRead

LEMMA BesideStep ==
  ASSUME Locals, fmt \in Formats, Follows, js \in JSState, Beside,
         NEW x \in Lines, Read(x), JSRead(AsRead(x, fmt)), phase' = "reading"
  PROVE  js' \in JSState /\ Beside'
<1> DEFINE s == lines
           t == lines'
           m == Len(lines')
           h == AllAsRead(lines, fmt)
           hh == AllAsRead(lines', fmt)
           y == AsRead(x, fmt)
<1>1. Extends(t, s, x) /\ phase = "reading" /\ fmt' = fmt /\ m = Len(lines) + 1 /\ m \in Nat /\ t[m] = x
      /\ t \in Seq(Lines) /\ m \in 1..Len(t) /\ m = Len(t) /\ s \in Seq(Lines)
  BY Reading DEF Extends
<1>2. Reads(x, t, m)
  <2>1. LastTurnId(t, m) = LastTurnId(s, Len(s) + 1)
    BY <1>1, LastTurnIdStep
  <2> QED
    BY <1>1, <2>1 DEF Reads, Follows, Carried
<1>3. pending_turn_begin_ts' =
        IF Prompts(t, fmt, m) THEN x.ts
        ELSE IF TellsUsage(t, fmt, m) \/ (Ends(t, fmt, m) /\ current_turn.open) THEN NoTime
        ELSE pending_turn_begin_ts
  BY <1>2, TimesRead
<1>4. IF HasCalls(t, fmt, m) THEN AddCalls(x) ELSE UNCHANGED tool_uses
  BY <1>2, TurnsRead
<1>6. /\ x.ts \in Nat /\ x.calls \in Seq(OptionalIds)
      /\ y \in Lines /\ y.ts = x.ts /\ y.id \in OptionalIds /\ y.err \in BOOLEAN /\ y.calls = x.calls
  BY AsReadIs DEF Lines
<1>9. /\ Extends(hh, h, y) /\ Len(hh) = m /\ Len(h) = Len(s) /\ hh[m] = y /\ Len(s) \in Nat
      /\ \A i \in 1..Len(s) : hh[i] = h[i]
  <2>1. Extends(hh, h, y)
    BY <1>1, AsReadStep
  <2>2. Len(hh) = Len(t) /\ Len(h) = Len(s)
    BY <1>1, AllAsReadIs
  <2> QED
    BY <1>1, <2>1, <2>2 DEF Extends
<1> HIDE DEF y
<1>5. /\ js' \in JSState
      /\ js'.updates = IF Updates(hh, fmt, m) THEN Append(js.updates, NewUpdate(y)) ELSE js.updates
      /\ fmt = "kimi-code" =>
           js'.pending = IF Prompts(hh, fmt, m) THEN y.ts
                         ELSE IF TellsUsage(hh, fmt, m) THEN NoTime ELSE js.pending
      /\ js'.results = IF HasResult(hh, fmt, m) THEN WithResult(js, y).results ELSE js.results
      /\ js'.errors = IF HasResult(hh, fmt, m) THEN WithResult(js, y).errors ELSE js.errors
      /\ js'.called = IF HasCalls(hh, fmt, m) THEN WithCalls(js, y).called ELSE js.called
  <2>1. JSRead(y)
    BY DEF y
  <2> HIDE DEF hh
  <2> QED
    BY <1>6, <1>9, <2>1, JSReads
<1>7. /\ js.called \in SUBSET OptionalIds /\ js.errors \in SUBSET OptionalIds
      /\ js.results \in SUBSET OptionalIds /\ js.updates \in Seq(JSUpdate) /\ js.pending \in Nat
  BY DEF JSState
<1>8. /\ HasCalls(t, fmt, m) => HasCalls(hh, fmt, m)
      /\ fmt = "kimi-code" =>
           /\ Prompts(hh, fmt, m) <=> Prompts(t, fmt, m)
           /\ TellsUsage(hh, fmt, m) <=> TellsUsage(t, fmt, m)
  BY <1>1, HeardToo
<1>10. /\ Updated(hh, fmt) = IF Updates(hh, fmt, m) THEN Updated(h, fmt) \cup {m} ELSE Updated(h, fmt)
       /\ Updated(h, fmt) \in SUBSET Nat /\ \A i \in Updated(h, fmt) : i < m
  BY <1>9, ToldStep
<1> HIDE DEF s, t, m, h, hh
<1>11. Enumerates(js'.updates, Updated(hh, fmt))
  <2>1. NewUpdate(y).line_num = m
    BY <1>1 DEF NewUpdate
  <2>2. Enumerates(js.updates, Updated(h, fmt))
    BY DEF Beside, Heard, h
  <2>3. Enumerates(Append(js.updates, NewUpdate(y)), Updated(h, fmt) \cup {m})
    BY <1>1, <1>7, <1>10, <2>1, <2>2, EnumerateNext
  <2> QED
    BY <1>5, <1>10, <2>2, <2>3
<1>12. ASSUME Updates(hh, fmt, m) PROVE Alike(NewUpdate(y), t, hh, fmt)
  <2>1. NewUpdate(y).line_num = m
    BY <1>1 DEF NewUpdate
  <2>2. NewUpdate(y).usage = IF TellsUsage(hh, fmt, m) THEN y.usage ELSE NoUse
    BY <1>9, <1>12 DEF NewUpdate, Updates, TellsUsage, Formats
  <2>3. ASSUME fmt = "kimi-code"
        PROVE  NewUpdate(y).latency = IF PromptTime(t, fmt, m) # NoTime /\ x.ts >= PromptTime(t, fmt, m)
                                        THEN x.ts - PromptTime(t, fmt, m) ELSE NoLatency
    <3>1. PromptTime(t, fmt, m) = PromptTime(s, fmt, m)
      BY <1>1, PromptTimeStep
    <3>2. js.pending = PromptTime(t, fmt, m)
      BY <1>1, <2>3, <3>1 DEF Beside, Follows, Carried, s
    <3>3. NewUpdate(y).latency = JSLatency(y)
      BY <2>3 DEF NewUpdate
    <3>4. JSLatency(y) = IF js.pending # NoTime /\ x.ts >= js.pending THEN x.ts - js.pending ELSE NoLatency
      BY <1>6, <1>7 DEF JSLatency, NoTime
    <3> QED
      BY <3>2, <3>3, <3>4
  <2>4. m \in 1..Len(hh)
    BY <1>1, <1>9
  <2> QED
    BY <1>1, <1>9, <2>1, <2>2, <2>3, <2>4 DEF Alike
<1>13. \A k \in DOMAIN js'.updates : Alike(js'.updates[k], t, hh, fmt)
  <2>1. \A k \in DOMAIN js.updates : Alike(js.updates[k], t, hh, fmt)
    <3>1. \A k \in DOMAIN js.updates : Alike(js.updates[k], s, h, fmt)
      BY DEF Beside, Heard, h, s
    <3> QED
      BY <1>1, <1>9, <3>1, AlikeStays
  <2>2. CASE Updates(hh, fmt, m)
    <3>1. js'.updates = Append(js.updates, NewUpdate(y))
      BY <1>5, <2>2
    <3>2. \A k \in DOMAIN js'.updates : \/ k \in DOMAIN js.updates /\ js'.updates[k] = js.updates[k]
                                      \/ js'.updates[k] = NewUpdate(y)
      BY <1>7, <3>1
    <3> QED
      BY <1>12, <2>1, <2>2, <3>2
  <2>3. CASE ~Updates(hh, fmt, m)
    BY <1>5, <2>1, <2>3
  <2> QED
    BY <2>2, <2>3
<1>14. ASSUME fmt = "kimi-code" PROVE js'.pending = pending_turn_begin_ts'
  BY <1>3, <1>5, <1>6, <1>8, <1>14 DEF Ends, Beside
<1>15. \A id \in OptionalIds :
         /\ id \in js'.results <=> Results(hh, fmt, id) # {}
         /\ id \in js'.results => (id \in js'.errors <=> hh[Max(Results(hh, fmt, id))].err)
  <2> SUFFICES ASSUME NEW id \in OptionalIds
               PROVE  /\ id \in js'.results <=> Results(hh, fmt, id) # {}
                      /\ id \in js'.results => (id \in js'.errors <=> hh[Max(Results(hh, fmt, id))].err)
    OBVIOUS
  <2> DEFINE told == y.id = id /\ id # "" /\ HasResult(hh, fmt, m)
  <2>1. /\ told => Results(hh, fmt, id) # {} /\ Max(Results(hh, fmt, id)) = m
        /\ ~told => Results(hh, fmt, id) = Results(h, fmt, id)
        /\ Results(h, fmt, id) # {} => Max(Results(h, fmt, id)) \in 1..Len(h)
    <3>1. /\ y.id = id /\ id # "" /\ HasResult(hh, fmt, Len(hh)) =>
               /\ Results(hh, fmt, id) # {}
               /\ Max(Results(hh, fmt, id)) = Len(hh)
          /\ ~(y.id = id /\ id # "" /\ HasResult(hh, fmt, Len(hh))) =>
               Results(hh, fmt, id) = Results(h, fmt, id)
          /\ Results(h, fmt, id) # {} => Max(Results(h, fmt, id)) \in 1..Len(h)
      <4>1. Extends(hh, h, y)
        BY <1>9
      <4> QED
        BY <4>1, ResultsStep
    <3> QED
      BY <1>9, <3>1
  <2>2. /\ id \in js.results <=> Results(h, fmt, id) # {}
        /\ id \in js.results => (id \in js.errors <=> h[Max(Results(h, fmt, id))].err)
    BY DEF Beside, Heard, h
  <2>3. id = "" => id \notin js.results
    BY <2>2 DEF Results
  <2>4. HasResult(hh, fmt, m) =>
          /\ js'.results = IF y.id = "" THEN js.results ELSE js.results \cup {y.id}
          /\ js'.errors = IF y.id = "" THEN js.errors
                          ELSE IF y.err THEN js.errors \cup {y.id} ELSE js.errors \ {y.id}
    BY <1>5 DEF WithResult, JSState
  <2>5. ~HasResult(hh, fmt, m) => js'.results = js.results /\ js'.errors = js.errors
    BY <1>5
  <2>6. CASE told
    <3>1. id \in js'.results /\ (id \in js'.errors <=> y.err)
      BY <1>6, <2>4, <2>6
    <3> QED
      BY <1>9, <2>1, <2>6, <3>1
  <2>7. CASE ~told
    <3>1. (id \in js'.results <=> id \in js.results) /\ (id \in js'.errors <=> id \in js.errors)
      BY <2>4, <2>5, <2>7
    <3>2. Results(h, fmt, id) # {} => hh[Max(Results(h, fmt, id))] = h[Max(Results(h, fmt, id))]
      BY <1>9, <2>1
    <3> QED
      BY <2>1, <2>2, <2>7, <3>1, <3>2
  <2> QED
    BY <2>6, <2>7
<1>16. \A k \in DOMAIN tool_uses' :
         tool_uses'[k].tool_call_id # "" => tool_uses'[k].tool_call_id \in js'.called
  <2>1. CASE HasCalls(t, fmt, m)
    <3> DEFINE ids == {x.calls[i] : i \in DOMAIN x.calls}
               more == [i \in DOMAIN x.calls |->
                          [line_num |-> Len(lines) + 1, tool_call_id |-> x.calls[i], is_error |-> "null"]]
    <3>1. js'.called = js.called \cup ids
      BY <1>5, <1>6, <1>8, <2>1 DEF WithCalls, JSState
    <3>2. tool_uses' = tool_uses \o more /\ tool_uses \in Seq(Use)
      BY <1>4, <2>1 DEF AddCalls, Locals
    <3>3. /\ more \in Seq([line_num : {Len(lines) + 1}, tool_call_id : ids, is_error : {"null"}])
          /\ DOMAIN more = DOMAIN x.calls
      <4> DEFINE New == [line_num : {Len(lines) + 1}, tool_call_id : ids, is_error : {"null"}]
      <4>1. Len(x.calls) \in Nat /\ DOMAIN x.calls = 1..Len(x.calls)
        BY <1>6
      <4>2. \A i \in DOMAIN x.calls :
              [line_num |-> Len(lines) + 1, tool_call_id |-> x.calls[i], is_error |-> "null"] \in New
        OBVIOUS
      <4>3. more \in [1..Len(x.calls) -> New]
        <5> HIDE DEF New
        <5> QED
          BY <4>1, <4>2
      <4> HIDE DEF New, more
      <4>4. more \in Seq(New)
        BY <4>1, <4>3
      <4> QED
        BY <4>1, <4>3, <4>4 DEF New
    <3>4. \A i \in DOMAIN more : more[i].tool_call_id \in ids
      OBVIOUS
    <3> HIDE DEF more
    <3>5. \A k \in DOMAIN tool_uses' :
            \/ k \in DOMAIN tool_uses /\ tool_uses'[k] = tool_uses[k]
            \/ \E i \in DOMAIN more : tool_uses'[k] = more[i]
      BY <3>2, <3>3
    <3> HIDE DEF ids
    <3> QED
      BY <3>1, <3>4, <3>5 DEF Beside
  <2>2. CASE ~HasCalls(t, fmt, m)
    <3>1. js.called \subseteq js'.called
      BY <1>5 DEF WithCalls, JSState
    <3> QED
      BY <1>4, <2>2, <3>1 DEF Beside
  <2> QED
    BY <2>1, <2>2
<1> QED
  BY <1>1, <1>5, <1>11, <1>13, <1>14, <1>15, <1>16 DEF Beside, t, hh, Heard

-----------------------------------------------------------------------------
(* What the browser returns.                                               *)

\* What parser.js makes of the updates, by the fields that are compared.
LEMMA Returned ==
  ASSUME js \in JSState, JSReturn
  PROVE  /\ DOMAIN js'.records = DOMAIN js.updates
         /\ \A k \in DOMAIN js.updates :
              /\ js'.records[k].line_num = js.updates[k].line_num
              /\ js'.records[k].usage = js.updates[k].usage
              /\ js'.records[k].reply_latency_s = js.updates[k].latency
         /\ js'.ctx_turns = JSContext(js.updates)
         /\ js'.called = js.called /\ js'.errors = js.errors /\ js'.results = js.results
<1> DEFINE recs == [i \in DOMAIN js.updates |-> JSRecord(js.updates[i])]
           points == JSContext(js.updates)
<1>1. \A m : /\ JSRecord(m).line_num = m.line_num /\ JSRecord(m).usage = m.usage
             /\ JSRecord(m).reply_latency_s = m.latency
  BY DEF JSRecord
<1>2. DOMAIN recs = DOMAIN js.updates /\ \A i \in DOMAIN js.updates : recs[i] = JSRecord(js.updates[i])
  OBVIOUS
<1>3. js' = [js EXCEPT !.records = recs, !.ctx_turns = points]
  BY DEF JSReturn
<1> HIDE DEF recs, points
<1>4. /\ js'.records = recs /\ js'.ctx_turns = points
      /\ js'.called = js.called /\ js'.errors = js.errors /\ js'.results = js.results
  BY <1>3 DEF JSState
<1> QED
  BY <1>1, <1>2, <1>4 DEF points

LEMMA BesideEnd ==
  ASSUME Locals, Locals', fmt \in Formats, Follows, LastLineWins', js \in JSState, Beside,
         EndOfFile, JSReturn
  PROVE  RecordsAgree' /\ ChartCoversBackend'
<1> DEFINE us == js.updates
           recs == js'.records
           h == AllAsRead(lines, fmt)
<1>1. phase' = "done" /\ UNCHANGED <<lines, fmt, records>>
  BY DEF EndOfFile
<1>2. /\ DOMAIN recs = DOMAIN us
      /\ \A k \in DOMAIN us : /\ recs[k].line_num = us[k].line_num /\ recs[k].usage = us[k].usage
                               /\ recs[k].reply_latency_s = us[k].latency
      /\ js'.ctx_turns = JSContext(us)
      /\ js'.called = js.called /\ js'.errors = js.errors /\ js'.results = js.results
  BY Returned
<1>3. /\ Enumerates(us, Updated(h, fmt)) /\ Enumerates(records, Told(lines, fmt))
      /\ \A k \in DOMAIN us : Alike(us[k], lines, h, fmt)
      /\ \A k \in DOMAIN records : Fits(records[k], lines, fmt)
  BY DEF Beside, Follows, Heard
<1>4. /\ lines \in Seq(Lines) /\ DOMAIN lines = 1..Len(lines) /\ Len(h) = Len(lines)
      /\ DOMAIN h = 1..Len(lines)
  <2>1. lines \in Seq(Lines) /\ h \in Seq(Lines) /\ Len(h) = Len(lines)
    BY AllAsReadIs DEF Locals
  <2> QED
    BY <2>1
<1>5. \A i \in 1..Len(lines) :
        /\ h[i] = AsRead(lines[i], fmt)
        /\ h[i].id = lines[i].id /\ h[i].usage = lines[i].usage
        /\ TellsUsage(lines, fmt, i) => TellsUsage(h, fmt, i) /\ Updates(h, fmt, i)
        /\ HasResult(lines, fmt, i) => HasResult(h, fmt, i)
        /\ fmt # "legacy" \/ lines[i].kind # "torn" => (TellsUsage(h, fmt, i) => TellsUsage(lines, fmt, i))
        /\ h[i] = lines[i] => (HasResult(h, fmt, i) => HasResult(lines, fmt, i))
        /\ Updates(h, fmt, i) /\ lines[i].kind = "torn" =>
             fmt = "legacy" /\ lines[i].tail = "StatusUpdate"
  BY <1>4, AllAsReadIs, HeardToo
<1> HIDE DEF h
<1>6. Told(lines, fmt) \subseteq Updated(h, fmt)
  BY <1>4, <1>5 DEF Told, Updated
<1>7. \A k \in DOMAIN us : TellsUsage(lines, fmt, us[k].line_num) =>
        us[k].line_num \in Told(lines, fmt) /\ us[k].usage = lines[us[k].line_num].usage
  BY <1>3, <1>4, <1>5 DEF Alike, Told
<1> HIDE DEF us, recs
<1>8. UsageAgrees'
  <2> DEFINE told == {k \in DOMAIN recs : TellsUsage(lines, fmt, recs[k].line_num)}
  <2>1. InOrder(recs)
    BY <1>2, <1>3 DEF InOrder, Enumerates
  <2>2. ASSUME NEW j \in told
        PROVE  \E k \in DOMAIN records : /\ records[k].line_num = recs[j].line_num
                                         /\ records[k].usage = recs[j].usage
    <3>1. recs[j].line_num \in Told(lines, fmt) /\ recs[j].usage = lines[recs[j].line_num].usage
      BY <1>2, <1>7
    <3>2. PICK k \in DOMAIN records : records[k].line_num = recs[j].line_num
      BY <1>3, <3>1 DEF Enumerates
    <3> QED
      BY <1>3, <3>1, <3>2 DEF Fits
  <2>3. ASSUME NEW k \in DOMAIN records
        PROVE  \E j \in told : /\ records[k].line_num = recs[j].line_num
                               /\ records[k].usage = recs[j].usage
    <3>1. records[k].line_num \in Told(lines, fmt) /\ records[k].usage = lines[records[k].line_num].usage
      BY <1>3 DEF Fits, Enumerates
    <3>2. PICK j \in DOMAIN us : us[j].line_num = records[k].line_num
      BY <1>3, <1>6, <3>1 DEF Enumerates
    <3>3. j \in told
      BY <1>2, <3>1, <3>2 DEF Told
    <3> QED
      BY <1>2, <1>7, <3>1, <3>2, <3>3
  <2>4. Billed(recs, told) = Billed(records, DOMAIN records)
    BY <2>2, <2>3 DEF Billed
  <2>5. \A k \in DOMAIN recs \ told :
          LET x == lines[recs[k].line_num]
          IN  IF x.kind = "torn" THEN fmt = "legacy" /\ x.tail = "StatusUpdate"
              ELSE recs[k].usage = NoUse
    <3> SUFFICES ASSUME NEW k \in DOMAIN us, ~TellsUsage(lines, fmt, us[k].line_num)
                 PROVE  IF lines[us[k].line_num].kind = "torn"
                          THEN fmt = "legacy" /\ lines[us[k].line_num].tail = "StatusUpdate"
                          ELSE us[k].usage = NoUse
      BY <1>2
    <3> DEFINE n == us[k].line_num
    <3>1. n \in 1..Len(lines) /\ Updates(h, fmt, n)
      BY <1>3, <1>4 DEF Enumerates, Updated
    <3>2. us[k].usage = IF TellsUsage(h, fmt, n) THEN h[n].usage ELSE NoUse
      BY <1>3 DEF Alike
    <3> HIDE DEF n
    <3> QED
      BY <1>5, <3>1, <3>2 DEF n
  <2> HIDE DEF told
  <2>6. /\ InOrder(recs)
        /\ Billed(recs, told) = Billed(records', DOMAIN records')
        /\ told = {k \in DOMAIN recs : TellsUsage(lines', fmt', recs[k].line_num)}
    BY <1>1, <2>1, <2>4 DEF told
  <2> QED
    BY <1>1, <2>5, <2>6 DEF UsageAgrees, recs
<1>9. LatencyAgrees'
  <2> SUFFICES ASSUME fmt = "kimi-code", NEW j \in DOMAIN recs, NEW k \in DOMAIN records,
                      recs[j].line_num = records[k].line_num
               PROVE  recs[j].reply_latency_s = records[k].reply_latency_s
    BY <1>1 DEF LatencyAgrees, recs
  <2>1. Alike(us[j], lines, h, fmt) /\ Fits(records[k], lines, fmt) /\ us[j].line_num = records[k].line_num
    BY <1>2, <1>3
  <2> QED
    BY <1>2, <2>1 DEF Alike, Fits
<1>10. ToolErrorsAgree'
  <2> SUFFICES ASSUME NEW k \in DOMAIN tool_uses'
               PROVE  LET id      == tool_uses'[k].tool_call_id
                          found   == Results(h, fmt, id)
                          decides == lines[Max(found)]
                      IN  /\ id # "" => id \in js'.called
                          /\ found = {} \/ AsRead(decides, fmt) = decides =>
                               tool_uses'[k].is_error = IF id \notin js'.results THEN "null"
                                                        ELSE IF id \in js'.errors THEN "true" ELSE "false"
    BY <1>1 DEF ToolErrorsAgree, h
  <2> DEFINE id == tool_uses'[k].tool_call_id
             found == Results(h, fmt, id)
             own == Results(lines, fmt, id)
  <2>1. id \in OptionalIds
    <3>1. tool_uses' \in Seq(Use)
      BY DEF Locals
    <3>2. tool_uses'[k] \in Use
      BY <3>1
    <3> QED
      BY <3>2 DEF Use
  <2>2. id # "" => id \in js.called
    <3>1. k \in DOMAIN tool_uses /\ tool_uses'[k] = Resolved(tool_uses[k])
      BY DEF EndOfFile
    <3>2. tool_uses[k] \in Use
      BY <3>1 DEF Locals
    <3>3. tool_uses'[k].tool_call_id = tool_uses[k].tool_call_id
      BY <3>1, <3>2 DEF Resolved, Use
    <3> QED
      BY <3>1, <3>3 DEF Beside
  <2>3. tool_uses'[k].is_error = IF own = {} THEN "null"
                                 ELSE IF lines[Max(own)].err THEN "true" ELSE "false"
    BY <1>1 DEF LastLineWins, ToolErrorsAreLastResults
  <2>4. /\ id \in js.results <=> found # {}
        /\ id \in js.results => (id \in js.errors <=> h[Max(found)].err)
    BY <2>1 DEF Beside, Heard, h
  <2>5. own \subseteq found /\ found \subseteq 1..Len(lines)
    BY <1>4, <1>5 DEF Results
  <2>6. ASSUME found # {}, AsRead(lines[Max(found)], fmt) = lines[Max(found)]
        PROVE  own # {} /\ Max(own) = Max(found) /\ h[Max(found)] = lines[Max(found)]
    <3>1. found \in SUBSET Nat /\ \A i \in found : i <= Len(lines)
      BY <1>4, <2>5
    <3>2. Max(found) \in found /\ \A i \in found : i <= Max(found)
      <4> HIDE DEF found
      <4>1. Len(lines) \in Nat
        BY <1>4
      <4> QED
        BY <2>6, <3>1, <4>1, MaxOfNats
    <3>3. h[Max(found)] = lines[Max(found)]
      BY <1>5, <2>5, <2>6, <3>2
    <3>4. Max(found) \in own
      BY <1>4, <1>5, <2>5, <3>2, <3>3 DEF Results
    <3> HIDE DEF found, own
    <3>5. own \in SUBSET Nat /\ \A i \in own : i <= Max(found)
      BY <2>5, <3>1, <3>2
    <3>6. Max(own) = Max(found)
      BY <3>4, <3>5, MaxIs
    <3> QED
      BY <3>3, <3>4, <3>6
  <2> HIDE DEF id, found, own
  <2>7. found = {} \/ AsRead(lines[Max(found)], fmt) = lines[Max(found)] =>
          tool_uses'[k].is_error = IF id \notin js'.results THEN "null"
                                   ELSE IF id \in js'.errors THEN "true" ELSE "false"
    BY <1>2, <2>3, <2>4, <2>5, <2>6
  <2> QED
    BY <1>2, <2>2, <2>7 DEF id, found
<1>11. ChartCoversBackend'
  <2> DEFINE before(i) == {j \in Charted(lines, fmt) : j < i}
             input(i)  == ctx_input(lines[i].usage)
             idx(i)    == Cardinality(before(i)) + 1
             delta(i)  == input(i) - (IF before(i) = {} THEN 0 ELSE input(Max(before(i))))
  <2>1. ctx_turns' = {[idx |-> idx(i), line |-> i, input |-> input(i), delta |-> delta(i)] :
                        i \in Charted(lines, fmt)}
    BY <1>1 DEF LastLineWins, ContextIsLastUsageOfTurn, Chart
  <2> HIDE DEF idx, delta, before
  <2>2. {[line |-> p.line, input |-> p.input] : p \in ctx_turns'} =
          {[line |-> i, input |-> input(i)] : i \in Charted(lines, fmt)}
    <3>1. ASSUME NEW p \in ctx_turns'
          PROVE  \E i \in Charted(lines, fmt) : [line |-> p.line, input |-> p.input] = [line |-> i, input |-> input(i)]
      BY <2>1
    <3>2. ASSUME NEW i \in Charted(lines, fmt)
          PROVE  \E p \in ctx_turns' : [line |-> p.line, input |-> p.input] = [line |-> i, input |-> input(i)]
      <4>1. [idx |-> idx(i), line |-> i, input |-> input(i), delta |-> delta(i)] \in ctx_turns'
        BY <2>1
      <4> QED
        BY <4>1
    <3> DEFINE Brief(p) == [line |-> p.line, input |-> p.input]
               Mine(i)  == [line |-> i, input |-> input(i)]
    <3>3. /\ \A p \in ctx_turns' : \E i \in Charted(lines, fmt) : Brief(p) = Mine(i)
          /\ \A i \in Charted(lines, fmt) : \E p \in ctx_turns' : Brief(p) = Mine(i)
      BY <3>1, <3>2
    <3> HIDE DEF Brief, Mine
    <3>4. {Brief(p) : p \in ctx_turns'} = {Mine(i) : i \in Charted(lines, fmt)}
      BY <3>3
    <3> QED
      BY <3>4 DEF Brief, Mine
  <2>3. \A i \in Charted(lines, fmt) :
          /\ i \in Told(lines, fmt) /\ TellsUsage(lines, fmt, i) /\ ctx_input(lines[i].usage) > 0
    BY <1>4 DEF Charted, Told
  <2>4. ASSUME NEW i \in Charted(lines, fmt)
        PROVE  [line |-> i, input |-> input(i)] \in js'.ctx_turns
    <3>1. PICK k \in DOMAIN us : us[k].line_num = i
      BY <1>3, <1>6, <2>3 DEF Enumerates
    <3>2. us[k].usage = lines[i].usage
      BY <1>7, <2>3, <3>1
    <3> QED
      BY <1>2, <2>3, <3>1, <3>2 DEF JSContext
  <2>5. ASSUME NEW q \in js'.ctx_turns, q.line \in Charted(lines, fmt)
        PROVE  q = [line |-> q.line, input |-> input(q.line)]
    <3>1. PICK k \in DOMAIN us : q = [line |-> us[k].line_num, input |-> ctx_input(us[k].usage)]
      BY <1>2 DEF JSContext
    <3>2. us[k].usage = lines[us[k].line_num].usage
      BY <1>7, <2>3, <2>5, <3>1
    <3> QED
      BY <3>1, <3>2
  <2>6. {[line |-> p.line, input |-> p.input] : p \in ctx_turns'} =
          {q \in js'.ctx_turns : q.line \in Charted(lines, fmt)}
    <3> HIDE DEF input
    <3> QED
      BY <2>2, <2>4, <2>5
  <2> QED
    BY <1>1, <2>6 DEF ChartCoversBackend
<1> QED
  BY <1>8, <1>9, <1>10, <1>11 DEF RecordsAgree

\* The invariant: the locals while the file is read, and what is compared at its end.
Together ==
  /\ phase = "reading" => js \in JSState /\ Beside
  /\ RecordsAgree /\ ChartCoversBackend

LEMMA TogetherInit == BothInit => Together
<1> SUFFICES ASSUME BothInit PROVE Together
  OBVIOUS
<1>1. /\ lines = <<>> /\ records = <<>> /\ tool_uses = <<>> /\ phase = "reading"
      /\ pending_turn_begin_ts = NoTime /\ DOMAIN tool_result_is_error = {}
  BY DEF BothInit, Init
<1>2. /\ js.updates = <<>> /\ js.called = {} /\ js.errors = {} /\ js.results = {} /\ js.pending = NoTime
  BY DEF BothInit, BrowserInit
<1>3. js \in JSState
  BY DEF BothInit, BrowserInit, JSState, NoTime
<1>4. 1..Len(lines) = {} /\ DOMAIN records = {} /\ DOMAIN tool_uses = {} /\ DOMAIN js.updates = {}
  BY <1>1, <1>2
<1>5. Heard = <<>> /\ DOMAIN Heard = {} /\ 1..Len(Heard) = {}
  <2>1. DOMAIN Heard = {}
    BY <1>1 DEF Heard, AllAsRead
  <2>2. lines \in Seq(Lines) /\ Len(lines) = 0
    BY <1>1
  <2>3. Heard \in Seq(Lines) /\ Len(Heard) = 0
    BY <2>2, AllAsReadIs DEF Heard
  <2> QED
    BY <2>1, <2>3
<1>6. Beside
  <2>1. Enumerates(js.updates, Updated(Heard, fmt))
    BY <1>4, <1>5 DEF Enumerates, Updated
  <2>2. \A id : Results(Heard, fmt, id) = {}
    BY <1>5 DEF Results
  <2> QED
    BY <1>1, <1>2, <1>4, <2>1, <2>2 DEF Beside
<1> QED
  BY <1>1, <1>3, <1>6 DEF Together, RecordsAgree, UsageAgrees, LatencyAgrees, ToolErrorsAgree,
                          ChartCoversBackend

LEMMA TogetherNext ==
  IInv /\ Follows /\ Believed /\ Together /\ [BothNext]_browser_vars => Together'
<1> SUFFICES ASSUME IInv, Follows, Believed, Together, [BothNext]_browser_vars PROVE Together'
  OBVIOUS
<1>0. Locals /\ fmt \in Formats
  BY DEF IInv, Inv
<1>1. ASSUME NEW x \in NextLines, Read(x), JSRead(AsRead(x, fmt)) PROVE Together'
  <2>1. x \in Lines
    BY <1>1, NextLineType
  <2>2. phase = "reading" /\ phase' # "done"
    BY <1>0, <1>1, <2>1, Reading
  <2>3. phase' = "reading" => js' \in JSState /\ Beside'
    BY <1>0, <1>1, <2>1, <2>2, BesideStep DEF Together
  <2> QED
    BY <2>2, <2>3 DEF Together, RecordsAgree, UsageAgrees, LatencyAgrees, ToolErrorsAgree,
                      ChartCoversBackend
<1>2. CASE EndOfFile /\ JSReturn
  <2>1. phase = "reading" /\ phase' = "done"
    BY <1>2 DEF EndOfFile
  <2>2. LastLineWins'
    BY <1>2, BelievedEnd DEF IInv, Believed
  <2>3. RecordsAgree' /\ ChartCoversBackend'
    BY <1>0, <1>2, <2>1, <2>2, EndLocals, BesideEnd DEF Together
  <2> QED
    BY <2>1, <2>3 DEF Together
<1>3. CASE UNCHANGED browser_vars
  BY <1>3 DEF browser_vars, vars, turn_vars, tool_vars, Together, Beside, Heard, RecordsAgree, UsageAgrees,
              LatencyAgrees, ToolErrorsAgree, ChartCoversBackend
<1> QED
  BY <1>1, <1>2, <1>3 DEF BothNext

\* Beside the browser's parser, the backend's behaves as it does alone.
LEMMA BackendAlone == BothSpec => Spec
<1>1. BothInit => Init
  BY DEF BothInit
<1>2. [BothNext]_browser_vars => [Next]_vars
  BY DEF BothNext, Next, browser_vars
<1> QED
  BY <1>1, <1>2, PTL DEF BothSpec, Spec

LEMMA TogetherAlways == BothSpec => []Together
<1>1. Spec => [](IInv /\ Follows /\ Believed)
  BY FollowsAlways, BelievedInit, BelievedNext, PTL DEF Spec
<1> QED
  BY <1>1, BackendAlone, TogetherInit, TogetherNext, PTL DEF BothSpec

\* For files of any length, the Inspector bills the lines that the tables bill, for the same
\* tokens and in the same order, with the same latencies where it has any, and a call
\* fails in the one exactly if it fails in the other; but for the StatusUpdates that
\* only the browser finds, without token_usage or behind a malformed beginning, and for
\* the calls whose last result the two do not read alike.
THEOREM SameRecords == BothSpec => []RecordsAgree
<1>1. Together => RecordsAgree
  BY DEF Together
<1> QED
  BY <1>1, TogetherAlways, PTL

\* For files of any length, the Inspector's points at the last usage lines of turns are
\* exactly those of the stored chart, with the same sizes.
THEOREM SameChart == BothSpec => []ChartCoversBackend
<1>1. Together => ChartCoversBackend
  BY DEF Together
<1> QED
  BY <1>1, TogetherAlways, PTL
=============================================================================
