---------------------------- MODULE MCParsers -----------------------------
(* Both parsers for TLC: times on both sides of the cut-offs, and lines of     *)
(* each kind.                                                                *)
EXTENDS BrowserParser

MCNoUse == [fresh |-> 0, create |-> 0, read |-> 0, output |-> 0]

MCLine(kind, ts) ==
  [kind |-> kind, tail |-> "other", ts |-> ts, id |-> "", err |-> FALSE, is_error |-> FALSE, chars |-> 0,
   calls |-> <<>>, has_usage |-> FALSE, usage |-> MCNoUse, model |-> ""]

\* A malformed line that ends in x.
MCTorn(x) == [x EXCEPT !.kind = "torn", !.tail = x.kind]

MCUse(x, fresh, read, model) ==
  [x EXCEPT !.has_usage = TRUE, !.model = model,
            !.usage = [MCNoUse EXCEPT !.fresh = fresh, !.read = read, !.output = 1]]

\* Lines that matter where a file begins: the rest of the file follows.
MCFirst ==
  [legacy |-> {MCLine("other", 2), MCLine("bad", 0), MCLine("turn.prompt", 1),
               MCLine("TurnBegin", 0), MCLine("StatusUpdate", 2)},
   kimi   |-> {MCLine("other", 2), MCLine("bad", 0), MCLine("TurnBegin", 1), MCLine("metadata", 4),
               MCLine("turn.prompt", 0), MCLine("step.end", 2),
               [MCLine("tool.call", 4) EXCEPT !.calls = <<"a">>]}]

MCLegacy ==
  {MCLine("TurnBegin", 3), MCLine("TurnEnd", 4),
   [MCLine("ContentPart", 0) EXCEPT !.chars = 1],
   [MCLine("ToolCall", 4) EXCEPT !.calls = <<"a">>],
   [MCLine("ToolResult", 4) EXCEPT !.id = "a"],
   [MCLine("ToolResult", 0) EXCEPT !.id = "a", !.err = TRUE],
   MCUse(MCLine("StatusUpdate", 1), 0, 0, ""), MCUse(MCLine("StatusUpdate", 5), 1, 0, ""),
   MCUse(MCLine("StatusUpdate", 4), 2, 3, "")}

MCKimiCode ==
  {MCLine("turn.prompt", 3),
   [MCLine("step.begin", 4) EXCEPT !.id = "t"], [MCLine("step.begin", 0) EXCEPT !.id = "u"],
   [MCLine("assistant", 4) EXCEPT !.chars = 1, !.calls = <<"a", "">>],
   [MCLine("content.part", 0) EXCEPT !.chars = 2],
   [MCLine("tool.result", 4) EXCEPT !.id = "a"],
   [MCLine("tool", 0) EXCEPT !.id = "a", !.err = TRUE],
   MCUse(MCLine("usage.record", 1), 0, 0, ""), MCUse(MCLine("usage.record", 5), 1, 0, "k3"),
   MCUse(MCLine("usage.record", 4), 2, 3, "kimi-for-coding")}

\* Lines that the two parsers read differently, or that neither reads.
MCDisputed ==
  [legacy |-> {MCTorn(MCUse(MCLine("StatusUpdate", 2), 1, 1, "")),
               MCTorn([MCLine("ToolResult", 1) EXCEPT !.id = "a", !.err = TRUE])},
   kimi   |-> {MCTorn(MCUse(MCLine("usage.record", 2), 1, 1, "")),
               [MCLine("tool.result", 1) EXCEPT !.id = "a", !.is_error = TRUE]}]

MCMenu ==
  [f \in Formats |-> [n \in 1 .. MaxLines |->
     IF f = "legacy" THEN MCLegacy \cup (IF n <= 2 THEN MCFirst.legacy ELSE {})
                                   \cup (IF n \in {1, 4} THEN MCDisputed.legacy ELSE {})
     ELSE MCKimiCode \cup (IF n <= 2 THEN MCFirst.kimi ELSE {})
                     \cup (IF n \in {1, 4} THEN MCDisputed.kimi ELSE {})]]
=============================================================================
