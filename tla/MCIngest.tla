------------------------------ MODULE MCIngest ------------------------------
(* Instances of Ingest for TLC: keys 1 and 2 in the first of two projects.   *)
EXTENDS Ingest

MCProjects  == {"p", "q"}
MCProjectOf == [k \in Keys |-> IF k <= 2 THEN "p" ELSE "q"]

\* One run at a time, a file at a time, pages of one; everything may fail.
MCAlone ==
  [keys |-> {1, 3}, triggers |-> {"cron"}, unparsable |-> {3}, markers |-> {"none", "malformed"},
   workers |-> 1, page_size |-> 1, writes |-> 2, faults |-> 1, restarts |-> 1]

\* Two runs that overlap, with a pool of two workers; no call fails.
MCOverlap ==
  [keys |-> {1, 2}, triggers |-> {"cron", "startup"}, unparsable |-> {}, markers |-> {"none", "a"},
   workers |-> 2, page_size |-> 1, writes |-> 1, faults |-> 0, restarts |-> 0]

\* The same for one file, of which the bucket and the calls may do more.
MCOneFile == [MCOverlap EXCEPT !.keys = {1}, !.writes = 2, !.faults = 1]

\* One run, one worker, and nothing that fails but what the bucket brings about.
MCCalm ==
  [keys |-> {1, 2}, triggers |-> {"cron"}, unparsable |-> {}, markers |-> {"none"},
   workers |-> 1, page_size |-> 2, writes |-> 2, faults |-> 0, restarts |-> 0]

MCScenarios == {MCAlone, MCOverlap, MCOneFile}
MCOneCalm   == {MCCalm}
=============================================================================
