----------------------------- MODULE MCOverview -----------------------------
(* The overview page for TLC: two hours of records of three sessions, with two *)
(* names of one model, a record of no cost in an hour of its own, and gaps of  *)
(* every width.                                                              *)
EXTENDS Overview

MCRecord(ts, model, session, input, output, cr) ==
  [ts |-> ts, model |-> model, session |-> session, input |-> input, output |-> output, cr |-> cr]

MCRecords ==
  {MCRecord(0, "k3", "s1", 1, 2, 0), MCRecord(1, "k3-tag", "s1", 0, 1, 0),
   MCRecord(1, "k2", "s2", 3, 0, 1), MCRecord(3, "k2", "s1", 0, 0, 2),
   MCRecord(4, "k3", "s2", 2, 1, 0), MCRecord(8, "k3", "s2", 0, 2, 0),
   MCRecord(9, "k2", "s3", 0, 0, 0), MCRecord(14, "k3-tag", "s3", 1, 0, 0)}

MCShort == [m \in {"k2", "k3", "k3-tag"} |-> IF m = "k2" THEN "k2" ELSE "k3"]

MCRates == [m \in {"k2", "k3"} |-> IF m = "k2" THEN [input |-> 2, output |-> 4, cr |-> 1]
                                              ELSE [input |-> 3, output |-> 15, cr |-> 0]]
=============================================================================
