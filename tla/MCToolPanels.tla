---------------------------- MODULE MCToolPanels ----------------------------
(* The checkbox panels for TLC: answers in which a tool is first of one     *)
(* bucket only, falls into Other and is gone, with ties, empty buckets      *)
(* between and a bucket of one tool; files of one, two and three turns.     *)
EXTENDS ToolPanels

MCRow(ts, key, n, err) == [ts |-> ts, key |-> key, n |-> n, err |-> err]
MCFile(key, ctxs) == [key |-> key, turns |-> ctxs]

MCUsage ==
  {<<MCRow(1, "Bash", 3, 1), MCRow(1, "Edit", 2, 0), MCRow(1, "Read", 2, 2), MCRow(2, "Edit", 1, 1),
     MCRow(2, "Read", 4, 0), MCRow(4, "Bash", 9, 2)>>,
   <<MCRow(1, "Web", 5, 2), MCRow(2, "Bash", 1, 0), MCRow(2, "Edit", 2, 1), MCRow(3, "Edit", 1, 1)>>,
   <<MCRow(2, "Bash", 1, 0), MCRow(2, "Read", 1, 1), MCRow(2, "Web", 1, 0)>>}

MCErrors ==
  {<<>>,
   <<MCRow(1, "Bash", 3, 1), MCRow(1, "Edit", 2, 0), MCRow(1, "Read", 2, 2), MCRow(2, "Edit", 1, 1),
     MCRow(2, "Read", 4, 0), MCRow(4, "Bash", 2, 2)>>,
   <<MCRow(2, "Bash", 1, 0), MCRow(2, "Edit", 2, 1), MCRow(3, "Edit", 1, 1), MCRow(3, "Web", 5, 2)>>}

MCLines ==
  {<<>>, <<MCRow(1, "k2", 2, 0), MCRow(2, "k2", 7, 0), MCRow(2, "k3", 5, 0), MCRow(5, "k2", 3, 0)>>,
   <<MCRow(3, "k3", 4, 0), MCRow(4, "k1", 1, 0)>>}

MCFiles ==
  {<<>>,
   <<MCFile("k2", <<3>>), MCFile("k3", <<1, 5, 2>>), MCFile("k3", <<4>>), MCFile("k3", <<2, 6>>)>>,
   <<MCFile("k2", <<1, 2>>), MCFile("k2", <<7, 8>>), MCFile("k1", <<9>>), MCFile("k3", <<2>>),
     MCFile("k3", <<1, 5, 3>>)>>}

MCCells ==
  {<<>>, <<MCRow(1, "h0", 2, 3), MCRow(1, "h9", 1, 0), MCRow(7, "h9", 4, 1)>>, <<MCRow(7, "h9", 1, 5)>>}

MCAnswers ==
  [p \in {"sizes", "latency"} |-> MCLines] @@ [p \in {"usage"} |-> MCUsage]
    @@ [p \in {"errors"} |-> MCErrors] @@ [p \in {"context"} |-> MCFiles]
    @@ [p \in {"heat"} |-> MCCells]
=============================================================================
