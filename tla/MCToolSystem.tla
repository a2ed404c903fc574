---------------------------- MODULE MCToolSystem ----------------------------
(* Workloads for TLC: each behaviour exercises one part against the others *)
(* it meets.                                                               *)
EXTENDS ToolSystem

CONSTANTS c1, c2, web, files, notes

Nothing == [lines |-> 0, rows |-> 0, passages |-> 0, charges |-> 0, walks |-> 0,
            kinds |-> {"plain"}, passes |-> 0, runs |-> 0, reembeds |-> 0, crashes |-> 0,
            old |-> 0, starts |-> 0, calls |-> 0, nodes |-> 0, keys |-> FALSE]

\* Core memory tools over each other, and over a migration and the switch.
Writers == [Nothing EXCEPT !.lines = 4]
Movers == [Nothing EXCEPT !.lines = 3, !.runs = 2]
\* A walk through a log that grows.
Walks == [Nothing EXCEPT !.rows = 5, !.walks = 1, !.kinds = {"plain", "long", "tool"}]
\* A walk beside two runs of the migration, the second of which may begin after the switch.
Searched == [Nothing EXCEPT !.rows = 3, !.walks = 1, !.runs = 2]
\* Passes over every kind of row.
Passes == [Nothing EXCEPT !.rows = 3, !.passes = 2,
                          !.kinds = {"plain", "open", "secret", "marked", "tool"}]
\* Passes and inserts beside a re-embedding that may break off and be run again.
Reembeds == [Nothing EXCEPT !.old = 2, !.passages = 2, !.reembeds = 2, !.crashes = 1,
                            !.rows = 1, !.passes = 1]
\* Two runs of the migration, one of which may break off, beside turns.
Moves == [Nothing EXCEPT !.rows = 3, !.passages = 2, !.charges = 1, !.runs = 2, !.crashes = 1]
\* The same beside the job.
JobMoves == [Nothing EXCEPT !.rows = 1, !.passages = 1, !.passes = 2, !.runs = 2]
\* One of each kind of migration, at once.
Both == [Nothing EXCEPT !.old = 1, !.rows = 1, !.passages = 1, !.runs = 1, !.reembeds = 1]
\* Nodes of two threads under trace spans; and nodes that call external tools.
Traced == [Nothing EXCEPT !.starts = 1, !.calls = 1, !.nodes = 2, !.keys = TRUE]
Callers == [Nothing EXCEPT !.starts = 1, !.calls = 2, !.nodes = 2]

MCWorkloads ==
    {Writers, Movers, Walks, Searched, Passes, Reembeds, Moves, JobMoves, Both, Traced, Callers}
MCTracedOnly == {Traced}

\* The third server exports a tool of the first's name, which its allowlist leaves out,
\* and one of the second's, which it does not.
MCRegistry == <<web, files, notes>>
MCExports == [s \in {web, files, notes} |->
                 IF s = web THEN {"search"} ELSE IF s = files THEN {"read"} ELSE {"search", "read"}]
MCWanted == [s \in {web, files, notes} |-> IF s = notes THEN {"read"} ELSE {"search", "read"}]
=============================================================================
