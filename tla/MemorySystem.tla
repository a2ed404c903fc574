---------------------------- MODULE MemorySystem ----------------------------
(***************************************************************************)
(* The memory stores with everything that reads and writes them: the tools *)
(* of the turns, the consolidation job and the migrations, and the switch  *)
(* from one backend to the other, for which the operator restarts the      *)
(* programs.  No program waits for another: what orders them is the lock   *)
(* of the SQLite file, and the order each does its own statements in.      *)
(***************************************************************************)
EXTENDS MemoryTools, Consolidation, StoreMigration

memory == <<stores, tools, jobs, migrations>>

MemoryInit ==
    /\ StoresInit
    /\ ToolsInit
    /\ JobInit
    /\ MigrationInit

\* assembly.build_stores opens the other backend.
Switch ==
    /\ MaySwitch
    /\ active' = "pg"
    /\ ToolsRestart("pg")
    /\ JobRestart
    /\ UNCHANGED <<core, recall, archive, usage, width, put, made, left, migrations>>

MemoryNext ==
    \/ ToolsNext /\ UNCHANGED <<jobs, migrations>> /\ (SourceLocked => SourceStays)
    \/ JobNext /\ UNCHANGED <<tools, migrations>> /\ (SourceLocked => SourceStays)
    \/ MigrationNext /\ UNCHANGED <<tools, jobs>>
    \/ Switch

-----------------------------------------------------------------------------
Blocks == Seq(Nat)
RowSeqs == Seq([n : Nat, kind : RowKinds])

MemoryTypeOK ==
    /\ core \in [Backends -> Blocks \union {NoBlock}]
    /\ recall \in [Backends -> RowSeqs]
    /\ archive \in [Backends -> Seq(Nat)]
    /\ usage \in [Backends -> Nat]
    /\ active \in Backends
    /\ width \in IF archive["lite"] = <<>> THEN {"none"} ELSE {"old", "new"}
    /\ made \in Nat
    /\ put \subseteq 1..made
    /\ client \in [Clients -> [stage : {"idle", "write"}, block : Blocks,
                               adds : SUBSET (1..made), drops : SUBSET (0..made)]]
    /\ walk.stage \in {"none", "count", "select", "done"}
    /\ job \in [stage : {"idle", "asking", "insert", "record"}, passage : 0..made]
    /\ mig.stage \in {"idle", "core", "messages", "rows", "usage", "archive", "passages"}
    /\ mig.todo \in IF mig.stage = "rows" THEN RowSeqs ELSE Seq(Nat)
    /\ re \in [stage : {"idle", "read", "dropped"}, held : Seq(Nat)]
    /\ past \in [started : BOOLEAN, rows : SUBSET (1..made), passages : SUBSET (1..made),
                 charges : Nat, finished : BOOLEAN, broken : BOOLEAN, again : BOOLEAN,
                 late : BOOLEAN, hollow : BOOLEAN, spilt : BOOLEAN]

\* No order of the tools' reads and writes, and no migration, makes a block longer than
\* char_limit, which the tools check before they write (sqlite.py _set_block).
WithinLimit == \A b \in Backends : core[b] # NoBlock => Len(core[b]) <= CharLimit

\* As long as no two tools were at a block at once and no migration was run again after
\* the switch, the active block is what its acknowledged updates make of it one after
\* the other: no line is lost, none comes back (append_block, replace_block).
UpdatesKept == ~overlap /\ ~past.late => Lines(active) = kept[active]

\* A model that asks for the next page as long as the result says there are more has
\* been shown every message there was when it began, whatever rows turns added between
\* its pages; only a row between the two statements of one page, or a result cut at its
\* cap, hides any (search_messages, _format_recall, _truncate).
WalkSeesAll ==
    walk.stage = "done" /\ ~walk.raced /\ ~walk.cut => walk.wanted \subseteq walk.shown

\* What leaves the machine is sensitive neither row by row nor read as one text
\* (withhold_reason and the check on the transcript in consolidate).
WithheldStayHome ==
    /\ \A id \in DOMAIN outbound : Sendable(outbound[id])
    /\ ~JointlySensitive(outbound)

\* An event that says a pass kept a summary names a passage that is there: through
\* crashes of the job between its two writes and of a re-embedding between its own, and
\* after a migration beside it, which copies the log before the passages; run again, it
\* may copy the log only (consolidate, main of migrate_to_postgres).
RecordedHasPassage ==
    ~past.again =>
        \A i \in DOMAIN recall[active] :
            recall[active][i].kind = "record" => recall[active][i].n \in ToSet(archive[active])

\* However often a migration is broken off and run again, beside running turns, no row
\* and no passage is in a store twice (migrate_messages, migrate_archival).
NothingCopiedTwice ==
    \A b \in Backends :
        /\ \A i, j \in DOMAIN recall[b] : recall[b][i].n = recall[b][j].n => i = j
        /\ \A i, j \in DOMAIN archive[b] : archive[b][i] = archive[b][j] => i = j

\* What Postgres has of the SQLite log is its beginning, in its order and before
\* anything else, even of a run that broke off, so that ids order the log as they did:
\* what came before a copied row is there before it.  Only of a migration begun after the
\* switch the copies come second, behind what turns wrote meanwhile.
CopiedInOrder ==
    \A id \in DOMAIN recall["lite"], copy \in DOMAIN recall["pg"] :
        recall["pg"][copy].n = recall["lite"][id].n =>
            /\ recall["pg"][copy] = recall["lite"][id]
            /\ \A older \in 1..id - 1 : \E before \in 1..copy - 1 :
                  recall["pg"][before] = recall["lite"][older]
            /\ ~past.late => copy = id

\* After a run has said Done, Postgres has every row, passage and charge the source had
\* when the first run began, also if turns write meanwhile.  A run that broke off is an
\* exception: it is not resumed, as the next skips a table that has rows (main).  So is
\* one beside a re-embedding, whose half-built collection it takes for the whole.
RunCopiesAll ==
    past.finished /\ ~past.broken /\ ~past.spilt /\ ~past.hollow =>
        /\ past.rows \subseteq Texts(recall["pg"])
        /\ past.passages \subseteq ToSet(archive["pg"])
        /\ past.charges <= usage["pg"]

\* A passage the Chroma collection has taken is in it or held by the re-embedding that
\* emptied it, also when tools insert meanwhile: the old collection takes no new vector
\* (migrate).  Only a re-embedding that dies between its delete and its add loses any.
PassagesSurvive == ~past.spilt => put \subseteq ToSet(archive["lite"]) \union ToSet(re.held)
=============================================================================
