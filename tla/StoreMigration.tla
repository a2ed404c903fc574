--------------------------- MODULE StoreMigration ---------------------------
(***************************************************************************)
(* The two migrations an operator runs beside, or instead of, the system:  *)
(* migrate_to_postgres.py, which copies every table to the other backend,  *)
(* statement by statement, and is run again when it breaks off; and        *)
(* migrate_embeddings.py, which empties the Chroma collection and fills it *)
(* again with vectors of the new width.                                    *)
(***************************************************************************)
EXTENDS Stores

CONSTANT Batch      \* BATCH: the messages of one executemany

ASSUME BatchAssumption == Batch \in Nat \ {0}

VARIABLES
    mig,        \* the run of migrate_to_postgres at work
    re,         \* the run of migrate_embeddings at work
    past        \* what runs were like so far; read by the properties only

migrations == <<mig, re, past>>

-----------------------------------------------------------------------------
NoRun == [stage |-> "idle", todo |-> <<>>]
NoReembed == [stage |-> "idle", held |-> <<>>]

MigrationInit ==
    /\ mig = NoRun
    /\ re = NoReembed
    /\ past = [started |-> FALSE,   \* a run has begun, when the source held
               rows |-> {},         \*   these rows
               passages |-> {},     \*   and these passages,
               charges |-> 0,       \*   and its ledger this
               finished |-> FALSE,  \* a run has said Done
               broken |-> FALSE,    \* a run has broken off
               again |-> FALSE,     \* a run has begun after another
               late |-> FALSE,      \* a run has begun after the switch
               hollow |-> FALSE,    \* a run has read a collection that was being rebuilt
               spilt |-> FALSE]     \* a re-embedding broke off with the collection deleted

-----------------------------------------------------------------------------
(* migrate_to_postgres: main runs its four steps in this order             *)

RunStarts ==
    /\ mig.stage = "idle"
    /\ Spend("runs")
    \* the PostgresStore constructor
    /\ Seeded("pg")
    /\ mig' = [NoRun EXCEPT !.stage = "core"]
    /\ past' = [past EXCEPT
           !.started = TRUE,
           !.rows = IF past.started THEN @ ELSE Texts(recall["lite"]),
           !.passages = IF past.started THEN @ ELSE ToSet(archive["lite"]),
           !.charges = IF past.started THEN @ ELSE usage["lite"],
           !.again = past.started,
           !.late = @ \/ active = "pg"]
    /\ UNCHANGED <<recall, archive, usage, active, width, put, made, re>>

\* migrate_core_blocks: ON CONFLICT DO UPDATE
CopyCore ==
    /\ mig.stage = "core"
    /\ SetBlock("pg", core["lite"])
    /\ mig' = [mig EXCEPT !.stage = "messages"]
    /\ UNCHANGED <<recall, archive, usage, active, width, put, made, left, re, past>>

\* Mutant: the messages are copied whatever the destination holds.
CheckMessagesAlways ==
    /\ mig.stage = "messages"
    /\ mig' = [stage |-> "rows", todo |-> recall["lite"]]
    /\ UNCHANGED <<stores, left, re, past>>

\* Mutant: the source is read in no order.
CheckMessagesUnordered ==
    /\ mig.stage = "messages"
    /\ mig' = IF recall["pg"] # <<>>
              THEN [mig EXCEPT !.stage = "usage"]
              ELSE [stage |-> "rows", todo |-> Reverse(recall["lite"])]
    /\ UNCHANGED <<stores, left, re, past>>

\* migrate_messages: skipped when the destination already holds rows
CheckMessages ==
    /\ mig.stage = "messages"
    /\ mig' = IF recall["pg"] # <<>>
              THEN [mig EXCEPT !.stage = "usage"]
              ELSE [stage |-> "rows", todo |-> recall["lite"]]
    /\ UNCHANGED <<stores, left, re, past>>

Taken == IF Len(mig.todo) < Batch THEN Len(mig.todo) ELSE Batch

\* Mutant: the last batch, which is not full, is not written.
CopyRowsFullOnly ==
    /\ mig.stage = "rows"
    /\ recall' = [recall EXCEPT !["pg"] =
                  IF Len(mig.todo) <= Batch THEN @ ELSE @ \o SubSeq(mig.todo, 1, Taken)]
    /\ mig' = [stage |-> IF Len(mig.todo) <= Batch THEN "usage" ELSE "rows",
               todo |-> SubSeq(mig.todo, Taken + 1, Len(mig.todo))]
    /\ UNCHANGED <<core, archive, usage, active, width, put, made, left, re, past>>

\* One executemany; the source's cursor is open until the last.
CopyRows ==
    /\ mig.stage = "rows"
    /\ recall' = [recall EXCEPT !["pg"] = @ \o SubSeq(mig.todo, 1, Taken)]
    /\ mig' = [stage |-> IF Len(mig.todo) <= Batch THEN "usage" ELSE "rows",
               todo |-> SubSeq(mig.todo, Taken + 1, Len(mig.todo))]
    /\ UNCHANGED <<core, archive, usage, active, width, put, made, left, re, past>>

\* An open cursor's shared lock keeps every writer of the SQLite file from committing.
SourceLocked == mig.stage = "rows" /\ mig.todo # <<>>
SourceStays ==
    /\ core'["lite"] = core["lite"]
    /\ recall'["lite"] = recall["lite"]
    /\ usage'["lite"] = usage["lite"]

\* migrate_usage: ON CONFLICT DO UPDATE
CopyUsage ==
    /\ mig.stage = "usage"
    /\ usage' = [usage EXCEPT !["pg"] = usage["lite"]]
    /\ mig' = [mig EXCEPT !.stage = "archive"]
    /\ UNCHANGED <<core, recall, archive, active, width, put, made, left, re, past>>

\* migrate_archival: skipped when the destination already holds passages.  It reads the
\* collection as it is, which a re-embedding may just have deleted.
CheckArchive ==
    /\ mig.stage = "archive"
    /\ mig' = [stage |-> "passages",
               todo |-> IF archive["pg"] # <<>> THEN <<>> ELSE archive["lite"]]
    /\ past' = [past EXCEPT !.hollow = @ \/ re.stage = "dropped"]
    /\ UNCHANGED <<stores, left, re>>

\* One insert, which embeds the text anew.
CopyPassage ==
    /\ mig.stage = "passages"
    /\ mig.todo # <<>>
    /\ AddPassage("pg", Head(mig.todo))
    /\ mig' = [mig EXCEPT !.todo = Tail(@)]
    /\ UNCHANGED <<core, recall, usage, active, made, left, re, past>>

RunEnds ==
    /\ mig.stage = "passages"
    /\ mig.todo = <<>>
    /\ mig' = NoRun
    /\ past' = [past EXCEPT !.finished = TRUE]
    /\ UNCHANGED <<stores, left, re>>

\* A lost connection, a full disk, Ctrl-C: what has been written stays, as every
\* statement commits by itself.
RunBreaksOff ==
    /\ mig.stage # "idle"
    /\ Spend("crashes")
    /\ mig' = NoRun
    /\ past' = [past EXCEPT !.broken = TRUE]
    /\ UNCHANGED <<core, recall, archive, usage, active, width, put, made, re>>

-----------------------------------------------------------------------------
(* migrate_embeddings                                                      *)

\* A collection that is empty or already of the new width is left alone.
ReembedReads ==
    /\ re.stage = "idle"
    /\ width = "old"
    /\ Spend("reembeds")
    /\ re' = [stage |-> "read", held |-> archive["lite"]]
    /\ UNCHANGED <<core, recall, archive, usage, active, width, put, made, mig, past>>

\* Mutant: what is kept for the new collection is read after the delete.
DropsUnread ==
    /\ re.stage = "read"
    /\ archive' = [archive EXCEPT !["lite"] = <<>>]
    /\ width' = "none"
    /\ re' = [stage |-> "dropped", held |-> archive'["lite"]]
    /\ UNCHANGED <<core, recall, usage, active, put, made, left, mig, past>>

\* Mutant: the passages are deleted and the collection is kept.
DropsPassages ==
    /\ re.stage = "read"
    /\ archive' = [archive EXCEPT !["lite"] = <<>>]
    /\ re' = [re EXCEPT !.stage = "dropped"]
    /\ UNCHANGED <<core, recall, usage, active, width, put, made, left, mig, past>>

\* delete_collection
Drops ==
    /\ re.stage = "read"
    /\ archive' = [archive EXCEPT !["lite"] = <<>>]
    /\ width' = "none"
    /\ re' = [re EXCEPT !.stage = "dropped"]
    /\ UNCHANGED <<core, recall, usage, active, put, made, left, mig, past>>

\* get_or_create_collection and add, which writes every passage or none
Refills ==
    /\ re.stage = "dropped"
    /\ archive' = [archive EXCEPT !["lite"] = @ \o re.held]
    /\ width' = "new"
    /\ re' = NoReembed
    /\ UNCHANGED <<core, recall, usage, active, put, made, left, mig, past>>

ReembedBreaksOff ==
    /\ re.stage # "idle"
    /\ Spend("crashes")
    /\ re' = NoReembed
    /\ past' = [past EXCEPT !.spilt = @ \/ re.stage = "dropped"]
    /\ UNCHANGED <<core, recall, archive, usage, active, width, put, made, mig>>

MigrationNext ==
    \/ RunStarts \/ CopyCore \/ CheckMessages \/ CopyRows \/ CopyUsage
    \/ CheckArchive \/ CopyPassage \/ RunEnds \/ RunBreaksOff
    \/ ReembedReads \/ Drops \/ Refills \/ ReembedBreaksOff

\* "Verify, then switch": the operator sets the other backend after a run that ended.
MaySwitch == active = "lite" /\ mig.stage = "idle" /\ past.finished
=============================================================================
