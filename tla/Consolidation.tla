--------------------------- MODULE Consolidation ---------------------------
(***************************************************************************)
(* The consolidation job (jobs/consolidate.py): a pass reads the newest    *)
(* rows of the recall log, withholds what may not leave the machine, sends *)
(* the rest to the background lane, keeps the answer as a passage and      *)
(* records that it did.  run_scheduled runs one pass after another, in a   *)
(* process of its own, and outlives a pass that raises.                    *)
(***************************************************************************)
EXTENDS Stores

CONSTANT Window     \* the rows a pass considers, --limit

VARIABLES
    job,        \* the pass at work
    outbound    \* the last transcript sent; read by the properties only

jobs == <<job, outbound>>

-----------------------------------------------------------------------------
NoPass == [stage |-> "idle", passage |-> 0]

JobInit ==
    /\ job = NoPass
    /\ outbound = <<>>

\* withhold_reason is None: a message, not of the job itself, with no marker of
\* external content and nothing sensitive in it.
Sendable(row) == row.kind \notin {"tool", "record", "marked", "secret"}

\* select_payload, and render_transcript, which puts its rows in their order
Payload ==
    {id \in Page(DOMAIN recall[active], 0, Window) : Sendable(recall[active][id])}
Transcript == [id \in Payload |-> recall[active][id]]

\* classify on the transcript: where a row ends in "password:", what the next row
\* begins with reads as the password.
JointlySensitive(rows) ==
    \E id, next \in DOMAIN rows : id < next /\ rows[id].kind = "open"

\* Mutant: only the rows are checked, not the transcript they make.
PassStartsUnchecked ==
    /\ job.stage = "idle"
    /\ Spend("passes")
    /\ IF Payload = {}
       THEN UNCHANGED jobs
       ELSE /\ job' = [NoPass EXCEPT !.stage = "asking"]
            /\ outbound' = Transcript
    /\ UNCHANGED <<core, recall, archive, usage, active, width, put, made>>

\* A pass with nothing to send, or whose payload fails the last check, is skipped; so
\* is a dry run.
PassStarts ==
    /\ job.stage = "idle"
    /\ Spend("passes")
    /\ IF Payload = {} \/ JointlySensitive(Transcript)
       THEN UNCHANGED jobs
       ELSE /\ job' = [NoPass EXCEPT !.stage = "asking"]
            /\ outbound' = Transcript
    /\ UNCHANGED <<core, recall, archive, usage, active, width, put, made>>

\* The provider is out, the model found nothing, there is no archival store, the
\* insert raises, or the process dies: the pass ends where it is.
PassStops ==
    /\ job.stage # "idle"
    /\ job' = NoPass
    /\ UNCHANGED <<stores, left, outbound>>

PassAnswered ==
    /\ job.stage = "asking"
    /\ job' = [job EXCEPT !.stage = "insert"]
    /\ UNCHANGED <<stores, left, outbound>>

\* Mutant: the event is recorded, naming the passage, before the insert.
PassInsertsLate ==
    /\ job.stage = "insert"
    /\ made' = made + 1
    /\ AddRow(active, Row(Fresh, "record"))
    /\ job' = [job EXCEPT !.stage = "record", !.passage = Fresh]
    /\ UNCHANGED <<core, archive, usage, active, width, put, left, outbound>>

\* archival.insert
PassInserts ==
    /\ job.stage = "insert"
    /\ made' = made + 1
    /\ AddPassage(active, Fresh)
    /\ job' = [job EXCEPT !.stage = "record", !.passage = Fresh]
    /\ UNCHANGED <<core, recall, usage, active, left, outbound>>

\* memory.record_event; the event's text names the passage
PassRecords ==
    /\ job.stage = "record"
    /\ AddRow(active, Row(job.passage, "record"))
    /\ job' = NoPass
    /\ UNCHANGED <<core, archive, usage, active, width, put, made, left, outbound>>

JobNext ==
    \/ PassStarts
    \/ PassStops
    \/ PassAnswered
    \/ PassInserts
    \/ PassRecords

\* The scheduler is started anew; build() opens the stores of the active backend.
JobRestart ==
    /\ job' = NoPass
    /\ UNCHANGED outbound
=============================================================================
