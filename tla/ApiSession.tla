----------------------------- MODULE ApiSession -----------------------------
(***************************************************************************)
(* One session of the API: requests of several clients (api/main.py), the  *)
(* session's non-blocking lock, the stream of events a request answers     *)
(* with and the worker thread that runs the turn behind it (run_turn in    *)
(* api/sessions.py), which may outlive the stream.  The turn itself, the   *)
(* subject of TurnCycle, is here only its reads and writes of the          *)
(* checkpoint, the one thing the workers of a session share.               *)
(***************************************************************************)
EXTENDS Integers, Sequences, FiniteSets

CONSTANTS
    Requests,       \* bound: the chat and approve requests of a behaviour
    NoRequest,
    MaxQuestions,   \* bound: approvals asked for
    MaxResets,      \* bound: POST /reset
    MaxTimeouts,    \* bound: streams that hear nothing for 120 seconds
    MaxHangups,     \* bound: clients that leave before their stream ends
    MaxCrashes      \* bound: restarts of the API process

ASSUME NoRequestAssumption == NoRequest \notin Requests
ASSUME BoundsAssumption ==
    /\ MaxQuestions \in Nat
    /\ MaxResets \in Nat
    /\ MaxTimeouts \in Nat
    /\ MaxHangups \in Nat
    /\ MaxCrashes \in Nat

VARIABLES
    \* the API process
    known,      \* the registry has the session
    holder,     \* the request that holds session.lock, or NoRequest
    request,    \* request[r]: its endpoint, how far it is, the question it answers
    worker,     \* worker[r]: the thread that runs its turn
    subs,       \* the requests whose queues EventRecorder publishes to
    \* the checkpoint of the session's thread, which outlives the process
    window,     \* the turns in the context window, by the request that began them
    pending,    \* the question the suspended turn asks, or NoQuestion
    asked,      \* questions asked so far
    \* read by the properties only
    decided,    \* decided[q]: the requests whose answer q's gate has taken
    begun,      \* the turns begun since the last reset, in order
    crossed,    \* an event was put in another turn's queue, neither cut off
    cut,        \* the requests whose streams ended before their workers
    overlap,    \* the lock was taken, or the session reset, under a running turn
    resets, timeouts, hangups, crashes

process == <<known, holder, request, worker>>
checkpoint == <<window, pending, asked>>
events == <<subs, crossed>>
faults == <<cut, overlap, resets, timeouts, hangups, crashes>>
vars == <<process, checkpoint, decided, begun, faults, events>>

-----------------------------------------------------------------------------
NoQuestion == 0
Questions == 1..MaxQuestions

\* new: not sent; gone: answered, refused or cut off; astray: ended with the lock
RequestStages ==
    {"new", "arrived", "locked", "ready", "open", "streaming", "gone", "astray"}
WorkerStages == {"none", "start", "invoke", "running", "ended"}

New == [kind |-> "chat", stage |-> "new", saw |-> NoQuestion]
NoWorker == [stage |-> "none", window |-> <<>>, answers |-> NoQuestion]

Init ==
    /\ known = FALSE
    /\ holder = NoRequest
    /\ request = [r \in Requests |-> New]
    /\ worker = [r \in Requests |-> NoWorker]
    /\ subs = {}
    /\ crossed = FALSE
    /\ window = <<>>
    /\ pending = NoQuestion
    /\ asked = 0
    /\ decided = [q \in Questions |-> {}]
    /\ begun = <<>>
    /\ cut = {}
    /\ overlap = FALSE
    /\ resets = 0 /\ timeouts = 0 /\ hangups = 0 /\ crashes = 0

IsAt(r, kind, stage) == request[r].kind = kind /\ request[r].stage = stage
To(r, stage) == request' = [request EXCEPT ![r].stage = stage]

Running == {r \in Requests : worker[r].stage \in {"start", "invoke", "running"}}
Overlaps == overlap' = (overlap \/ Running # {})

-----------------------------------------------------------------------------
(* POST /chat                                                              *)

ChatArrives(r) ==
    /\ request[r].stage = "new"
    /\ request' = [request EXCEPT ![r] = [kind |-> "chat", stage |-> "arrived",
                                          saw |-> NoQuestion]]
    /\ known' = TRUE
    /\ UNCHANGED <<holder, worker, checkpoint, decided, begun, faults, events>>

(* Mutant: the lock is taken from whoever has it.                          *)
AcquireAnyway(r, stage) ==
    holder' = r /\ To(r, stage) /\ Overlaps

(* The lock is taken now or the request is refused with a 409.             *)
Acquire(r, stage) ==
    IF holder = NoRequest
    THEN holder' = r /\ To(r, stage) /\ Overlaps
    ELSE UNCHANGED <<holder, overlap>> /\ To(r, "gone")

ChatLocks(r) ==
    /\ IsAt(r, "chat", "arrived")
    /\ Acquire(r, "locked")
    /\ UNCHANGED <<known, worker, checkpoint, decided, begun, cut, resets, timeouts,
                   hangups, crashes, events>>

(* Mutant: a message is let in while a question waits.                     *)
MayBeginAnyway == TRUE

MayBegin == pending = NoQuestion

ChatChecks(r) ==
    /\ IsAt(r, "chat", "locked")
    /\ IF MayBegin
       THEN To(r, "ready") /\ UNCHANGED holder
       ELSE To(r, "gone") /\ holder' = NoRequest
    /\ UNCHANGED <<known, worker, checkpoint, decided, begun, faults, events>>

-----------------------------------------------------------------------------
(* POST /sessions/{id}/approve: sent by a client that has been shown a     *)
(* question, but without a word of which one.                              *)

ApproveArrives(r) ==
    /\ request[r].stage = "new"
    /\ pending # NoQuestion
    /\ request' = [request EXCEPT ![r] = [kind |-> "approve", stage |-> "arrived",
                                          saw |-> pending]]
    /\ UNCHANGED <<known, holder, worker, checkpoint, decided, begun, faults, events>>

(* 404 of a session that is not in the registry, 409 without a question.   *)
ApproveChecks(r) ==
    /\ IsAt(r, "approve", "arrived")
    /\ To(r, IF known /\ pending # NoQuestion THEN "locked" ELSE "gone")
    /\ UNCHANGED <<known, holder, worker, checkpoint, decided, begun, faults, events>>

ApproveLocks(r) ==
    /\ IsAt(r, "approve", "locked")
    /\ Acquire(r, "ready")
    /\ UNCHANGED <<known, worker, checkpoint, decided, begun, cut, resets, timeouts,
                   hangups, crashes, events>>

(* The checkpoint cannot be read (no connection, a database that is gone): *)
(* pending_approval raises, for chat with the lock taken and no finally    *)
(* clause to release it.                                                   *)
ReadFails(r) ==
    /\ \/ IsAt(r, "chat", "locked") /\ To(r, "astray")
       \/ IsAt(r, "approve", "arrived") /\ known /\ To(r, "gone")
    /\ UNCHANGED <<known, holder, worker, checkpoint, decided, begun, faults, events>>

-----------------------------------------------------------------------------
(* The stream.                                                             *)

(* The generator of events is entered and yields "start".                  *)
Open(r) ==
    /\ request[r].stage = "ready"
    /\ To(r, "open")
    /\ UNCHANGED <<known, holder, worker, checkpoint, decided, begun, faults, events>>

(* run_turn subscribes and starts the worker.                              *)
Launch(r) ==
    /\ request[r].stage = "open"
    /\ To(r, "streaming")
    /\ subs' = subs \cup {r}
    /\ worker' = [worker EXCEPT ![r].stage = "start"]
    /\ UNCHANGED <<known, holder, checkpoint, decided, begun, faults, crossed>>

(* Mutant: the lock is not released at the end.                            *)
CloseLocked(r) == To(r, "gone") /\ UNCHANGED holder

(* The finally clause of events(): whoever holds the lock, it is free.     *)
Close(r) == To(r, "gone") /\ holder' = NoRequest

(* Mutant: the queue stays subscribed when its stream ends.                *)
StaysSubscribed(r) == UNCHANGED events

Unsubscribe(r) == subs' = subs \ {r} /\ UNCHANGED crossed

(* The sentinel: replies, question and state are streamed.                 *)
Finish(r) ==
    /\ request[r].stage = "streaming"
    /\ worker[r].stage = "ended"
    /\ Close(r)
    /\ Unsubscribe(r)
    /\ UNCHANGED <<known, worker, checkpoint, decided, begun, faults>>

(* 120 seconds without an event: the stream ends, its worker does not.     *)
Timeout(r) ==
    /\ request[r].stage = "streaming"
    /\ worker[r].stage # "ended"
    /\ timeouts < MaxTimeouts
    /\ timeouts' = timeouts + 1
    /\ cut' = cut \cup {r}
    /\ Close(r)
    /\ Unsubscribe(r)
    /\ UNCHANGED <<known, worker, checkpoint, decided, begun, overlap, resets, hangups,
                   crashes>>

(* The client leaves: the generator is closed at the yield it is at, or at *)
(* the next, so not before the worker has recorded its first event.  What  *)
(* run_turn does after its loop is then not done: the queue is kept.       *)
HangUp(r) ==
    /\ \/ request[r].stage = "open"
       \/ request[r].stage = "streaming" /\ worker[r].stage # "start"
    /\ hangups < MaxHangups
    /\ hangups' = hangups + 1
    /\ cut' = cut \cup {r}
    /\ Close(r)
    /\ UNCHANGED <<known, worker, checkpoint, decided, begun, overlap, resets, timeouts,
                   crashes, events>>

(* A generator that was never entered has no finally clause to run.        *)
HangUpEarly(r) ==
    /\ request[r].stage = "ready"
    /\ hangups < MaxHangups
    /\ hangups' = hangups + 1
    /\ To(r, "astray")
    /\ UNCHANGED <<known, holder, worker, checkpoint, decided, begun, cut, overlap, resets,
                   timeouts, crashes, events>>

-----------------------------------------------------------------------------
(* The worker: step() or resume() of agent/loop.py.                        *)

Works(r, kind, stage) == request[r].kind = kind /\ worker[r].stage = stage

(* Mutant: a worker that ends without its sentinel.                        *)
EndsUnheard(r) == worker' = [worker EXCEPT ![r].stage = "dead"]

Ends(r) == worker' = [worker EXCEPT ![r].stage = "ended"]

(* record_event publishes to every queue subscribed by then.  A worker     *)
(* records as it begins a turn, and in every node.                         *)
Publish(r) ==
    /\ crossed' = (crossed \/ (r \notin cut /\ subs \ (cut \cup {r}) # {}))
    /\ UNCHANGED subs

(* step() reads the window ...                                             *)
StepReads(r) ==
    /\ Works(r, "chat", "start")
    /\ worker' = [worker EXCEPT ![r] = [stage |-> "invoke", window |-> Append(window, r),
                                        answers |-> NoQuestion]]
    /\ Publish(r)
    /\ UNCHANGED <<known, holder, request, checkpoint, decided, begun, faults>>

(* ... and the graph begins at its start, whatever it was suspended at.    *)
StepInvokes(r) ==
    /\ Works(r, "chat", "invoke")
    /\ worker' = [worker EXCEPT ![r].stage = "running"]
    /\ window' = worker[r].window
    /\ pending' = NoQuestion
    /\ begun' = Append(begun, r)
    /\ UNCHANGED <<known, holder, request, asked, decided, faults, events>>

(* resume() looks whether anything is pending; if not there is nothing to  *)
(* do.                                                                     *)
ResumeReads(r) ==
    /\ Works(r, "approve", "start")
    /\ worker' = [worker EXCEPT ![r].stage =
                    IF pending = NoQuestion THEN "ended" ELSE "invoke"]
    /\ UNCHANGED <<known, holder, request, checkpoint, decided, begun, faults, events>>

(* The answer goes to whatever question the checkpoint holds by now.       *)
ResumeInvokes(r) ==
    /\ Works(r, "approve", "invoke")
    /\ worker' = [worker EXCEPT ![r] =
                    IF pending = NoQuestion
                    THEN [@ EXCEPT !.stage = "ended"]
                    ELSE [stage |-> "running", window |-> window, answers |-> pending]]
    /\ UNCHANGED <<known, holder, request, checkpoint, decided, begun, faults, events>>

(* Mutant: the suspension stays in the checkpoint until the next node.     *)
ResolvedLater == UNCHANGED pending

Resolved == pending' = NoQuestion

(* The gate runs again with the answer and its decisions are checkpointed. *)
GateTakes(r) ==
    /\ worker[r].stage = "running"
    /\ worker[r].answers # NoQuestion
    /\ decided' = [decided EXCEPT ![worker[r].answers] = @ \cup {r}]
    /\ worker' = [worker EXCEPT ![r].answers = NoQuestion]
    /\ window' = worker[r].window
    /\ Resolved
    /\ Publish(r)
    /\ UNCHANGED <<known, holder, request, asked, begun, faults>>

(* Each node writes the whole window from the state of its own invocation. *)
Commit(r, question) ==
    /\ worker[r].stage = "running"
    /\ worker[r].answers = NoQuestion
    /\ window' = worker[r].window
    /\ pending' = question

NodeEnds(r) ==
    /\ Commit(r, NoQuestion)
    /\ Publish(r)
    /\ UNCHANGED <<process, asked, decided, begun, faults>>

TurnEnds(r) ==
    /\ Commit(r, NoQuestion)
    /\ Ends(r)
    /\ Publish(r)
    /\ UNCHANGED <<known, holder, request, asked, decided, begun, faults>>

TurnSuspends(r) ==
    /\ asked < MaxQuestions
    /\ asked' = asked + 1
    /\ Commit(r, asked')
    /\ Ends(r)
    /\ Publish(r)
    /\ UNCHANGED <<known, holder, request, decided, begun, faults>>

TurnFails(r) ==
    /\ worker[r].stage \in {"start", "invoke", "running"}
    /\ Ends(r)
    /\ UNCHANGED <<known, holder, request, checkpoint, decided, begun, faults, events>>

-----------------------------------------------------------------------------
(* POST /sessions/{id}/reset, which asks for no lock.                      *)
Reset ==
    /\ resets < MaxResets
    /\ resets' = resets + 1
    /\ known' = TRUE
    /\ window' = <<>>
    /\ pending' = NoQuestion
    /\ begun' = <<>>
    /\ Overlaps
    /\ UNCHANGED <<holder, request, worker, asked, decided, cut, timeouts, hangups, crashes,
                   events>>

(* GET /sessions/{id}: the registry makes the session anew.                *)
Look ==
    /\ ~known
    /\ known' = TRUE
    /\ UNCHANGED <<holder, request, worker, checkpoint, decided, begun, faults, events>>

(* Mutant: the checkpoints are in the memory of the process.               *)
CheckpointLost == window' = <<>> /\ pending' = NoQuestion /\ UNCHANGED asked

(* The checkpoints are in Postgres.                                        *)
CheckpointSurvives == UNCHANGED checkpoint

(* The process dies with its requests and workers.                         *)
Crash ==
    /\ crashes < MaxCrashes
    /\ crashes' = crashes + 1
    /\ known' = FALSE
    /\ holder' = NoRequest
    /\ request' = [r \in Requests |-> IF request[r].stage = "new" THEN New
                                      ELSE [request[r] EXCEPT !.stage = "gone"]]
    /\ worker' = [r \in Requests |-> NoWorker]
    /\ subs' = {}
    /\ CheckpointSurvives
    /\ UNCHANGED <<decided, begun, cut, overlap, resets, timeouts, hangups, crossed>>

-----------------------------------------------------------------------------
Serve(r) ==
    \/ ChatLocks(r) \/ ChatChecks(r) \/ ApproveChecks(r) \/ ApproveLocks(r)
    \/ Open(r) \/ Launch(r) \/ Finish(r)

Work(r) ==
    \/ StepReads(r) \/ StepInvokes(r) \/ ResumeReads(r) \/ ResumeInvokes(r)
    \/ GateTakes(r) \/ TurnEnds(r) \/ TurnSuspends(r) \/ TurnFails(r)

Next ==
    \/ \E r \in Requests :
          \/ ChatArrives(r) \/ ApproveArrives(r) \/ ReadFails(r)
          \/ Serve(r) \/ Timeout(r) \/ HangUp(r) \/ HangUpEarly(r)
          \/ Work(r) \/ NodeEnds(r)
    \/ Reset \/ Look \/ Crash

Spec == Init /\ [][Next]_vars

(* The server runs the requests it has, and a worker gets to the end of    *)
(* its turn, which has a bounded number of nodes.  Clients and faults are  *)
(* obliged to nothing.                                                     *)
FairSpec == Spec /\ \A r \in Requests : WF_vars(Serve(r)) /\ WF_vars(Work(r))

-----------------------------------------------------------------------------
(* The type invariant.                                                     *)
TypeOK ==
    /\ known \in BOOLEAN
    /\ holder \in Requests \cup {NoRequest}
    /\ request \in [Requests -> [kind : {"chat", "approve"}, stage : RequestStages,
                                 saw : Questions \cup {NoQuestion}]]
    /\ worker \in [Requests -> [stage : WorkerStages, window : Seq(Requests),
                                answers : Questions \cup {NoQuestion}]]
    /\ subs \subseteq Requests
    /\ crossed \in BOOLEAN
    /\ window \in Seq(Requests)
    /\ pending \in Questions \cup {NoQuestion}
    /\ asked \in 0..MaxQuestions
    /\ decided \in [Questions -> SUBSET Requests]
    /\ begun \in Seq(Requests)
    /\ cut \subseteq Requests
    /\ overlap \in BOOLEAN
    /\ resets \in 0..MaxResets
    /\ timeouts \in 0..MaxTimeouts
    /\ hangups \in 0..MaxHangups
    /\ crashes \in 0..MaxCrashes

(* "One turn at a time per session: concurrent turns would interleave      *)
(* writes into the same checkpointer thread" (api/main.py chat).           *)
OneTurnAtATime == Cardinality(Running) <= 1

(* Two turns run at once only if the stream of one of them was cut off and *)
(* the lock was taken, or the session reset, while a turn ran: whatever is *)
(* cut off, a turn whose stream is whole never meets another one of those, *)
(* and nothing overlaps before somebody comes in on a running turn.        *)
OneTurnUnlessCutOff ==
    \A r, s \in Running : r = s \/ (overlap /\ (r \in cut \/ s \in cut))

(* No turn is overwritten by another: as long as nobody came in on a       *)
(* running turn, every turn begun since the last reset is in the window,   *)
(* in the order they began, whatever was cut off, suspended or crashed     *)
(* (loop.py step, resume, reset).                                          *)
TurnsKept == ~overlap => window = begun

(* A client hears of its own turn and of nobody else's, and no queue       *)
(* collects the events of the turns after its own: what is cut off spoils  *)
(* only itself (that worker publishes to the next stream, or that stream's *)
(* queue stays), never two other turns (sessions.py run_turn,              *)
(* EventRecorder).                                                         *)
OwnEventsOnly == ~crossed

(* A question that is waiting is not forgotten: only an answer, or a       *)
(* reset, takes it away, unless somebody came in on a running turn.  The   *)
(* chat endpoint refuses to begin a turn over it, and a crash or a stream  *)
(* cut off leaves it where it is (api/main.py chat).                       *)
QuestionKept ==
    [][(pending # NoQuestion /\ pending' # pending /\ ~overlap)
         => resets' # resets \/ decided' # decided]_vars

(* One question gets one answer, of however many clients that click, and   *)
(* across restarts, unless the stream of one that answers was cut off and  *)
(* somebody came in on it (api/main.py approve, loop.py resume).           *)
AnsweredOnce ==
    \A q \in Questions : \A r, s \in decided[q] :
        r = s \/ (overlap /\ (r \in cut \/ s \in cut))

(* Whoever holds the lock lets go of it, whatever happens to its client or *)
(* its worker, unless its client left before the stream began or the       *)
(* checkpoint could not be read: those end outside of the try statement    *)
(* that releases it (api/main.py chat, approve, events).                   *)
LockComesBack == []<>(holder = NoRequest \/ request[holder].stage = "astray")

(* "A mismatched approval (stale or already resolved) also 409s, so two    *)
(* tabs cannot approve the wrong write" (docs/api.md): a question is only  *)
(* decided by a client that was asked that question.                       *)
ApprovalMatches == \A q \in Questions : \A r \in decided[q] : request[r].saw = q
=============================================================================
