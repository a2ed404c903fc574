-------------------------- MODULE ApiSessionProofs --------------------------
(***************************************************************************)
(* Proofs that a session runs one turn at a time, loses none, answers each *)
(* question once and forgets none, and sends events where they belong, as  *)
(* long as nobody comes in on a running turn whose stream was cut off; and *)
(* that even then only that turn is touched: for any number of requests,   *)
(* questions, cut-offs, resets and restarts.                               *)
(***************************************************************************)
EXTENDS ApiSession, FiniteSetTheorems, SequenceTheorems, TLAPS

Active(r) == worker[r].stage \in {"start", "invoke", "running"}

(* The requests that have taken the lock and not given it back.            *)
Locked(r) ==
    \/ IsAt(r, "chat", "locked")
    \/ request[r].stage \in {"ready", "open", "streaming"}

(* Whatever is cut off or crashes: a worker is launched once, by the       *)
(* stream of its request.                                                  *)
LaunchInv ==
    \A r \in Requests :
        /\ request[r].stage \notin {"streaming", "gone"} => worker[r] = NoWorker
        /\ request[r].stage = "streaming" => worker[r].stage # "none"

(* The lock is the request's that has taken it, and its worker's until the *)
(* stream is cut off.                                                      *)
LockInv ==
    \A r \in Requests :
        /\ Locked(r) => holder = r
        /\ Active(r) /\ r \notin cut => request[r].stage = "streaming"

EventInv == ~crossed /\ \A r \in subs : r \notin cut => request[r].stage = "streaming"

(* Until somebody comes in on a running turn it runs alone, cut off or not. *)
AloneInv == \A r, s \in Requests : Active(r) /\ (Active(s) \/ Locked(s)) => r = s

(* What a worker knows of the window is what the window is.                *)
WindowInv ==
    /\ window = begun
    /\ \A r \in Requests :
          /\ Works(r, "chat", "invoke") => worker[r].window = Append(window, r)
          /\ worker[r].stage = "running" => worker[r].window = window

(* No question waits while a turn begins, or runs with no answer to give.  *)
FreeInv ==
    \A r \in Requests :
        /\ \/ request[r].kind = "chat" /\ request[r].stage \in {"ready", "open"}
           \/ Works(r, "chat", "start")
           \/ Works(r, "chat", "invoke")
           => pending = NoQuestion
        /\ worker[r].stage = "running" /\ worker[r].answers = NoQuestion
           => pending = NoQuestion

(* A worker has one answer to give; its question was asked.                *)
GivenInv ==
    /\ pending <= asked
    /\ \A r \in Requests :
          /\ worker[r].answers <= asked
          /\ worker[r].stage \in {"none", "start", "invoke"} =>
                worker[r].answers = NoQuestion
    /\ \A q \in Questions : q > asked => decided[q] = {}
    /\ \A q \in Questions : \A r \in decided[q] :
          \/ worker[r].stage \in {"running", "ended"} /\ worker[r].answers = NoQuestion
          \/ worker[r].stage = "none" /\ request[r].stage = "gone"

(* The question that waits has had no answer, and the one a worker is      *)
(* answering none but of those that were cut off.                          *)
AnswerInv ==
    /\ pending # NoQuestion => decided[pending] = {}
    /\ \A r \in Requests :
          worker[r].stage = "running" /\ worker[r].answers # NoQuestion /\ r \notin cut
          => decided[worker[r].answers] \subseteq cut
    /\ \A q \in Questions : \A r, s \in decided[q] : r = s \/ r \in cut \/ s \in cut

(* Until somebody comes in on a running turn it has had none at all.       *)
OnceInv ==
    /\ \A r \in Requests : worker[r].stage = "running" /\ worker[r].answers # NoQuestion
          => decided[worker[r].answers] = {}
    /\ \A q \in Questions : \A r, s \in decided[q] : r = s

IInv ==
    /\ TypeOK
    /\ LaunchInv
    /\ GivenInv
    /\ LockInv
    /\ EventInv
    /\ AnswerInv
    /\ ~overlap => AloneInv /\ FreeInv /\ OnceInv /\ WindowInv

-----------------------------------------------------------------------------
(* The steps                                                               *)

RequestState == [kind : {"chat", "approve"}, stage : RequestStages,
                 saw : Questions \cup {NoQuestion}]
WorkerState == [stage : WorkerStages, window : Seq(Requests),
                answers : Questions \cup {NoQuestion}]

(* A request that moves on keeps its type and leaves the others alone.     *)
LEMMA RequestTo ==
    ASSUME TypeOK, NEW r \in Requests, NEW stage \in RequestStages, To(r, stage)
    PROVE  /\ request' \in [Requests -> RequestState]
           /\ request'[r].stage = stage
           /\ request'[r].kind = request[r].kind
           /\ \A s \in Requests \ {r} : request'[s] = request[s]
<1>1. [request[r] EXCEPT !.stage = stage] \in RequestState
  <2>1. request[r] \in RequestState
    BY DEF TypeOK, RequestState
  <2> QED  BY <2>1 DEF RequestState
<1>2. request' = [request EXCEPT ![r] = [request[r] EXCEPT !.stage = stage]]
  BY DEF To
<1>3. request \in [Requests -> RequestState]
  BY DEF TypeOK, RequestState
<1>4. request' \in [Requests -> RequestState]
  BY <1>1, <1>2, <1>3
<1>5. request'[r] = [request[r] EXCEPT !.stage = stage]
  BY <1>2, <1>3
<1>6. request'[r].stage = stage /\ request'[r].kind = request[r].kind
  BY <1>3, <1>5 DEF RequestState
<1>7. \A s \in Requests \ {r} : request'[s] = request[s]
  BY <1>2, <1>3
<1> QED  BY <1>4, <1>6, <1>7

(* A request the process drops keeps its type.                             *)
LEMMA DroppedRequest ==
    ASSUME TypeOK, NEW r \in Requests
    PROVE  [request[r] EXCEPT !.stage = "gone"] \in RequestState
<1>1. request[r] \in RequestState
  BY DEF TypeOK, RequestState
<1>2. "gone" \in RequestStages
  BY DEF RequestStages
<1> QED  BY <1>1, <1>2 DEF RequestState

(* A crash drops every request and every worker.                           *)
LEMMA CrashTypes ==
    ASSUME TypeOK, Crash
    PROVE  /\ request' \in [Requests -> RequestState]
           /\ worker' \in [Requests -> WorkerState]
<1>1. New \in RequestState
  BY DEF New, RequestState, RequestStages, NoQuestion
<1>2. request' = [r \in Requests |-> IF request[r].stage = "new" THEN New
                                     ELSE [request[r] EXCEPT !.stage = "gone"]]
  BY DEF Crash
<1>3. request' \in [Requests -> RequestState]
  BY <1>1, <1>2, DroppedRequest
<1>4. <<>> \in Seq(Requests)
  OBVIOUS
<1>5. NoWorker \in WorkerState
  BY <1>4 DEF NoWorker, WorkerState, WorkerStages, NoQuestion
<1>6. worker' \in [Requests -> WorkerState]
  BY <1>5 DEF Crash
<1> QED  BY <1>3, <1>6

(* The same of a worker that moves on.                                     *)
LEMMA WorkerTo ==
    ASSUME TypeOK, NEW r \in Requests, NEW stage \in WorkerStages,
           worker' = [worker EXCEPT ![r].stage = stage]
    PROVE  /\ worker' \in [Requests -> WorkerState]
           /\ worker'[r].stage = stage
           /\ worker'[r].window = worker[r].window
           /\ worker'[r].answers = worker[r].answers
           /\ \A s \in Requests \ {r} : worker'[s] = worker[s]
<1>1. [worker[r] EXCEPT !.stage = stage] \in WorkerState
  <2>1. worker[r] \in WorkerState
    BY DEF TypeOK, WorkerState
  <2> QED  BY <2>1 DEF WorkerState
<1>2. worker' = [worker EXCEPT ![r] = [worker[r] EXCEPT !.stage = stage]]
  OBVIOUS
<1>3. worker \in [Requests -> WorkerState]
  BY DEF TypeOK, WorkerState
<1>4. worker' \in [Requests -> WorkerState]
  BY <1>1, <1>2, <1>3
<1>5. worker'[r] = [worker[r] EXCEPT !.stage = stage]
  BY <1>2, <1>3
<1>6. /\ worker'[r].stage = stage
      /\ worker'[r].window = worker[r].window
      /\ worker'[r].answers = worker[r].answers
  BY <1>3, <1>5 DEF WorkerState
<1>7. \A s \in Requests \ {r} : worker'[s] = worker[s]
  BY <1>2, <1>3
<1> QED  BY <1>4, <1>6, <1>7

(* A worker whose answer has been taken keeps its type.                    *)
LEMMA Unanswered ==
    ASSUME TypeOK, NEW r \in Requests
    PROVE  [worker[r] EXCEPT !.answers = NoQuestion] \in WorkerState
<1>1. worker[r] \in WorkerState
  BY DEF TypeOK, WorkerState
<1> QED  BY <1>1 DEF WorkerState

(* Only a worker gives an answer.                                          *)
LEMMA AnswerersStream ==
    ASSUME TypeOK, LaunchInv, GivenInv
    PROVE  \A q \in Questions : \A r \in decided[q] :
              r \in Requests /\ request[r].stage \in {"streaming", "gone"}
<1> TAKE q \in Questions
<1> TAKE r \in decided[q]
<1>1. r \in Requests
  BY DEF TypeOK
<1>2. CASE worker[r].stage = "none"
  BY <1>1, <1>2 DEF GivenInv
<1>3. CASE worker[r].stage # "none"
  BY <1>1, <1>3 DEF LaunchInv, NoWorker
<1> QED  BY <1>1, <1>2, <1>3

(* Every step keeps the types.                                             *)
LEMMA TypeStep == TypeOK /\ [Next]_vars => TypeOK'
<1> SUFFICES ASSUME TypeOK, [Next]_vars
             PROVE  TypeOK'
  OBVIOUS
<1> USE NoRequestAssumption, BoundsAssumption
    DEF TypeOK, Questions, NoQuestion, RequestStages, WorkerStages, New, NoWorker,
        IsAt, process, checkpoint, events, faults
<1>1. ASSUME NEW r \in Requests, ChatArrives(r)
      PROVE  TypeOK'
  BY <1>1 DEF ChatArrives
<1>2. ASSUME NEW r \in Requests, ChatLocks(r)
      PROVE  TypeOK'
  <2>1. \/ holder = NoRequest /\ holder' = r /\ To(r, "locked")
        \/ holder # NoRequest /\ holder' = holder /\ To(r, "gone")
    BY <1>2 DEF ChatLocks, Acquire
  <2>2. /\ \/ holder = NoRequest /\ holder' = r /\ request'[r].stage = "locked"
           \/ holder # NoRequest /\ holder' = holder /\ request'[r].stage = "gone"
        /\ request' \in [Requests -> RequestState]
        /\ request'[r].kind = request[r].kind
        /\ \A s \in Requests \ {r} : request'[s] = request[s]
    BY <2>1, RequestTo
  <2>3. overlap' \in BOOLEAN
    BY <1>2 DEF ChatLocks, Acquire, Overlaps
  <2>4. holder' \in Requests \cup {NoRequest} /\ request' \in [Requests -> RequestState]
    BY <2>2
  <2>5. UNCHANGED <<known, worker, checkpoint, decided, begun, cut, resets, timeouts, hangups,
                    crashes, events>>
    BY <1>2 DEF ChatLocks
  <2> QED  BY <2>3, <2>4, <2>5 DEF RequestState
<1>3. ASSUME NEW r \in Requests, ChatChecks(r)
      PROVE  TypeOK'
  <2>1. \/ pending = NoQuestion /\ holder' = holder /\ To(r, "ready")
        \/ pending # NoQuestion /\ holder' = NoRequest /\ To(r, "gone")
    BY <1>3 DEF ChatChecks, MayBegin
  <2>2. /\ \/ pending = NoQuestion /\ holder' = holder /\ request'[r].stage = "ready"
           \/ pending # NoQuestion /\ holder' = NoRequest /\ request'[r].stage = "gone"
        /\ request' \in [Requests -> RequestState]
        /\ request'[r].kind = request[r].kind
        /\ \A s \in Requests \ {r} : request'[s] = request[s]
    BY <2>1, RequestTo
  <2> QED  BY <1>3, <2>2 DEF RequestState, ChatChecks
<1>4. ASSUME NEW r \in Requests, ApproveArrives(r)
      PROVE  TypeOK'
  BY <1>4 DEF ApproveArrives
<1>5. ASSUME NEW r \in Requests, ApproveChecks(r)
      PROVE  TypeOK'
  <2>1. request' \in [Requests -> RequestState]
    BY <1>5, RequestTo DEF ApproveChecks
  <2> QED  BY <1>5, <2>1 DEF RequestState, ApproveChecks, To
<1>6. ASSUME NEW r \in Requests, ApproveLocks(r)
      PROVE  TypeOK'
  <2>1. \/ holder = NoRequest /\ holder' = r /\ To(r, "ready")
        \/ holder # NoRequest /\ holder' = holder /\ To(r, "gone")
    BY <1>6 DEF ApproveLocks, Acquire
  <2>2. /\ \/ holder = NoRequest /\ holder' = r /\ request'[r].stage = "ready"
           \/ holder # NoRequest /\ holder' = holder /\ request'[r].stage = "gone"
        /\ request' \in [Requests -> RequestState]
        /\ request'[r].kind = request[r].kind
        /\ \A s \in Requests \ {r} : request'[s] = request[s]
    BY <2>1, RequestTo
  <2>3. overlap' \in BOOLEAN
    BY <1>6 DEF ApproveLocks, Acquire, Overlaps
  <2>4. holder' \in Requests \cup {NoRequest} /\ request' \in [Requests -> RequestState]
    BY <2>2
  <2>5. UNCHANGED <<known, worker, checkpoint, decided, begun, cut, resets, timeouts, hangups,
                    crashes, events>>
    BY <1>6 DEF ApproveLocks
  <2> QED  BY <2>3, <2>4, <2>5 DEF RequestState
<1>7. ASSUME NEW r \in Requests, Open(r)
      PROVE  TypeOK'
  <2>1. request' \in [Requests -> RequestState]
    BY <1>7, RequestTo DEF Open
  <2> QED  BY <1>7, <2>1 DEF RequestState, Open, To
<1>8. ASSUME NEW r \in Requests, Launch(r)
      PROVE  TypeOK'
  <2>1. request' \in [Requests -> RequestState]
    BY <1>8, RequestTo DEF Launch
  <2>2. worker' \in [Requests -> WorkerState]
    BY <1>8, WorkerTo DEF Launch
  <2> QED  BY <1>8, <2>1, <2>2 DEF RequestState, WorkerState, Launch
<1>9. ASSUME NEW r \in Requests, Finish(r)
      PROVE  TypeOK'
  <2>1. request' \in [Requests -> RequestState]
    BY <1>9, RequestTo DEF Finish, Close
  <2>2. subs' \subseteq Requests /\ crossed' = crossed /\ holder' = NoRequest
    BY <1>9 DEF Finish, Close, Unsubscribe
  <2>3. UNCHANGED <<known, worker, checkpoint, decided, begun, faults>>
    BY <1>9 DEF Finish
  <2> QED  BY <2>1, <2>2, <2>3 DEF RequestState
<1>10. ASSUME NEW r \in Requests, Timeout(r)
      PROVE  TypeOK'
  <2>1. request' \in [Requests -> RequestState]
    BY <1>10, RequestTo DEF Timeout, Close
  <2>2. timeouts' \in 0..MaxTimeouts
    BY <1>10 DEF Timeout
  <2>3. subs' \subseteq Requests /\ crossed' = crossed
    BY <1>10 DEF Timeout, Unsubscribe
  <2> QED  BY <1>10, <2>1, <2>2, <2>3 DEF RequestState, Timeout, Close
<1>11. ASSUME NEW r \in Requests, HangUp(r)
      PROVE  TypeOK'
  <2>1. request' \in [Requests -> RequestState]
    BY <1>11, RequestTo DEF HangUp, Close
  <2>2. holder' = NoRequest /\ cut' \subseteq Requests /\ hangups' \in 0..MaxHangups
    BY <1>11 DEF HangUp, Close
  <2>3. UNCHANGED <<known, worker, checkpoint, decided, begun, overlap, resets, timeouts,
                    crashes, events>>
    BY <1>11 DEF HangUp
  <2> QED  BY <2>1, <2>2, <2>3 DEF RequestState
<1>12. ASSUME NEW r \in Requests, HangUpEarly(r)
      PROVE  TypeOK'
  <2>1. request' \in [Requests -> RequestState]
    BY <1>12, RequestTo DEF HangUpEarly
  <2>2. hangups' \in 0..MaxHangups
    BY <1>12 DEF HangUpEarly
  <2>3. UNCHANGED <<known, holder, worker, checkpoint, decided, begun, cut, overlap, resets,
                    timeouts, crashes, events>>
    BY <1>12 DEF HangUpEarly
  <2> QED  BY <2>1, <2>2, <2>3 DEF RequestState
<1>13. ASSUME NEW r \in Requests, StepReads(r)
      PROVE  TypeOK'
  BY <1>13 DEF StepReads, Works, Publish
<1>14. ASSUME NEW r \in Requests, StepInvokes(r)
      PROVE  TypeOK'
  <2>1. worker' \in [Requests -> WorkerState]
    BY <1>14, WorkerTo DEF StepInvokes, Works
  <2>2. worker[r].window \in Seq(Requests)
    OBVIOUS
  <2>3. window' \in Seq(Requests) /\ pending' = NoQuestion /\ begun' \in Seq(Requests)
    BY <1>14, <2>2 DEF StepInvokes
  <2>4. UNCHANGED <<known, holder, request, asked, decided, faults, events>>
    BY <1>14 DEF StepInvokes
  <2> QED  BY <2>1, <2>3, <2>4 DEF WorkerState
<1>15. ASSUME NEW r \in Requests, ResumeReads(r)
      PROVE  TypeOK'
  <2>1. PICK stage \in WorkerStages : worker' = [worker EXCEPT ![r].stage = stage]
    BY <1>15 DEF ResumeReads
  <2>2. worker' \in [Requests -> WorkerState]
    BY <2>1, WorkerTo
  <2> QED  BY <1>15, <2>2 DEF WorkerState, ResumeReads
<1>16. ASSUME NEW r \in Requests, ResumeInvokes(r)
      PROVE  TypeOK'
  <2>1. CASE pending = NoQuestion
    <3>1. worker' = [worker EXCEPT ![r].stage = "ended"]
      BY <1>16, <2>1 DEF ResumeInvokes
    <3>2. worker' \in [Requests -> WorkerState]
      BY <3>1, WorkerTo
    <3> QED  BY <1>16, <3>2 DEF WorkerState, ResumeInvokes
  <2>2. CASE pending # NoQuestion
    <3> DEFINE answering == [stage |-> "running", window |-> window, answers |-> pending]
    <3>1. worker' = [worker EXCEPT ![r] = answering]
      BY <1>16, <2>2 DEF ResumeInvokes
    <3>2. answering \in WorkerState
      BY DEF WorkerState
    <3> HIDE DEF answering
    <3>3. worker' \in [Requests -> WorkerState]
      BY <3>1, <3>2 DEF WorkerState
    <3> QED  BY <1>16, <3>3 DEF WorkerState, ResumeInvokes
  <2> QED  BY <2>1, <2>2
<1>17. ASSUME NEW r \in Requests, GateTakes(r)
      PROVE  TypeOK'
  <2>1. worker' = [worker EXCEPT ![r] = [worker[r] EXCEPT !.answers = NoQuestion]]
    BY <1>17 DEF GateTakes
  <2>2. [worker[r] EXCEPT !.answers = NoQuestion] \in WorkerState
    BY Unanswered
  <2>3. worker' \in [Requests -> WorkerState]
    BY <2>1, <2>2 DEF WorkerState
  <2>4. decided' \in [Questions -> SUBSET Requests]
    BY <1>17 DEF GateTakes
  <2>5. window' \in Seq(Requests) /\ pending' = NoQuestion /\ crossed' \in BOOLEAN
    BY <1>17 DEF GateTakes, Resolved, Publish
  <2>6. UNCHANGED <<known, holder, request, asked, begun, faults, subs>>
    BY <1>17 DEF GateTakes, Publish
  <2> QED  BY <2>3, <2>4, <2>5, <2>6 DEF WorkerState
<1>18. ASSUME NEW r \in Requests, NodeEnds(r)
      PROVE  TypeOK'
  BY <1>18 DEF NodeEnds, Commit, Publish
<1>19. ASSUME NEW r \in Requests, TurnEnds(r)
      PROVE  TypeOK'
  <2>1. worker' \in [Requests -> WorkerState]
    BY <1>19, WorkerTo DEF TurnEnds, Commit, Publish, Ends
  <2>2. worker[r].window \in Seq(Requests)
    OBVIOUS
  <2> QED  BY <1>19, <2>1, <2>2 DEF WorkerState, TurnEnds, Commit, Publish, Ends
<1>20. ASSUME NEW r \in Requests, TurnSuspends(r)
      PROVE  TypeOK'
  <2>1. worker' \in [Requests -> WorkerState]
    BY <1>20, WorkerTo DEF TurnSuspends, Ends
  <2>2. asked' \in 0..MaxQuestions /\ pending' \in Questions
    BY <1>20 DEF TurnSuspends, Commit
  <2>3. window' \in Seq(Requests)
    BY <1>20 DEF TurnSuspends, Commit
  <2> QED  BY <1>20, <2>1, <2>2, <2>3 DEF WorkerState, TurnSuspends, Publish
<1>21. ASSUME NEW r \in Requests, TurnFails(r)
      PROVE  TypeOK'
  <2>1. worker' \in [Requests -> WorkerState]
    BY <1>21, WorkerTo DEF TurnFails, Ends
  <2> QED  BY <1>21, <2>1 DEF WorkerState, TurnFails
<1>22. ASSUME Reset
      PROVE  TypeOK'
  <2>1. overlap' \in BOOLEAN
    BY <1>22 DEF Reset, Overlaps
  <2>2. /\ known' = TRUE /\ window' = <<>> /\ begun' = <<>> /\ pending' = NoQuestion
        /\ resets' \in 0..MaxResets
    BY <1>22 DEF Reset
  <2>3. UNCHANGED <<holder, request, worker, asked, decided, cut, timeouts, hangups, crashes,
                    events>>
    BY <1>22 DEF Reset
  <2>4. <<>> \in Seq(Requests)
    OBVIOUS
  <2> QED  BY <2>1, <2>2, <2>3, <2>4
<1>23. ASSUME Look
      PROVE  TypeOK'
  BY <1>23 DEF Look
<1>24. ASSUME Crash
      PROVE  TypeOK'
  <2>1. /\ request' \in [Requests -> RequestState]
        /\ worker' \in [Requests -> WorkerState]
    BY <1>24, CrashTypes
  <2>2. crashes' \in 0..MaxCrashes
    BY <1>24 DEF Crash
  <2>3. /\ known' = FALSE /\ holder' = NoRequest /\ subs' = {}
        /\ UNCHANGED <<checkpoint, decided, begun, cut, overlap, resets, timeouts, hangups,
                       crossed>>
    BY <1>24 DEF Crash, CheckpointSurvives
  <2> QED  BY <2>1, <2>2, <2>3 DEF RequestState, WorkerState
<1>25. ASSUME UNCHANGED vars
      PROVE  TypeOK'
  BY <1>25 DEF vars
<1>26. ASSUME NEW r \in Requests, ReadFails(r)
      PROVE  TypeOK'
  <2>1. \E stage \in {"astray", "gone"} : To(r, stage)
    BY <1>26 DEF ReadFails
  <2>2. request' \in [Requests -> RequestState]
    BY <2>1, RequestTo
  <2> QED  BY <1>26, <2>2 DEF RequestState, ReadFails
<1>27. QED
  BY <1>1, <1>2, <1>3, <1>4, <1>5, <1>6, <1>7, <1>8, <1>9, <1>10, <1>11, <1>12,
     <1>13, <1>14, <1>15, <1>16, <1>17, <1>18, <1>19, <1>20, <1>21, <1>22, <1>23, <1>24,
     <1>25, <1>26
  DEF Next, Serve, Work

(* A request moves on while its worker, if it has one, is left alone.       *)
Ushers(r) ==
    \/ ChatLocks(r) \/ ChatChecks(r) \/ ApproveChecks(r) \/ ApproveLocks(r) \/ ReadFails(r)
    \/ Open(r) \/ Finish(r) \/ Timeout(r) \/ HangUp(r) \/ HangUpEarly(r)

LEMMA Ushered ==
    ASSUME TypeOK, NEW r \in Requests, Ushers(r)
    PROVE  /\ request'[r].stage \notin {"new", "streaming"}
           /\ request[r].stage \notin {"new", "gone"}
           /\ \A s \in Requests : request'[s].kind = request[s].kind
           /\ \A s \in Requests \ {r} : request'[s] = request[s]
           /\ UNCHANGED <<worker, checkpoint, decided, begun>>
           /\ request[r].kind = "chat" /\ request'[r].stage \in {"ready", "open"}
              => pending = NoQuestion \/ request[r].stage = "ready"
           /\ request[r].stage = "streaming" => request'[r].stage = "gone"
<1>1. UNCHANGED <<worker, checkpoint, decided, begun>>
  BY DEF Ushers, ChatLocks, ChatChecks, ApproveChecks, ApproveLocks, ReadFails, Open, Finish,
         Timeout, HangUp, HangUpEarly
<1>2. request[r].stage \notin {"new", "gone"}
  BY DEF Ushers, ChatLocks, ChatChecks, ApproveChecks, ApproveLocks, ReadFails, Open, Finish,
         Timeout, HangUp, HangUpEarly, IsAt
<1>3. \/ \E stage \in {"locked", "gone", "astray"} : To(r, stage)
      \/ To(r, "ready") /\ (request[r].kind = "approve" \/ pending = NoQuestion)
      \/ To(r, "open") /\ request[r].stage = "ready"
  <2>1. CASE ChatLocks(r)
    BY <2>1 DEF ChatLocks, Acquire
  <2>2. CASE ChatChecks(r)
    BY <2>2 DEF ChatChecks, MayBegin
  <2>3. CASE ApproveChecks(r)
    BY <2>3 DEF ApproveChecks
  <2>4. CASE ApproveLocks(r)
    BY <2>4 DEF ApproveLocks, Acquire, IsAt
  <2>5. CASE ReadFails(r)
    BY <2>5 DEF ReadFails
  <2>6. CASE Open(r)
    BY <2>6 DEF Open
  <2>7. CASE Finish(r) \/ Timeout(r) \/ HangUp(r) \/ HangUpEarly(r)
    BY <2>7 DEF Finish, Timeout, HangUp, HangUpEarly, Close
  <2> QED  BY <2>1, <2>2, <2>3, <2>4, <2>5, <2>6, <2>7 DEF Ushers
<1>4. /\ \A s \in Requests \ {r} : request'[s] = request[s]
      /\ request'[r].kind = request[r].kind
      /\ \/ request'[r].stage \in {"locked", "gone", "astray"}
         \/ request'[r].stage = "ready" /\ (request[r].kind = "approve" \/ pending = NoQuestion)
         \/ request'[r].stage = "open" /\ request[r].stage = "ready"
  <2>1. CASE \E stage \in {"locked", "gone", "astray"} : To(r, stage)
    BY <2>1, RequestTo DEF RequestStages
  <2>2. CASE To(r, "ready") /\ (request[r].kind = "approve" \/ pending = NoQuestion)
    BY <2>2, RequestTo DEF RequestStages
  <2>3. CASE To(r, "open") /\ request[r].stage = "ready"
    BY <2>3, RequestTo DEF RequestStages
  <2> QED  BY <1>3, <2>1, <2>2, <2>3
<1>5. \A s \in Requests : request'[s].kind = request[s].kind
  BY <1>4
<1>6. request[r].stage = "streaming" => request'[r].stage = "gone"
  <2>1. ASSUME request[r].stage = "streaming"
        PROVE  To(r, "gone")
    BY <2>1 DEF Ushers, ChatLocks, ChatChecks, ApproveChecks, ApproveLocks, ReadFails, Open,
                Finish, Timeout, HangUp, HangUpEarly, IsAt, Close
  <2> QED  BY <2>1, RequestTo DEF RequestStages
<1> QED  BY <1>1, <1>2, <1>4, <1>5, <1>6

(* A worker is launched once, by its stream.                               *)
LEMMA LaunchStep == TypeOK /\ LaunchInv /\ [Next]_vars => LaunchInv'
<1> SUFFICES ASSUME TypeOK, LaunchInv, [Next]_vars
             PROVE  LaunchInv'
  OBVIOUS
<1> USE NoRequestAssumption, BoundsAssumption
    DEF TypeOK, LaunchInv, Questions, NoQuestion, RequestStages, WorkerStages,
        New, NoWorker, IsAt, process, checkpoint, events, faults
<1>1. ASSUME UNCHANGED <<request, worker>>
      PROVE  LaunchInv'
  BY <1>1 DEF LaunchInv
<1>2. ASSUME NEW r \in Requests, ChatArrives(r)
      PROVE  LaunchInv'
  BY <1>2 DEF ChatArrives
<1>3. ASSUME NEW r \in Requests, Ushers(r)
      PROVE  LaunchInv'
  <2>1. /\ request'[r].stage \notin {"new", "streaming"}
        /\ request[r].stage \notin {"new", "gone"}
        /\ \A s \in Requests : request'[s].kind = request[s].kind
        /\ \A s \in Requests \ {r} : request'[s] = request[s]
        /\ request[r].stage = "streaming" => request'[r].stage = "gone"
        /\ UNCHANGED <<worker, checkpoint, decided, begun>>
    BY <1>3, Ushered
  <2> HIDE DEF TypeOK, NoWorker
  <2> QED  BY <2>1
<1>4. ASSUME NEW r \in Requests, ApproveArrives(r)
      PROVE  LaunchInv'
  BY <1>4 DEF ApproveArrives
<1>5. ASSUME NEW r \in Requests, Launch(r)
      PROVE  LaunchInv'
  BY <1>5 DEF Launch, To
<1>6. ASSUME NEW r \in Requests, StepReads(r)
      PROVE  LaunchInv'
  <2>1. /\ worker[r].stage = "start" /\ worker'[r].stage = "invoke"
        /\ \A s \in Requests \ {r} : worker'[s] = worker[s]
        /\ request' = request
    BY <1>6 DEF StepReads, Works
  <2>2. request[r].stage \in {"streaming", "gone"}
    BY <2>1
  <2> HIDE DEF TypeOK, NoWorker
  <2> QED  BY <2>1, <2>2
<1>7. ASSUME NEW r \in Requests, StepInvokes(r)
      PROVE  LaunchInv'
  BY <1>7 DEF StepInvokes, Works
<1>8. ASSUME NEW r \in Requests, ResumeReads(r)
      PROVE  LaunchInv'
  BY <1>8 DEF ResumeReads, Works
<1>9. ASSUME NEW r \in Requests, ResumeInvokes(r)
      PROVE  LaunchInv'
  BY <1>9 DEF ResumeInvokes, Works
<1>10. ASSUME NEW r \in Requests, GateTakes(r)
      PROVE  LaunchInv'
  BY <1>10 DEF GateTakes, Resolved, Publish
<1>11. ASSUME NEW r \in Requests, TurnEnds(r)
      PROVE  LaunchInv'
  <2>1. /\ worker[r].stage = "running" /\ worker'[r].stage = "ended"
        /\ \A s \in Requests \ {r} : worker'[s] = worker[s]
        /\ request' = request
    BY <1>11 DEF TurnEnds, Commit, Ends
  <2>2. request[r].stage \in {"streaming", "gone"}
    BY <2>1
  <2> HIDE DEF TypeOK, NoWorker
  <2> QED  BY <2>1, <2>2
<1>12. ASSUME NEW r \in Requests, TurnSuspends(r)
      PROVE  LaunchInv'
  <2>1. /\ worker[r].stage = "running" /\ worker'[r].stage = "ended"
        /\ \A s \in Requests \ {r} : worker'[s] = worker[s]
        /\ request' = request
    BY <1>12 DEF TurnSuspends, Commit, Ends
  <2>2. request[r].stage \in {"streaming", "gone"}
    BY <2>1
  <2> HIDE DEF TypeOK, NoWorker
  <2> QED  BY <2>1, <2>2
<1>13. ASSUME NEW r \in Requests, TurnFails(r)
      PROVE  LaunchInv'
  BY <1>13 DEF TurnFails, Ends
<1>14. ASSUME Crash
      PROVE  LaunchInv'
  BY <1>14 DEF Crash, CheckpointSurvives
<1>15. QED
  BY <1>1, <1>2, <1>3, <1>4, <1>5, <1>6, <1>7, <1>8, <1>9, <1>10, <1>11, <1>12, <1>13,
     <1>14
  DEF Next, Serve, Work, vars, NodeEnds, Reset, Look, Ushers

(* A worker has one answer to give, to a question that was asked.          *)
LEMMA GivenStep == TypeOK /\ LaunchInv /\ GivenInv /\ [Next]_vars => GivenInv'
<1> SUFFICES ASSUME TypeOK, LaunchInv, GivenInv, [Next]_vars
             PROVE  GivenInv'
  OBVIOUS
<1> USE NoRequestAssumption, BoundsAssumption
    DEF TypeOK, LaunchInv, GivenInv, Questions, NoQuestion, RequestStages,
        WorkerStages, New, NoWorker, IsAt, process, checkpoint, events, faults
<1>1. ASSUME NEW r \in Requests, ChatArrives(r)
      PROVE  GivenInv'
  BY <1>1 DEF ChatArrives
<1>2. ASSUME NEW r \in Requests, Ushers(r)
      PROVE  GivenInv'
  <2>1. /\ request'[r].stage \notin {"new", "streaming"}
        /\ request[r].stage \notin {"new", "gone"}
        /\ \A s \in Requests : request'[s].kind = request[s].kind
        /\ \A s \in Requests \ {r} : request'[s] = request[s]
        /\ UNCHANGED <<worker, checkpoint, decided, begun>>
    BY <1>2, Ushered
  <2>2. \A q \in Questions : \A s \in decided[q] :
            s \in Requests /\ request[s].stage \in {"streaming", "gone"}
    BY AnswerersStream
  <2>3. worker[r].stage = "none" => \A q \in Questions : r \notin decided[q]
    BY <2>1 DEF GivenInv
  <2>4. asked \in Nat
    OBVIOUS
  <2> HIDE DEF TypeOK, LaunchInv, NoWorker
  <2> QED  BY <2>1, <2>2, <2>3, <2>4
<1>3. ASSUME NEW r \in Requests, ApproveArrives(r)
      PROVE  GivenInv'
  BY <1>3 DEF ApproveArrives
<1>4. ASSUME NEW r \in Requests, Launch(r)
      PROVE  GivenInv'
  <2>1. worker[r] = NoWorker
    BY <1>4 DEF Launch
  <2>2. /\ worker'[r].stage = "start" /\ worker'[r].answers = worker[r].answers
        /\ \A s \in Requests \ {r} : worker'[s] = worker[s]
    BY <1>4, WorkerTo DEF Launch
  <2>3. worker'[r].answers = NoQuestion
    BY <2>1, <2>2
  <2>4. \A s \in Requests \ {r} : request'[s] = request[s]
    BY <1>4, RequestTo DEF Launch
  <2>5. \A q \in Questions : decided[q] \subseteq Requests \ {r}
    BY <1>4, AnswerersStream DEF Launch
  <2>6. UNCHANGED <<pending, asked, decided>> /\ asked \in Nat
    BY <1>4 DEF Launch
  <2> HIDE DEF TypeOK, LaunchInv, NoWorker
  <2> QED  BY <2>2, <2>3, <2>4, <2>5, <2>6
<1>5. ASSUME NEW r \in Requests, StepReads(r)
      PROVE  GivenInv'
  BY <1>5 DEF StepReads, Works, Publish
<1>6. ASSUME NEW r \in Requests, StepInvokes(r)
      PROVE  GivenInv'
  <2>1. /\ worker'[r].stage = "running"
        /\ worker'[r].answers = worker[r].answers
        /\ \A s \in Requests \ {r} : worker'[s] = worker[s]
    BY <1>6, WorkerTo DEF StepInvokes, Works
  <2>2. asked' = asked /\ pending' = NoQuestion /\ decided' = decided
    BY <1>6 DEF StepInvokes, Works
  <2>3. /\ asked \in Nat /\ pending \in Nat /\ worker[r].answers \in Nat
        /\ \A s \in Requests : worker[s].answers \in Nat
        /\ \A q \in Questions : decided[q] \subseteq Requests
    OBVIOUS
  <2>4. \A q \in Questions : r \in decided[q] => FALSE
    BY <1>6, AnswerersStream DEF StepInvokes, Works
  <2>5. worker[r].stage # "running" => worker[r].answers = NoQuestion
    BY <1>6 DEF StepInvokes, Works
  <2>6. request' = request
    BY <1>6 DEF StepInvokes
  <2>7. pending' <= asked
    BY <2>2, <2>3
  <2> HIDE DEF TypeOK, LaunchInv, Questions, NoQuestion, RequestStages, WorkerStages
  <2> QED  BY <2>1, <2>2, <2>3, <2>4, <2>5, <2>6, <2>7
<1>7. ASSUME NEW r \in Requests, ResumeReads(r)
      PROVE  GivenInv'
  <2>1. /\ worker[r].stage = "start"
        /\ worker'[r].stage \in {"ended", "invoke"}
        /\ worker'[r].answers = worker[r].answers
        /\ \A s \in Requests \ {r} : worker'[s] = worker[s]
    BY <1>7 DEF ResumeReads, Works
  <2>2. UNCHANGED <<request, pending, asked, decided>>
    BY <1>7 DEF ResumeReads, Works
  <2>3. \A q \in Questions : decided[q] \subseteq Requests
    OBVIOUS
  <2> HIDE DEF TypeOK, LaunchInv, Questions, NoQuestion, RequestStages, WorkerStages
  <2> QED  BY <2>1, <2>2, <2>3
<1>8. ASSUME NEW r \in Requests, ResumeInvokes(r)
      PROVE  GivenInv'
  <2>1. /\ worker[r].stage = "invoke"
        /\ \/ worker'[r].stage = "ended" /\ worker'[r].answers = worker[r].answers
           \/ worker'[r].stage = "running" /\ worker'[r].answers = pending
        /\ \A s \in Requests \ {r} : worker'[s] = worker[s]
    BY <1>8 DEF ResumeInvokes, Works
  <2>2. UNCHANGED <<request, pending, asked, decided>>
    BY <1>8 DEF ResumeInvokes, Works
  <2>3. \A q \in Questions : decided[q] \subseteq Requests /\ r \notin decided[q]
    BY <2>1
  <2> HIDE DEF TypeOK, LaunchInv, Questions, NoQuestion, RequestStages, WorkerStages
  <2> QED  BY <2>1, <2>2, <2>3
<1>9. ASSUME NEW r \in Requests, GateTakes(r)
      PROVE  GivenInv'
  <2>1. /\ worker[r].stage = "running" /\ worker'[r].stage = "running"
        /\ worker'[r].answers = NoQuestion
        /\ \A s \in Requests \ {r} : worker'[s] = worker[s]
    BY <1>9 DEF GateTakes
  <2>2. /\ worker[r].answers \in Questions
        /\ decided' = [decided EXCEPT ![worker[r].answers] = @ \cup {r}]
    BY <1>9 DEF GateTakes
  <2>3. pending' = NoQuestion /\ asked' = asked /\ request' = request
    BY <1>9 DEF GateTakes, Resolved
  <2>4. /\ asked \in Nat /\ NoQuestion <= asked
        /\ \A s \in Requests : worker[s].answers \in Nat
        /\ decided \in [Questions -> SUBSET Requests]
    OBVIOUS
  <2>5. \A q \in Questions : q > asked => decided'[q] = {}
    BY <2>2, <2>4
  <2>6. \A q \in Questions : \A s \in decided'[q] : s = r \/ s \in decided[q]
    BY <2>2, <2>4
  <2> HIDE DEF TypeOK, LaunchInv, Questions, NoQuestion, RequestStages, WorkerStages
  <2> QED  BY <2>1, <2>3, <2>4, <2>5, <2>6
<1>10. ASSUME NEW r \in Requests, NodeEnds(r)
      PROVE  GivenInv'
  BY <1>10 DEF NodeEnds, Commit, Publish
<1>11. ASSUME NEW r \in Requests, TurnEnds(r)
      PROVE  GivenInv'
  BY <1>11 DEF TurnEnds, Commit, Publish, Ends
<1>12. ASSUME NEW r \in Requests, TurnSuspends(r)
      PROVE  GivenInv'
  <2>1. /\ worker'[r].stage = "ended"
        /\ worker'[r].answers = worker[r].answers
        /\ \A s \in Requests \ {r} : worker'[s] = worker[s]
    BY <1>12, WorkerTo DEF TurnSuspends, Commit, Publish, Ends
  <2>2. asked' = asked + 1 /\ pending' = asked' /\ decided' = decided
    BY <1>12 DEF TurnSuspends, Commit, Publish, Ends
  <2>3. /\ asked \in Nat /\ pending \in Nat /\ worker[r].answers \in Nat
        /\ \A s \in Requests : worker[s].answers \in Nat
        /\ \A q \in Questions : decided[q] \subseteq Requests
    OBVIOUS
  <2>4. \A q \in Questions : r \in decided[q] => worker[r].answers = NoQuestion
    BY <1>12, AnswerersStream DEF TurnSuspends, Commit, Publish, Ends
  <2>5. \A s \in Requests \ {r} : request'[s] = request[s]
    BY <1>12 DEF TurnSuspends, Commit, Publish, Ends
  <2>6. worker[r].stage # "running" => worker[r].answers = NoQuestion
    BY <1>12 DEF TurnSuspends, Commit, Publish, Ends
  <2> HIDE DEF TypeOK, LaunchInv
  <2> QED  BY <2>1, <2>2, <2>3, <2>4, <2>5, <2>6
<1>13. ASSUME NEW r \in Requests, TurnFails(r)
      PROVE  GivenInv'
  BY <1>13 DEF TurnFails, Ends
<1>14. ASSUME Reset
      PROVE  GivenInv'
  BY <1>14 DEF Reset
<1>15. ASSUME Look
      PROVE  GivenInv'
  BY <1>15 DEF Look
<1>16. ASSUME Crash
      PROVE  GivenInv'
  <2>1. \A s \in Requests : worker'[s] = NoWorker
    BY <1>16 DEF Crash
  <2>2. UNCHANGED <<pending, asked, decided>>
    BY <1>16 DEF Crash, CheckpointSurvives
  <2>3. asked \in Nat /\ decided \in [Questions -> SUBSET Requests]
    BY DEF TypeOK
  <2>4. \A s \in Requests : request[s].stage # "new" => request'[s].stage = "gone"
    BY <1>16 DEF Crash
  <2>5. \A q \in Questions : \A s \in decided[q] : request[s].stage # "new"
    BY AnswerersStream
  <2> HIDE DEF TypeOK, LaunchInv
  <2> QED  BY <2>1, <2>2, <2>3, <2>4, <2>5
<1>17. ASSUME UNCHANGED vars
      PROVE  GivenInv'
  BY <1>17 DEF vars
<1>18. QED
  BY <1>1, <1>2, <1>3, <1>4, <1>5, <1>6, <1>7, <1>8, <1>9, <1>10, <1>11, <1>12, <1>13,
     <1>14, <1>15, <1>16, <1>17
  DEF Next, Serve, Work, Ushers

(* The lock stays with the request that took it (Close, Acquire).          *)
LEMMA LockStep ==
    TypeOK /\ LaunchInv /\ LockInv /\ [Next]_vars => LockInv'
<1> SUFFICES ASSUME TypeOK, LaunchInv, LockInv, [Next]_vars
             PROVE  LockInv'
  OBVIOUS
<1> USE NoRequestAssumption, BoundsAssumption
    DEF TypeOK, LaunchInv, LockInv, Locked, Active, Works, Questions,
        NoQuestion, RequestStages, WorkerStages, New, NoWorker, IsAt, process,
        checkpoint, events, faults
<1>1. ASSUME UNCHANGED <<holder, request, worker, cut>>
      PROVE  LockInv'
  BY <1>1 DEF LockInv
<1>2. ASSUME NEW r \in Requests, ChatArrives(r)
      PROVE  LockInv'
  BY <1>2 DEF ChatArrives
<1>3. ASSUME NEW r \in Requests, ChatLocks(r)
      PROVE  LockInv'
  <2>1. \/ holder = NoRequest /\ holder' = r /\ To(r, "locked")
        \/ holder # NoRequest /\ holder' = holder /\ To(r, "gone")
    BY <1>3 DEF ChatLocks, Acquire
  <2>2. /\ \/ holder = NoRequest /\ holder' = r /\ request'[r].stage = "locked"
           \/ holder # NoRequest /\ holder' = holder /\ request'[r].stage = "gone"
        /\ request' \in [Requests -> RequestState]
        /\ request'[r].kind = request[r].kind
        /\ \A s \in Requests \ {r} : request'[s] = request[s]
    BY <2>1, RequestTo
  <2> QED  BY <1>3, <2>2 DEF ChatLocks
<1>4. ASSUME NEW r \in Requests, ChatChecks(r)
      PROVE  LockInv'
  <2>1. \/ pending = NoQuestion /\ holder' = holder /\ To(r, "ready")
        \/ pending # NoQuestion /\ holder' = NoRequest /\ To(r, "gone")
    BY <1>4 DEF ChatChecks, MayBegin
  <2>2. /\ \/ pending = NoQuestion /\ holder' = holder /\ request'[r].stage = "ready"
           \/ pending # NoQuestion /\ holder' = NoRequest /\ request'[r].stage = "gone"
        /\ request' \in [Requests -> RequestState]
        /\ request'[r].kind = request[r].kind
        /\ \A s \in Requests \ {r} : request'[s] = request[s]
    BY <2>1, RequestTo
  <2> QED  BY <1>4, <2>2 DEF ChatChecks
<1>5. ASSUME NEW r \in Requests, ApproveArrives(r)
      PROVE  LockInv'
  BY <1>5 DEF ApproveArrives
<1>6. ASSUME NEW r \in Requests, ApproveChecks(r)
      PROVE  LockInv'
  BY <1>6 DEF ApproveChecks, To
<1>7. ASSUME NEW r \in Requests, ApproveLocks(r)
      PROVE  LockInv'
  <2>1. \/ holder = NoRequest /\ holder' = r /\ To(r, "ready")
        \/ holder # NoRequest /\ holder' = holder /\ To(r, "gone")
    BY <1>7 DEF ApproveLocks, Acquire
  <2>2. /\ \/ holder = NoRequest /\ holder' = r /\ request'[r].stage = "ready"
           \/ holder # NoRequest /\ holder' = holder /\ request'[r].stage = "gone"
        /\ request' \in [Requests -> RequestState]
        /\ request'[r].kind = request[r].kind
        /\ \A s \in Requests \ {r} : request'[s] = request[s]
    BY <2>1, RequestTo
  <2> QED  BY <1>7, <2>2 DEF ApproveLocks
<1>8. ASSUME NEW r \in Requests, Open(r)
      PROVE  LockInv'
  BY <1>8 DEF Open, To
<1>9. ASSUME NEW r \in Requests, Launch(r)
      PROVE  LockInv'
  BY <1>9 DEF Launch, To
<1>10. ASSUME NEW r \in Requests, Finish(r)
      PROVE  LockInv'
  BY <1>10 DEF Finish, Close, To, Unsubscribe
<1>11. ASSUME NEW r \in Requests, Timeout(r)
      PROVE  LockInv'
  BY <1>11 DEF Timeout, Close, To, Unsubscribe
<1>12. ASSUME NEW r \in Requests, HangUp(r)
      PROVE  LockInv'
  BY <1>12 DEF HangUp, Close, To
<1>13. ASSUME NEW r \in Requests, HangUpEarly(r)
      PROVE  LockInv'
  BY <1>13 DEF HangUpEarly, To
<1>14. ASSUME NEW r \in Requests, StepReads(r)
      PROVE  LockInv'
  BY <1>14 DEF StepReads, Works, Publish
<1>15. ASSUME NEW r \in Requests, StepInvokes(r)
      PROVE  LockInv'
  BY <1>15 DEF StepInvokes, Works
<1>16. ASSUME NEW r \in Requests, ResumeReads(r)
      PROVE  LockInv'
  BY <1>16 DEF ResumeReads, Works
<1>17. ASSUME NEW r \in Requests, ResumeInvokes(r)
      PROVE  LockInv'
  BY <1>17 DEF ResumeInvokes, Works
<1>18. ASSUME NEW r \in Requests, GateTakes(r)
      PROVE  LockInv'
  BY <1>18 DEF GateTakes, Resolved, Publish
<1>19. ASSUME NEW r \in Requests, TurnEnds(r)
      PROVE  LockInv'
  BY <1>19 DEF TurnEnds, Commit, Publish, Ends
<1>20. ASSUME NEW r \in Requests, TurnSuspends(r)
      PROVE  LockInv'
  BY <1>20 DEF TurnSuspends, Commit, Publish, Ends
<1>21. ASSUME NEW r \in Requests, TurnFails(r)
      PROVE  LockInv'
  BY <1>21 DEF TurnFails, Ends
<1>22. ASSUME Crash
      PROVE  LockInv'
  BY <1>22 DEF Crash, CheckpointSurvives
<1>23. ASSUME NEW r \in Requests, ReadFails(r)
      PROVE  LockInv'
  <2>1. request[r].stage \in {"locked", "arrived"} /\ worker' = worker
    BY <1>23 DEF ReadFails
  <2>2. \E stage \in {"astray", "gone"} : To(r, stage)
    BY <1>23 DEF ReadFails
  <2>3. /\ request'[r].stage \in {"astray", "gone"}
        /\ \A s \in Requests \ {r} : request'[s] = request[s]
    BY <2>2, RequestTo
  <2>4. UNCHANGED <<holder, cut>>
    BY <1>23 DEF ReadFails
  <2> HIDE DEF TypeOK, NoWorker
  <2> QED  BY <2>1, <2>3, <2>4
<1>24. QED
  BY <1>1, <1>2, <1>3, <1>4, <1>5, <1>6, <1>7, <1>8, <1>9, <1>10, <1>11, <1>12,
     <1>13, <1>14, <1>15, <1>16, <1>17, <1>18, <1>19, <1>20, <1>21, <1>22, <1>23
  DEF Next, Serve, Work, vars, NodeEnds, Reset, Look

(* Nobody joins a turn that runs, but by coming in on it.                  *)
LEMMA AloneStep ==
    TypeOK /\ LaunchInv /\ LockInv /\ AloneInv /\ [Next]_vars /\ ~overlap' => AloneInv'
<1> SUFFICES ASSUME TypeOK, LaunchInv, LockInv, AloneInv, [Next]_vars, ~overlap'
             PROVE  AloneInv'
  OBVIOUS
<1> USE NoRequestAssumption, BoundsAssumption
    DEF TypeOK, LaunchInv, LockInv, AloneInv, Locked, Active, Works, Questions,
        NoQuestion, RequestStages, WorkerStages, New, NoWorker, IsAt, process,
        checkpoint, events, faults
<1>1. ASSUME UNCHANGED <<holder, request, worker>>
      PROVE  AloneInv'
  BY <1>1 DEF AloneInv
<1>2. ASSUME NEW r \in Requests, ChatArrives(r)
      PROVE  AloneInv'
  BY <1>2 DEF ChatArrives
<1>3. ASSUME NEW r \in Requests, ChatLocks(r)
      PROVE  AloneInv'
  <2>1. \/ holder = NoRequest /\ holder' = r /\ To(r, "locked")
        \/ holder # NoRequest /\ holder' = holder /\ To(r, "gone")
    BY <1>3 DEF ChatLocks, Acquire
  <2>2. /\ \/ holder = NoRequest /\ holder' = r /\ request'[r].stage = "locked"
           \/ holder # NoRequest /\ holder' = holder /\ request'[r].stage = "gone"
        /\ request' \in [Requests -> RequestState]
        /\ request'[r].kind = request[r].kind
        /\ \A s \in Requests \ {r} : request'[s] = request[s]
    BY <2>1, RequestTo
  <2>3. holder = NoRequest => \A s \in Requests : ~Active(s)
    BY <1>3 DEF ChatLocks, Acquire, Overlaps, Running
  <2>4. worker' = worker
    BY <1>3 DEF ChatLocks
  <2> HIDE DEF TypeOK, LaunchInv, LockInv
  <2>5. CASE holder = NoRequest
    BY <2>3, <2>4, <2>5
  <2>6. CASE holder # NoRequest
    <3>1. request'[r].stage = "gone"
      BY <2>2, <2>6
    <3> QED  BY <2>2, <2>4, <3>1
  <2> QED  BY <2>5, <2>6
<1>4. ASSUME NEW r \in Requests, ChatChecks(r)
      PROVE  AloneInv'
  <2>1. \/ pending = NoQuestion /\ holder' = holder /\ To(r, "ready")
        \/ pending # NoQuestion /\ holder' = NoRequest /\ To(r, "gone")
    BY <1>4 DEF ChatChecks, MayBegin
  <2>2. /\ \/ pending = NoQuestion /\ holder' = holder /\ request'[r].stage = "ready"
           \/ pending # NoQuestion /\ holder' = NoRequest /\ request'[r].stage = "gone"
        /\ request' \in [Requests -> RequestState]
        /\ request'[r].kind = request[r].kind
        /\ \A s \in Requests \ {r} : request'[s] = request[s]
    BY <2>1, RequestTo
  <2> QED  BY <1>4, <2>2 DEF ChatChecks
<1>5. ASSUME NEW r \in Requests, ApproveArrives(r)
      PROVE  AloneInv'
  BY <1>5 DEF ApproveArrives
<1>6. ASSUME NEW r \in Requests, ApproveChecks(r)
      PROVE  AloneInv'
  BY <1>6 DEF ApproveChecks, To
<1>7. ASSUME NEW r \in Requests, ApproveLocks(r)
      PROVE  AloneInv'
  <2>1. \/ holder = NoRequest /\ holder' = r /\ To(r, "ready")
        \/ holder # NoRequest /\ holder' = holder /\ To(r, "gone")
    BY <1>7 DEF ApproveLocks, Acquire
  <2>2. /\ \/ holder = NoRequest /\ holder' = r /\ request'[r].stage = "ready"
           \/ holder # NoRequest /\ holder' = holder /\ request'[r].stage = "gone"
        /\ request' \in [Requests -> RequestState]
        /\ request'[r].kind = request[r].kind
        /\ \A s \in Requests \ {r} : request'[s] = request[s]
    BY <2>1, RequestTo
  <2>3. holder = NoRequest => \A s \in Requests : ~Active(s)
    BY <1>7 DEF ApproveLocks, Acquire, Overlaps, Running
  <2>4. worker' = worker
    BY <1>7 DEF ApproveLocks
  <2> HIDE DEF TypeOK, LaunchInv, LockInv
  <2>5. CASE holder = NoRequest
    BY <2>3, <2>4, <2>5
  <2>6. CASE holder # NoRequest
    <3>1. request'[r].stage = "gone"
      BY <2>2, <2>6
    <3> QED  BY <2>2, <2>4, <3>1
  <2> QED  BY <2>5, <2>6
<1>8. ASSUME NEW r \in Requests, Open(r)
      PROVE  AloneInv'
  BY <1>8 DEF Open, To
<1>9. ASSUME NEW r \in Requests, Launch(r)
      PROVE  AloneInv'
  BY <1>9 DEF Launch, To
<1>10. ASSUME NEW r \in Requests, Finish(r)
      PROVE  AloneInv'
  BY <1>10 DEF Finish, Close, To, Unsubscribe
<1>11. ASSUME NEW r \in Requests, Timeout(r)
      PROVE  AloneInv'
  BY <1>11 DEF Timeout, Close, To, Unsubscribe
<1>12. ASSUME NEW r \in Requests, HangUp(r)
      PROVE  AloneInv'
  BY <1>12 DEF HangUp, Close, To
<1>13. ASSUME NEW r \in Requests, HangUpEarly(r)
      PROVE  AloneInv'
  BY <1>13 DEF HangUpEarly, To
<1>14. ASSUME NEW r \in Requests, StepReads(r)
      PROVE  AloneInv'
  BY <1>14 DEF StepReads, Works, Publish
<1>15. ASSUME NEW r \in Requests, StepInvokes(r)
      PROVE  AloneInv'
  BY <1>15 DEF StepInvokes, Works
<1>16. ASSUME NEW r \in Requests, ResumeReads(r)
      PROVE  AloneInv'
  BY <1>16 DEF ResumeReads, Works
<1>17. ASSUME NEW r \in Requests, ResumeInvokes(r)
      PROVE  AloneInv'
  BY <1>17 DEF ResumeInvokes, Works
<1>18. ASSUME NEW r \in Requests, GateTakes(r)
      PROVE  AloneInv'
  BY <1>18 DEF GateTakes, Resolved, Publish
<1>19. ASSUME NEW r \in Requests, TurnEnds(r)
      PROVE  AloneInv'
  BY <1>19 DEF TurnEnds, Commit, Publish, Ends
<1>20. ASSUME NEW r \in Requests, TurnSuspends(r)
      PROVE  AloneInv'
  BY <1>20 DEF TurnSuspends, Commit, Publish, Ends
<1>21. ASSUME NEW r \in Requests, TurnFails(r)
      PROVE  AloneInv'
  BY <1>21 DEF TurnFails, Ends
<1>22. ASSUME Crash
      PROVE  AloneInv'
  BY <1>22 DEF Crash, CheckpointSurvives
<1>23. ASSUME NEW r \in Requests, ReadFails(r)
      PROVE  AloneInv'
  <2>1. request[r].stage \in {"locked", "arrived"} /\ worker' = worker
    BY <1>23 DEF ReadFails
  <2>2. \E stage \in {"astray", "gone"} : To(r, stage)
    BY <1>23 DEF ReadFails
  <2>3. /\ request'[r].stage \in {"astray", "gone"}
        /\ \A s \in Requests \ {r} : request'[s] = request[s]
    BY <2>2, RequestTo
  <2>4. UNCHANGED <<holder, cut>>
    BY <1>23 DEF ReadFails
  <2> HIDE DEF TypeOK, NoWorker
  <2> QED  BY <2>1, <2>3, <2>4
<1>24. QED
  BY <1>1, <1>2, <1>3, <1>4, <1>5, <1>6, <1>7, <1>8, <1>9, <1>10, <1>11, <1>12,
     <1>13, <1>14, <1>15, <1>16, <1>17, <1>18, <1>19, <1>20, <1>21, <1>22, <1>23
  DEF Next, Serve, Work, vars, NodeEnds, Reset, Look

(* Only the stream of the turn under way is subscribed.                    *)
LEMMA EventStep ==
    TypeOK /\ LaunchInv /\ LockInv /\ EventInv /\ [Next]_vars => EventInv'
<1> SUFFICES ASSUME TypeOK, LaunchInv, LockInv, EventInv, [Next]_vars
             PROVE  EventInv'
  OBVIOUS
<1> USE NoRequestAssumption, BoundsAssumption
    DEF TypeOK, LaunchInv, LockInv, EventInv, Locked, Active, Works,
        Questions, NoQuestion, RequestStages, WorkerStages, New, NoWorker, IsAt,
        process, checkpoint, events, faults
<1>1. ASSUME UNCHANGED <<request, subs, crossed, cut>>
      PROVE  EventInv'
  BY <1>1 DEF EventInv
<1>2. ASSUME NEW r \in Requests, ChatArrives(r)
      PROVE  EventInv'
  BY <1>2 DEF ChatArrives
<1>3. ASSUME NEW r \in Requests, ChatLocks(r)
      PROVE  EventInv'
  <2>1. \/ holder = NoRequest /\ holder' = r /\ To(r, "locked")
        \/ holder # NoRequest /\ holder' = holder /\ To(r, "gone")
    BY <1>3 DEF ChatLocks, Acquire
  <2>2. /\ \/ holder = NoRequest /\ holder' = r /\ request'[r].stage = "locked"
           \/ holder # NoRequest /\ holder' = holder /\ request'[r].stage = "gone"
        /\ request' \in [Requests -> RequestState]
        /\ request'[r].kind = request[r].kind
        /\ \A s \in Requests \ {r} : request'[s] = request[s]
    BY <2>1, RequestTo
  <2> QED  BY <1>3, <2>2 DEF ChatLocks
<1>4. ASSUME NEW r \in Requests, ChatChecks(r)
      PROVE  EventInv'
  <2>1. \/ pending = NoQuestion /\ holder' = holder /\ To(r, "ready")
        \/ pending # NoQuestion /\ holder' = NoRequest /\ To(r, "gone")
    BY <1>4 DEF ChatChecks, MayBegin
  <2>2. /\ \/ pending = NoQuestion /\ holder' = holder /\ request'[r].stage = "ready"
           \/ pending # NoQuestion /\ holder' = NoRequest /\ request'[r].stage = "gone"
        /\ request' \in [Requests -> RequestState]
        /\ request'[r].kind = request[r].kind
        /\ \A s \in Requests \ {r} : request'[s] = request[s]
    BY <2>1, RequestTo
  <2> QED  BY <1>4, <2>2 DEF ChatChecks
<1>5. ASSUME NEW r \in Requests, ApproveArrives(r)
      PROVE  EventInv'
  BY <1>5 DEF ApproveArrives
<1>6. ASSUME NEW r \in Requests, ApproveChecks(r)
      PROVE  EventInv'
  BY <1>6 DEF ApproveChecks, To
<1>7. ASSUME NEW r \in Requests, ApproveLocks(r)
      PROVE  EventInv'
  <2>1. \/ holder = NoRequest /\ holder' = r /\ To(r, "ready")
        \/ holder # NoRequest /\ holder' = holder /\ To(r, "gone")
    BY <1>7 DEF ApproveLocks, Acquire
  <2>2. /\ \/ holder = NoRequest /\ holder' = r /\ request'[r].stage = "ready"
           \/ holder # NoRequest /\ holder' = holder /\ request'[r].stage = "gone"
        /\ request' \in [Requests -> RequestState]
        /\ request'[r].kind = request[r].kind
        /\ \A s \in Requests \ {r} : request'[s] = request[s]
    BY <2>1, RequestTo
  <2> QED  BY <1>7, <2>2 DEF ApproveLocks
<1>8. ASSUME NEW r \in Requests, Open(r)
      PROVE  EventInv'
  BY <1>8 DEF Open, To
<1>9. ASSUME NEW r \in Requests, Launch(r)
      PROVE  EventInv'
  BY <1>9 DEF Launch, To
<1>10. ASSUME NEW r \in Requests, Finish(r)
      PROVE  EventInv'
  BY <1>10 DEF Finish, Close, To, Unsubscribe
<1>11. ASSUME NEW r \in Requests, Timeout(r)
      PROVE  EventInv'
  BY <1>11 DEF Timeout, Close, To, Unsubscribe
<1>12. ASSUME NEW r \in Requests, HangUp(r)
      PROVE  EventInv'
  BY <1>12 DEF HangUp, Close, To
<1>13. ASSUME NEW r \in Requests, HangUpEarly(r)
      PROVE  EventInv'
  BY <1>13 DEF HangUpEarly, To
<1>14. ASSUME NEW r \in Requests, StepReads(r)
      PROVE  EventInv'
  BY <1>14 DEF StepReads, Works, Publish
<1>15. ASSUME NEW r \in Requests, GateTakes(r)
      PROVE  EventInv'
  BY <1>15 DEF GateTakes, Resolved, Publish
<1>16. ASSUME NEW r \in Requests, NodeEnds(r)
      PROVE  EventInv'
  BY <1>16 DEF NodeEnds, Commit, Publish
<1>17. ASSUME NEW r \in Requests, TurnEnds(r)
      PROVE  EventInv'
  BY <1>17 DEF TurnEnds, Commit, Publish, Ends
<1>18. ASSUME NEW r \in Requests, TurnSuspends(r)
      PROVE  EventInv'
  BY <1>18 DEF TurnSuspends, Commit, Publish, Ends
<1>19. ASSUME Crash
      PROVE  EventInv'
  BY <1>19 DEF Crash, CheckpointSurvives
<1>20. ASSUME NEW r \in Requests, ReadFails(r)
      PROVE  EventInv'
  BY <1>20 DEF ReadFails, To
<1>21. QED
  BY <1>1, <1>2, <1>3, <1>4, <1>5, <1>6, <1>7, <1>8, <1>9, <1>10, <1>11, <1>12,
     <1>13, <1>14, <1>15, <1>16, <1>17, <1>18, <1>19, <1>20
  DEF Next, Serve, Work, vars, StepInvokes, ResumeReads, ResumeInvokes, TurnFails, Reset,
      Look

(* No question comes up behind a turn that begins, or that runs on.        *)
LEMMA FreeStep ==
    TypeOK /\ LaunchInv /\ AloneInv /\ FreeInv /\ [Next]_vars => FreeInv'
<1> SUFFICES ASSUME TypeOK, LaunchInv, AloneInv, FreeInv, [Next]_vars
             PROVE  FreeInv'
  OBVIOUS
<1> USE NoRequestAssumption, BoundsAssumption
    DEF TypeOK, LaunchInv, AloneInv, FreeInv, Locked, Active, Works,
        Questions, NoQuestion, RequestStages, WorkerStages, New, NoWorker, IsAt,
        process, checkpoint, events, faults
<1>1. ASSUME NEW r \in Requests, ChatArrives(r)
      PROVE  FreeInv'
  BY <1>1 DEF ChatArrives
<1>2. ASSUME NEW r \in Requests, Ushers(r)
      PROVE  FreeInv'
  <2>1. /\ request'[r].stage \notin {"new", "streaming"}
        /\ request[r].stage \notin {"new", "gone"}
        /\ \A s \in Requests : request'[s].kind = request[s].kind
        /\ \A s \in Requests \ {r} : request'[s] = request[s]
        /\ UNCHANGED <<worker, checkpoint, decided, begun>>
    BY <1>2, Ushered
  <2>2. request[r].kind = "chat" /\ request'[r].stage \in {"ready", "open"}
        => pending = NoQuestion \/ request[r].stage = "ready"
    BY <1>2, Ushered
  <2> HIDE DEF TypeOK, LaunchInv, AloneInv, NoWorker
  <2> QED  BY <2>1, <2>2
<1>3. ASSUME NEW r \in Requests, ApproveArrives(r)
      PROVE  FreeInv'
  BY <1>3 DEF ApproveArrives
<1>4. ASSUME NEW r \in Requests, Launch(r)
      PROVE  FreeInv'
  BY <1>4 DEF Launch, To
<1>5. ASSUME NEW r \in Requests, StepReads(r)
      PROVE  FreeInv'
  BY <1>5 DEF StepReads, Works, Publish
<1>6. ASSUME NEW r \in Requests, StepInvokes(r)
      PROVE  FreeInv'
  BY <1>6 DEF StepInvokes, Works
<1>7. ASSUME NEW r \in Requests, ResumeReads(r)
      PROVE  FreeInv'
  BY <1>7 DEF ResumeReads, Works
<1>8. ASSUME NEW r \in Requests, ResumeInvokes(r)
      PROVE  FreeInv'
  BY <1>8 DEF ResumeInvokes, Works
<1>9. ASSUME NEW r \in Requests, GateTakes(r)
      PROVE  FreeInv'
  BY <1>9 DEF GateTakes, Resolved, Publish
<1>10. ASSUME NEW r \in Requests, NodeEnds(r)
      PROVE  FreeInv'
  BY <1>10 DEF NodeEnds, Commit, Publish
<1>11. ASSUME NEW r \in Requests, TurnEnds(r)
      PROVE  FreeInv'
  BY <1>11 DEF TurnEnds, Commit, Publish, Ends
<1>12. ASSUME NEW r \in Requests, TurnSuspends(r)
      PROVE  FreeInv'
  BY <1>12 DEF TurnSuspends, Commit, Publish, Ends
<1>13. ASSUME NEW r \in Requests, TurnFails(r)
      PROVE  FreeInv'
  BY <1>13 DEF TurnFails, Ends
<1>14. ASSUME Reset
      PROVE  FreeInv'
  BY <1>14 DEF Reset
<1>15. ASSUME Look
      PROVE  FreeInv'
  BY <1>15 DEF Look
<1>16. ASSUME Crash
      PROVE  FreeInv'
  BY <1>16 DEF Crash, CheckpointSurvives
<1>17. ASSUME UNCHANGED vars
      PROVE  FreeInv'
  BY <1>17 DEF vars
<1>18. QED
  BY <1>1, <1>2, <1>3, <1>4, <1>5, <1>6, <1>7, <1>8, <1>9, <1>10, <1>11, <1>12, <1>13,
     <1>14, <1>15, <1>16, <1>17
  DEF Next, Serve, Work, Ushers

(* A question that waits is undecided, and whatever is cut off, a turn     *)
(* whose stream is whole gives it the only answer of a whole stream.       *)
LEMMA AnswerStep ==
    TypeOK /\ LockInv /\ GivenInv /\ AnswerInv /\ [Next]_vars => AnswerInv'
<1> SUFFICES ASSUME TypeOK, LockInv, GivenInv, AnswerInv, [Next]_vars
             PROVE  AnswerInv'
  OBVIOUS
<1> USE NoRequestAssumption, BoundsAssumption
    DEF TypeOK, LockInv, GivenInv, AnswerInv, Locked, Active, Works, Questions,
        NoQuestion, RequestStages, WorkerStages, New, NoWorker, IsAt, process,
        checkpoint, events, faults
<1>1. ASSUME UNCHANGED <<worker, pending, decided>>, cut \subseteq cut'
      PROVE  AnswerInv'
  BY <1>1 DEF AnswerInv
<1>2. ASSUME NEW r \in Requests, Launch(r)
      PROVE  AnswerInv'
  BY <1>2 DEF Launch, To
<1>3. ASSUME NEW r \in Requests, StepReads(r)
      PROVE  AnswerInv'
  BY <1>3 DEF StepReads, Works, Publish
<1>4. ASSUME NEW r \in Requests, StepInvokes(r)
      PROVE  AnswerInv'
  <2>1. /\ worker'[r].answers = worker[r].answers
        /\ \A s \in Requests \ {r} : worker'[s] = worker[s]
    BY <1>4, WorkerTo DEF StepInvokes, Works
  <2>2. decided' = decided /\ pending' = NoQuestion /\ cut' = cut
    BY <1>4 DEF StepInvokes, Works
  <2>3. worker[r].answers = NoQuestion
    BY <1>4 DEF StepInvokes, Works
  <2> HIDE DEF TypeOK, LockInv, GivenInv
  <2> QED  BY <2>1, <2>2, <2>3
<1>5. ASSUME NEW r \in Requests, ResumeReads(r)
      PROVE  AnswerInv'
  BY <1>5 DEF ResumeReads, Works
<1>6. ASSUME NEW r \in Requests, ResumeInvokes(r)
      PROVE  AnswerInv'
  BY <1>6 DEF ResumeInvokes, Works
<1>7. ASSUME NEW r \in Requests, GateTakes(r)
      PROVE  AnswerInv'
  <2> DEFINE q == worker[r].answers
  <2>1. /\ worker[r].stage = "running" /\ q \in Questions /\ q # NoQuestion
        /\ worker'[r].answers = NoQuestion
        /\ \A s \in Requests \ {r} : worker'[s] = worker[s]
        /\ pending' = NoQuestion /\ cut' = cut
    BY <1>7 DEF GateTakes, Resolved
  <2>2. /\ decided'[q] = decided[q] \cup {r}
        /\ \A p \in Questions \ {q} : decided'[p] = decided[p]
    BY <1>7, <2>1 DEF GateTakes
  <2>3. r \notin cut => decided[q] \subseteq cut
    BY <2>1
  <2>4. ASSUME NEW s \in Requests \ {r}, s \notin cut, worker[s].stage = "running"
        PROVE  r \in cut
    BY <2>1, <2>4
  <2>5. /\ \A s \in Requests : worker[s].answers \in Questions \cup {NoQuestion}
        /\ \A p \in Questions : decided[p] \subseteq Requests
    OBVIOUS
  <2> HIDE DEF TypeOK, LockInv, GivenInv, Questions, NoQuestion, q
  <2>6. \A s \in Requests :
           worker'[s].stage = "running" /\ worker'[s].answers # NoQuestion /\ s \notin cut
           => decided'[worker'[s].answers] \subseteq cut
    <3> SUFFICES ASSUME NEW s \in Requests, worker'[s].stage = "running",
                        worker'[s].answers # NoQuestion, s \notin cut
                 PROVE  decided'[worker'[s].answers] \subseteq cut
      OBVIOUS
    <3>1. s # r /\ worker'[s] = worker[s]
      BY <2>1
    <3>2. decided[worker[s].answers] \subseteq cut /\ r \in cut
      BY <2>4, <3>1
    <3>3. worker[s].answers \in Questions
      BY <2>5, <3>1
    <3> QED  BY <2>2, <3>1, <3>2, <3>3
  <2>7. \A p \in Questions : \A a, b \in decided'[p] : a = b \/ a \in cut \/ b \in cut
    <3> SUFFICES ASSUME NEW p \in Questions, NEW a \in decided'[p], NEW b \in decided'[p]
                 PROVE  a = b \/ a \in cut \/ b \in cut
      OBVIOUS
    <3>1. CASE p # q
      BY <2>2, <3>1
    <3>2. CASE p = q
      <4>1. (a = r \/ a \in decided[q]) /\ (b = r \/ b \in decided[q])
        BY <2>2, <3>2
      <4> QED  BY <2>1, <2>3, <4>1
    <3> QED  BY <3>1, <3>2
  <2> QED  BY <2>1, <2>6, <2>7
<1>8. ASSUME NEW r \in Requests, NodeEnds(r)
      PROVE  AnswerInv'
  BY <1>8 DEF NodeEnds, Commit, Publish
<1>9. ASSUME NEW r \in Requests, TurnEnds(r)
      PROVE  AnswerInv'
  BY <1>9 DEF TurnEnds, Commit, Publish, Ends
<1>10. ASSUME NEW r \in Requests, TurnSuspends(r)
      PROVE  AnswerInv'
  <2>1. /\ worker'[r].stage = "ended"
        /\ \A s \in Requests \ {r} : worker'[s] = worker[s]
    BY <1>10, WorkerTo DEF TurnSuspends, Commit, Publish, Ends
  <2>2. decided' = decided /\ pending' = asked + 1 /\ cut' = cut
    BY <1>10 DEF TurnSuspends, Commit, Publish, Ends
  <2>3. asked + 1 \in Questions /\ decided[asked + 1] = {}
    <3>1. asked + 1 \in Questions /\ asked + 1 > asked
      BY <1>10 DEF TurnSuspends
    <3> QED  BY <3>1 DEF GivenInv
  <2> HIDE DEF TypeOK, LockInv, GivenInv
  <2> QED  BY <2>1, <2>2, <2>3
<1>11. ASSUME NEW r \in Requests, TurnFails(r)
      PROVE  AnswerInv'
  BY <1>11 DEF TurnFails, Ends
<1>12. ASSUME Reset
      PROVE  AnswerInv'
  BY <1>12 DEF Reset
<1>13. ASSUME Crash
      PROVE  AnswerInv'
  BY <1>13 DEF Crash, CheckpointSurvives
<1>14. QED
  BY <1>1, <1>2, <1>3, <1>4, <1>5, <1>6, <1>7, <1>8, <1>9, <1>10, <1>11, <1>12,
     <1>13
  DEF Next, Serve, Work, vars, ChatArrives, ChatLocks, ChatChecks, ApproveArrives,
      ApproveChecks, ApproveLocks, Open, Finish, Timeout, HangUp, HangUpEarly, ReadFails,
      Look

(* A turn that runs alone gives its question the only answer.              *)
LEMMA OnceStep ==
    TypeOK /\ AloneInv /\ GivenInv /\ AnswerInv /\ OnceInv /\ [Next]_vars
    => OnceInv'
<1> SUFFICES ASSUME TypeOK, AloneInv, GivenInv, AnswerInv, OnceInv, [Next]_vars
             PROVE  OnceInv'
  OBVIOUS
<1> USE NoRequestAssumption, BoundsAssumption
    DEF TypeOK, AloneInv, GivenInv, AnswerInv, OnceInv, Locked, Active, Works,
        Questions, NoQuestion, RequestStages, WorkerStages, New,
        NoWorker, IsAt, process, checkpoint, events, faults
<1>1. ASSUME UNCHANGED <<worker, pending, decided>>
      PROVE  OnceInv'
  BY <1>1 DEF OnceInv
<1>2. ASSUME NEW r \in Requests, Launch(r)
      PROVE  OnceInv'
  BY <1>2 DEF Launch, To
<1>3. ASSUME NEW r \in Requests, StepReads(r)
      PROVE  OnceInv'
  BY <1>3 DEF StepReads, Works, Publish
<1>4. ASSUME NEW r \in Requests, StepInvokes(r)
      PROVE  OnceInv'
  <2>1. /\ worker'[r].stage = "running"
        /\ worker'[r].answers = worker[r].answers
        /\ \A s \in Requests \ {r} : worker'[s] = worker[s]
    BY <1>4, WorkerTo DEF StepInvokes, Works
  <2>2. decided' = decided /\ pending' = NoQuestion
    BY <1>4 DEF StepInvokes, Works
  <2>3. worker[r].stage = "invoke"
    BY <1>4 DEF StepInvokes, Works
  <2>4. worker[r].answers = NoQuestion
    BY <1>4 DEF StepInvokes, Works
  <2> HIDE DEF TypeOK, AloneInv, GivenInv, AnswerInv
  <2> QED  BY <2>1, <2>2, <2>3, <2>4
<1>5. ASSUME NEW r \in Requests, ResumeReads(r)
      PROVE  OnceInv'
  BY <1>5 DEF ResumeReads, Works
<1>6. ASSUME NEW r \in Requests, ResumeInvokes(r)
      PROVE  OnceInv'
  BY <1>6 DEF ResumeInvokes, Works
<1>7. ASSUME NEW r \in Requests, GateTakes(r)
      PROVE  OnceInv'
  BY <1>7 DEF GateTakes, Resolved, Publish
<1>8. ASSUME NEW r \in Requests, NodeEnds(r)
      PROVE  OnceInv'
  BY <1>8 DEF NodeEnds, Commit, Publish
<1>9. ASSUME NEW r \in Requests, TurnEnds(r)
      PROVE  OnceInv'
  BY <1>9 DEF TurnEnds, Commit, Publish, Ends
<1>10. ASSUME NEW r \in Requests, TurnSuspends(r)
      PROVE  OnceInv'
  <2>1. /\ worker'[r].stage = "ended"
        /\ worker'[r].answers = worker[r].answers
        /\ \A s \in Requests \ {r} : worker'[s] = worker[s]
    BY <1>10, WorkerTo DEF TurnSuspends, Commit, Publish, Ends
  <2>2. decided' = decided /\ pending' = asked + 1
    BY <1>10 DEF TurnSuspends, Commit, Publish, Ends
  <2>3. asked + 1 \in Questions /\ decided[asked + 1] = {}
    <3>1. asked + 1 \in Questions /\ asked + 1 > asked
      BY <1>10 DEF TurnSuspends
    <3> QED  BY <3>1 DEF GivenInv
  <2>4. worker[r].answers = NoQuestion
    BY <1>10 DEF TurnSuspends, Commit, Publish, Ends
  <2> HIDE DEF TypeOK, AloneInv, GivenInv, AnswerInv
  <2> QED  BY <2>1, <2>2, <2>3, <2>4
<1>11. ASSUME NEW r \in Requests, TurnFails(r)
      PROVE  OnceInv'
  BY <1>11 DEF TurnFails, Ends
<1>12. ASSUME Reset
      PROVE  OnceInv'
  BY <1>12 DEF Reset
<1>13. ASSUME Crash
      PROVE  OnceInv'
  BY <1>13 DEF Crash, CheckpointSurvives
<1>14. QED
  BY <1>1, <1>2, <1>3, <1>4, <1>5, <1>6, <1>7, <1>8, <1>9, <1>10, <1>11, <1>12,
     <1>13
  DEF Next, Serve, Work, vars, ChatArrives, ChatLocks, ChatChecks, ApproveArrives,
      ApproveChecks, ApproveLocks, Open, Finish, Timeout, HangUp, HangUpEarly, ReadFails,
      Look

(* The window a worker goes by stays the window of the checkpoint.         *)
LEMMA WindowStep ==
    TypeOK /\ LaunchInv /\ AloneInv /\ WindowInv /\ [Next]_vars /\ ~overlap'
    => WindowInv'
<1> SUFFICES ASSUME TypeOK, LaunchInv, AloneInv, WindowInv, [Next]_vars, ~overlap'
             PROVE  WindowInv'
  OBVIOUS
<1> USE NoRequestAssumption, BoundsAssumption
    DEF TypeOK, LaunchInv, AloneInv, WindowInv, Locked, Active, Works,
        Questions, NoQuestion, RequestStages, WorkerStages, New,
        NoWorker, IsAt, process, checkpoint, events, faults
<1>1. ASSUME NEW r \in Requests, ChatArrives(r)
      PROVE  WindowInv'
  <2>1. worker[r] = NoWorker /\ \A s \in Requests \ {r} : request'[s] = request[s]
    BY <1>1 DEF ChatArrives
  <2>2. UNCHANGED <<worker, window, begun>>
    BY <1>1 DEF ChatArrives
  <2> HIDE DEF TypeOK, LaunchInv, AloneInv
  <2> QED  BY <2>1, <2>2
<1>2. ASSUME NEW r \in Requests, Ushers(r)
      PROVE  WindowInv'
  <2>1. /\ request'[r].stage \notin {"new", "streaming"}
        /\ request[r].stage \notin {"new", "gone"}
        /\ \A s \in Requests : request'[s].kind = request[s].kind
        /\ \A s \in Requests \ {r} : request'[s] = request[s]
        /\ UNCHANGED <<worker, checkpoint, decided, begun>>
    BY <1>2, Ushered
  <2> HIDE DEF TypeOK, LaunchInv, AloneInv, NoWorker
  <2> QED  BY <2>1
<1>3. ASSUME NEW r \in Requests, ApproveArrives(r)
      PROVE  WindowInv'
  BY <1>3 DEF ApproveArrives
<1>4. ASSUME NEW r \in Requests, Launch(r)
      PROVE  WindowInv'
  BY <1>4 DEF Launch, To
<1>5. ASSUME NEW r \in Requests, StepReads(r)
      PROVE  WindowInv'
  BY <1>5 DEF StepReads, Works, Publish
<1>6. ASSUME NEW r \in Requests, StepInvokes(r)
      PROVE  WindowInv'
  BY <1>6 DEF StepInvokes, Works
<1>7. ASSUME NEW r \in Requests, ResumeReads(r)
      PROVE  WindowInv'
  BY <1>7 DEF ResumeReads, Works
<1>8. ASSUME NEW r \in Requests, ResumeInvokes(r)
      PROVE  WindowInv'
  BY <1>8 DEF ResumeInvokes, Works
<1>9. ASSUME NEW r \in Requests, GateTakes(r)
      PROVE  WindowInv'
  BY <1>9 DEF GateTakes, Resolved, Publish
<1>10. ASSUME NEW r \in Requests, NodeEnds(r)
      PROVE  WindowInv'
  BY <1>10 DEF NodeEnds, Commit, Publish
<1>11. ASSUME NEW r \in Requests, TurnEnds(r)
      PROVE  WindowInv'
  BY <1>11 DEF TurnEnds, Commit, Publish, Ends
<1>12. ASSUME NEW r \in Requests, TurnSuspends(r)
      PROVE  WindowInv'
  BY <1>12 DEF TurnSuspends, Commit, Publish, Ends
<1>13. ASSUME NEW r \in Requests, TurnFails(r)
      PROVE  WindowInv'
  BY <1>13 DEF TurnFails, Ends
<1>14. ASSUME Reset
      PROVE  WindowInv'
  BY <1>14 DEF Reset, Overlaps, Running
<1>15. ASSUME Look
      PROVE  WindowInv'
  BY <1>15 DEF Look
<1>16. ASSUME Crash
      PROVE  WindowInv'
  BY <1>16 DEF Crash, CheckpointSurvives
<1>17. ASSUME UNCHANGED vars
      PROVE  WindowInv'
  BY <1>17 DEF vars
<1>18. QED
  BY <1>1, <1>2, <1>3, <1>4, <1>5, <1>6, <1>7, <1>8, <1>9, <1>10, <1>11, <1>12, <1>13,
     <1>14, <1>15, <1>16, <1>17
  DEF Next, Serve, Work, Ushers

-----------------------------------------------------------------------------
(* The inductive invariant                                                 *)

(* The process starts with no request and an empty checkpoint.             *)
LEMMA InitInv == Init => IInv
<1> SUFFICES ASSUME Init
             PROVE  IInv
  OBVIOUS
<1> USE NoRequestAssumption, BoundsAssumption
    DEF Init, Questions, NoQuestion, New, NoWorker
<1>1. TypeOK
  <2>1. <<>> \in Seq(Requests)
    OBVIOUS
  <2>2. New \in RequestState /\ NoWorker \in WorkerState
    BY <2>1 DEF RequestState, WorkerState, RequestStages, WorkerStages
  <2>3. /\ request \in [Requests -> RequestState]
        /\ worker \in [Requests -> WorkerState]
    <3> HIDE DEF New, NoWorker
    <3> QED  BY <2>2
  <2>4. decided \in [Questions -> SUBSET Requests]
    OBVIOUS
  <2>5. /\ known \in BOOLEAN /\ crossed \in BOOLEAN
        /\ holder \in Requests \cup {NoRequest} /\ subs \subseteq Requests
        /\ window \in Seq(Requests) /\ begun \in Seq(Requests)
        /\ cut \subseteq Requests /\ overlap \in BOOLEAN
    BY <2>1
  <2>6. /\ pending \in Questions \cup {NoQuestion} /\ asked \in 0..MaxQuestions
        /\ resets \in 0..MaxResets /\ timeouts \in 0..MaxTimeouts
        /\ hangups \in 0..MaxHangups /\ crashes \in 0..MaxCrashes
    BY DEF BoundsAssumption
  <2> HIDE DEF Init, New, NoWorker, Questions, NoQuestion
  <2> QED  BY <2>3, <2>4, <2>5, <2>6 DEF TypeOK, RequestState, WorkerState
<1>2. LaunchInv /\ GivenInv /\ LockInv /\ AloneInv
  BY DEF LaunchInv, GivenInv, LockInv, AloneInv, Active, Locked, IsAt
<1>3. EventInv /\ FreeInv /\ AnswerInv /\ OnceInv /\ WindowInv
  BY DEF EventInv, FreeInv, AnswerInv, OnceInv, WindowInv, Works
<1> QED  BY <1>1, <1>2, <1>3 DEF IInv

(* What overlapped before a step has overlapped after it.                  *)
LEMMA OverlapStays ==
    ASSUME [Next]_vars, overlap
    PROVE  overlap'
  BY DEF Next, Serve, Work, vars, faults, ChatArrives, ChatLocks, ChatChecks, ApproveArrives,
         ApproveChecks, ApproveLocks, Acquire, Overlaps, Open, Launch, Finish, Timeout,
         HangUp, HangUpEarly, ReadFails, StepReads, StepInvokes, ResumeReads, ResumeInvokes,
         GateTakes, NodeEnds, TurnEnds, TurnSuspends, TurnFails, Reset, Look, Crash

(* The conjuncts hold each other up.                                       *)
LEMMA IInvStep == IInv /\ [Next]_vars => IInv'
<1> SUFFICES ASSUME IInv, [Next]_vars
             PROVE  IInv'
  OBVIOUS
<1>1. TypeOK /\ LaunchInv /\ GivenInv /\ LockInv /\ EventInv /\ AnswerInv
  BY DEF IInv
<1>2. TypeOK' /\ LaunchInv' /\ GivenInv' /\ LockInv' /\ EventInv' /\ AnswerInv'
  BY <1>1, TypeStep, LaunchStep, GivenStep, LockStep, EventStep, AnswerStep
<1>3. ASSUME ~overlap'
      PROVE  AloneInv' /\ FreeInv' /\ OnceInv' /\ WindowInv'
  <2>1. AloneInv /\ FreeInv /\ OnceInv /\ WindowInv
    BY <1>3, OverlapStays DEF IInv
  <2> QED  BY <1>1, <1>3, <2>1, AloneStep, FreeStep, OnceStep, WindowStep
<1> QED  BY <1>2, <1>3 DEF IInv

(* It is an invariant of every behaviour.                                  *)
LEMMA IInvAlways == Spec => []IInv
  BY InitInv, IInvStep, PTL DEF Spec

-----------------------------------------------------------------------------
(* What the invariant says                                                 *)

(* The session keeps its types (api/sessions.py, agent/loop.py).           *)
THEOREM TypesKept == Spec => []TypeOK
<1>1. IInv => TypeOK
  BY DEF IInv
<1> QED  BY <1>1, IInvAlways, PTL

(* Of any number of requests, through resets, cut-offs and restarts, two   *)
(* have turns under way only if the stream of one was cut off and somebody *)
(* came in on a running turn (api/main.py chat).                           *)
THEOREM OneTurn == Spec => []OneTurnUnlessCutOff
<1>1. IInv => OneTurnUnlessCutOff
  <2> SUFFICES ASSUME IInv, NEW r \in Running, NEW s \in Running
               PROVE  r = s \/ (overlap /\ (r \in cut \/ s \in cut))
    BY DEF OneTurnUnlessCutOff
  <2>1. r \in Requests /\ s \in Requests /\ Active(r) /\ Active(s)
    BY DEF Running, Active
  <2>2. CASE ~overlap
    BY <2>1, <2>2 DEF IInv, AloneInv
  <2>3. CASE r \notin cut /\ s \notin cut
    <3>1. Locked(r) /\ Locked(s)
      BY <2>1, <2>3 DEF IInv, LockInv, Locked
    <3> QED  BY <2>1, <3>1 DEF IInv, LockInv
  <2> QED  BY <2>2, <2>3
<1> QED  BY <1>1, IInvAlways, PTL

(* No turn overwrites another in the window, whatever is cut off or        *)
(* crashes, before somebody comes in on a running turn (loop.py step,      *)
(* resume).                                                                *)
THEOREM NoTurnLost == Spec => []TurnsKept
<1>1. IInv => TurnsKept
  BY DEF IInv, TurnsKept, WindowInv
<1> QED  BY <1>1, IInvAlways, PTL

(* A stream that is not cut off carries no event of another such turn      *)
(* (sessions.py run_turn, EventRecorder).                                  *)
THEOREM EventsStayHome == Spec => []OwnEventsOnly
<1>1. IInv => OwnEventsOnly
  BY DEF IInv, OwnEventsOnly, EventInv
<1> QED  BY <1>1, IInvAlways, PTL

(* However many clients click and whatever crashes, a question is decided  *)
(* by one of them, or by one more whose stream was cut off and on whom     *)
(* somebody came in (api/main.py approve).                                 *)
THEOREM OneAnswer == Spec => []AnsweredOnce
<1>1. IInv => AnsweredOnce
  BY DEF IInv, AnsweredOnce, AnswerInv, OnceInv
<1> QED  BY <1>1, IInvAlways, PTL

(* A step that takes a waiting question away answers it or resets the      *)
(* session, before somebody comes in on a running turn (api/main.py chat). *)
THEOREM QuestionWaits == Spec => QuestionKept
<1> DEFINE Kept == (pending # NoQuestion /\ pending' # pending /\ ~overlap)
                      => resets' # resets \/ decided' # decided
<1>1. IInv /\ [Next]_vars => [Kept]_vars
  <2> SUFFICES ASSUME IInv, [Next]_vars, pending # NoQuestion, pending' # pending,
                      ~overlap
               PROVE  resets' # resets \/ decided' # decided
    OBVIOUS
  <2>1. TypeOK /\ GivenInv /\ FreeInv
    BY DEF IInv
  <2>2. \/ Reset
        \/ \E r \in Requests : \/ StepInvokes(r) \/ GateTakes(r)
                               \/ NodeEnds(r) \/ TurnEnds(r) \/ TurnSuspends(r)
    BY DEF Next, Serve, Work, vars, checkpoint, ChatArrives, ChatLocks, ChatChecks,
           ApproveArrives, ApproveChecks, ApproveLocks, Open, Launch, Finish, Timeout,
           HangUp, HangUpEarly, ReadFails, StepReads, ResumeReads, ResumeInvokes,
           TurnFails, Look, Crash, CheckpointSurvives
  <2>3. CASE Reset
    BY <2>1, <2>3 DEF Reset, TypeOK
  <2>4. ASSUME NEW r \in Requests, StepInvokes(r)
        PROVE  FALSE
    BY <2>1, <2>4 DEF StepInvokes, FreeInv
  <2>5. ASSUME NEW r \in Requests, NodeEnds(r) \/ TurnEnds(r) \/ TurnSuspends(r)
        PROVE  FALSE
    BY <2>1, <2>5 DEF NodeEnds, TurnEnds, TurnSuspends, Commit, FreeInv
  <2>6. ASSUME NEW r \in Requests, GateTakes(r)
        PROVE  decided' # decided
    <3> DEFINE q == worker[r].answers
    <3>1. q \in Questions /\ q # NoQuestion /\ worker[r].stage = "running"
      BY <2>1, <2>6 DEF GateTakes, TypeOK
    <3>2. r \notin decided[q]
      BY <2>1, <3>1 DEF GivenInv
    <3>3. r \in decided'[q]
      BY <2>1, <2>6, <3>1 DEF GateTakes, TypeOK
    <3> QED  BY <3>2, <3>3
  <2> QED  BY <2>2, <2>3, <2>4, <2>5, <2>6
<1> QED  BY <1>1, IInvAlways, PTL DEF Spec, QuestionKept
=============================================================================
