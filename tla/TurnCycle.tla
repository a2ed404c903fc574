------------------------------ MODULE TurnCycle ------------------------------
(***************************************************************************)
(* One conversation of the assistant: AgentLoop (agent/loop.py) driving    *)
(* the turn graph (graph/graph.py, graph/nodes.py) over a checkpointed     *)
(* state.  One action per node of the graph; dispatch_tools, whose loop    *)
(* has an effect per call, has an action per call and one for the commit.  *)
(*                                                                         *)
(* A tool call is its tool; its id is its position in the response, so     *)
(* ids are distinct within a response and recur from one to the next.  A   *)
(* message keeps its role, the call ids it asks or answers, and what its   *)
(* body is worth to the properties.  A message costs one token.            *)
(***************************************************************************)
EXTENDS Integers, Sequences, FiniteSets

CONSTANTS
    Kinds,           \* the tools the model calls
    Outcomes,        \* how a model call may end: "calls", "prose", "exhausted"
    MaxCalls,        \* bound: calls in one response
    MaxHeartbeats,   \* deps.max_heartbeats
    MinMessages,     \* MIN_MESSAGES_BEFORE_EVICTION
    Limit,           \* the context limit, in tokens
    Surplus,         \* what the provider may count above one per message
    MaxTurns,        \* bound: user turns
    MaxFaults        \* bound: turns cut short by an exception or a crash

AllKinds == {"send", "core", "insert", "search", "web", "write", "escape", "unknown"}

ASSUME KindsAssumption == Kinds \subseteq AllKinds
ASSUME OutcomesAssumption == Outcomes \subseteq {"calls", "prose", "exhausted"}
ASSUME BoundsAssumption ==
    /\ MaxCalls \in Nat \ {0}
    /\ MaxHeartbeats \in Nat
    /\ MinMessages \in Nat \ {0}
    /\ Limit \in Nat
    /\ Surplus \subseteq Nat
    /\ MaxTurns \in Nat
    /\ MaxFaults \in Nat

VARIABLES
    \* AgentState, as the checkpointer holds it
    messages, input_tokens, heartbeat_count, pending_tool_calls, tool_decisions,
    final_reply, last_text, done, saw_untrusted, untrusted_results, turn_findings,
    needs_warning,
    \* the invocation of the graph
    pc,              \* the node to run next; "idle", or "suspended" in interrupt()
    steps,           \* supersteps of this invocation
    local,           \* the locals of dispatch_tools
    result,          \* what the turn gave its caller
    turns, faults,   \* how many there were
    \* what the turn did and what it rests on: read by the properties only
    fetched,         \* untrusted results this turn has brought in
    shown,           \* ... and whether the model has been called since
    granted,         \* the calls of this turn the human approved
    effects          \* the effects of this turn's tools

ckpt == <<messages, input_tokens, heartbeat_count, pending_tool_calls,
          tool_decisions, final_reply, last_text, done, saw_untrusted,
          untrusted_results, turn_findings, needs_warning>>
history == <<fetched, shown, granted, effects>>
vars == <<ckpt, pc, steps, local, result, turns, faults, history>>

-----------------------------------------------------------------------------
(* Data                                                                    *)

CallIds == 1..MaxCalls
Nodes == {"build_prompt", "pressure_check", "inject_warning", "call_llm",
          "security_gate", "dispatch_tools", "sanitize_results", "respond"}
Bodies == {"plain", "warning", "notice", "empty", "raw", "wrapped"}
Message == [role : {"user", "assistant", "tool"}, ids : SUBSET CallIds, body : Bodies]

UserMessage(body) == [role |-> "user", ids |-> {}, body |-> body]
AssistantMessage(calls) == [role |-> "assistant", ids |-> DOMAIN calls, body |-> "plain"]
ToolMessage(id, body) == [role |-> "tool", ids |-> {id}, body |-> body]

External(k) == k \in {"web", "write", "escape"}
Untrusted(k) == External(k)          \* both servers of the registry are untrusted
Gated(k) == k \in {"write", "escape"}
EffectTools == {"send", "core", "insert", "write", "escape"}

(* token_budget.usage_fraction and is_under_pressure: no limit, no pressure *)
AtLeast(percent, tokens) == Limit > 0 /\ 100 * tokens >= percent * Limit
UnderPressure(tokens) == AtLeast(70, tokens)
OverHardCap(tokens) == AtLeast(95, tokens)

MaxRounds == IF MaxHeartbeats > 1 THEN MaxHeartbeats ELSE 1
RecursionLimit == 8 * MaxRounds + 8

FreshLocal == [at |-> 1, answers |-> <<>>, texts |-> {}, sent |-> FALSE,
               wants |-> FALSE, offloaded |-> FALSE, untrusted |-> {}, found |-> {}]

(* What the user is told, by the call that says it; 0 is the graph itself.  *)
Texts == {"text", "blank", "exhausted", "prose", "quoted", "nothing found"}
Said(text, at) == [text |-> text, call |-> <<heartbeat_count, at>>]
NonBlank(replies) == {r \in replies : r.text # "blank"}

-----------------------------------------------------------------------------
Init ==
    /\ messages = <<>>
    /\ input_tokens = 0
    /\ heartbeat_count = 0
    /\ pending_tool_calls = <<>>
    /\ tool_decisions = <<>>
    /\ final_reply = {}
    /\ last_text = FALSE
    /\ done = FALSE
    /\ saw_untrusted = FALSE
    /\ untrusted_results = {}
    /\ turn_findings = {}
    /\ needs_warning = FALSE
    /\ pc = "idle"
    /\ steps = 0
    /\ local = FreshLocal
    /\ result = "none"
    /\ turns = 0
    /\ faults = 0
    /\ fetched = FALSE
    /\ shown = FALSE
    /\ granted = {}
    /\ effects = {}

(* AgentLoop.step, which the API calls only when no approval is pending:   *)
(* the queue and its usage are carried over, the rest of the turn's state  *)
(* starts afresh.                                                          *)
CarriedMessages == Append(messages, UserMessage("plain"))

Step ==
    /\ pc = "idle"
    /\ turns < MaxTurns
    /\ turns' = turns + 1
    /\ messages' = CarriedMessages
    /\ heartbeat_count' = 0
    /\ pending_tool_calls' = <<>>
    /\ tool_decisions' = <<>>
    /\ final_reply' = {}
    /\ last_text' = FALSE
    /\ done' = FALSE
    /\ saw_untrusted' = FALSE
    /\ untrusted_results' = {}
    /\ turn_findings' = {}
    /\ pc' = "build_prompt"
    /\ steps' = 0
    /\ result' = "none"
    /\ fetched' = FALSE
    /\ shown' = FALSE
    /\ granted' = {}
    /\ effects' = {}
    /\ UNCHANGED <<input_tokens, needs_warning, local, faults>>

(* The node at pc has run and the graph goes on to the next one.           *)
Advance(from, to) ==
    /\ pc = from
    /\ steps < RecursionLimit
    /\ pc' = to
    /\ steps' = steps + 1

BuildPrompt ==
    /\ Advance("build_prompt", "pressure_check")
    /\ UNCHANGED <<ckpt, local, result, turns, faults, history>>

(* Mutant: every heartbeat round warns again.                              *)
NeedsWarningEveryRound == UnderPressure(input_tokens)

(* Only the first pass of a turn warns.                                    *)
NeedsWarning == heartbeat_count = 0 /\ UnderPressure(input_tokens)

PressureCheck ==
    /\ Advance("pressure_check", IF NeedsWarning THEN "inject_warning" ELSE "call_llm")
    /\ needs_warning' = NeedsWarning
    /\ UNCHANGED <<messages, input_tokens, heartbeat_count, pending_tool_calls,
                   tool_decisions, final_reply, last_text, done, saw_untrusted,
                   untrusted_results, turn_findings, local, result, turns, faults,
                   history>>

InjectWarning ==
    /\ Advance("inject_warning", "call_llm")
    /\ messages' = Append(messages, UserMessage("warning"))
    /\ UNCHANGED <<input_tokens, heartbeat_count, pending_tool_calls, tool_decisions,
                   final_reply, last_text, done, saw_untrusted, untrusted_results,
                   turn_findings, needs_warning, local, result, turns, faults, history>>

(* The model answers, with prose, calls, or both; usage is what the        *)
(* provider counted for the prompt it was sent.                            *)
ModelAnswers(calls, prose) ==
    /\ Advance("call_llm", IF calls # <<>> THEN "security_gate" ELSE "respond")
    /\ messages' = Append(messages, AssistantMessage(calls))
    /\ \E extra \in Surplus : input_tokens' = Len(messages) + 1 + extra
    /\ pending_tool_calls' = calls
    /\ last_text' = (last_text \/ prose)
    /\ shown' = fetched
    /\ UNCHANGED <<heartbeat_count, tool_decisions, final_reply, done, saw_untrusted,
                   untrusted_results, turn_findings, needs_warning, local, result,
                   turns, faults, fetched, granted, effects>>

CallLLM ==
    \/ /\ "calls" \in Outcomes
       /\ \E n \in 1..MaxCalls : \E calls \in [1..n -> Kinds], prose \in BOOLEAN :
             ModelAnswers(calls, prose)
    \/ /\ "prose" \in Outcomes
       /\ \E prose \in BOOLEAN : ModelAnswers(<<>>, prose)

(* Every provider of the chain is out: the turn ends on an apology.        *)
ProvidersExhausted ==
    /\ "exhausted" \in Outcomes
    /\ Advance("call_llm", "respond")
    /\ final_reply' = final_reply \cup {Said("exhausted", 0)}
    /\ pending_tool_calls' = <<>>
    /\ done' = TRUE
    /\ UNCHANGED <<messages, input_tokens, heartbeat_count, tool_decisions, last_text,
                   saw_untrusted, untrusted_results, turn_findings, needs_warning,
                   local, result, turns, faults, history>>

-----------------------------------------------------------------------------
(* The security gate                                                       *)

(* Mutants: the latch forgets archival inserts; the human is asked before  *)
(* the path is looked at.                                                  *)
VerdictInsertOpen(kind, saw) ==
    IF kind \in {"unknown", "escape"} THEN "refuse"
    ELSE IF Gated(kind) THEN "ask"
    ELSE IF saw /\ kind = "core" THEN "refuse"
    ELSE "allow"

VerdictAskFirst(kind, saw) ==
    IF Gated(kind) THEN "ask"
    ELSE IF kind \in {"unknown", "escape"} THEN "refuse"
    ELSE CASE saw /\ kind = "core"    -> "refuse"
           [] saw /\ kind = "insert"  -> "external"
           [] OTHER                   -> "allow"

(* guards.check_tool_call, in its order: what is unknown or leaves the     *)
(* jail is refused, what is gated is asked, and the latch then closes core *)
(* memory and turns an archival insert into an external one.               *)
Verdict(kind, saw) ==
    IF kind \in {"unknown", "escape"} THEN "refuse"
    ELSE IF Gated(kind) THEN "ask"
    ELSE CASE saw /\ kind = "core"    -> "refuse"
           [] saw /\ kind = "insert"  -> "external"
           [] OTHER                   -> "allow"

Verdicts == [i \in DOMAIN pending_tool_calls |->
                Verdict(pending_tool_calls[i], saw_untrusted)]
AskedIds == {i \in DOMAIN pending_tool_calls : Verdicts[i] = "ask"}

(* Mutants: a denial is recorded as an approval; the answer is not applied.  *)
DecisionsDenialLost(approved) ==
    [i \in DOMAIN pending_tool_calls |->
        IF Verdicts[i] # "ask" THEN Verdicts[i] ELSE "allow"]

DecisionsUnanswered(approved) == Verdicts

(* The verdicts once the human has answered for every gated call at once.  *)
Decisions(approved) ==
    [i \in DOMAIN pending_tool_calls |->
        IF Verdicts[i] # "ask" THEN Verdicts[i]
        ELSE IF approved THEN "allow" ELSE "refuse"]

GateUnchanged ==
    UNCHANGED <<messages, input_tokens, heartbeat_count, pending_tool_calls,
                final_reply, last_text, done, saw_untrusted, untrusted_results,
                turn_findings, needs_warning, local, result, turns, faults, fetched,
                shown, effects>>

SecurityGate ==
    /\ AskedIds = {}
    /\ Advance("security_gate", "dispatch_tools")
    /\ tool_decisions' = Decisions(TRUE)
    /\ UNCHANGED granted
    /\ GateUnchanged

(* interrupt(): the node commits nothing and the invocation returns.       *)
Suspend ==
    /\ AskedIds # {}
    /\ Advance("security_gate", "suspended")
    /\ UNCHANGED <<tool_decisions, granted>>
    /\ GateUnchanged

(* AgentLoop.resume: a new invocation runs the node again, from its top,   *)
(* with the answer in hand.                                                *)
Resume(approved) ==
    /\ pc = "suspended"
    /\ pc' = "dispatch_tools"
    /\ steps' = 1
    /\ tool_decisions' = Decisions(approved)
    /\ granted' = granted \cup
          (IF approved THEN {<<heartbeat_count, i>> : i \in AskedIds} ELSE {})
    /\ GateUnchanged

-----------------------------------------------------------------------------
(* Dispatch                                                                *)

Current == pending_tool_calls[local.at]
CallKey == <<heartbeat_count, local.at>>
HasCall(decided) ==
    /\ pc = "dispatch_tools"
    /\ local.at <= Len(pending_tool_calls)
    /\ tool_decisions[local.at] \in decided

(* Every call is answered, whatever became of it.                          *)
Answered(body) ==
    [local EXCEPT !.at = @ + 1, !.answers = Append(@, ToolMessage(local.at, body))]

Performed(tool, source) ==
    effects \cup {[call |-> CallKey, tool |-> tool, source |-> source]}

DispatchUnchanged ==
    UNCHANGED <<ckpt, pc, steps, result, turns, faults, shown, granted>>

(* A refusal is answered with its reason, and gives the model a round to   *)
(* recover in.                                                             *)
DispatchRefused ==
    /\ HasCall({"refuse"})
    /\ local' = [Answered("empty") EXCEPT !.wants = TRUE]
    /\ UNCHANGED <<fetched, effects>>
    /\ DispatchUnchanged

DispatchSend ==
    /\ HasCall({"allow"})
    /\ Current = "send"
    /\ \E text \in {"text", "blank"} :
          /\ local' = [Answered("plain") EXCEPT !.texts = @ \cup {Said(text, local.at)},
                                              !.sent = TRUE]
          /\ effects' = IF text = "text" THEN Performed("send", "inferred") ELSE effects
    /\ UNCHANGED fetched
    /\ DispatchUnchanged

(* The raw result is held for sanitize_results, and not yet committed.     *)
DispatchExternal ==
    /\ HasCall({"allow"})
    /\ External(Current)
    /\ \E heartbeat \in BOOLEAN :
          local' = [Answered(IF Untrusted(Current) THEN "raw" ELSE "plain") EXCEPT
                        !.untrusted = IF Untrusted(Current) THEN @ \cup {local.at} ELSE @,
                        !.found = @ \cup {local.at},
                        !.wants = @ \/ heartbeat]
    /\ fetched' = (fetched \/ Untrusted(Current))
    /\ effects' = IF Current \in EffectTools THEN Performed(Current, "inferred") ELSE effects
    /\ DispatchUnchanged

(* MemoryTools.dispatch answers with a result, or with text that carries   *)
(* no finding (an error, an empty search): it never raises.                *)
DispatchMemory ==
    /\ HasCall({"allow", "external"})
    /\ Current # "send" /\ ~External(Current)
    /\ \E heartbeat \in BOOLEAN, body \in {"plain", "empty"} :
          /\ local' = [Answered(body) EXCEPT
                          !.offloaded = @ \/ (Current = "insert" /\ body = "plain"),
                          !.found = @ \cup {local.at},
                          !.wants = @ \/ heartbeat]
          /\ effects' = IF Current \in EffectTools /\ body = "plain"
                        THEN Performed(Current,
                                IF tool_decisions[local.at] = "external"
                                THEN "external" ELSE "inferred")
                        ELSE effects
    /\ UNCHANGED fetched
    /\ DispatchUnchanged

(* Mutants: the cut stays in the middle; it may not reach the end.         *)
IsMiddleCut(queue, from, cut) == cut = from
IsInnerCut(queue, from, cut) ==
    /\ \A i \in from..(cut - 1) : queue[i + 1].role = "tool"
    /\ cut < Len(queue) /\ queue[cut + 1].role # "tool"

(* _safe_cut: from the middle, past the tool results that would be orphaned *)
IsSafeCut(queue, from, cut) ==
    /\ \A i \in from..(cut - 1) : queue[i + 1].role = "tool"
    /\ cut < Len(queue) => queue[cut + 1].role # "tool"

(* _evict_offloaded: what remains of the queue, behind a notice of it.     *)
Retained(queue, cut) ==
    <<UserMessage("notice")>> \o SubSeq(queue, cut + 1, Len(queue))

Evict(queue) ==
    \E cut \in (Len(queue) \div 2)..Len(queue) :
        /\ IsSafeCut(queue, Len(queue) \div 2, cut)
        /\ IF Len(queue) < MinMessages \/ cut <= 0 \/ cut >= Len(queue)
           THEN messages' = queue /\ UNCHANGED input_tokens
           ELSE messages' = Retained(queue, cut) /\ input_tokens' = Len(messages') + 1

(* Mutants: paging waits for the model to offload; no round is counted.    *)
PagesOutOnOffload == local.offloaded /\ UnderPressure(input_tokens)
SameHeartbeat == heartbeat_count

PagesOut == (local.offloaded /\ UnderPressure(input_tokens)) \/ OverHardCap(input_tokens)
NextHeartbeat == heartbeat_count + 1

(* The node commits: the round is counted, the turn is over if it sent     *)
(* something and wants no other round, and the queue is paged out.         *)
DispatchCommit ==
    /\ local.at > Len(pending_tool_calls)
    /\ Advance("dispatch_tools", "sanitize_results")
    /\ LET queue == messages \o local.answers IN
          IF PagesOut THEN Evict(queue)
                      ELSE messages' = queue /\ UNCHANGED input_tokens
    /\ final_reply' = final_reply \cup local.texts
    /\ pending_tool_calls' = <<>>
    /\ untrusted_results' = local.untrusted
    /\ turn_findings' = turn_findings \cup local.found
    /\ heartbeat_count' = NextHeartbeat
    /\ done' = (local.sent /\ ~local.wants)
    /\ local' = FreshLocal
    /\ UNCHANGED <<tool_decisions, last_text, saw_untrusted, needs_warning, result,
                   turns, faults, history>>

(* Mutant: only a round's single untrusted result is rewritten.            *)
SanitizedSingle(m) ==
    IF m.role = "tool" /\ m.ids = untrusted_results
    THEN [m EXCEPT !.body = "wrapped"] ELSE m

(* sanitize_results rewrites every tool message with the id of an          *)
(* untrusted result, and latches saw_untrusted for the rest of the turn.   *)
Sanitized(m) ==
    IF m.role = "tool" /\ m.ids \cap untrusted_results # {}
    THEN [m EXCEPT !.body = "wrapped"] ELSE m

RouteHeartbeat ==
    IF done \/ heartbeat_count >= MaxHeartbeats THEN "respond" ELSE "build_prompt"

SanitizeResults ==
    /\ Advance("sanitize_results", RouteHeartbeat)
    /\ messages' = [i \in DOMAIN messages |-> Sanitized(messages[i])]
    /\ saw_untrusted' = (saw_untrusted \/ untrusted_results # {})
    /\ untrusted_results' = {}
    /\ UNCHANGED <<input_tokens, heartbeat_count, pending_tool_calls, tool_decisions,
                   final_reply, last_text, done, turn_findings, needs_warning, local,
                   result, turns, faults, history>>

-----------------------------------------------------------------------------
(* The end of a turn                                                       *)

Answers(m, id) == m.role = "tool" /\ id \in m.ids

(* _fallback_reply looks a finding up by id: the last message with it.     *)
Quotable(id) ==
    \E i \in DOMAIN messages :
        /\ Answers(messages[i], id)
        /\ messages[i].body # "empty"
        /\ \A j \in DOMAIN messages : j > i => ~Answers(messages[j], id)

Fallback ==
    IF last_text THEN "prose"
    ELSE IF \E id \in turn_findings : Quotable(id) THEN "quoted"
    ELSE "nothing found"

(* Mutant: a blank message counts as a reply.                              *)
ReplyMaybeBlank == IF final_reply # {} THEN final_reply ELSE {Said(Fallback, 0)}

Reply ==
    IF NonBlank(final_reply) # {} THEN NonBlank(final_reply)
    ELSE {Said(Fallback, 0)}

Respond ==
    /\ Advance("respond", "idle")
    /\ final_reply' = Reply
    /\ done' = TRUE
    /\ result' = "replied"
    /\ UNCHANGED <<messages, input_tokens, heartbeat_count, pending_tool_calls,
                   tool_decisions, last_text, saw_untrusted, untrusted_results,
                   turn_findings, needs_warning, local, turns, faults, history>>

(* A node raises, the process dies, or the recursion limit is hit: what    *)
(* the node did outside stands, and the checkpoint is the one it began     *)
(* from.                                                                   *)
Fault ==
    /\ pc \in Nodes
    /\ faults < MaxFaults \/ steps >= RecursionLimit
    /\ faults' = IF faults < MaxFaults THEN faults + 1 ELSE faults
    /\ pc' = "idle"
    /\ local' = FreshLocal
    /\ result' = "failed"
    /\ UNCHANGED <<ckpt, steps, turns, history>>

(* AgentLoop.reset, between invocations: the thread's checkpoints go, and  *)
(* a pending interrupt with them.                                          *)
Reset ==
    /\ pc \in {"idle", "suspended"}
    /\ messages # <<>>
    /\ messages' = <<>>
    /\ input_tokens' = 0
    /\ heartbeat_count' = 0
    /\ pending_tool_calls' = <<>>
    /\ tool_decisions' = <<>>
    /\ final_reply' = {}
    /\ last_text' = FALSE
    /\ done' = FALSE
    /\ saw_untrusted' = FALSE
    /\ untrusted_results' = {}
    /\ turn_findings' = {}
    /\ needs_warning' = FALSE
    /\ pc' = "idle"
    /\ steps' = 0
    /\ result' = "none"
    /\ fetched' = FALSE
    /\ shown' = FALSE
    /\ granted' = {}
    /\ effects' = {}
    /\ UNCHANGED <<local, turns, faults>>

Dispatch ==
    \/ DispatchRefused
    \/ DispatchSend
    \/ DispatchExternal
    \/ DispatchMemory
    \/ DispatchCommit

Graph ==
    \/ BuildPrompt
    \/ PressureCheck
    \/ InjectWarning
    \/ CallLLM
    \/ ProvidersExhausted
    \/ SecurityGate
    \/ Suspend
    \/ Dispatch
    \/ SanitizeResults
    \/ Respond

Next ==
    \/ Step
    \/ Graph
    \/ \E approved \in BOOLEAN : Resume(approved)
    \/ Fault
    \/ Reset

Spec == Init /\ [][Next]_vars

(* An invocation runs on its own thread until it returns: its nodes are    *)
(* fair.  Nobody has to send a message, answer a question, or fail.        *)
FairSpec == Spec /\ WF_vars(Graph) /\ WF_vars(steps >= RecursionLimit /\ Fault)

-----------------------------------------------------------------------------
(* Properties                                                              *)

Spoken == [text : Texts, call : (0..MaxRounds) \X (0..MaxCalls)]
LocalType == [at : Nat, answers : Seq(Message), texts : SUBSET Spoken, sent : BOOLEAN,
              wants : BOOLEAN, offloaded : BOOLEAN, untrusted : SUBSET CallIds,
              found : SUBSET CallIds]
Decision == {"allow", "external", "refuse"}
Keys == (0..MaxRounds) \X CallIds
Effect == [call : Keys, tool : EffectTools, source : {"inferred", "external"}]

(* The type invariant: the fields of AgentState, the graph's position and  *)
(* dispatch_tools' locals hold what graph/state.py says they hold.         *)
TypeOK ==
    /\ messages \in Seq(Message)
    /\ input_tokens \in Nat
    /\ heartbeat_count \in Nat
    /\ pending_tool_calls \in Seq(Kinds)
    /\ tool_decisions \in Seq(Decision)
    /\ final_reply \subseteq Spoken
    /\ last_text \in BOOLEAN
    /\ done \in BOOLEAN
    /\ saw_untrusted \in BOOLEAN
    /\ untrusted_results \subseteq CallIds
    /\ turn_findings \subseteq CallIds
    /\ needs_warning \in BOOLEAN
    /\ pc \in Nodes \cup {"idle", "suspended"}
    /\ steps \in Nat
    /\ local \in LocalType
    /\ result \in {"none", "replied", "failed"}
    /\ turns \in Nat
    /\ faults \in Nat
    /\ fetched \in BOOLEAN
    /\ shown \in BOOLEAN
    /\ granted \subseteq Keys
    /\ effects \subseteq Effect

(* Neither the model nor the fallback reply ever reads an untrusted result *)
(* sanitize_results has not rewritten (nodes.py, "what the model sees is   *)
(* only ever the sanitized copy").                                         *)
RawNeverRead ==
    pc \in {"call_llm", "respond"} =>
        \A i \in DOMAIN messages : messages[i].body # "raw"

(* The transcript a provider accepts: every tool message answers a call of *)
(* the assistant message it follows, and no call is left unanswered.       *)
AllTools(queue, from, to) == \A k \in from..to : queue[k].role = "tool"
TranscriptOK(queue) ==
    \A i \in DOMAIN queue :
        /\ queue[i].role = "tool" =>
              \E j \in 1..(i - 1) :
                  /\ queue[j].role = "assistant"
                  /\ queue[i].ids \subseteq queue[j].ids
                  /\ AllTools(queue, j + 1, i - 1)
        /\ queue[i].role = "assistant" =>
              \A id \in queue[i].ids : \E j \in (i + 1)..Len(queue) :
                  Answers(queue[j], id) /\ AllTools(queue, i + 1, j)

(* Whenever a provider is called, the queue is a transcript it accepts,    *)
(* through refusals, denials, evictions and resumptions.                   *)
TranscriptWellFormed == pc = "call_llm" => TranscriptOK(messages)

(* A gated write has happened only if the human approved that very call:   *)
(* an answer given in one round says nothing of another.                   *)
ApprovedWritesOnly == \A e \in effects : e.tool = "write" => e.call \in granted

(* Once the model has been shown an untrusted result, no call it makes in  *)
(* that turn changes core memory, and none enters archival memory but as   *)
(* external: the latch, the gate and the dispatcher agree across rounds    *)
(* and suspensions.                                                        *)
UntrustedStaysOut ==
    [][\A e \in effects' \ effects :
          shown => /\ e.tool # "core"
                   /\ e.tool = "insert" => e.source = "external"]_vars

(* step() never returns silence, and what it returns is what every         *)
(* send_message of the turn delivered, no call's text lost or made up,     *)
(* however many rounds the turn took.                                      *)
NoSilentTurn ==
    result = "replied" =>
        /\ NonBlank(final_reply) # {}
        /\ {r.call : r \in {r \in final_reply : r.text = "text"}}
              = {e.call : e \in {e \in effects : e.tool = "send"}}

(* A turn is warned of memory pressure at most once: between two warnings  *)
(* in the queue a user has spoken.                                         *)
OneWarningPerTurn ==
    \A i, j \in DOMAIN messages :
        /\ i < j
        /\ messages[i].body = "warning"
        /\ messages[j].body = "warning"
        => \E k \in i..j : messages[k] = UserMessage("plain")

(* The heartbeat counter, not graph.py's recursion limit, ends a turn: the *)
(* backstop is never reached, and a turn fails only if something broke.    *)
BackstopUnused == steps < RecursionLimit /\ (result = "failed" => faults > 0)

(* Every turn that is begun, or resumed, is answered or suspends, as long  *)
(* as nothing breaks.                                                      *)
TurnAnswered == (pc \in Nodes) ~> (pc = "suspended" \/ result = "replied")

(* Paging bounds the queue, whatever the model does about the warnings     *)
(* (nodes.py, "it cannot be contingent on the model doing as it is told"). *)
QueueBound == Limit + MaxCalls + 2
QueueBounded == Len(messages) <= QueueBound

(* The conversation as its user knows it.                                  *)
Contract == INSTANCE TurnContract WITH
    Calls <- Keys,
    Tools <- EffectTools,
    phase <- IF pc \in Nodes THEN "running"
             ELSE IF pc = "suspended" THEN "waiting" ELSE "idle",
    exposed <- shown,
    asked <- IF pc = "suspended"
             THEN {<<heartbeat_count, i>> : i \in AskedIds} ELSE {},
    granted <- granted,
    effects <- effects,
    result <- result

(* The turn graph implements TurnContract.                                 *)
ImplementsContract == Contract!Spec
=============================================================================
