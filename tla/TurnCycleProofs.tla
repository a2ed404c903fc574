-------------------------- MODULE TurnCycleProofs --------------------------
(***************************************************************************)
(* Proofs that the turn graph keeps its types, asks before it writes,      *)
(* keeps untrusted content out of core memory, and never shows the model   *)
(* a raw result while nothing fails.                                       *)
(***************************************************************************)
EXTENDS TurnCycle, SequenceTheorems, TLAPS

(* Where a turn is in its rounds.                                          *)
InRound == {"build_prompt", "pressure_check", "inject_warning", "call_llm",
            "security_gate", "suspended", "dispatch_tools"}

(* A round takes at most seven supersteps.                                 *)
StepsInv ==
    /\ pc = "build_prompt" => steps <= 7 * heartbeat_count
    /\ pc = "pressure_check" => steps <= 7 * heartbeat_count + 1
    /\ pc = "inject_warning" => steps <= 7 * heartbeat_count + 2
    /\ pc = "call_llm" => steps <= 7 * heartbeat_count + 3
    /\ pc = "security_gate" => steps <= 7 * heartbeat_count + 4
    /\ pc = "sanitize_results" => steps <= 7 * heartbeat_count - 1
    /\ steps <= 7 * heartbeat_count + 5
    /\ pc = "respond" => steps <= 7 * heartbeat_count + 4

RoundsInv ==
    /\ heartbeat_count <= MaxRounds
    /\ pc \in InRound => heartbeat_count < MaxRounds

FaultsInv ==
    /\ faults <= MaxFaults
    /\ result = "failed" => faults > 0

(* The calls under way, and how far dispatch_tools has come with them.     *)
CallsInv ==
    /\ Len(pending_tool_calls) <= MaxCalls
    /\ pc = "dispatch_tools" => Len(tool_decisions) = Len(pending_tool_calls)
    /\ pc # "dispatch_tools" => local = FreshLocal
    /\ pc = "dispatch_tools" => local.at \in 1..(Len(pending_tool_calls) + 1)

(* What the latch stands for.                                              *)
LatchInv ==
    /\ shown => fetched /\ saw_untrusted
    /\ pc \in Nodes \cup {"suspended"} /\ fetched =>
          \/ saw_untrusted
          \/ pc = "dispatch_tools" /\ local.untrusted # {}
          \/ pc = "sanitize_results" /\ untrusted_results # {}

(* The verdicts dispatch_tools relies on were given under the latch it has *)
(* now, and for the answer the human gave.                                 *)
DecidedInv ==
    pc = "dispatch_tools" =>
        \A i \in DOMAIN pending_tool_calls :
            /\ pending_tool_calls[i] = "core" /\ saw_untrusted => tool_decisions[i] = "refuse"
            /\ pending_tool_calls[i] = "insert" /\ saw_untrusted => tool_decisions[i] = "external"
            /\ pending_tool_calls[i] = "write" /\ tool_decisions[i] # "refuse" =>
                  <<heartbeat_count, i>> \in granted
            /\ pending_tool_calls[i] = "escape" => tool_decisions[i] = "refuse"

(* A raw result stays within reach of sanitize_results.                    *)
RawInv ==
    /\ \A i \in DOMAIN local.answers : local.answers[i].body = "raw" =>
          local.answers[i].role = "tool" /\ local.answers[i].ids \cap local.untrusted # {}
    /\ MaxFaults = 0 =>
          \A i \in DOMAIN messages : messages[i].body = "raw" =>
              /\ pc = "sanitize_results"
              /\ messages[i].role = "tool"
              /\ messages[i].ids \cap untrusted_results # {}

(* The effects of this turn are of earlier rounds, or of the calls         *)
(* dispatch_tools is past: the call it is at has had none.                 *)
EffectsInv ==
    pc \in Nodes \cup {"suspended"} =>
        \A e \in effects :
            \/ e.call[1] < heartbeat_count
            \/ /\ pc = "dispatch_tools"
               /\ e.call[1] = heartbeat_count
               /\ e.call[2] < local.at

(* The reply in the making holds what send_message delivered so far.       *)
TextCalls(replies) == {r.call : r \in {r \in replies : r.text = "text"}}
SendCalls == {e.call : e \in {e \in effects : e.tool = "send"}}
SaidInv ==
    /\ pc \in Nodes \cup {"suspended"} =>
          /\ result = "none"
          /\ TextCalls(final_reply \cup local.texts) = SendCalls
    /\ result = "replied" =>
          NonBlank(final_reply) # {} /\ TextCalls(final_reply) = SendCalls

IInv ==
    /\ TypeOK
    /\ RoundsInv
    /\ StepsInv
    /\ FaultsInv
    /\ CallsInv
    /\ LatchInv
    /\ DecidedInv
    /\ RawInv
    /\ ApprovedWritesOnly
    /\ EffectsInv
    /\ SaidInv

-----------------------------------------------------------------------------
(* Sequences of messages                                                   *)

(* Every element of what remains after an eviction was in the queue, but   *)
(* for the notice.                                                         *)
LEMMA RetainedElements ==
    ASSUME NEW queue \in Seq(Message), NEW cut \in 1..(Len(queue) - 1)
    PROVE  /\ Retained(queue, cut) \in Seq(Message)
           /\ \A i \in DOMAIN Retained(queue, cut) :
                 \/ Retained(queue, cut)[i] = UserMessage("notice")
                 \/ \E j \in DOMAIN queue : Retained(queue, cut)[i] = queue[j]
<1> DEFINE head == <<UserMessage("notice")>>
           rest == SubSeq(queue, cut + 1, Len(queue))
<1>1. head \in Seq(Message) /\ Len(head) = 1 /\ head[1] = UserMessage("notice")
  BY DEF UserMessage, Message, Bodies
<1>2. /\ rest \in Seq(Message)
      /\ Len(rest) = Len(queue) - cut
      /\ \A i \in 1..Len(rest) : rest[i] = queue[cut + i]
  <2>1. Len(queue) \in Nat /\ \A i \in (cut + 1)..Len(queue) : queue[i] \in Message
    OBVIOUS
  <2>2. /\ rest \in Seq(Message)
        /\ Len(rest) = IF cut + 1 <= Len(queue) THEN Len(queue) - (cut + 1) + 1 ELSE 0
        /\ \A i \in 1..(Len(queue) - (cut + 1) + 1) : rest[i] = queue[cut + 1 + i - 1]
    BY <2>1, SubSeqProperties
  <2> QED  BY <2>1, <2>2
<1> HIDE DEF head, rest
<1>3. /\ head \o rest \in Seq(Message)
      /\ Len(head \o rest) = 1 + Len(rest)
      /\ \A i \in 1..(1 + Len(rest)) :
            (head \o rest)[i] = IF i <= 1 THEN head[i] ELSE rest[i - 1]
  <2>1. /\ head \o rest \in Seq(Message)
        /\ Len(head \o rest) = Len(head) + Len(rest)
        /\ \A i \in 1..(Len(head) + Len(rest)) :
              (head \o rest)[i] = IF i <= Len(head) THEN head[i] ELSE rest[i - Len(head)]
    BY <1>1, <1>2, ConcatProperties
  <2> QED  BY <1>1, <2>1
<1>4. ASSUME NEW i \in 1..(1 + Len(rest))
      PROVE  \/ (head \o rest)[i] = UserMessage("notice")
             \/ \E j \in DOMAIN queue : (head \o rest)[i] = queue[j]
  <2>1. CASE i = 1
    BY <2>1, <1>1, <1>3
  <2>2. CASE i # 1
    <3>1. Len(rest) \in Nat /\ i - 1 \in 1..Len(rest)
      BY <2>2, <1>2
    <3>2. (head \o rest)[i] = rest[i - 1]
      BY <2>2, <1>3
    <3>3. rest[i - 1] = queue[cut + (i - 1)]
      BY <3>1, <1>2
    <3>4. cut + (i - 1) \in DOMAIN queue
      BY <3>1, <1>2
    <3> QED  BY <3>2, <3>3, <3>4
  <2> QED  BY <2>1, <2>2
<1> QED  BY <1>3, <1>4 DEF Retained, head, rest
-----------------------------------------------------------------------------
(* The inductive step, one conjunct of the invariant at a time             *)

(* An element of a concatenation comes from either part.                   *)
LEMMA ConcatElements ==
    ASSUME NEW S, NEW s \in Seq(S), NEW t \in Seq(S)
    PROVE  /\ s \o t \in Seq(S)
           /\ \A i \in DOMAIN (s \o t) :
                 \/ \E j \in DOMAIN s : (s \o t)[i] = s[j]
                 \/ \E j \in DOMAIN t : (s \o t)[i] = t[j]
<1>1. /\ s \o t \in Seq(S)
      /\ Len(s \o t) = Len(s) + Len(t)
      /\ \A i \in 1..(Len(s) + Len(t)) :
            (s \o t)[i] = IF i <= Len(s) THEN s[i] ELSE t[i - Len(s)]
  BY ConcatProperties
<1>2. ASSUME NEW i \in 1..(Len(s) + Len(t))
      PROVE  \/ \E j \in DOMAIN s : (s \o t)[i] = s[j]
             \/ \E j \in DOMAIN t : (s \o t)[i] = t[j]
  <2>1. CASE i <= Len(s)
    BY <2>1, <1>1
  <2>2. CASE ~(i <= Len(s))
    <3>1. (s \o t)[i] = t[i - Len(s)] /\ i - Len(s) \in 1..Len(t)
      BY <2>2, <1>1
    <3> QED  BY <3>1
  <2> QED  BY <2>1, <2>2
<1> QED  BY <1>1, <1>2

(* What the commit of a round may leave in the queue.                      *)
LEMMA CommitQueue ==
    ASSUME TypeOK, DispatchCommit
    PROVE  /\ messages' \in Seq(Message)
           /\ input_tokens' \in Nat
           /\ \A i \in DOMAIN messages' :
                 \/ messages'[i] = UserMessage("notice")
                 \/ \E j \in DOMAIN messages : messages'[i] = messages[j]
                 \/ \E j \in DOMAIN local.answers : messages'[i] = local.answers[j]
<1> DEFINE queue == messages \o local.answers
<1>1. messages \in Seq(Message) /\ local.answers \in Seq(Message) /\ input_tokens \in Nat
  BY DEF TypeOK, LocalType
<1>2. /\ queue \in Seq(Message)
      /\ \A i \in DOMAIN queue :
            \/ \E j \in DOMAIN messages : queue[i] = messages[j]
            \/ \E j \in DOMAIN local.answers : queue[i] = local.answers[j]
  BY <1>1, ConcatElements
<1>3. \/ Evict(queue)
      \/ messages' = queue /\ UNCHANGED input_tokens
  BY DEF DispatchCommit
<1> HIDE DEF queue
<1>4. CASE messages' = queue /\ UNCHANGED input_tokens
  BY <1>1, <1>2, <1>4
<1>5. CASE Evict(queue)
  <2>1. PICK cut \in (Len(queue) \div 2)..Len(queue) :
           IF Len(queue) < MinMessages \/ cut <= 0 \/ cut >= Len(queue)
           THEN messages' = queue /\ UNCHANGED input_tokens
           ELSE messages' = Retained(queue, cut) /\ input_tokens' = Len(messages') + 1
    BY <1>5 DEF Evict
  <2>2. CASE Len(queue) < MinMessages \/ cut <= 0 \/ cut >= Len(queue)
    BY <1>1, <1>2, <2>1, <2>2
  <2>3. CASE ~(Len(queue) < MinMessages \/ cut <= 0 \/ cut >= Len(queue))
    <3>1. Len(queue) \in Nat /\ Len(queue) \div 2 \in Nat
      BY <1>2
    <3>2. cut \in 1..(Len(queue) - 1)
      BY <2>3, <3>1
    <3>3. messages' = Retained(queue, cut) /\ input_tokens' = Len(messages') + 1
      BY <2>1, <2>3
    <3>4. messages' \in Seq(Message)
      BY <1>2, <3>2, <3>3, RetainedElements
    <3>5. \A i \in DOMAIN messages' :
             \/ messages'[i] = UserMessage("notice")
             \/ \E j \in DOMAIN queue : messages'[i] = queue[j]
      BY <1>2, <3>2, <3>3, RetainedElements
    <3>6. input_tokens' \in Nat
      BY <3>3, <3>4
    <3> QED  BY <1>2, <3>4, <3>5, <3>6
  <2> QED  BY <2>2, <2>3
<1> QED  BY <1>3, <1>4, <1>5

(* A model call is one ModelAnswers step with a bounded number of calls.   *)
LEMMA CallLLMAnswers ==
    ASSUME CallLLM
    PROVE  \E calls \in Seq(Kinds), prose \in BOOLEAN :
              Len(calls) <= MaxCalls /\ ModelAnswers(calls, prose)
<1>1. CASE \E n \in 1..MaxCalls : \E calls \in [1..n -> Kinds], prose \in BOOLEAN :
              ModelAnswers(calls, prose)
  <2> PICK n \in 1..MaxCalls : \E calls \in [1..n -> Kinds], prose \in BOOLEAN :
         ModelAnswers(calls, prose)
    BY <1>1
  <2>1. PICK calls \in [1..n -> Kinds], prose \in BOOLEAN : ModelAnswers(calls, prose)
    OBVIOUS
  <2>2. calls \in Seq(Kinds) /\ Len(calls) = n /\ n <= MaxCalls
    BY BoundsAssumption
  <2> QED  BY <2>1, <2>2
<1>2. CASE \E prose \in BOOLEAN : ModelAnswers(<<>>, prose)
  <2>1. PICK prose \in BOOLEAN : ModelAnswers(<<>>, prose)
    BY <1>2
  <2>2. <<>> \in Seq(Kinds) /\ Len(<<>>) <= MaxCalls
    BY BoundsAssumption
  <2> QED  BY <2>1, <2>2
<1> QED  BY <1>1, <1>2 DEF CallLLM

(* A fault is one of the bounded ones: the recursion limit is not reached. *)
LEMMA FaultNeedsBound ==
    ASSUME IInv, Fault
    PROVE  faults < MaxFaults /\ MaxFaults # 0
<1>1. /\ heartbeat_count \in Nat /\ steps \in Nat /\ faults \in Nat /\ MaxFaults \in Nat
      /\ MaxRounds \in Nat \ {0}
      /\ steps < RecursionLimit
  BY BoundsAssumption DEF IInv, TypeOK, RoundsInv, StepsInv, MaxRounds,
     RecursionLimit
<1>2. faults < MaxFaults \/ steps >= RecursionLimit
  BY DEF Fault
<1>3. RecursionLimit \in Nat
  BY <1>1 DEF RecursionLimit
<1> QED  BY <1>1, <1>2, <1>3

(* The messages the nodes make are messages.                               *)
LEMMA MessageTypes ==
    ASSUME NEW body \in Bodies
    PROVE  /\ UserMessage(body) \in Message
           /\ \A id \in CallIds : ToolMessage(id, body) \in Message
BY DEF UserMessage, ToolMessage, Message

(* dispatch_tools begins with locals of their type.                        *)
LEMMA FreshLocalType == FreshLocal \in LocalType
BY DEF FreshLocal, LocalType

(* While a round is under way, its number is one a reply or a call can bear. *)
LEMMA RoundKeys ==
    ASSUME IInv, pc \in InRound
    PROVE  /\ heartbeat_count \in 0..MaxRounds
           /\ \A text \in Texts, at \in 0..MaxCalls : Said(text, at) \in Spoken
<1>1. heartbeat_count \in 0..MaxRounds
  BY BoundsAssumption DEF IInv, TypeOK, RoundsInv, MaxRounds
<1> QED  BY <1>1 DEF Said, Spoken

(* The call dispatch_tools is at is one of the response.                   *)
LEMMA CallInBounds ==
    ASSUME IInv, pc = "dispatch_tools", local.at <= Len(pending_tool_calls)
    PROVE  /\ local.at \in CallIds
           /\ CallKey \in Keys
           /\ \A text \in Texts : Said(text, local.at) \in Spoken
<1>1. local.at \in CallIds /\ local.at \in 0..MaxCalls
  BY BoundsAssumption DEF IInv, TypeOK, LocalType, CallsInv, CallIds
<1>2. heartbeat_count \in 0..MaxRounds
  BY RoundKeys DEF InRound
<1> QED  BY <1>1, <1>2, RoundKeys DEF CallKey, Keys, InRound

(* ... and answering it keeps the locals of dispatch_tools typed.           *)
LEMMA AnsweredType ==
    ASSUME IInv, pc = "dispatch_tools", local.at <= Len(pending_tool_calls),
           NEW body \in Bodies
    PROVE  Answered(body) \in LocalType
<1>1. ToolMessage(local.at, body) \in Message
  BY MessageTypes, CallInBounds
<1>2. local \in LocalType /\ local.at + 1 \in Nat
  BY DEF IInv, TypeOK, LocalType
<1>3. Append(local.answers, ToolMessage(local.at, body)) \in Seq(Message)
  BY <1>1, <1>2 DEF LocalType
<1> QED  BY <1>2, <1>3 DEF Answered, LocalType

(* The verdicts, once answered, are decisions.                             *)
LEMMA DecisionsType ==
    ASSUME IInv, NEW approved \in BOOLEAN
    PROVE  Decisions(approved) \in Seq(Decision)
<1>1. pending_tool_calls \in Seq(Kinds)
  BY DEF IInv, TypeOK
<1>2. \A i \in DOMAIN pending_tool_calls : Decisions(approved)[i] \in Decision
  BY DEF Decisions, Verdicts, Verdict, Decision
<1> QED  BY <1>1, <1>2 DEF Decisions

(* A turn fails only if something broke: the recursion limit is not met.   *)
LEMMA FaultsStep ==
    ASSUME IInv, [Next]_vars
    PROVE  FaultsInv'
<1>0. heartbeat_count \in Nat /\ steps \in Nat /\ faults \in Nat /\ MaxFaults \in Nat
      /\ MaxRounds \in Nat \ {0}
      /\ FaultsInv /\ RecursionLimit \in Nat /\ steps < RecursionLimit
  BY BoundsAssumption DEF IInv, TypeOK, RoundsInv, StepsInv, MaxRounds,
     RecursionLimit
<1>1. CASE Step
  BY <1>1, <1>0 DEF Step, FaultsInv
<1>2. CASE BuildPrompt
  BY <1>2, <1>0 DEF BuildPrompt, Advance, FaultsInv
<1>3. CASE PressureCheck
  BY <1>3, <1>0 DEF PressureCheck, Advance, FaultsInv
<1>4. CASE InjectWarning
  BY <1>4, <1>0 DEF InjectWarning, Advance, FaultsInv
<1>5. CASE CallLLM
  BY <1>5, <1>0, CallLLMAnswers DEF ModelAnswers, FaultsInv
<1>6. CASE ProvidersExhausted
  BY <1>6, <1>0 DEF ProvidersExhausted, Advance, FaultsInv
<1>7. CASE SecurityGate
  BY <1>7, <1>0 DEF SecurityGate, Advance, GateUnchanged, FaultsInv
<1>8. CASE Suspend
  BY <1>8, <1>0 DEF Suspend, Advance, GateUnchanged, FaultsInv
<1>9. CASE DispatchRefused
  BY <1>9, <1>0 DEF DispatchRefused, DispatchUnchanged, FaultsInv
<1>10. CASE DispatchSend
  BY <1>10, <1>0 DEF DispatchSend, DispatchUnchanged, FaultsInv
<1>11. CASE DispatchExternal
  BY <1>11, <1>0 DEF DispatchExternal, DispatchUnchanged, FaultsInv
<1>12. CASE DispatchMemory
  BY <1>12, <1>0 DEF DispatchMemory, DispatchUnchanged, FaultsInv
<1>13. CASE DispatchCommit
  BY <1>13, <1>0 DEF DispatchCommit, Advance, FaultsInv
<1>14. CASE SanitizeResults
  BY <1>14, <1>0 DEF SanitizeResults, Advance, FaultsInv
<1>15. CASE Respond
  BY <1>15, <1>0 DEF Respond, Advance, FaultsInv
<1>16. ASSUME NEW approved \in BOOLEAN, Resume(approved)
       PROVE  FaultsInv'
  BY <1>16, <1>0 DEF Resume, GateUnchanged, FaultsInv
<1>17. CASE Fault
  BY <1>17, <1>0 DEF Fault, FaultsInv
<1>18. CASE Reset
  BY <1>18, <1>0 DEF Reset, FaultsInv
<1>19. CASE UNCHANGED vars
  BY <1>19, <1>0 DEF vars, FaultsInv
<1> QED
  BY <1>1, <1>2, <1>3, <1>4, <1>5, <1>6, <1>7, <1>8, <1>9, <1>10, <1>11, <1>12,
     <1>13, <1>14, <1>15, <1>16, <1>17, <1>18, <1>19 DEF Next, Graph, Dispatch

(* dispatch_tools counts the round, and route_heartbeat stops at the cap.  *)
LEMMA RoundsStep ==
    ASSUME IInv, [Next]_vars
    PROVE  RoundsInv'
<1>0. heartbeat_count \in Nat /\ MaxRounds \in Nat \ {0} /\ MaxHeartbeats \in Nat
      /\ (heartbeat_count < MaxHeartbeats => heartbeat_count < MaxRounds)
      /\ RoundsInv
  BY BoundsAssumption DEF IInv, TypeOK, MaxRounds
<1>1. CASE Step
  BY <1>1, <1>0 DEF Step, RoundsInv, InRound
<1>2. CASE BuildPrompt
  BY <1>2, <1>0 DEF BuildPrompt, Advance, ckpt, RoundsInv, InRound
<1>3. CASE PressureCheck
  BY <1>3, <1>0 DEF PressureCheck, Advance, RoundsInv, InRound
<1>4. CASE InjectWarning
  BY <1>4, <1>0 DEF InjectWarning, Advance, RoundsInv, InRound
<1>5. CASE CallLLM
  BY <1>5, <1>0, CallLLMAnswers DEF ModelAnswers, Advance, RoundsInv, InRound
<1>6. CASE ProvidersExhausted
  BY <1>6, <1>0 DEF ProvidersExhausted, Advance, RoundsInv, InRound
<1>7. CASE SecurityGate
  BY <1>7, <1>0 DEF SecurityGate, Advance, GateUnchanged, RoundsInv, InRound
<1>8. CASE Suspend
  BY <1>8, <1>0 DEF Suspend, Advance, GateUnchanged, RoundsInv, InRound
<1>9. CASE DispatchRefused
  BY <1>9, <1>0 DEF DispatchRefused, DispatchUnchanged, ckpt, RoundsInv, InRound
<1>10. CASE DispatchSend
  BY <1>10, <1>0 DEF DispatchSend, DispatchUnchanged, ckpt, RoundsInv, InRound
<1>11. CASE DispatchExternal
  BY <1>11, <1>0 DEF DispatchExternal, DispatchUnchanged, ckpt, RoundsInv, InRound
<1>12. CASE DispatchMemory
  BY <1>12, <1>0 DEF DispatchMemory, DispatchUnchanged, ckpt, RoundsInv, InRound
<1>13. CASE DispatchCommit
  BY <1>13, <1>0 DEF DispatchCommit, Advance, NextHeartbeat, RoundsInv, InRound
<1>14. CASE SanitizeResults
  BY <1>14, <1>0 DEF SanitizeResults, Advance, RouteHeartbeat, RoundsInv, InRound
<1>15. CASE Respond
  BY <1>15, <1>0 DEF Respond, Advance, RoundsInv, InRound
<1>16. ASSUME NEW approved \in BOOLEAN, Resume(approved)
       PROVE  RoundsInv'
  BY <1>16, <1>0 DEF Resume, GateUnchanged, RoundsInv, InRound
<1>17. CASE Fault
  BY <1>17, <1>0 DEF Fault, ckpt, RoundsInv, InRound
<1>18. CASE Reset
  BY <1>18, <1>0 DEF Reset, RoundsInv, InRound
<1>19. CASE UNCHANGED vars
  BY <1>19, <1>0 DEF vars, ckpt, RoundsInv, InRound
<1> QED
  BY <1>1, <1>2, <1>3, <1>4, <1>5, <1>6, <1>7, <1>8, <1>9, <1>10, <1>11, <1>12,
     <1>13, <1>14, <1>15, <1>16, <1>17, <1>18, <1>19 DEF Next, Graph, Dispatch

(* A round takes at most seven supersteps.                                 *)
LEMMA StepsStep ==
    ASSUME IInv, [Next]_vars
    PROVE  StepsInv'
<1>0. heartbeat_count \in Nat /\ steps \in Nat /\ StepsInv
  BY DEF IInv, TypeOK
<1>1. CASE Step
  BY <1>1, <1>0 DEF Step, StepsInv
<1>2. CASE BuildPrompt
  BY <1>2, <1>0 DEF BuildPrompt, Advance, ckpt, StepsInv
<1>3. CASE PressureCheck
  BY <1>3, <1>0 DEF PressureCheck, Advance, StepsInv
<1>4. CASE InjectWarning
  BY <1>4, <1>0 DEF InjectWarning, Advance, StepsInv
<1>5. CASE CallLLM
  BY <1>5, <1>0, CallLLMAnswers DEF ModelAnswers, Advance, StepsInv
<1>6. CASE ProvidersExhausted
  BY <1>6, <1>0 DEF ProvidersExhausted, Advance, StepsInv
<1>7. CASE SecurityGate
  BY <1>7, <1>0 DEF SecurityGate, Advance, GateUnchanged, StepsInv
<1>8. CASE Suspend
  BY <1>8, <1>0 DEF Suspend, Advance, GateUnchanged, StepsInv
<1>9. CASE DispatchRefused
  BY <1>9, <1>0 DEF DispatchRefused, DispatchUnchanged, ckpt, StepsInv
<1>10. CASE DispatchSend
  BY <1>10, <1>0 DEF DispatchSend, DispatchUnchanged, ckpt, StepsInv
<1>11. CASE DispatchExternal
  BY <1>11, <1>0 DEF DispatchExternal, DispatchUnchanged, ckpt, StepsInv
<1>12. CASE DispatchMemory
  BY <1>12, <1>0 DEF DispatchMemory, DispatchUnchanged, ckpt, StepsInv
<1>13. CASE DispatchCommit
  BY <1>13, <1>0 DEF DispatchCommit, Advance, NextHeartbeat, StepsInv
<1>14. CASE SanitizeResults
  BY <1>14, <1>0 DEF SanitizeResults, Advance, RouteHeartbeat, StepsInv
<1>15. CASE Respond
  BY <1>15, <1>0 DEF Respond, Advance, StepsInv
<1>16. ASSUME NEW approved \in BOOLEAN, Resume(approved)
       PROVE  StepsInv'
  BY <1>16, <1>0 DEF Resume, GateUnchanged, StepsInv
<1>17. CASE Fault
  BY <1>17, <1>0 DEF Fault, ckpt, StepsInv
<1>18. CASE Reset
  BY <1>18, <1>0 DEF Reset, StepsInv
<1>19. CASE UNCHANGED vars
  BY <1>19, <1>0 DEF vars, ckpt, StepsInv
<1> QED
  BY <1>1, <1>2, <1>3, <1>4, <1>5, <1>6, <1>7, <1>8, <1>9, <1>10, <1>11, <1>12,
     <1>13, <1>14, <1>15, <1>16, <1>17, <1>18, <1>19 DEF Next, Graph, Dispatch

(* dispatch_tools takes up every call, once each, in order.                *)
LEMMA CallsStep ==
    ASSUME IInv, [Next]_vars
    PROVE  CallsInv'
<1>0. /\ pending_tool_calls \in Seq(Kinds) /\ local \in LocalType
      /\ MaxCalls \in Nat \ {0} /\ CallsInv /\ FreshLocal.at = 1
  BY BoundsAssumption DEF IInv, TypeOK, FreshLocal
<1>1. CASE Step
  BY <1>1, <1>0 DEF Step, CallsInv
<1>2. CASE BuildPrompt
  BY <1>2, <1>0 DEF BuildPrompt, Advance, ckpt, CallsInv
<1>3. CASE PressureCheck
  BY <1>3, <1>0 DEF PressureCheck, Advance, CallsInv
<1>4. CASE InjectWarning
  BY <1>4, <1>0 DEF InjectWarning, Advance, CallsInv
<1>5. CASE CallLLM
  BY <1>5, <1>0, CallLLMAnswers DEF ModelAnswers, Advance, CallsInv
<1>6. CASE ProvidersExhausted
  BY <1>6, <1>0 DEF ProvidersExhausted, Advance, CallsInv
<1>7. CASE SecurityGate
  BY <1>7, <1>0 DEF SecurityGate, Advance, GateUnchanged, Decisions, CallsInv
<1>8. CASE Suspend
  BY <1>8, <1>0 DEF Suspend, Advance, GateUnchanged, CallsInv
<1>9. CASE DispatchRefused
  BY <1>9, <1>0 DEF DispatchRefused, DispatchUnchanged, HasCall, Answered, ckpt,
     LocalType, CallsInv
<1>10. CASE DispatchSend
  BY <1>10, <1>0 DEF DispatchSend, DispatchUnchanged, HasCall, Answered, ckpt,
     LocalType, CallsInv
<1>11. CASE DispatchExternal
  BY <1>11, <1>0 DEF DispatchExternal, DispatchUnchanged, HasCall, Answered, ckpt,
     LocalType, CallsInv
<1>12. CASE DispatchMemory
  BY <1>12, <1>0 DEF DispatchMemory, DispatchUnchanged, HasCall, Answered, ckpt,
     LocalType, CallsInv
<1>13. CASE DispatchCommit
  BY <1>13, <1>0 DEF DispatchCommit, Advance, CallsInv
<1>14. CASE SanitizeResults
  BY <1>14, <1>0 DEF SanitizeResults, Advance, RouteHeartbeat, CallsInv
<1>15. CASE Respond
  BY <1>15, <1>0 DEF Respond, Advance, CallsInv
<1>16. ASSUME NEW approved \in BOOLEAN, Resume(approved)
       PROVE  CallsInv'
  BY <1>16, <1>0 DEF Resume, GateUnchanged, Decisions, CallsInv
<1>17. CASE Fault
  BY <1>17, <1>0 DEF Fault, ckpt, CallsInv
<1>18. CASE Reset
  BY <1>18, <1>0 DEF Reset, CallsInv
<1>19. CASE UNCHANGED vars
  BY <1>19, <1>0 DEF vars, ckpt, CallsInv
<1> QED
  BY <1>1, <1>2, <1>3, <1>4, <1>5, <1>6, <1>7, <1>8, <1>9, <1>10, <1>11, <1>12,
     <1>13, <1>14, <1>15, <1>16, <1>17, <1>18, <1>19 DEF Next, Graph, Dispatch

(* sanitize_results latches what dispatch_tools has fetched.               *)
LEMMA LatchStep ==
    ASSUME IInv, [Next]_vars
    PROVE  LatchInv'
<1>0. /\ local \in LocalType /\ LatchInv /\ fetched \in BOOLEAN /\ shown \in BOOLEAN
      /\ saw_untrusted \in BOOLEAN
  BY DEF IInv, TypeOK
<1>1. CASE Step
  BY <1>1, <1>0 DEF Step, LatchInv, Nodes
<1>2. CASE BuildPrompt
  BY <1>2, <1>0 DEF BuildPrompt, Advance, ckpt, history, LatchInv, Nodes
<1>3. CASE PressureCheck
  BY <1>3, <1>0 DEF PressureCheck, Advance, history, LatchInv, Nodes
<1>4. CASE InjectWarning
  BY <1>4, <1>0 DEF InjectWarning, Advance, history, LatchInv, Nodes
<1>5. CASE CallLLM
  BY <1>5, <1>0, CallLLMAnswers DEF ModelAnswers, Advance, LatchInv, Nodes
<1>6. CASE ProvidersExhausted
  BY <1>6, <1>0 DEF ProvidersExhausted, Advance, history, LatchInv, Nodes
<1>7. CASE SecurityGate
  BY <1>7, <1>0 DEF SecurityGate, Advance, GateUnchanged, LatchInv, Nodes
<1>8. CASE Suspend
  BY <1>8, <1>0 DEF Suspend, Advance, GateUnchanged, LatchInv, Nodes
<1>9. CASE DispatchRefused
  BY <1>9, <1>0 DEF DispatchRefused, DispatchUnchanged, HasCall, Answered, ckpt,
     LocalType, LatchInv, Nodes
<1>10. CASE DispatchSend
  BY <1>10, <1>0 DEF DispatchSend, DispatchUnchanged, HasCall, Answered, ckpt,
     LocalType, LatchInv, Nodes
<1>11. CASE DispatchExternal
  <2>1. CASE Untrusted(Current)
    BY <1>11, <1>0, <2>1 DEF DispatchExternal, DispatchUnchanged, HasCall, Answered,
       ckpt, LatchInv,
       Nodes, LocalType
  <2>2. CASE ~Untrusted(Current)
    BY <1>11, <1>0, <2>2 DEF DispatchExternal, DispatchUnchanged, HasCall, Answered,
       ckpt, LatchInv,
       Nodes, LocalType
  <2> QED  BY <2>1, <2>2
<1>12. CASE DispatchMemory
  BY <1>12, <1>0 DEF DispatchMemory, DispatchUnchanged, HasCall, Answered, ckpt,
     LocalType, LatchInv, Nodes
<1>13. CASE DispatchCommit
  BY <1>13, <1>0 DEF DispatchCommit, Advance, history, LatchInv, Nodes
<1>14. CASE SanitizeResults
  BY <1>14, <1>0 DEF SanitizeResults, Advance, history, RouteHeartbeat, LatchInv,
     Nodes
<1>15. CASE Respond
  BY <1>15, <1>0 DEF Respond, Advance, history, LatchInv, Nodes
<1>16. ASSUME NEW approved \in BOOLEAN, Resume(approved)
       PROVE  LatchInv'
  BY <1>16, <1>0 DEF Resume, GateUnchanged, LatchInv, Nodes
<1>17. CASE Fault
  BY <1>17, <1>0 DEF Fault, ckpt, history, LatchInv, Nodes
<1>18. CASE Reset
  BY <1>18, <1>0 DEF Reset, LatchInv, Nodes
<1>19. CASE UNCHANGED vars
  BY <1>19, <1>0 DEF vars, ckpt, history, LatchInv, Nodes
<1> QED
  BY <1>1, <1>2, <1>3, <1>4, <1>5, <1>6, <1>7, <1>8, <1>9, <1>10, <1>11, <1>12,
     <1>13, <1>14, <1>15, <1>16, <1>17, <1>18, <1>19 DEF Next, Graph, Dispatch

(* The verdicts are as old as the latch they were given under.             *)
LEMMA DecidedStep ==
    ASSUME IInv, [Next]_vars
    PROVE  DecidedInv'
<1>0. /\ pending_tool_calls \in Seq(Kinds) /\ DecidedInv /\ granted \subseteq Keys
      /\ saw_untrusted \in BOOLEAN
  BY DEF IInv, TypeOK
<1>1. CASE Step
  BY <1>1, <1>0 DEF Step, DecidedInv
<1>2. CASE BuildPrompt
  BY <1>2, <1>0 DEF BuildPrompt, Advance, ckpt, history, DecidedInv
<1>3. CASE PressureCheck
  BY <1>3, <1>0 DEF PressureCheck, Advance, history, DecidedInv
<1>4. CASE InjectWarning
  BY <1>4, <1>0 DEF InjectWarning, Advance, history, DecidedInv
<1>5. CASE CallLLM
  BY <1>5, <1>0, CallLLMAnswers DEF ModelAnswers, Advance, DecidedInv
<1>6. CASE ProvidersExhausted
  BY <1>6, <1>0 DEF ProvidersExhausted, Advance, history, DecidedInv
<1>7. CASE SecurityGate
  BY <1>7, <1>0 DEF SecurityGate, Advance, GateUnchanged, Decisions, Verdicts,
     Verdict, Gated, AskedIds, DecidedInv
<1>8. CASE Suspend
  BY <1>8, <1>0 DEF Suspend, Advance, GateUnchanged, DecidedInv
<1>9. CASE DispatchRefused
  BY <1>9, <1>0 DEF DispatchRefused, DispatchUnchanged, HasCall, ckpt, DecidedInv
<1>10. CASE DispatchSend
  BY <1>10, <1>0 DEF DispatchSend, DispatchUnchanged, HasCall, ckpt, DecidedInv
<1>11. CASE DispatchExternal
  BY <1>11, <1>0 DEF DispatchExternal, DispatchUnchanged, HasCall, ckpt, DecidedInv
<1>12. CASE DispatchMemory
  BY <1>12, <1>0 DEF DispatchMemory, DispatchUnchanged, HasCall, ckpt, DecidedInv
<1>13. CASE DispatchCommit
  BY <1>13, <1>0 DEF DispatchCommit, Advance, history, DecidedInv
<1>14. CASE SanitizeResults
  BY <1>14, <1>0 DEF SanitizeResults, Advance, history, RouteHeartbeat, DecidedInv
<1>15. CASE Respond
  BY <1>15, <1>0 DEF Respond, Advance, history, DecidedInv
<1>16. ASSUME NEW approved \in BOOLEAN, Resume(approved)
       PROVE  DecidedInv'
  BY <1>16, <1>0 DEF Resume, GateUnchanged, Decisions, Verdicts, Verdict, Gated,
     AskedIds, DecidedInv
<1>17. CASE Fault
  BY <1>17, <1>0 DEF Fault, ckpt, history, DecidedInv
<1>18. CASE Reset
  BY <1>18, <1>0 DEF Reset, DecidedInv
<1>19. CASE UNCHANGED vars
  BY <1>19, <1>0 DEF vars, ckpt, history, DecidedInv
<1> QED
  BY <1>1, <1>2, <1>3, <1>4, <1>5, <1>6, <1>7, <1>8, <1>9, <1>10, <1>11, <1>12,
     <1>13, <1>14, <1>15, <1>16, <1>17, <1>18, <1>19 DEF Next, Graph, Dispatch

(* A write that is dispatched was approved, in this very round.            *)
LEMMA GrantStep ==
    ASSUME IInv, [Next]_vars
    PROVE  ApprovedWritesOnly'
<1>0. /\ pending_tool_calls \in Seq(Kinds) /\ ApprovedWritesOnly /\ DecidedInv /\ CallsInv
      /\ local \in LocalType
  BY DEF IInv, TypeOK
<1>1. CASE Step
  BY <1>1, <1>0 DEF Step, ApprovedWritesOnly
<1>2. CASE BuildPrompt
  BY <1>2, <1>0 DEF BuildPrompt, Advance, ckpt, history, ApprovedWritesOnly
<1>3. CASE PressureCheck
  BY <1>3, <1>0 DEF PressureCheck, Advance, history, ApprovedWritesOnly
<1>4. CASE InjectWarning
  BY <1>4, <1>0 DEF InjectWarning, Advance, history, ApprovedWritesOnly
<1>5. CASE CallLLM
  BY <1>5, <1>0, CallLLMAnswers DEF ModelAnswers, Advance, ApprovedWritesOnly
<1>6. CASE ProvidersExhausted
  BY <1>6, <1>0 DEF ProvidersExhausted, Advance, history, ApprovedWritesOnly
<1>7. CASE SecurityGate
  BY <1>7, <1>0 DEF SecurityGate, Advance, GateUnchanged, ApprovedWritesOnly
<1>8. CASE Suspend
  BY <1>8, <1>0 DEF Suspend, Advance, GateUnchanged, ApprovedWritesOnly
<1>9. CASE DispatchRefused
  BY <1>9, <1>0 DEF DispatchRefused, DispatchUnchanged, HasCall, Current, ckpt,
     ApprovedWritesOnly
<1>10. CASE DispatchSend
  BY <1>10, <1>0 DEF DispatchSend, DispatchUnchanged, HasCall, Current, ckpt,
     Performed, CallKey, DecidedInv, CallsInv, External, ApprovedWritesOnly
<1>11. CASE DispatchExternal
  BY <1>11, <1>0 DEF DispatchExternal, DispatchUnchanged, HasCall, Current, ckpt,
     Performed, CallKey, DecidedInv, CallsInv, External, ApprovedWritesOnly
<1>12. CASE DispatchMemory
  BY <1>12, <1>0 DEF DispatchMemory, DispatchUnchanged, HasCall, Current, ckpt,
     Performed, CallKey, DecidedInv, CallsInv, External, ApprovedWritesOnly
<1>13. CASE DispatchCommit
  BY <1>13, <1>0 DEF DispatchCommit, Advance, history, ApprovedWritesOnly
<1>14. CASE SanitizeResults
  BY <1>14, <1>0 DEF SanitizeResults, Advance, history, ApprovedWritesOnly
<1>15. CASE Respond
  BY <1>15, <1>0 DEF Respond, Advance, history, ApprovedWritesOnly
<1>16. ASSUME NEW approved \in BOOLEAN, Resume(approved)
       PROVE  ApprovedWritesOnly'
  BY <1>16, <1>0 DEF Resume, GateUnchanged, ApprovedWritesOnly
<1>17. CASE Fault
  BY <1>17, <1>0 DEF Fault, ckpt, history, ApprovedWritesOnly
<1>18. CASE Reset
  BY <1>18, <1>0 DEF Reset, ApprovedWritesOnly
<1>19. CASE UNCHANGED vars
  BY <1>19, <1>0 DEF vars, ckpt, history, ApprovedWritesOnly
<1> QED
  BY <1>1, <1>2, <1>3, <1>4, <1>5, <1>6, <1>7, <1>8, <1>9, <1>10, <1>11, <1>12,
     <1>13, <1>14, <1>15, <1>16, <1>17, <1>18, <1>19 DEF Next, Graph, Dispatch

(* A raw result is where sanitize_results will find it.                    *)
LEMMA RawStep ==
    ASSUME IInv, [Next]_vars
    PROVE  RawInv'
<1>0. /\ messages \in Seq(Message) /\ local \in LocalType /\ RawInv
      /\ (pc # "dispatch_tools" => local = FreshLocal)
      /\ untrusted_results \subseteq CallIds
  BY DEF IInv, TypeOK, CallsInv
<1>1. CASE Step
  BY <1>1, <1>0 DEF Step, CarriedMessages, UserMessage, RawInv
<1>2. CASE BuildPrompt
  BY <1>2, <1>0 DEF BuildPrompt, Advance, ckpt, RawInv
<1>3. CASE PressureCheck
  BY <1>3, <1>0 DEF PressureCheck, Advance, RawInv
<1>4. CASE InjectWarning
  BY <1>4, <1>0 DEF InjectWarning, Advance, UserMessage, RawInv
<1>5. CASE CallLLM
  <2>1. PICK calls \in Seq(Kinds), prose \in BOOLEAN : ModelAnswers(calls, prose)
    BY <1>5, CallLLMAnswers
  <2>2. /\ messages' = Append(messages, AssistantMessage(calls))
        /\ AssistantMessage(calls).body = "plain"
        /\ pc # "sanitize_results" /\ pc # "dispatch_tools" /\ local' = local
    BY <2>1 DEF ModelAnswers, Advance, AssistantMessage
  <2> HIDE DEF AssistantMessage
  <2>3. ~(MaxFaults = 0 /\ \E i \in DOMAIN messages : messages[i].body = "raw")
    BY <1>0, <2>2 DEF RawInv
  <2>4. \A i \in DOMAIN messages' :
           \/ messages'[i] = AssistantMessage(calls)
           \/ i \in DOMAIN messages /\ messages'[i] = messages[i]
    BY <1>0, <2>2
  <2> QED  BY <1>0, <2>2, <2>3, <2>4 DEF RawInv, FreshLocal
<1>6. CASE ProvidersExhausted
  BY <1>6, <1>0 DEF ProvidersExhausted, Advance, RawInv
<1>7. CASE SecurityGate
  BY <1>7, <1>0 DEF SecurityGate, Advance, GateUnchanged, RawInv
<1>8. CASE Suspend
  BY <1>8, <1>0 DEF Suspend, Advance, GateUnchanged, RawInv
<1>9. CASE DispatchRefused
  BY <1>9, <1>0 DEF DispatchRefused, DispatchUnchanged, HasCall, Answered, ckpt,
     ToolMessage, LocalType, RawInv
<1>10. CASE DispatchSend
  BY <1>10, <1>0 DEF DispatchSend, DispatchUnchanged, HasCall, Answered, ckpt,
     ToolMessage, LocalType, RawInv
<1>11. CASE DispatchExternal
  <2> DEFINE body == IF Untrusted(Current) THEN "raw" ELSE "plain"
  <2>1. /\ local'.answers = Append(local.answers, ToolMessage(local.at, body))
        /\ local.untrusted \subseteq local'.untrusted
        /\ Untrusted(Current) => local.at \in local'.untrusted
        /\ messages' = messages /\ pc' = pc /\ untrusted_results' = untrusted_results
    BY <1>11, <1>0 DEF DispatchExternal, DispatchUnchanged, Answered, ckpt,
       LocalType
  <2>2. /\ ToolMessage(local.at, body).role = "tool"
        /\ ToolMessage(local.at, body).ids = {local.at}
        /\ ToolMessage(local.at, body).body = "raw" => Untrusted(Current)
    BY DEF ToolMessage
  <2> HIDE DEF body
  <2>3. \A i \in DOMAIN local'.answers :
           \/ local'.answers[i] = ToolMessage(local.at, body)
           \/ i \in DOMAIN local.answers /\ local'.answers[i] = local.answers[i]
    BY <1>0, <2>1 DEF LocalType
  <2> QED  BY <1>0, <2>1, <2>2, <2>3 DEF RawInv
<1>12. CASE DispatchMemory
  BY <1>12, <1>0 DEF DispatchMemory, DispatchUnchanged, HasCall, Answered, ckpt,
     ToolMessage, LocalType, RawInv
<1>13. CASE DispatchCommit
  <2>1. \A i \in DOMAIN messages' :
           \/ messages'[i].body = "notice"
           \/ \E j \in DOMAIN messages : messages'[i] = messages[j]
           \/ \E j \in DOMAIN local.answers : messages'[i] = local.answers[j]
    BY <1>13, CommitQueue DEF IInv, UserMessage
  <2> QED
    BY <1>13, <1>0, <2>1 DEF DispatchCommit, Advance, RawInv, FreshLocal
<1>14. CASE SanitizeResults
  BY <1>14, <1>0 DEF SanitizeResults, Advance, Sanitized, Message, RawInv
<1>15. CASE Respond
  BY <1>15, <1>0 DEF Respond, Advance, RawInv
<1>16. ASSUME NEW approved \in BOOLEAN, Resume(approved)
       PROVE  RawInv'
  BY <1>16, <1>0 DEF Resume, GateUnchanged, RawInv
<1>17. CASE Fault
  BY <1>17, <1>0, FaultNeedsBound DEF Fault, ckpt, RawInv, FreshLocal
<1>18. CASE Reset
  BY <1>18, <1>0 DEF Reset, RawInv
<1>19. CASE UNCHANGED vars
  BY <1>19, <1>0 DEF vars, ckpt, RawInv
<1> QED
  BY <1>1, <1>2, <1>3, <1>4, <1>5, <1>6, <1>7, <1>8, <1>9, <1>10, <1>11, <1>12,
     <1>13, <1>14, <1>15, <1>16, <1>17, <1>18, <1>19 DEF Next, Graph, Dispatch

(* Every action keeps the types.                                           *)
LEMMA TypeStep ==
    ASSUME IInv, [Next]_vars
    PROVE  TypeOK'
<1>0. TypeOK
  BY DEF IInv
<1>1. CASE Step
  <2>1. CarriedMessages \in Seq(Message)
    BY <1>0, MessageTypes DEF CarriedMessages, TypeOK, Bodies
  <2>2. <<>> \in Seq(Kinds) /\ <<>> \in Seq(Decision)
    OBVIOUS
  <2>3. turns \in Nat /\ turns' = turns + 1 /\ turns' \in Nat
    BY <1>1, <1>0 DEF Step, TypeOK
  <2> QED  BY <1>1, <1>0, <2>1, <2>2, <2>3 DEF Step, TypeOK, Nodes
<1>2. CASE BuildPrompt
  BY <1>2, <1>0 DEF BuildPrompt, Advance, ckpt, history, TypeOK, Nodes
<1>3. CASE PressureCheck
  BY <1>3, <1>0 DEF PressureCheck, Advance, history, TypeOK, Nodes, NeedsWarning,
     UnderPressure, AtLeast
<1>4. CASE InjectWarning
  <2>1. UserMessage("warning") \in Message
    BY MessageTypes DEF Bodies
  <2> QED  BY <1>4, <1>0, <2>1 DEF InjectWarning, Advance, history, TypeOK, Nodes
<1>5. CASE CallLLM
  <2>1. PICK calls \in Seq(Kinds), prose \in BOOLEAN :
           Len(calls) <= MaxCalls /\ ModelAnswers(calls, prose)
    BY <1>5, CallLLMAnswers
  <2>2. AssistantMessage(calls) \in Message
    BY <2>1, BoundsAssumption DEF AssistantMessage, Message, Bodies, CallIds
  <2>3. input_tokens' \in Nat
    <3>1. PICK extra \in Surplus : input_tokens' = Len(messages) + 1 + extra
      BY <2>1 DEF ModelAnswers
    <3>2. extra \in Nat /\ Len(messages) \in Nat
      BY <1>0, BoundsAssumption DEF TypeOK
    <3> QED  BY <3>1, <3>2
  <2>4. messages' \in Seq(Message)
    BY <1>0, <2>1, <2>2 DEF ModelAnswers, TypeOK
  <2>5. pending_tool_calls' \in Seq(Kinds) /\ last_text' \in BOOLEAN /\ shown' \in BOOLEAN
        /\ pc' \in Nodes /\ steps' \in Nat
    BY <1>0, <2>1 DEF ModelAnswers, Advance, TypeOK, Nodes
  <2> QED  BY <1>0, <2>1, <2>3, <2>4, <2>5 DEF ModelAnswers, TypeOK
<1>6. CASE ProvidersExhausted
  <2>1. Said("exhausted", 0) \in Spoken
    <3>1. pc \in InRound /\ "exhausted" \in Texts /\ 0 \in 0..MaxCalls
      BY <1>6, BoundsAssumption DEF ProvidersExhausted, Advance, InRound, Texts
    <3> QED  BY <3>1, RoundKeys
  <2> QED  BY <1>6, <1>0, <2>1 DEF ProvidersExhausted, Advance, history, TypeOK,
     Nodes
<1>7. CASE SecurityGate
  <2>1. tool_decisions' \in Seq(Decision)
    BY <1>7, DecisionsType, Zenon DEF SecurityGate
  <2>2. GateUnchanged /\ UNCHANGED granted /\ Advance("security_gate", "dispatch_tools")
    BY <1>7, Zenon DEF SecurityGate
  <2> QED  BY <1>0, <2>1, <2>2 DEF GateUnchanged, Advance, TypeOK, Nodes
<1>8. CASE Suspend
  BY <1>8, <1>0 DEF Suspend, GateUnchanged, Advance, TypeOK, Nodes
<1>9. CASE DispatchRefused
  <2>1. Answered("empty") \in LocalType
    BY <1>9, AnsweredType DEF DispatchRefused, HasCall, Bodies
  <2>2. local' \in LocalType
    BY <1>9, <2>1 DEF DispatchRefused, LocalType
  <2> QED  BY <1>9, <1>0, <2>2 DEF DispatchRefused, DispatchUnchanged, HasCall,
     ckpt, TypeOK
<1>10. CASE DispatchSend
  <2>1. PICK text \in {"text", "blank"} :
           /\ local' = [Answered("plain") EXCEPT !.texts = @ \cup {Said(text, local.at)},
                                               !.sent = TRUE]
           /\ effects' = IF text = "text" THEN Performed("send", "inferred") ELSE effects
    BY <1>10 DEF DispatchSend
  <2>2. Answered("plain") \in LocalType
    BY <1>10, AnsweredType DEF DispatchSend, HasCall, Bodies
  <2>3. Said(text, local.at) \in Spoken
    BY <1>10, CallInBounds DEF DispatchSend, HasCall, Texts
  <2>4. local' \in LocalType
    BY <2>1, <2>2, <2>3 DEF LocalType
  <2>5. effects' \subseteq Effect
    BY <1>10, <1>0, <2>1, CallInBounds DEF DispatchSend, HasCall, Performed, Effect,
       EffectTools, TypeOK
  <2> QED  BY <1>10, <1>0, <2>4, <2>5 DEF DispatchSend, DispatchUnchanged, HasCall,
     ckpt, TypeOK
<1>11. CASE DispatchExternal
  <2> DEFINE body == IF Untrusted(Current) THEN "raw" ELSE "plain"
             answered == Answered(body)
  <2>1. PICK heartbeat \in BOOLEAN :
           local' = [answered EXCEPT
                        !.untrusted = IF Untrusted(Current) THEN @ \cup {local.at} ELSE @,
                        !.found = @ \cup {local.at},
                        !.wants = @ \/ heartbeat]
    BY <1>11 DEF DispatchExternal
  <2>2. answered \in LocalType /\ local.at \in CallIds
    BY <1>11, AnsweredType, CallInBounds DEF DispatchExternal, HasCall, Bodies
  <2> HIDE DEF answered
  <2>3. local' \in LocalType
    <3>1. CASE Untrusted(Current)
      BY <2>1, <2>2, <3>1 DEF LocalType
    <3>2. CASE ~Untrusted(Current)
      BY <2>1, <2>2, <3>2 DEF LocalType
    <3> QED  BY <3>1, <3>2
  <2>4. effects' \subseteq Effect
    BY <1>11, <1>0, CallInBounds DEF DispatchExternal, HasCall, Performed, Effect,
       EffectTools, TypeOK
  <2>5. fetched' \in BOOLEAN
    BY <1>11, <1>0 DEF DispatchExternal, Untrusted, External, TypeOK
  <2> QED  BY <1>11, <1>0, <2>3, <2>4, <2>5 DEF DispatchExternal, DispatchUnchanged,
     HasCall, ckpt, TypeOK
<1>12. CASE DispatchMemory
  <2>1. PICK heartbeat \in BOOLEAN, body \in {"plain", "empty"} :
           /\ local' = [Answered(body) EXCEPT
                           !.offloaded = @ \/ (Current = "insert" /\ body = "plain"),
                           !.found = @ \cup {local.at},
                           !.wants = @ \/ heartbeat]
           /\ effects' = IF Current \in EffectTools /\ body = "plain"
                         THEN Performed(Current,
                                 IF tool_decisions[local.at] = "external"
                                 THEN "external" ELSE "inferred")
                         ELSE effects
    BY <1>12 DEF DispatchMemory
  <2>2. Answered(body) \in LocalType /\ local.at \in CallIds
    BY <1>12, AnsweredType, CallInBounds DEF DispatchMemory, HasCall, Bodies
  <2>3. local' \in LocalType
    BY <2>1, <2>2 DEF LocalType
  <2>4. effects' \subseteq Effect
    BY <1>12, <1>0, <2>1, CallInBounds DEF DispatchMemory, HasCall, Performed,
       Effect, TypeOK
  <2> QED  BY <1>12, <1>0, <2>3, <2>4 DEF DispatchMemory, DispatchUnchanged,
     HasCall, ckpt, TypeOK
<1>13. CASE DispatchCommit
  <2>1. messages' \in Seq(Message) /\ input_tokens' \in Nat
    BY <1>13, <1>0, CommitQueue
  <2>2. FreshLocal \in LocalType
    BY FreshLocalType
  <2> QED  BY <1>13, <1>0, <2>1, <2>2 DEF DispatchCommit, Advance, NextHeartbeat,
     history, TypeOK, LocalType, Nodes
<1>14. CASE SanitizeResults
  <2>1. \A m \in Message : Sanitized(m) \in Message
    BY DEF Sanitized, Message, Bodies
  <2>2. messages' \in Seq(Message)
    <3>1. messages \in Seq(Message) /\ \A i \in DOMAIN messages : messages[i] \in Message
      BY <1>0 DEF TypeOK
    <3>2. \A i \in DOMAIN messages : Sanitized(messages[i]) \in Message
      BY <2>1, <3>1
    <3>3. messages' = [i \in 1..Len(messages) |-> Sanitized(messages[i])]
      BY <1>14, <3>1 DEF SanitizeResults
    <3>4. messages' \in [1..Len(messages) -> Message] /\ Len(messages) \in Nat
      BY <3>1, <3>2, <3>3
    <3> QED  BY <3>4
  <2> QED  BY <1>14, <1>0, <2>2 DEF SanitizeResults, RouteHeartbeat, Advance,
     history, TypeOK, Nodes
<1>15. CASE Respond
  <2>1. Said(Fallback, 0) \in Spoken
    <3>1. Fallback \in Texts
      BY DEF Fallback, Texts
    <3>2. heartbeat_count \in 0..MaxRounds /\ 0 \in 0..MaxCalls
      BY BoundsAssumption DEF IInv, TypeOK, RoundsInv, MaxRounds
    <3> QED  BY <3>1, <3>2 DEF Said, Spoken
  <2>2. Reply \subseteq Spoken
    BY <1>0, <2>1 DEF Reply, NonBlank, TypeOK
  <2> QED  BY <1>15, <1>0, <2>2 DEF Respond, Advance, history, TypeOK, Nodes
<1>16. ASSUME NEW approved \in BOOLEAN, Resume(approved)
       PROVE  TypeOK'
  <2>1. Decisions(approved) \in Seq(Decision)
    BY DecisionsType
  <2>2. {<<heartbeat_count, i>> : i \in AskedIds} \subseteq Keys
    <3>1. heartbeat_count \in 0..MaxRounds
      BY <1>16, RoundKeys DEF Resume, InRound
    <3>2. AskedIds \subseteq CallIds
      BY <1>0, BoundsAssumption DEF IInv, CallsInv, TypeOK, AskedIds, CallIds
    <3> QED  BY <3>1, <3>2 DEF Keys
  <2> QED  BY <1>16, <1>0, <2>1, <2>2 DEF Resume, GateUnchanged, TypeOK, Nodes
<1>17. CASE Fault
  BY <1>17, <1>0, FreshLocalType DEF Fault, ckpt, history, TypeOK
<1>18. CASE Reset
  <2>1. <<>> \in Seq(Kinds) /\ <<>> \in Seq(Decision) /\ <<>> \in Seq(Message)
    OBVIOUS
  <2> QED  BY <1>18, <1>0, <2>1 DEF Reset, TypeOK
<1>19. CASE UNCHANGED vars
  BY <1>19, <1>0 DEF vars, ckpt, history, TypeOK
<1> QED
  BY <1>1, <1>2, <1>3, <1>4, <1>5, <1>6, <1>7, <1>8, <1>9, <1>10, <1>11, <1>12,
     <1>13, <1>14, <1>15, <1>16, <1>17, <1>18, <1>19 DEF Next, Graph, Dispatch

(* A call has its effect when dispatch_tools is at it, and not again.      *)
LEMMA EffectsStep ==
    ASSUME IInv, [Next]_vars
    PROVE  EffectsInv'
<1>0. /\ EffectsInv /\ heartbeat_count \in Nat /\ local.at \in Nat /\ local \in LocalType
      /\ \A e \in effects : e.call[1] \in Nat /\ e.call[2] \in Nat
      /\ pc = "dispatch_tools" => heartbeat_count < MaxRounds
  BY BoundsAssumption DEF IInv, TypeOK, Effect, Keys, CallIds, LocalType, RoundsInv,
     InRound
<1>1. CASE Step
  BY <1>1, <1>0 DEF Step, EffectsInv, Nodes
<1>2. CASE BuildPrompt
  BY <1>2, <1>0 DEF BuildPrompt, Advance, ckpt, history, EffectsInv, Nodes
<1>3. CASE PressureCheck
  BY <1>3, <1>0 DEF PressureCheck, Advance, history, EffectsInv, Nodes
<1>4. CASE InjectWarning
  BY <1>4, <1>0 DEF InjectWarning, Advance, history, EffectsInv, Nodes
<1>5. CASE CallLLM
  BY <1>5, <1>0, CallLLMAnswers DEF ModelAnswers, Advance, EffectsInv, Nodes
<1>6. CASE ProvidersExhausted
  BY <1>6, <1>0 DEF ProvidersExhausted, Advance, history, EffectsInv, Nodes
<1>7. CASE SecurityGate
  BY <1>7, <1>0 DEF SecurityGate, Advance, GateUnchanged, EffectsInv, Nodes
<1>8. CASE Suspend
  BY <1>8, <1>0 DEF Suspend, Advance, GateUnchanged, EffectsInv, Nodes
<1>9. CASE DispatchRefused
  <2>1. /\ effects' = effects
        /\ local'.at = local.at + 1 /\ pc' = pc /\ heartbeat_count' = heartbeat_count
        /\ pc = "dispatch_tools"
    BY <1>9, <1>0 DEF DispatchRefused, DispatchUnchanged, HasCall, Answered, ckpt,
       LocalType
  <2>2. ASSUME NEW e \in effects'
        PROVE  \/ e.call[1] < heartbeat_count
               \/ e.call[1] = heartbeat_count /\ e.call[2] < local.at + 1
    <3>1. CASE e \in effects
      BY <1>0, <2>1, <3>1 DEF EffectsInv, Nodes
    <3> QED  BY <2>1, <3>1
  <2> QED  BY <2>1, <2>2 DEF EffectsInv
<1>10. CASE DispatchSend
  <2>1. /\ effects' = effects \/ \E tool, source : effects' = Performed(tool, source)
        /\ local'.at = local.at + 1 /\ pc' = pc /\ heartbeat_count' = heartbeat_count
        /\ pc = "dispatch_tools"
    BY <1>10, <1>0 DEF DispatchSend, DispatchUnchanged, HasCall, Answered, ckpt,
       LocalType
  <2>2. ASSUME NEW e \in effects'
        PROVE  \/ e.call[1] < heartbeat_count
               \/ e.call[1] = heartbeat_count /\ e.call[2] < local.at + 1
    <3>1. CASE e \in effects
      BY <1>0, <2>1, <3>1 DEF EffectsInv, Nodes
    <3>2. CASE e \notin effects
      <4>1. e.call = <<heartbeat_count, local.at>>
        BY <2>1, <3>2 DEF Performed, CallKey
      <4> QED  BY <1>0, <4>1
    <3> QED  BY <3>1, <3>2
  <2> QED  BY <2>1, <2>2 DEF EffectsInv
<1>11. CASE DispatchExternal
  <2>1. /\ effects' = effects \/ \E tool, source : effects' = Performed(tool, source)
        /\ local'.at = local.at + 1 /\ pc' = pc /\ heartbeat_count' = heartbeat_count
        /\ pc = "dispatch_tools"
    BY <1>11, <1>0 DEF DispatchExternal, DispatchUnchanged, HasCall, Answered, ckpt,
       LocalType
  <2>2. ASSUME NEW e \in effects'
        PROVE  \/ e.call[1] < heartbeat_count
               \/ e.call[1] = heartbeat_count /\ e.call[2] < local.at + 1
    <3>1. CASE e \in effects
      BY <1>0, <2>1, <3>1 DEF EffectsInv, Nodes
    <3>2. CASE e \notin effects
      <4>1. e.call = <<heartbeat_count, local.at>>
        BY <2>1, <3>2 DEF Performed, CallKey
      <4> QED  BY <1>0, <4>1
    <3> QED  BY <3>1, <3>2
  <2> QED  BY <2>1, <2>2 DEF EffectsInv
<1>12. CASE DispatchMemory
  <2>1. /\ effects' = effects \/ \E tool, source : effects' = Performed(tool, source)
        /\ local'.at = local.at + 1 /\ pc' = pc /\ heartbeat_count' = heartbeat_count
        /\ pc = "dispatch_tools"
    BY <1>12, <1>0 DEF DispatchMemory, DispatchUnchanged, HasCall, Answered, ckpt,
       LocalType
  <2>2. ASSUME NEW e \in effects'
        PROVE  \/ e.call[1] < heartbeat_count
               \/ e.call[1] = heartbeat_count /\ e.call[2] < local.at + 1
    <3>1. CASE e \in effects
      BY <1>0, <2>1, <3>1 DEF EffectsInv, Nodes
    <3>2. CASE e \notin effects
      <4>1. e.call = <<heartbeat_count, local.at>>
        BY <2>1, <3>2 DEF Performed, CallKey
      <4> QED  BY <1>0, <4>1
    <3> QED  BY <3>1, <3>2
  <2> QED  BY <2>1, <2>2 DEF EffectsInv
<1>13. CASE DispatchCommit
  BY <1>13, <1>0 DEF DispatchCommit, Advance, history, NextHeartbeat, EffectsInv,
     Nodes
<1>14. CASE SanitizeResults
  BY <1>14, <1>0 DEF SanitizeResults, Advance, history, RouteHeartbeat, EffectsInv,
     Nodes
<1>15. CASE Respond
  BY <1>15, <1>0 DEF Respond, Advance, history, EffectsInv, Nodes
<1>16. ASSUME NEW approved \in BOOLEAN, Resume(approved)
       PROVE  EffectsInv'
  BY <1>16, <1>0 DEF Resume, GateUnchanged, EffectsInv, Nodes
<1>17. CASE Fault
  BY <1>17, <1>0 DEF Fault, ckpt, history, EffectsInv, Nodes
<1>18. CASE Reset
  BY <1>18, <1>0 DEF Reset, EffectsInv, Nodes
<1>19. CASE UNCHANGED vars
  BY <1>19, <1>0 DEF vars, ckpt, history, EffectsInv, Nodes
<1> QED
  BY <1>1, <1>2, <1>3, <1>4, <1>5, <1>6, <1>7, <1>8, <1>9, <1>10, <1>11, <1>12,
     <1>13, <1>14, <1>15, <1>16, <1>17, <1>18, <1>19 DEF Next, Graph, Dispatch

(* What send_message delivers is in the reply in the making.               *)
LEMMA SaidStep ==
    ASSUME IInv, [Next]_vars
    PROVE  SaidInv'
<1>0. /\ SaidInv /\ local \in LocalType
      /\ (pc # "dispatch_tools" => local = FreshLocal)
  BY DEF IInv, TypeOK, CallsInv
<1>1. CASE Step
  BY <1>1, <1>0 DEF Step, SaidInv, SendCalls, TextCalls, FreshLocal
<1>2. CASE BuildPrompt
  BY <1>2, <1>0 DEF BuildPrompt, Advance, ckpt, history, SaidInv, SendCalls, Nodes
<1>3. CASE PressureCheck
  BY <1>3, <1>0 DEF PressureCheck, Advance, history, SaidInv, SendCalls, Nodes
<1>4. CASE InjectWarning
  BY <1>4, <1>0 DEF InjectWarning, Advance, history, SaidInv, SendCalls, Nodes
<1>5. CASE CallLLM
  BY <1>5, <1>0, CallLLMAnswers DEF ModelAnswers, Advance, SaidInv, SendCalls, Nodes
<1>6. CASE ProvidersExhausted
  <2>1. Said("exhausted", 0).text = "exhausted"
    BY DEF Said
  <2>2. TextCalls(final_reply' \cup local'.texts) = TextCalls(final_reply \cup local.texts)
    BY <1>6, <2>1 DEF ProvidersExhausted, TextCalls
  <2> QED  BY <1>6, <1>0, <2>2 DEF ProvidersExhausted, Advance, history, SaidInv,
     SendCalls, Nodes
<1>7. CASE SecurityGate
  BY <1>7, <1>0 DEF SecurityGate, Advance, GateUnchanged, SaidInv, SendCalls, Nodes
<1>8. CASE Suspend
  BY <1>8, <1>0 DEF Suspend, Advance, GateUnchanged, SaidInv, SendCalls, Nodes
<1>9. CASE DispatchRefused
  <2>1. /\ local'.texts = local.texts
        /\ final_reply' = final_reply /\ result' = result /\ pc' = pc /\ pc = "dispatch_tools"
    BY <1>9, <1>0 DEF DispatchRefused, DispatchUnchanged, HasCall, Answered,
       Current, ckpt, LocalType
  <2>2. SendCalls' = SendCalls
    BY <1>9 DEF DispatchRefused, SendCalls
  <2> QED  BY <1>0, <2>1, <2>2 DEF SaidInv, Nodes
<1>10. CASE DispatchSend
  <2>1. PICK text \in {"text", "blank"} :
           /\ local' = [Answered("plain") EXCEPT !.texts = @ \cup {Said(text, local.at)},
                                               !.sent = TRUE]
           /\ effects' = IF text = "text" THEN Performed("send", "inferred") ELSE effects
    BY <1>10 DEF DispatchSend
  <2>2. local'.texts = local.texts \cup {Said(text, local.at)}
    BY <1>0, <2>1 DEF Answered, LocalType
  <2>3. Said(text, local.at).text = text /\ Said(text, local.at).call = CallKey
    BY DEF Said, CallKey
  <2>4. /\ final_reply' = final_reply /\ result' = result /\ pc' = pc /\ pc = "dispatch_tools"
    BY <1>10 DEF DispatchSend, DispatchUnchanged, HasCall, ckpt
  <2>5. CASE text = "text"
    <3>1. TextCalls(final_reply' \cup local'.texts)
             = TextCalls(final_reply \cup local.texts) \cup {CallKey}
      BY <2>2, <2>3, <2>4, <2>5 DEF TextCalls
    <3>2. SendCalls' = SendCalls \cup {CallKey}
      <4> DEFINE sent == [call |-> CallKey, tool |-> "send", source |-> "inferred"]
      <4>1. effects' = effects \cup {sent} /\ sent.tool = "send" /\ sent.call = CallKey
        BY <2>1, <2>5 DEF Performed
      <4> HIDE DEF sent
      <4> QED  BY <4>1 DEF SendCalls
    <3> QED  BY <1>0, <2>4, <3>1, <3>2 DEF SaidInv, Nodes
  <2>6. CASE text = "blank"
    <3>1. TextCalls(final_reply' \cup local'.texts) = TextCalls(final_reply \cup local.texts)
      BY <2>2, <2>3, <2>4, <2>6 DEF TextCalls
    <3>2. SendCalls' = SendCalls
      BY <2>1, <2>6 DEF SendCalls
    <3> QED  BY <1>0, <2>4, <3>1, <3>2 DEF SaidInv, Nodes
  <2> QED  BY <2>5, <2>6
<1>11. CASE DispatchExternal
  <2>1. /\ local'.texts = local.texts
        /\ final_reply' = final_reply /\ result' = result /\ pc' = pc /\ pc = "dispatch_tools"
    BY <1>11, <1>0 DEF DispatchExternal, DispatchUnchanged, HasCall, Answered,
       Current, ckpt, LocalType
  <2>2. SendCalls' = SendCalls
    <3>1. \/ effects' = effects
          \/ \E tool, source : tool # "send" /\ effects' = Performed(tool, source)
      BY <1>11 DEF DispatchExternal, External
    <3> QED  BY <3>1 DEF SendCalls, Performed
  <2> QED  BY <1>0, <2>1, <2>2 DEF SaidInv, Nodes
<1>12. CASE DispatchMemory
  <2>1. /\ local'.texts = local.texts
        /\ final_reply' = final_reply /\ result' = result /\ pc' = pc /\ pc = "dispatch_tools"
    BY <1>12, <1>0 DEF DispatchMemory, DispatchUnchanged, HasCall, Answered,
       Current, ckpt, LocalType
  <2>2. SendCalls' = SendCalls
    <3>1. \/ effects' = effects
          \/ \E tool, source : tool # "send" /\ effects' = Performed(tool, source)
      BY <1>12 DEF DispatchMemory
    <3> QED  BY <3>1 DEF SendCalls, Performed
  <2> QED  BY <1>0, <2>1, <2>2 DEF SaidInv, Nodes
<1>13. CASE DispatchCommit
  <2>1. final_reply' \cup local'.texts = final_reply \cup local.texts
    BY <1>13 DEF DispatchCommit, FreshLocal
  <2>2. SendCalls' = SendCalls /\ result' = result /\ pc = "dispatch_tools" /\ pc' = "sanitize_results"
    BY <1>13 DEF DispatchCommit, Advance, SendCalls, history
  <2> QED  BY <1>0, <2>1, <2>2 DEF SaidInv, Nodes
<1>14. CASE SanitizeResults
  BY <1>14, <1>0 DEF SanitizeResults, Advance, history, RouteHeartbeat, SaidInv,
     SendCalls, Nodes
<1>15. CASE Respond
  <2>1. TextCalls(final_reply) = SendCalls
    <3>1. pc = "respond" /\ local.texts = {}
      BY <1>15, <1>0 DEF Respond, Advance, FreshLocal
    <3>2. final_reply \cup local.texts = final_reply
      BY <3>1
    <3> QED  BY <1>0, <3>1, <3>2 DEF SaidInv, Nodes
  <2>2. NonBlank(Reply) # {} /\ TextCalls(Reply) = TextCalls(final_reply)
    <3>1. CASE NonBlank(final_reply) # {}
      BY <3>1 DEF Reply, NonBlank, TextCalls
    <3>2. CASE NonBlank(final_reply) = {}
      <4>1. Fallback \notin {"text", "blank"}
        BY DEF Fallback
      <4>2. Reply = {Said(Fallback, 0)} /\ Said(Fallback, 0).text = Fallback
        BY <3>2 DEF Reply, Said
      <4>3. TextCalls(final_reply) = {} /\ TextCalls(Reply) = {} /\ NonBlank(Reply) = Reply
        BY <3>2, <4>1, <4>2 DEF NonBlank, TextCalls
      <4> QED  BY <4>2, <4>3
    <3> QED  BY <3>1, <3>2
  <2>3. final_reply' = Reply /\ SendCalls' = SendCalls /\ pc' = "idle"
    BY <1>15 DEF Respond, Advance, history, SendCalls
  <2> QED  BY <2>1, <2>2, <2>3 DEF SaidInv, Nodes
<1>16. ASSUME NEW approved \in BOOLEAN, Resume(approved)
       PROVE  SaidInv'
  BY <1>16, <1>0 DEF Resume, GateUnchanged, SaidInv, SendCalls, Nodes
<1>17. CASE Fault
  BY <1>17, <1>0 DEF Fault, ckpt, history, SaidInv, SendCalls, Nodes
<1>18. CASE Reset
  BY <1>18, <1>0 DEF Reset, SaidInv, Nodes
<1>19. CASE UNCHANGED vars
  BY <1>19, <1>0 DEF vars, ckpt, history, SaidInv, SendCalls, Nodes
<1> QED
  BY <1>1, <1>2, <1>3, <1>4, <1>5, <1>6, <1>7, <1>8, <1>9, <1>10, <1>11, <1>12,
     <1>13, <1>14, <1>15, <1>16, <1>17, <1>18, <1>19 DEF Next, Graph, Dispatch

-----------------------------------------------------------------------------
(* The theorems                                                            *)

(* The invariant holds of a fresh conversation.                            *)
LEMMA InitIInv == Init => IInv
<1> SUFFICES ASSUME Init PROVE IInv
  OBVIOUS
<1>1. MaxRounds \in Nat \ {0} /\ MaxCalls \in Nat /\ MaxFaults \in Nat
  BY BoundsAssumption DEF MaxRounds
<1>2. /\ <<>> \in Seq(Message)
      /\ <<>> \in Seq(Kinds)
      /\ <<>> \in Seq(Decision)
  OBVIOUS
<1>3. TypeOK
  BY <1>2, FreshLocalType DEF Init, TypeOK
<1>4. RoundsInv /\ StepsInv /\ FaultsInv
  BY <1>1 DEF Init, RoundsInv, StepsInv, FaultsInv, InRound
<1>5. CallsInv /\ LatchInv /\ DecidedInv /\ ApprovedWritesOnly
  BY <1>1 DEF Init, CallsInv, LatchInv, DecidedInv, ApprovedWritesOnly, Nodes
<1>6. RawInv
  BY DEF Init, RawInv, FreshLocal
<1>7. EffectsInv /\ SaidInv
  BY DEF Init, EffectsInv, SaidInv, Nodes
<1> QED  BY <1>3, <1>4, <1>5, <1>6, <1>7 DEF IInv

(* The invariant is inductive, hence holds of every behaviour.             *)
THEOREM Inductive == Spec => []IInv
<1>1. IInv /\ [Next]_vars => IInv'
  BY TypeStep, RoundsStep, StepsStep, FaultsStep, CallsStep, LatchStep, DecidedStep,
     RawStep, GrantStep, EffectsStep, SaidStep DEF IInv
<1> QED  BY InitIInv, <1>1, PTL DEF Spec

(* The conversation's state has the types graph/state.py declares,         *)
(* whatever the tools, the limits and the number of turns.                 *)
THEOREM TypeCorrect == Spec => []TypeOK
<1>1. IInv => TypeOK
  BY DEF IInv
<1> QED  BY Inductive, <1>1, PTL

(* A gated write never happens without the approval of that very call      *)
(* (security_gate, dispatch_tools), through refusals, denials, later       *)
(* rounds, crashes and resets.                                             *)
THEOREM WritesApproved == Spec => []ApprovedWritesOnly
<1>1. IInv => ApprovedWritesOnly
  BY DEF IInv
<1> QED  BY Inductive, <1>1, PTL

(* The heartbeat cap ends every turn before graph.py's recursion limit     *)
(* does, for every heartbeat limit.                                        *)
THEOREM HeartbeatsSuffice == Spec => []BackstopUnused
<1>1. ASSUME IInv PROVE BackstopUnused
  <2>1. /\ heartbeat_count \in Nat /\ steps \in Nat /\ MaxRounds \in Nat \ {0}
        /\ heartbeat_count <= MaxRounds
        /\ steps <= 7 * heartbeat_count + 5
        /\ result = "failed" => faults > 0
    BY <1>1, BoundsAssumption DEF IInv, TypeOK, RoundsInv, StepsInv, FaultsInv,
       MaxRounds
  <2> QED  BY <2>1 DEF BackstopUnused, RecursionLimit
<1> QED  BY Inductive, <1>1, PTL

(* step() never returns silence and leaves out nothing send_message        *)
(* delivered, however many rounds, denials and evictions the turn had.     *)
THEOREM NeverSilent == Spec => []NoSilentTurn
<1>1. IInv => NoSilentTurn
  BY DEF IInv, SaidInv, NoSilentTurn, TextCalls, SendCalls
<1> QED  BY Inductive, <1>1, PTL

(* Without a fault, no untrusted result reaches the model or the reply     *)
(* before sanitize_results has rewritten it.  (With one, it can: the run   *)
(* turn_crash_raw.)                                                        *)
THEOREM RawNeverShown == MaxFaults = 0 => (Spec => []RawNeverRead)
<1> SUFFICES ASSUME MaxFaults = 0 PROVE Spec => []RawNeverRead
  OBVIOUS
<1>1. IInv => RawNeverRead
  BY DEF IInv, RawInv, RawNeverRead
<1> QED  BY Inductive, <1>1, PTL

(* Once an untrusted result has been put before the model, the turn's      *)
(* later effects neither change core memory nor enter archival memory as   *)
(* anything but external.                                                  *)
THEOREM LatchHolds == Spec => UntrustedStaysOut
<1> DEFINE Kept == \A e \in effects' \ effects :
                      shown => /\ e.tool # "core"
                               /\ e.tool = "insert" => e.source = "external"
<1>1. ASSUME IInv, [Next]_vars PROVE Kept
  <2>1. /\ LatchInv /\ DecidedInv /\ CallsInv /\ pending_tool_calls \in Seq(Kinds)
        /\ local \in LocalType
    BY <1>1 DEF IInv, TypeOK
  <2>2. CASE DispatchSend
    BY <2>2 DEF DispatchSend, Performed
  <2>3. CASE DispatchExternal
    BY <2>3 DEF DispatchExternal, External, Performed
  <2>4. CASE DispatchMemory
    <3>1. local.at \in DOMAIN pending_tool_calls
      BY <2>1, <2>4 DEF DispatchMemory, HasCall, CallsInv, LocalType
    <3>2. shown => tool_decisions[local.at] # "refuse" /\ saw_untrusted
      BY <2>1, <2>4 DEF DispatchMemory, HasCall, LatchInv
    <3>3. pc = "dispatch_tools"
      BY <2>4 DEF DispatchMemory, HasCall
    <3> DEFINE source == IF tool_decisions[local.at] = "external" THEN "external" ELSE "inferred"
    <3>4. effects' = effects \/ effects' = Performed(Current, source)
      BY <2>4 DEF DispatchMemory
    <3>5. shown => /\ Current # "core"
                   /\ Current = "insert" => source = "external"
      BY <2>1, <3>1, <3>2, <3>3 DEF DecidedInv, Current
    <3> HIDE DEF source
    <3> QED  BY <3>4, <3>5 DEF Performed
  <2>5. CASE effects' \subseteq effects
    BY <2>5
  <2>6. \/ DispatchSend \/ DispatchExternal \/ DispatchMemory \/ effects' \subseteq effects
    <3>1. CASE CallLLM
      BY <3>1, CallLLMAnswers DEF ModelAnswers
    <3>2. CASE ~CallLLM
      BY <1>1, <3>2 DEF Next, Graph, Dispatch, Step, BuildPrompt, PressureCheck,
         InjectWarning,
         ProvidersExhausted, SecurityGate, Suspend, GateUnchanged, DispatchRefused,
         DispatchCommit, SanitizeResults, Respond, Resume, Fault, Reset, history, vars
    <3> QED  BY <3>1, <3>2
  <2> QED  BY <2>2, <2>3, <2>4, <2>5, <2>6
<1>2. IInv /\ [Next]_vars => [Kept]_vars
  BY <1>1
<1> QED  BY Inductive, <1>2, PTL DEF UntrustedStaysOut, Spec
=============================================================================
