--------------------------- MODULE TurnRefinement ---------------------------
(***************************************************************************)
(* Proof that the turn graph implements TurnContract, for every value of   *)
(* the constants: every step of TurnCycle is a step of the contract on the *)
(* mapped state, or leaves the mapped state as it was.                     *)
(***************************************************************************)
EXTENDS TurnCycleProofs

(* What a step that stays within a running turn shows of it.               *)
Within ==
    /\ pc \in Nodes
    /\ pc' \in Nodes

(* Such a step stutters when it has no effect and shows the model nothing. *)
LEMMA StutterStep ==
    ASSUME Within, UNCHANGED <<shown, granted, effects, result>>
    PROVE  UNCHANGED Contract!vars
BY DEF Within, Nodes, Contract!vars

(* An effect of a call that has had none, and that the latch and the       *)
(* human allow, is a Perform step.                                         *)
LEMMA PerformStep ==
    ASSUME IInv, pc = "dispatch_tools", local.at <= Len(pending_tool_calls),
           UNCHANGED <<pc, shown, granted, result>>,
           NEW tool \in EffectTools, NEW source \in {"inferred", "external"},
           effects' = Performed(tool, source),
           tool = "core" => ~shown,
           tool = "insert" /\ shown => source = "external",
           tool = "write" => CallKey \in granted,
           tool # "escape"
    PROVE  Contract!Perform
<1> DEFINE e == [call |-> CallKey, tool |-> tool, source |-> source]
<1>1. /\ e \in Contract!Effect /\ effects' = effects \cup {e}
      /\ e.call = CallKey /\ e.tool = tool /\ e.source = source
  BY CallInBounds DEF Performed, Contract!Effect
<1>2. \A f \in effects : f.call # CallKey
  <2>1. /\ heartbeat_count \in Nat /\ local.at \in Nat
        /\ \A f \in effects : f.call[1] \in Nat /\ f.call[2] \in Nat
    BY BoundsAssumption DEF IInv, TypeOK, LocalType, Effect, Keys, CallIds
  <2>2. \A f \in effects : f.call[1] < heartbeat_count \/ f.call[2] < local.at
    BY DEF IInv, EffectsInv, Nodes
  <2>3. CallKey[1] = heartbeat_count /\ CallKey[2] = local.at
    BY DEF CallKey
  <2> QED  BY <2>1, <2>2, <2>3
<1>3. Contract!Permitted(e)
  BY <1>1 DEF Contract!Permitted
<1>4. UNCHANGED <<IF pc \in Nodes THEN "running"
                  ELSE IF pc = "suspended" THEN "waiting" ELSE "idle", shown,
                  IF pc = "suspended"
                  THEN {<<heartbeat_count, i>> : i \in AskedIds} ELSE {},
                  granted, result>>
  BY DEF Nodes
<1> HIDE DEF e
<1> QED  BY <1>1, <1>2, <1>3, <1>4 DEF Contract!Perform, Nodes

(* Every step of the graph is a step of the contract.                      *)
LEMMA StepSimulation ==
    ASSUME IInv, [Next]_vars
    PROVE  Contract!Next \/ UNCHANGED Contract!vars
<1>1. CASE Step
  BY <1>1 DEF Step, Nodes, Contract!Next, Contract!Begin
<1>2. CASE BuildPrompt \/ PressureCheck \/ InjectWarning \/ ProvidersExhausted
           \/ SanitizeResults
  BY <1>2, StutterStep DEF BuildPrompt, PressureCheck, InjectWarning, ProvidersExhausted,
     SanitizeResults, RouteHeartbeat, Advance, history, Within, Nodes
<1>3. CASE CallLLM
  <2>1. /\ pc = "call_llm" /\ pc' \in Nodes /\ shown' = fetched
        /\ UNCHANGED <<granted, effects, result>>
    BY <1>3, CallLLMAnswers DEF ModelAnswers, Advance, Nodes
  <2>2. shown => fetched
    BY DEF IInv, LatchInv
  <2>3. CASE shown' = shown
    BY <2>1, <2>3, StutterStep DEF Within, Nodes
  <2>4. CASE shown' # shown
    <3>1. shown' = TRUE
      BY <2>1, <2>2, <2>4 DEF IInv, TypeOK
    <3> QED  BY <2>1, <3>1 DEF Nodes, Contract!Next, Contract!Expose
  <2> QED  BY <2>3, <2>4
<1>4. CASE SecurityGate
  <2>1. Advance("security_gate", "dispatch_tools") /\ UNCHANGED granted /\ GateUnchanged
    BY <1>4, Zenon DEF SecurityGate
  <2> QED  BY <2>1, StutterStep DEF Advance, GateUnchanged, Within, Nodes
<1>5. CASE Suspend
  <2> DEFINE asked == {<<heartbeat_count, i>> : i \in AskedIds}
  <2>1. /\ pc = "security_gate" /\ pc' = "suspended" /\ AskedIds # {}
        /\ UNCHANGED <<shown, granted, effects, result, heartbeat_count,
                       pending_tool_calls, saw_untrusted>>
    BY <1>5 DEF Suspend, GateUnchanged, Advance
  <2>2. AskedIds' = AskedIds
    BY <2>1 DEF AskedIds, Verdicts
  <2>3. asked \in SUBSET Keys /\ asked # {}
    <3>1. heartbeat_count \in 0..MaxRounds
      BY <2>1, RoundKeys DEF InRound
    <3>2. AskedIds \subseteq CallIds
      BY BoundsAssumption DEF IInv, CallsInv, TypeOK, AskedIds, CallIds
    <3>3. asked \subseteq Keys
      BY <3>1, <3>2 DEF Keys
    <3>4. PICK i \in AskedIds : TRUE
      BY <2>1
    <3>5. <<heartbeat_count, i>> \in asked
      BY <3>4
    <3> QED  BY <3>3, <3>5
  <2>4. \A e \in effects : e.call \notin asked
    <3>1. heartbeat_count \in Nat /\ \A e \in effects : e.call[1] < heartbeat_count
      BY <2>1 DEF IInv, TypeOK, EffectsInv, Nodes
    <3>2. \A k \in asked : k[1] = heartbeat_count
      OBVIOUS
    <3> QED  BY <3>1, <3>2
  <2> QED
    BY <2>1, <2>2, <2>3, <2>4 DEF Nodes, Contract!Next, Contract!Ask
<1>6. ASSUME NEW approved \in BOOLEAN, Resume(approved)
      PROVE  Contract!Next
  <2>1. /\ pc = "suspended" /\ pc' = "dispatch_tools"
        /\ granted' = granted \cup
              (IF approved THEN {<<heartbeat_count, i>> : i \in AskedIds} ELSE {})
        /\ UNCHANGED <<shown, effects, result>>
    BY <1>6 DEF Resume, GateUnchanged
  <2>2. Contract!Answer(approved)
    BY <2>1 DEF Nodes, Contract!Answer
  <2> QED  BY <2>2 DEF Contract!Next
<1>7. CASE DispatchRefused
  BY <1>7, StutterStep DEF DispatchRefused, DispatchUnchanged, HasCall, Within, Nodes
<1>8. CASE DispatchCommit
  BY <1>8, StutterStep DEF DispatchCommit, Advance, history, Within, Nodes
<1>9. ASSUME HasCall({"allow", "external"}), DispatchUnchanged,
             \/ effects' = effects
             \/ \E tool \in EffectTools, source \in {"inferred", "external"} :
                  /\ effects' = Performed(tool, source)
                  /\ tool = Current
                  /\ tool_decisions[local.at] = "external" => source = "external"
      PROVE  Contract!Next \/ UNCHANGED Contract!vars
  <2>1. /\ pc = "dispatch_tools" /\ local.at <= Len(pending_tool_calls)
        /\ tool_decisions[local.at] # "refuse"
        /\ UNCHANGED <<pc, shown, granted, result>>
    BY <1>9 DEF HasCall, DispatchUnchanged
  <2>2. CASE effects' = effects
    BY <2>1, <2>2, StutterStep DEF Within, Nodes
  <2>3. CASE effects' # effects
    <3>1. PICK tool \in EffectTools, source \in {"inferred", "external"} :
             /\ effects' = Performed(tool, source)
             /\ tool = Current
             /\ tool_decisions[local.at] = "external" => source = "external"
      BY <1>9, <2>3
    <3>2. local.at \in DOMAIN pending_tool_calls
      BY <2>1 DEF IInv, TypeOK, LocalType, CallsInv
    <3>3. /\ tool = "core" => ~shown
          /\ tool = "insert" /\ shown => source = "external"
          /\ tool = "write" => CallKey \in granted
          /\ tool # "escape"
      BY <2>1, <3>1, <3>2 DEF IInv, LatchInv, DecidedInv, Current, CallKey
    <3>4. Contract!Perform
      BY <2>1, <3>1, <3>3, PerformStep
    <3> QED  BY <3>4 DEF Contract!Next
  <2> QED  BY <2>2, <2>3
<1>10. CASE DispatchSend
  <2>1. HasCall({"allow", "external"}) /\ DispatchUnchanged /\ Current = "send"
    BY <1>10 DEF DispatchSend, HasCall
  <2>2. tool_decisions[local.at] = "allow"
    BY <1>10 DEF DispatchSend, HasCall
  <2>3. effects' = effects \/ effects' = Performed("send", "inferred")
    BY <1>10 DEF DispatchSend
  <2> QED  BY <1>9, <2>1, <2>2, <2>3 DEF EffectTools
<1>11. CASE DispatchExternal
  <2>1. HasCall({"allow", "external"}) /\ DispatchUnchanged
    BY <1>11 DEF DispatchExternal, HasCall
  <2>2. tool_decisions[local.at] = "allow"
    BY <1>11 DEF DispatchExternal, HasCall
  <2>3. effects' = effects
        \/ (Current \in EffectTools /\ effects' = Performed(Current, "inferred"))
    BY <1>11 DEF DispatchExternal
  <2> QED  BY <1>9, <2>1, <2>2, <2>3 DEF EffectTools
<1>12. CASE DispatchMemory
  <2> DEFINE source == IF tool_decisions[local.at] = "external" THEN "external" ELSE "inferred"
  <2>1. HasCall({"allow", "external"}) /\ DispatchUnchanged
    BY <1>12 DEF DispatchMemory
  <2>2. effects' = effects \/ (Current \in EffectTools /\ effects' = Performed(Current, source))
    BY <1>12 DEF DispatchMemory
  <2> QED  BY <1>9, <2>1, <2>2
<1>13. CASE Respond
  <2>1. /\ pc = "respond" /\ pc' = "idle" /\ result' = "replied"
        /\ UNCHANGED <<shown, granted, effects>>
    BY <1>13 DEF Respond, Advance, history
  <2> QED  BY <2>1 DEF Nodes, Contract!Next, Contract!End
<1>14. CASE Fault
  BY <1>14 DEF Fault, history, Nodes, Contract!Next, Contract!End
<1>15. CASE Reset
  BY <1>15 DEF Reset, Nodes, Contract!Next, Contract!Clear
<1>16. CASE UNCHANGED vars
  <2>1. UNCHANGED <<pc, heartbeat_count, pending_tool_calls, saw_untrusted, shown, granted,
                    effects, result>>
    BY <1>16 DEF vars, ckpt, history
  <2>2. AskedIds' = AskedIds
    BY <2>1 DEF AskedIds, Verdicts
  <2> QED  BY <2>1, <2>2 DEF Contract!vars
<1> QED
  BY <1>1, <1>2, <1>3, <1>4, <1>5, <1>6, <1>7, <1>8, <1>10, <1>11, <1>12, <1>13, <1>14,
     <1>15, <1>16 DEF Next, Graph, Dispatch

(* The turn graph implements the contract of a conversation: an effect     *)
(* happens once, only in a running turn, only where the latch and the      *)
(* human's answers allow it, and authority dies with its turn.             *)
THEOREM Implements == Spec => ImplementsContract
<1>1. Init => Contract!Init
  BY DEF Init, Nodes, Contract!Init
<1>2. IInv /\ [Next]_vars => [Contract!Next]_(Contract!vars)
  BY StepSimulation
<1> QED  BY Inductive, <1>1, <1>2, PTL DEF Spec, ImplementsContract, Contract!Spec
=============================================================================
