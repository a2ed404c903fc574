--------------------------- MODULE ServiceProofs ---------------------------
(***************************************************************************)
(* Proofs about the external servers and the trace spans: for any registry,*)
(* any tools and any number of threads.                                    *)
(***************************************************************************)
EXTENDS MemoryProofs

-----------------------------------------------------------------------------
(* The inductive invariant, part by part                                   *)

Tools == UNION {Exports[s] : s \in DOMAIN Exports}

Boots == [stage : {"off", "loading", "up", "raised", "closed"}, open : BOOLEAN,
          rest : Seq(DOMAIN Exports)]

Submitted == [by : Threads, tool : Tools, to : DOMAIN Exports, acted : BOOLEAN,
              answer : {"none", "result", "error", "timeout"}]

Nodes == [stage : {"out", "asks", "claims", "builds", "body"}, span : {"none", "open", "blank"},
          ran : 0..1, did : Outcomes \cup {"nothing"}, seen : Outcomes \cup {"nothing"}]

(* A server behind the loop that loads them has its tools or is in errors. *)
LoadedInv ==
    /\ boot.stage \in {"loading", "up"} /\ boot.open =>
           \A s \in ToSet(Registry) \ (errors \cup ToSet(boot.rest)) : \A tool \in Offered(s) :
               tool \in DOMAIN owner /\ owner[tool] = s
    /\ boot.stage = "up" => boot.rest = <<>>
    /\ boot.stage = "off" => boot.rest = <<>> /\ ~boot.open

(* A node has run and been seen when it has ended, and not before.         *)
Ended(n) ==
    /\ n.ran = 1
    /\ n.did \in Outcomes
    /\ n.seen = Seen(n.span, n.did)

NodesInv ==
    \A t \in Threads :
        IF node[t].stage = "out"
        THEN node[t] = NoNode \/ Ended(node[t])
        ELSE node[t].ran = 0 /\ node[t].did = "nothing" /\ node[t].seen = "nothing"

(* A tool is offered as some server's, and a call is one of a thread's to  *)
(* the server whose tool it is.                                            *)
ServersOK ==
    /\ boot \in Boots
    /\ errors \subseteq DOMAIN Exports
    /\ \A tool \in DOMAIN owner : owner[tool] \in DOMAIN Exports
    /\ LoadedInv

CallsOK ==
    /\ call \in Seq(Submitted)
    /\ waits \in [Threads -> 0..Len(call)]

NodesOK ==
    /\ node \in [Threads -> Nodes]
    /\ NodesInv

ServicesInv == ServersOK /\ CallsOK /\ NodesOK

-----------------------------------------------------------------------------
(* Which steps write what                                                  *)

(* The tools' own steps: those of the loop, and those of the threads.      *)
LEMMA ServiceWriters ==
    ASSUME ServicesNext
    PROVE  /\ \/ UNCHANGED tracing
              \/ \E t \in Threads : NodeBegins(t) \/ BodyEnds(t)
              \/ \E t \in Threads : FindsUnresolved(t) \/ Claims(t) \/ Builds(t) \/ FindsResolved(t)
           /\ \/ UNCHANGED external
              \/ ExternalNext
              \/ \E t \in Threads, s \in DOMAIN Exports : \E tool \in Exports[s] : Calls(t, tool)
  BY DEF ServicesNext, NodeRuns, ResolvesClient, Dispatches, NodeEnds

-----------------------------------------------------------------------------
(* The nodes                                                               *)

LEMMA NodesStep ==
    ASSUME NodesOK, ServicesNext
    PROVE  NodesOK'
<1> USE DEF Nodes
<1>1. node \in [Threads -> Nodes] /\ NodesInv
  BY DEF NodesOK
<1>2. CASE UNCHANGED tracing
  BY <1>1, <1>2 DEF tracing, NodesOK, NodesInv
<1>3. ASSUME NEW t \in Threads, NEW n \in Nodes, node' = [node EXCEPT ![t] = n],
             IF n.stage = "out" THEN n = NoNode \/ Ended(n)
                                ELSE n.ran = 0 /\ n.did = "nothing" /\ n.seen = "nothing"
      PROVE  NodesOK'
  <2>1. node' \in [Threads -> Nodes]
    BY <1>1, <1>3
  <2>2. \A u \in Threads : node'[u] = IF u = t THEN n ELSE node[u]
    BY <1>1, <1>3
  <2>3. NodesInv'
    BY <1>1, <1>3, <2>2 DEF NodesInv, Ended, Seen, NoNode
  <2> QED  BY <2>1, <2>3 DEF NodesOK
<1>4. ASSUME NEW t \in Threads, NodeBegins(t)
      PROVE  NodesOK'
  <2> DEFINE n == [stage |-> "asks", span |-> "none", ran |-> 0, did |-> "nothing",
                   seen |-> "nothing"]
  <2>1. [NoNode EXCEPT !.stage = "asks"] = n
    BY DEF NoNode
  <2>2. n \in Nodes
    OBVIOUS
  <2>3. node' = [node EXCEPT ![t] = n]
    BY <1>4, <2>1 DEF NodeBegins
  <2> QED  BY <1>3, <2>2, <2>3
<1>5. ASSUME NEW t \in Threads, NEW stage \in {"asks", "claims", "builds", "body"},
             NEW span \in {"none", "open", "blank"}, node[t].stage # "out",
             node' = [node EXCEPT ![t].stage = stage, ![t].span = span]
      PROVE  NodesOK'
  <2> DEFINE n == [stage |-> stage, span |-> span, ran |-> 0, did |-> "nothing",
                   seen |-> "nothing"]
  <2>1. node[t] \in Nodes /\ node[t].ran = 0 /\ node[t].did = "nothing" /\ node[t].seen = "nothing"
    BY <1>1, <1>5 DEF NodesInv
  <2>2. n \in Nodes
    OBVIOUS
  <2>3. [node[t] EXCEPT !.stage = stage, !.span = span] = n
    <3>1. ASSUME NEW r \in Nodes, NEW q, q = [r EXCEPT !.stage = stage, !.span = span]
          PROVE  q = [stage |-> stage, span |-> span, ran |-> r.ran, did |-> r.did,
                      seen |-> r.seen]
      BY <3>1
    <3> QED  BY <2>1, <3>1, Zenon
  <2>4. node' = [node EXCEPT ![t] = [node[t] EXCEPT !.stage = stage, !.span = span]]
    BY <1>5, Zenon
  <2>5. node' = [node EXCEPT ![t] = n]
    BY <2>3, <2>4
  <2> QED  BY <1>3, <2>2, <2>5
<1>6. ASSUME NEW t \in Threads,
             FindsUnresolved(t) \/ Claims(t) \/ Builds(t) \/ FindsResolved(t)
      PROVE  NodesOK'
  <2>0. node[t] \in Nodes
    BY <1>1
  <2>1. CASE FindsUnresolved(t) \/ Claims(t) \/ Builds(t)
    <3>1. /\ node[t].stage # "out"
          /\ \E stage \in {"asks", "claims", "builds"} : node' = [node EXCEPT ![t].stage = stage]
      BY <2>1 DEF FindsUnresolved, Claims, Builds, At
    <3>2. PICK stage \in {"asks", "claims", "builds"} : node' = [node EXCEPT ![t].stage = stage]
      BY <3>1
    <3>3. node' = [node EXCEPT ![t].stage = stage, ![t].span = node[t].span]
      BY <1>1, <2>0, <3>2
    <3> QED  BY <1>5, <2>0, <3>1, <3>3
  <2>2. CASE FindsResolved(t)
    <3>1. node[t].stage # "out" /\ \E span \in {"none", "open", "blank"} : Enter(t, span)
      BY <2>2 DEF FindsResolved, At
    <3> QED  BY <1>5, <3>1 DEF Enter
  <2> QED  BY <1>6, <2>1, <2>2
<1>7. ASSUME NEW t \in Threads, BodyEnds(t)
      PROVE  NodesOK'
  <2>1. PICK did \in Outcomes :
            node' = [node EXCEPT ![t].stage = "out", ![t].ran = @ + 1, ![t].did = did,
                                 ![t].seen = Seen(node[t].span, did)]
    BY <1>7 DEF BodyEnds
  <2> DEFINE n == [stage |-> "out", span |-> node[t].span, ran |-> 1, did |-> did,
                   seen |-> Seen(node[t].span, did)]
  <2>2. node[t].stage = "body" /\ node[t] \in Nodes
    BY <1>1, <1>7 DEF BodyEnds, At
  <2>3. node[t].ran = 0
    BY <1>1, <2>2 DEF NodesInv
  <2>4. n \in Nodes /\ Ended(n)
    BY <2>2 DEF Ended, Seen, Outcomes
  <2>5. node' = [node EXCEPT ![t] = n]
    BY <1>1, <2>1, <2>2, <2>3
  <2> QED  BY <1>3, <2>4, <2>5
<1> QED  BY ServiceWriters, <1>2, <1>4, <1>6, <1>7

-----------------------------------------------------------------------------
(* The servers                                                             *)

LEMMA ServersStep ==
    ASSUME ServersOK, ServicesNext
    PROVE  ServersOK'
<1> USE DEF Boots
<1>0. /\ boot \in Boots
      /\ errors \subseteq DOMAIN Exports
      /\ \A tool \in DOMAIN owner : owner[tool] \in DOMAIN Exports
      /\ LoadedInv
  BY DEF ServersOK
<1>1. CASE UNCHANGED <<boot, owner, errors>>
  BY <1>0, <1>1 DEF ServersOK, LoadedInv
<1>2. CASE StartsEmpty
  <2>1. boot' = [stage |-> "up", open |-> FALSE, rest |-> <<>>] /\ UNCHANGED <<owner, errors>>
    <3>1. boot' = [boot EXCEPT !.stage = "up"] /\ boot.rest = <<>> /\ ~boot.open
      BY <1>0, <1>2 DEF StartsEmpty, LoadedInv
    <3> QED  BY <1>0, <1>2, <3>1 DEF StartsEmpty
  <2>2. boot' \in Boots
    BY <1>0, <2>1, InNothing
  <2> QED  BY <1>0, <2>1, <2>2 DEF ServersOK, LoadedInv
<1>3. CASE StartsLoading
  <2>1. /\ boot' = [stage |-> "loading", open |-> TRUE, rest |-> Registry]
        /\ UNCHANGED <<owner, errors>>
    BY <1>3 DEF StartsLoading
  <2>2. boot' \in Boots
    BY <2>1, RegistryAssumption
  <2> QED  BY <1>0, <2>1, <2>2 DEF ServersOK, LoadedInv
<1>4. CASE ServerLoads
  <2> DEFINE s == Head(boot.rest)
  <2>0. /\ boot.stage = "loading" /\ boot.rest # <<>> /\ boot.rest \in Seq(DOMAIN Exports)
        /\ boot.open \in BOOLEAN /\ errors' = errors
    BY <1>0, <1>4 DEF ServerLoads
  <2>1. /\ s \in DOMAIN Exports /\ Tail(boot.rest) \in Seq(DOMAIN Exports)
        /\ ToSet(boot.rest) = {s} \cup ToSet(Tail(boot.rest))
    BY <2>0, InTail
  <2>2. CASE Offered(s) \intersect DOMAIN owner # {}
    <3>1. boot' = [boot EXCEPT !.stage = "raised"] /\ owner' = owner
      BY <1>4, <2>2 DEF ServerLoads
    <3>2. boot' \in Boots /\ boot'.stage = "raised"
      BY <1>0, <3>1
    <3> QED  BY <1>0, <2>0, <3>1, <3>2 DEF ServersOK, LoadedInv
  <2>3. CASE Offered(s) \intersect DOMAIN owner = {}
    <3>1. /\ boot' = [boot EXCEPT !.rest = Tail(@)]
          /\ owner' = [t \in DOMAIN owner \union Offered(s) |->
                           IF t \in Offered(s) THEN s ELSE owner[t]]
      BY <1>4, <2>3 DEF ServerLoads
    <3>2. boot' = [stage |-> "loading", open |-> boot.open, rest |-> Tail(boot.rest)]
      BY <1>0, <2>0, <3>1
    <3>3. boot' \in Boots
      BY <2>0, <2>1, <3>2
    <3>4. /\ \A tool \in Offered(s) : tool \in DOMAIN owner' /\ owner'[tool] = s
          /\ \A tool \in DOMAIN owner : tool \in DOMAIN owner' /\ owner'[tool] = owner[tool]
          /\ \A tool \in DOMAIN owner' : owner'[tool] \in DOMAIN Exports
      BY <1>0, <2>1, <2>3, <3>1
    <3>5. ASSUME boot.open,
                 NEW q \in ToSet(Registry) \ (errors \cup ToSet(Tail(boot.rest))),
                 NEW tool \in Offered(q)
          PROVE  tool \in DOMAIN owner' /\ owner'[tool] = q
      <4>1. CASE q = s
        BY <3>4, <3>5, <4>1
      <4>2. CASE q # s
        <5>1. q \in ToSet(Registry) \ (errors \cup ToSet(boot.rest))
          BY <2>1, <3>5, <4>2
        <5>2. tool \in DOMAIN owner /\ owner[tool] = q
          BY <1>0, <2>0, <3>5, <5>1 DEF LoadedInv
        <5> QED  BY <3>4, <5>2
      <4> QED  BY <4>1, <4>2
    <3>6. LoadedInv'
      BY <2>0, <3>2, <3>5 DEF LoadedInv, Offered
    <3> QED  BY <1>0, <2>0, <3>3, <3>4, <3>6 DEF ServersOK
  <2> QED  BY <2>2, <2>3
<1>5. CASE ServerUnavailable
  <2> DEFINE s == Head(boot.rest)
  <2>0. /\ boot.stage = "loading" /\ boot.rest # <<>> /\ boot.rest \in Seq(DOMAIN Exports)
        /\ boot.open \in BOOLEAN /\ errors' = errors \cup {s} /\ owner' = owner
        /\ boot' = [boot EXCEPT !.rest = Tail(@)]
    BY <1>0, <1>5 DEF ServerUnavailable
  <2>1. /\ s \in DOMAIN Exports /\ Tail(boot.rest) \in Seq(DOMAIN Exports)
        /\ ToSet(boot.rest) = {s} \cup ToSet(Tail(boot.rest))
    BY <2>0, InTail
  <2>2. boot' = [stage |-> "loading", open |-> boot.open, rest |-> Tail(boot.rest)]
    BY <1>0, <2>0
  <2>3. boot' \in Boots
    BY <2>0, <2>1, <2>2
  <2>4. errors \cup ToSet(boot.rest) = errors' \cup ToSet(boot'.rest)
    BY <2>0, <2>1, <2>2
  <2>5. LoadedInv'
    BY <1>0, <2>0, <2>2, <2>4 DEF LoadedInv, Offered
  <2> QED  BY <1>0, <2>0, <2>1, <2>3, <2>5 DEF ServersOK
<1>6. CASE Started
  <2>1. /\ boot' = [boot EXCEPT !.stage = "up"] /\ boot.rest = <<>> /\ boot.stage = "loading"
        /\ UNCHANGED <<owner, errors>>
    BY <1>6 DEF Started
  <2>2. boot' = [stage |-> "up", open |-> boot.open, rest |-> <<>>]
    BY <1>0, <2>1
  <2>3. boot' \in Boots
    BY <1>0, <2>1, <2>2
  <2> QED  BY <1>0, <2>1, <2>2, <2>3 DEF ServersOK, LoadedInv, Offered
<1>7. CASE Closes
  <2>1. boot' = [boot EXCEPT !.stage = "closed", !.open = FALSE] /\ UNCHANGED <<owner, errors>>
    BY <1>7 DEF Closes
  <2>2. boot' \in Boots /\ boot'.stage = "closed"
    BY <1>0, <2>1
  <2> QED  BY <1>0, <2>1, <2>2 DEF ServersOK, LoadedInv
<1>8. \/ UNCHANGED <<boot, owner, errors>>
      \/ StartsEmpty \/ StartsLoading \/ ServerLoads \/ ServerUnavailable \/ Started \/ Closes
  <2>1. ASSUME ExternalNext
        PROVE  UNCHANGED <<boot, owner, errors>> \/ StartsEmpty \/ StartsLoading
                   \/ ServerLoads \/ ServerUnavailable \/ Started \/ Closes
    BY <2>1 DEF ExternalNext, ServerActs, Replies, Fails, TimesOut, Answer
  <2>2. ASSUME NEW t \in Threads, NEW s \in DOMAIN Exports, NEW tool \in Exports[s],
               Calls(t, tool)
        PROVE  UNCHANGED <<boot, owner, errors>>
    BY <2>2 DEF Calls
  <2>3. ASSUME UNCHANGED external
        PROVE  UNCHANGED <<boot, owner, errors>>
    BY <2>3 DEF external
  <2> QED  BY <2>1, <2>2, <2>3, ServiceWriters
<1> QED  BY <1>1, <1>2, <1>3, <1>4, <1>5, <1>6, <1>7, <1>8

-----------------------------------------------------------------------------
(* The calls                                                               *)

LEMMA CallsStep ==
    ASSUME CallsOK, ServersOK, ServicesNext
    PROVE  CallsOK'
<1>0. /\ call \in Seq(Submitted) /\ waits \in [Threads -> 0..Len(call)]
      /\ Len(call) \in Nat /\ DOMAIN call = 1..Len(call)
  BY LenProperties DEF CallsOK
<1>1. CASE UNCHANGED <<call, waits>>
  BY <1>0, <1>1 DEF CallsOK
<1>2. ASSUME NEW i \in 1..Len(call), NEW c \in Submitted, call' = [call EXCEPT ![i] = c],
             waits' \in [Threads -> 0..Len(call)]
      PROVE  CallsOK'
  <2>1. call' \in Seq(Submitted) /\ Len(call') = Len(call)
    BY <1>0, <1>2, ExceptSeq
  <2> QED  BY <1>2, <2>1 DEF CallsOK
<1>3. ASSUME NEW t \in Threads, NEW with \in {"result", "error", "timeout"}, Answer(t, with)
      PROVE  CallsOK'
  <2>1. /\ waits[t] # 0 /\ call' = [call EXCEPT ![waits[t]].answer = with]
        /\ waits' = [waits EXCEPT ![t] = 0]
    BY <1>3 DEF Answer
  <2>2. waits[t] \in 1..Len(call) /\ call[waits[t]] \in Submitted
    BY <1>0, <2>1, ElementOfSeq
  <2>3. ASSUME NEW r \in Submitted, NEW q, q = [r EXCEPT !.answer = with]
        PROVE  q \in Submitted
    BY <2>3 DEF Submitted
  <2>4. call' = [call EXCEPT ![waits[t]] = [call[waits[t]] EXCEPT !.answer = with]]
    BY <2>1, Zenon
  <2>5. [call[waits[t]] EXCEPT !.answer = with] \in Submitted
    BY <2>2, <2>3
  <2>6. waits' \in [Threads -> 0..Len(call)]
    BY <1>0, <2>1
  <2> QED  BY <1>2, <2>2, <2>4, <2>5, <2>6
<1>4. ASSUME NEW i \in DOMAIN call, ServerActs(i)
      PROVE  CallsOK'
  <2>1. call' = [call EXCEPT ![i].acted = TRUE] /\ waits' = waits
    BY <1>4 DEF ServerActs
  <2>2. i \in 1..Len(call) /\ call[i] \in Submitted
    BY <1>0, ElementOfSeq
  <2>3. ASSUME NEW r \in Submitted, NEW q, q = [r EXCEPT !.acted = TRUE]
        PROVE  q \in Submitted
    BY <2>3 DEF Submitted
  <2>4. call' = [call EXCEPT ![i] = [call[i] EXCEPT !.acted = TRUE]]
    BY <2>1, Zenon
  <2>5. [call[i] EXCEPT !.acted = TRUE] \in Submitted
    BY <2>2, <2>3
  <2> QED  BY <1>0, <1>2, <2>1, <2>2, <2>4, <2>5
<1>5. ASSUME NEW t \in Threads, NEW s \in DOMAIN Exports, NEW tool \in Exports[s],
             Calls(t, tool)
      PROVE  CallsOK'
  <2>1. CASE boot.open /\ tool \in DOMAIN owner
    <3> DEFINE c == [by |-> t, tool |-> tool, to |-> owner[tool], acted |-> FALSE,
                     answer |-> "none"]
    <3>1. call' = Append(call, c) /\ waits' = [waits EXCEPT ![t] = Len(call')]
      BY <1>5, <2>1 DEF Calls
    <3>2. owner[tool] \in DOMAIN Exports /\ tool \in Tools
      BY <2>1 DEF ServersOK, Tools
    <3>3. c \in Submitted
      BY <3>2 DEF Submitted
    <3>4. call' \in Seq(Submitted) /\ Len(call') = Len(call) + 1
      BY <1>0, <3>1, <3>3, AppendProperties
    <3>5. waits' \in [Threads -> 0..Len(call')]
      BY <1>0, <3>1, <3>4
    <3> QED  BY <3>4, <3>5 DEF CallsOK
  <2>2. CASE ~(boot.open /\ tool \in DOMAIN owner)
    BY <1>1, <1>5, <2>2 DEF Calls
  <2> QED  BY <2>1, <2>2
<1>6. ASSUME ExternalNext
      PROVE  \/ UNCHANGED <<call, waits>>
             \/ \E i \in DOMAIN call : ServerActs(i)
             \/ \E t \in Threads, with \in {"result", "error", "timeout"} : Answer(t, with)
  BY <1>6 DEF ExternalNext, StartsEmpty, StartsLoading, ServerLoads, ServerUnavailable, Started,
              Closes, Replies, Fails, TimesOut
<1>7. ASSUME UNCHANGED external
      PROVE  UNCHANGED <<call, waits>>
  BY <1>7 DEF external
<1> QED  BY <1>1, <1>3, <1>4, <1>5, <1>6, <1>7, ServiceWriters

-----------------------------------------------------------------------------
(* The invariant                                                           *)

LEMMA ServicesStart == Init => ServicesInv
<1> SUFFICES ASSUME Init
             PROVE  ServicesInv
  OBVIOUS
<1>1. /\ boot = [stage |-> "off", open |-> FALSE, rest |-> <<>>] /\ owner = <<>>
      /\ errors = {} /\ call = <<>> /\ waits = [t \in Threads |-> 0]
      /\ node = [t \in Threads |-> NoNode]
  BY ThreadsAssumption DEF Init, ExternalInit, TracingInit
<1>2. DOMAIN owner = {} /\ Len(call) = 0
  BY <1>1
<1>3. <<>> \in Seq(DOMAIN Exports) /\ call \in Seq(Submitted)
  BY <1>1, InNothing
<1>4. boot \in Boots
  BY <1>1, <1>3 DEF Boots
<1>5. waits \in [Threads -> 0..Len(call)]
  BY <1>1, <1>2
<1>6. \A t \in Threads : node[t] = NoNode
  BY <1>1
<1>7. node \in [Threads -> Nodes]
  BY <1>1 DEF NoNode, Nodes
<1>8. CallsOK
  BY <1>3, <1>5 DEF CallsOK
<1>9. LoadedInv
  BY <1>1 DEF LoadedInv
<1>10. NodesInv
  BY <1>6 DEF NodesInv, NoNode
<1> QED  BY <1>1, <1>2, <1>4, <1>7, <1>8, <1>9, <1>10 DEF ServicesInv, ServersOK, NodesOK

(* Neither do the memory tools and their stores touch any of it.           *)
LEMMA ServicesKept ==
    ASSUME ServicesInv, UNCHANGED services
    PROVE  ServicesInv'
  BY DEF ServicesInv, ServersOK, CallsOK, NodesOK, LoadedInv, NodesInv, services, external, tracing

(* The servers, their calls and the nodes stay as the invariant says.      *)
THEOREM ServicesHold == Spec => []ServicesInv
<1>1. ServicesInv /\ [Next]_vars => ServicesInv'
  <2>1. ASSUME ServicesInv, ServicesNext
        PROVE  ServicesInv'
    BY <2>1, ServersStep, CallsStep, NodesStep DEF ServicesInv
  <2>2. ASSUME ServicesInv, UNCHANGED vars
        PROVE  UNCHANGED services
    BY <2>2 DEF vars
  <2> QED  BY <2>1, <2>2, ServicesKept DEF Next
<1> QED  BY <1>1, ServicesStart, PTL DEF Spec

(* The turns' services are of their types: the stores, the registry, the   *)
(* calls and the nodes.                                                    *)
THEOREM SystemTyped == Spec => []TypeOK
<1>1. MemoryInv /\ ServicesInv => TypeOK
  <2> SUFFICES ASSUME MemoryInv, ServicesInv
               PROVE  TypeOK
    OBVIOUS
  <2>1. left \in Allowances /\ MemoryTypeOK
    BY DEF MemoryInv
  <2>2. ServersOK /\ CallsOK /\ NodesOK
    BY DEF ServicesInv
  <2>3. \A i \in DOMAIN call : call[i] \in Submitted
    BY <2>2, ElementOfSeq, LenProperties DEF CallsOK
  <2>4. \A i \in DOMAIN call : /\ call[i].by \in Threads
                               /\ call[i].answer \in {"none", "result", "error", "timeout"}
    BY <2>3 DEF Submitted
  <2> QED  BY <2>1, <2>2, <2>4 DEF TypeOK, ServersOK, CallsOK, NodesOK, Boots, Nodes
<1> QED  BY <1>1, Consistent, ServicesHold, PTL

(* A server that is down costs only its own tools.                         *)
THEOREM ServersIndependent == Spec => []OneServerDown
<1>1. ServicesInv => OneServerDown
  <2> SUFFICES ASSUME ServicesInv, boot.stage = "up", boot.open,
                      NEW s \in ToSet(Registry) \ errors, NEW tool \in Offered(s)
               PROVE  tool \in DOMAIN owner /\ owner[tool] = s
    BY DEF OneServerDown
  <2>1. ToSet(boot.rest) = {}
    BY InNothing DEF ServicesInv, ServersOK, LoadedInv
  <2> QED  BY <2>1 DEF ServicesInv, ServersOK, LoadedInv
<1> QED  BY <1>1, ServicesHold, PTL

(* A node runs once, whatever becomes of its trace.                        *)
THEOREM NodesRunOnce == Spec => []NodeRunsOnce
<1>1. ServicesInv => NodeRunsOnce
  BY DEF ServicesInv, NodesOK, Nodes, NodesInv, NodeRunsOnce, Ended, Seen, NoNode, Outcomes, At
<1> QED  BY <1>1, ServicesHold, PTL
=============================================================================
