----------------------------- MODULE ToolSystem -----------------------------
(***************************************************************************)
(* What the nodes of a turn call: the memory tools over their stores, with *)
(* the job and the migrations beside them, and the external tools, under   *)
(* the trace spans each node and each call runs in (dispatch_tools in      *)
(* graph/nodes.py, traced_node in graph/graph.py).                         *)
(***************************************************************************)
EXTENDS MemorySystem, ExternalTools, Tracing

ASSUME ThreadsAssumption == Threads = TracedThreads

services == <<external, tracing>>
vars == <<left, memory, services>>

Init ==
    /\ left \in Workloads
    /\ MemoryInit
    /\ ExternalInit
    /\ TracingInit

\* Turns begin when startup has returned; a startup that raises leaves no API.
NodeRuns(t) ==
    /\ boot.stage \in {"up", "closed"}
    /\ NodeBegins(t)
    /\ UNCHANGED external

ResolvesClient(t) ==
    (FindsUnresolved(t) \/ Claims(t) \/ Builds(t) \/ FindsResolved(t)) /\ UNCHANGED external

\* The model may name a tool nobody offers.
Dispatches(t) ==
    /\ At(t, "body")
    /\ \E s \in DOMAIN Exports : \E tool \in Exports[s] : Calls(t, tool)
    /\ UNCHANGED tracing

NodeEnds(t) == waits[t] = 0 /\ BodyEnds(t) /\ UNCHANGED external

CallTimesOut(t) == TimesOut(t) /\ UNCHANGED <<memory, tracing>>

ServicesNext ==
    \/ ExternalNext /\ UNCHANGED tracing
    \/ \E t \in Threads : NodeRuns(t) \/ ResolvesClient(t) \/ Dispatches(t) \/ NodeEnds(t)

Next ==
    \/ MemoryNext /\ UNCHANGED services
    \/ ServicesNext /\ UNCHANGED memory

Spec == Init /\ [][Next]_vars

\* A thread goes on with its node, and its timer runs; servers, other threads and the
\* operator owe nothing.
FairSpec ==
    /\ Spec
    /\ \A t \in Threads :
           /\ WF_vars(ResolvesClient(t) /\ UNCHANGED memory)
           /\ WF_vars(NodeEnds(t) /\ UNCHANGED memory)
           /\ WF_vars(CallTimesOut(t))

-----------------------------------------------------------------------------
TypeOK ==
    /\ left \in Allowances
    /\ MemoryTypeOK
    /\ boot.stage \in {"off", "loading", "up", "raised", "closed"}
    /\ errors \subseteq DOMAIN Exports
    /\ \A i \in DOMAIN call :
           /\ call[i].by \in Threads
           /\ call[i].answer \in {"none", "result", "error", "timeout"}
    /\ waits \in [Threads -> 0..Len(call)]
    /\ \A t \in Threads :
           /\ node[t].stage \in {"out", "asks", "claims", "builds", "body"}
           /\ node[t].span \in {"none", "open", "blank"}
           /\ node[t].ran \in 0..1

\* Once the tools are up, each that did not fail to load is offered as its own, whatever
\* became of the servers before it in the registry: a server that is down costs only its
\* own tools (the loop of start).
OneServerDown ==
    boot.stage = "up" /\ boot.open =>
        \A s \in ToSet(Registry) \ errors : \A tool \in Offered(s) :
            tool \in DOMAIN owner /\ owner[tool] = s

\* Whatever fails to be traced, and whichever of two threads builds the client, a node
\* that has ended has run once, and the graph has seen what it did, except for a
\* question to the user in an open span (traced_node, span).
NodeRunsOnce ==
    \A t \in Threads : At(t, "out") /\ node[t].seen # "nothing" =>
        /\ node[t].ran = 1
        /\ \/ node[t].seen = node[t].did
           \/ node[t].span = "open" /\ node[t].did = "suspended"

\* observability.py:91: "tracing must never break a turn", so that the graph sees of
\* every node what the node did.
TracingTransparent ==
    \A t \in Threads : At(t, "out") => node[t].seen = node[t].did

\* A node that has begun ends, be the server it calls silent or the loop stopped under
\* it by a shutdown: the wait for a call is bounded by its timeout alone (_run, close).
NodesEnd == \A t \in Threads : ~At(t, "out") ~> At(t, "out")
=============================================================================
