------------------------------ MODULE Tracing ------------------------------
(***************************************************************************)
(* Trace spans around what a turn runs (observability.py): the client that *)
(* is built once per process, by whichever thread asks first, and          *)
(* traced_node, which runs each node of the graph inside a span.           *)
(***************************************************************************)
EXTENDS Workload

CONSTANT TracedThreads      \* the threads that run turns

VARIABLES
    resolved,   \* _resolved
    tracer,     \* _client: there is one
    node        \* node[t]: the node thread t runs

tracing == <<resolved, tracer, node>>

-----------------------------------------------------------------------------
\* span: the one its body runs in, "open", or "blank" when the client could not open
\* one, or "none" without a client; did: what the body did; seen: what the graph saw
NoNode == [stage |-> "out", span |-> "none", ran |-> 0, did |-> "nothing", seen |-> "nothing"]

TracingInit ==
    /\ resolved = FALSE
    /\ tracer = FALSE
    /\ node = [t \in TracedThreads |-> NoNode]

At(t, stage) == node[t].stage = stage
Enter(t, span) == node' = [node EXCEPT ![t].stage = "body", ![t].span = span]

\* traced_node asks for the client first.
NodeBegins(t) ==
    /\ At(t, "out")
    /\ Spend("nodes")
    /\ node' = [node EXCEPT ![t] = [NoNode EXCEPT !.stage = "asks"]]
    /\ UNCHANGED <<resolved, tracer>>

\* _resolve: `if _resolved`, `_resolved = True` and the building of the client are three
\* steps, and other threads take theirs between them.
FindsUnresolved(t) ==
    /\ At(t, "asks")
    /\ ~resolved
    /\ node' = [node EXCEPT ![t].stage = "claims"]
    /\ UNCHANGED <<left, resolved, tracer>>

Claims(t) ==
    /\ At(t, "claims")
    /\ resolved' = TRUE
    /\ node' = [node EXCEPT ![t].stage = "builds"]
    /\ UNCHANGED <<left, tracer>>

\* Without both keys there is no client; with them, the constructor may raise.
Builds(t) ==
    /\ At(t, "builds")
    /\ \/ left.keys /\ tracer' = TRUE
       \/ left.keys /\ tracer' = FALSE
       \/ ~left.keys /\ UNCHANGED tracer
    /\ node' = [node EXCEPT ![t].stage = "asks"]
    /\ UNCHANGED <<left, resolved>>

\* Mutant: a span that cannot be opened raises into the node.
FindsResolvedStrict(t) ==
    /\ At(t, "asks")
    /\ resolved
    /\ IF tracer
       THEN \/ Enter(t, "open")
            \/ node' = [node EXCEPT ![t].stage = "out", ![t].seen = "raised"]
       ELSE Enter(t, "none")
    /\ UNCHANGED <<left, resolved, tracer>>

\* span: a client that cannot open one costs the trace and not the node.
FindsResolved(t) ==
    /\ At(t, "asks")
    /\ resolved
    /\ IF tracer
       THEN Enter(t, "open") \/ Enter(t, "blank")
       ELSE Enter(t, "none")
    /\ UNCHANGED <<left, resolved, tracer>>

\* What a body does: it returns an update of the state, raises, or asks a human
\* (interrupt, which is an exception to every frame it passes).
Outcomes == {"returned", "raised", "suspended"}

\* What comes out of the span: an exception of the body is caught inside the open span,
\* whose generator then yields a second time, for which contextlib raises RuntimeError.
Seen(span, did) == IF span = "open" /\ did # "returned" THEN "raised" ELSE did

BodyEnds(t) ==
    /\ At(t, "body")
    /\ \E did \in Outcomes :
           node' = [node EXCEPT ![t].stage = "out", ![t].ran = @ + 1, ![t].did = did,
                                ![t].seen = Seen(node[t].span, did)]
    /\ UNCHANGED <<left, resolved, tracer>>

=============================================================================
