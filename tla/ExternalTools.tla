---------------------------- MODULE ExternalTools ----------------------------
(***************************************************************************)
(* The external MCP servers as the turns see them (mcp_client.py): one     *)
(* event loop on a thread of its own loads the tools of every server at    *)
(* start and then runs the calls that turn threads submit and wait for, up *)
(* to 120 seconds each.  A wait that ends does not end its call.           *)
(***************************************************************************)
EXTENDS Workload, Sequences, FiniteSets

CONSTANTS
    Registry,       \* the enabled servers of mcp_servers.yaml, in order
    Exports,        \* Exports[s]: the tools server s exports
    Wanted,         \* Wanted[s]: its allowlist; every tool if it has none
    Threads         \* the threads that run turns

ASSUME RegistryAssumption == Registry \in Seq(DOMAIN Exports)

VARIABLES
    boot,       \* how far start() is, and the servers it has still to ask
    owner,      \* _server_of: from the tools offered to their servers
    errors,     \* the servers that did not load
    call,       \* the calls submitted to the loop, in order
    waits       \* waits[t]: the call thread t waits for, or 0

external == <<boot, owner, errors, call, waits>>

-----------------------------------------------------------------------------
ExternalInit ==
    /\ boot = [stage |-> "off", open |-> FALSE, rest |-> <<>>]
    /\ owner = <<>>
    /\ errors = {}
    /\ call = <<>>
    /\ waits = [t \in Threads |-> 0]

(* start                                                                   *)

\* build_external_tools without a registry it can read, or start without the adapters:
\* up, with no client and no tools.
StartsEmpty ==
    /\ boot.stage = "off"
    /\ Spend("starts")
    /\ boot' = [boot EXCEPT !.stage = "up"]
    /\ UNCHANGED <<owner, errors, call, waits>>

StartsLoading ==
    /\ boot.stage = "off"
    /\ Spend("starts")
    /\ boot' = [stage |-> "loading", open |-> TRUE, rest |-> Registry]
    /\ UNCHANGED <<owner, errors, call, waits>>

Offered(s) == Exports[s] \intersect Wanted[s]

\* get_tools answers; each tool of the allowlist is registered.  A name that is taken
\* raises out of _register, out of start and out of build_external_tools.
ServerLoads ==
    /\ boot.stage = "loading"
    /\ boot.rest # <<>>
    /\ LET s == Head(boot.rest)
       IN  IF Offered(s) \intersect DOMAIN owner # {}
           THEN /\ boot' = [boot EXCEPT !.stage = "raised"]
                /\ UNCHANGED owner
           ELSE /\ owner' = [t \in DOMAIN owner \union Offered(s) |->
                                 IF t \in Offered(s) THEN s ELSE owner[t]]
                /\ boot' = [boot EXCEPT !.rest = Tail(@)]
    /\ UNCHANGED <<left, errors, call, waits>>

\* Mutant: the first server that does not answer ends the loading.
ServerUnavailableLast ==
    /\ boot.stage = "loading"
    /\ boot.rest # <<>>
    /\ errors' = errors \union {Head(boot.rest)}
    /\ boot' = [boot EXCEPT !.rest = <<>>]
    /\ UNCHANGED <<left, owner, call, waits>>

\* The server does not start, crashes, or does not answer in time.
ServerUnavailable ==
    /\ boot.stage = "loading"
    /\ boot.rest # <<>>
    /\ errors' = errors \union {Head(boot.rest)}
    /\ boot' = [boot EXCEPT !.rest = Tail(@)]
    /\ UNCHANGED <<left, owner, call, waits>>

Started ==
    /\ boot.stage = "loading"
    /\ boot.rest = <<>>
    /\ boot' = [boot EXCEPT !.stage = "up"]
    /\ UNCHANGED <<left, owner, errors, call, waits>>

\* close: the API shuts down, whatever its turn threads wait for; the loop stops.
Closes ==
    /\ boot.stage = "up"
    /\ boot' = [boot EXCEPT !.stage = "closed", !.open = FALSE]
    /\ UNCHANGED <<left, owner, errors, call, waits>>

-----------------------------------------------------------------------------
(* call                                                                    *)

\* A call of a tool that nobody offers, or after close, is answered with an error and
\* never sent.
Calls(t, tool) ==
    /\ boot.stage \in {"up", "closed"}
    /\ waits[t] = 0
    /\ Spend("calls")
    /\ IF boot.open /\ tool \in DOMAIN owner
       THEN /\ call' = Append(call, [by |-> t, tool |-> tool, to |-> owner[tool],
                                     acted |-> FALSE, answer |-> "none"])
            /\ waits' = [waits EXCEPT ![t] = Len(call')]
       ELSE UNCHANGED <<call, waits>>
    /\ UNCHANGED <<boot, owner, errors>>

Answer(t, with) ==
    /\ waits[t] # 0
    /\ call' = [call EXCEPT ![waits[t]].answer = with]
    /\ waits' = [waits EXCEPT ![t] = 0]
    /\ UNCHANGED <<left, boot, owner, errors>>

\* The server does what it is asked.  The coroutine of a call that timed out is still
\* on the loop; that of one that failed is not.
ServerActs(i) ==
    /\ boot.open
    /\ ~call[i].acted
    /\ call[i].answer \in {"none", "timeout"}
    /\ call' = [call EXCEPT ![i].acted = TRUE]
    /\ UNCHANGED <<left, boot, owner, errors, waits>>

Replies(t) == boot.open /\ waits[t] # 0 /\ call[waits[t]].acted /\ Answer(t, "result")

\* The session or the call raises, before or after the server has acted.
Fails(t) == boot.open /\ Answer(t, "error")

\* Mutant: the wait ends only while the loop runs.
TimesOutOpen(t) == boot.open /\ Answer(t, "timeout")

\* future.result(timeout=120): the wait ends, and nothing cancels the call
TimesOut(t) == Answer(t, "timeout")

ExternalNext ==
    \/ StartsEmpty \/ StartsLoading \/ ServerLoads \/ ServerUnavailable \/ Started \/ Closes
    \/ \E i \in DOMAIN call : ServerActs(i)
    \/ \E t \in Threads : Replies(t) \/ Fails(t) \/ TimesOut(t)
=============================================================================
