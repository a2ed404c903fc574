------------------------------- MODULE Router -------------------------------
(***************************************************************************)
(* The failover router (llm/router.py) over its budget ledger              *)
(* (llm/budgets.py): several threads, of one process or of several, walk   *)
(* the chain of providers and share the ledger's table, whose rows are     *)
(* keyed by provider and UTC date.  What a provider does with a request is *)
(* one of the outcomes llm/errors.py tells apart.                          *)
(*                                                                         *)
(* Time is counted in minutes, the length of a rate-limit cooldown.        *)
(***************************************************************************)
EXTENDS Integers, Sequences, FiniteSets

CONSTANTS
    Providers,      \* the configured providers that have a key
    Chain,          \* Chain[c]: the providers of c's lane, by priority
    Callers,        \* threads that call chat()
    Processes,      \* the API and the consolidation job
    ProcessOf,      \* ProcessOf[c]: the process c is a thread of
    RequestLimit,   \* RequestLimit[p]: daily_request_limit
    Unlimited,      \* ... when providers.yaml says null
    ServerRetries,  \* server_retries
    DayLength,      \* minutes in a day
    MaxNow,         \* bound: minutes of a behaviour
    MaxServed,      \* bound: MaxServed[p]: answers of a provider in a day
    MaxRestarts     \* bound: restarts of a process

ASSUME ChainAssumption == Chain \in [Callers -> Seq(Providers)]
ASSUME ProcessAssumption == ProcessOf \in [Callers -> Processes]
ASSUME LimitAssumption == RequestLimit \in [Providers -> Nat \cup {Unlimited}]
ASSUME UnlimitedAssumption == Unlimited \notin Nat
ASSUME CallersAssumption == IsFiniteSet(Callers) /\ Callers # {}
ASSUME NumbersAssumption ==
    /\ ServerRetries \in Nat
    /\ DayLength \in Nat \ {0}
    /\ MaxNow \in Nat
    /\ MaxServed \in [Providers -> Nat]
    /\ MaxRestarts \in Nat

VARIABLES
    now,
    \* today's rows of the provider_usage table: an earlier date is never read again
    rows,       \* the providers that have a row
    requests,   \* requests[p], 0 without a row
    cooldown,   \* cooldown[p]: cooldown_until, 0 when null or without a row
    \* the routers
    disabled,   \* disabled[x]: _disabled of process x
    thread,     \* thread[c]: how far c's call of chat() is, and its locals
    \* read by the properties only
    served,     \* served[p]: requests p has answered today
    lost,       \* lost[p]: answers given up today before they were charged
    restarts

table == <<rows, requests, cooldown>>
world == <<now, served, lost, restarts>>
vars == <<table, disabled, thread, world>>

-----------------------------------------------------------------------------
Today == now \div DayLength

(* Mutant: the midnight after the next.                                    *)
MidnightTomorrow == (Today + 2) * DayLength

Midnight == (Today + 1) * DayLength

Stages == {"idle", "check", "usage", "call", "ensure_cooling", "set_cooling",
           "ensure_row", "count"}

(* at: position in the chain; attempt: retries of the present request;     *)
(* until: the end of the cooldown it is about to write.                    *)
Thread ==
    [pc : Stages, at : Nat \ {0}, attempt : 0..ServerRetries, until : 0..MaxNow + DayLength]

(* chat() comes to the n-th provider of the chain.                         *)
ComesTo(n) == [pc |-> "check", at |-> n, attempt |-> 0, until |-> 0]
Idle == [pc |-> "idle", at |-> 1, attempt |-> 0, until |-> 0]

Nothing == [p \in Providers |-> 0]

Init ==
    /\ now = 0
    /\ rows = {}
    /\ requests = Nothing
    /\ cooldown = Nothing
    /\ disabled = [x \in Processes |-> {}]
    /\ thread = [c \in Callers |-> Idle]
    /\ served = Nothing
    /\ lost = Nothing
    /\ restarts = 0

Tick ==
    /\ now < MaxNow
    /\ now' = now + 1
    /\ UNCHANGED <<disabled, thread, restarts>>

Minute ==
    /\ Tick
    /\ now + 1 < Midnight
    /\ UNCHANGED <<table, served, lost>>

(* The rows are keyed by date, and the new date has none.                  *)
NewDay ==
    /\ Tick
    /\ now + 1 = Midnight
    /\ rows' = {}
    /\ requests' = Nothing
    /\ cooldown' = Nothing
    /\ served' = Nothing
    /\ lost' = Nothing

-----------------------------------------------------------------------------
(* The ledger's reads and writes, each under its own today().              *)

IsCooling(p) == cooldown[p] > now

(* Mutant: the last request of the budget may be spent twice.              *)
WithinBudgetOffByOne(p) ==
    RequestLimit[p] = Unlimited \/ requests[p] <= RequestLimit[p]

(* The limit on tokens is a second check of the same kind on the same row. *)
WithinBudget(p) ==
    RequestLimit[p] = Unlimited \/ requests[p] < RequestLimit[p]

EnsureRow(p) == rows' = rows \cup {p}

(* An UPDATE of a row that is not there changes nothing.                   *)
Update(column, p, value) == IF p \in rows THEN [column EXCEPT ![p] = value] ELSE column

-----------------------------------------------------------------------------
(* chat()                                                                  *)

At(c, stage) == thread[c].pc = stage
Current(c) == Chain[c][thread[c].at]

Becomes(c, t) == thread' = [thread EXCEPT ![c] = t]
Goto(c, stage) == thread' = [thread EXCEPT ![c].pc = stage]

(* _call_with_retry has returned or raised, and its attempts are forgotten. *)
Returns(c, stage, until) ==
    Becomes(c, [pc |-> stage, at |-> thread[c].at, attempt |-> 0, until |-> until])

(* Mutant: the walk begins again at the first provider.                    *)
NextProviderAgain(c) == Becomes(c, ComesTo(1))

(* Whatever was wrong with this provider, the next one is tried.           *)
NextProvider(c) == Becomes(c, ComesTo(thread[c].at + 1))

(* Begins a walk of the chain (an empty one is refused before anything).   *)
Chat(c) ==
    /\ At(c, "idle")
    /\ Chain[c] # <<>>
    /\ Becomes(c, ComesTo(1))
    /\ UNCHANGED <<table, disabled, world>>

(* _availability: two questions to the table, after one to the process.    *)
CheckCooling(c) ==
    /\ At(c, "check")
    /\ thread[c].at <= Len(Chain[c])
    /\ IF Current(c) \in disabled[ProcessOf[c]] \/ IsCooling(Current(c))
       THEN NextProvider(c)
       ELSE Goto(c, "usage")
    /\ UNCHANGED <<table, disabled, world>>

CheckUsage(c) ==
    /\ At(c, "usage")
    /\ IF WithinBudget(Current(c)) THEN Goto(c, "call") ELSE NextProvider(c)
    /\ UNCHANGED <<table, disabled, world>>

(* AllProvidersExhausted.                                                  *)
Exhausted(c) ==
    /\ At(c, "check")
    /\ thread[c].at > Len(Chain[c])
    /\ Becomes(c, Idle)
    /\ UNCHANGED <<table, disabled, world>>

Answered(c) ==
    /\ At(c, "call")
    /\ served[Current(c)] < MaxServed[Current(c)]
    /\ Returns(c, "ensure_row", 0)
    /\ served' = [served EXCEPT ![Current(c)] = @ + 1]
    /\ UNCHANGED <<table, disabled, now, lost, restarts>>

(* An answer that _normalize cannot read, one without choices: it raises,  *)
(* and chat() with it, before record_request.                              *)
Unreadable(c) ==
    /\ At(c, "call")
    /\ served[Current(c)] < MaxServed[Current(c)]
    /\ Becomes(c, Idle)
    /\ served' = [served EXCEPT ![Current(c)] = @ + 1]
    /\ lost' = [lost EXCEPT ![Current(c)] = @ + 1]
    /\ UNCHANGED <<table, disabled, now, restarts>>

(* 429: a minute's cooldown.  402: a cooldown until midnight.              *)
Cools(c, until) ==
    /\ At(c, "call")
    /\ Returns(c, "ensure_cooling", until)
    /\ UNCHANGED <<table, disabled, world>>

RateLimited(c) == Cools(c, now + 1)
QuotaExceeded(c) == Cools(c, Midnight)

(* 5xx, a transport error, a flubbed tool call: tried again, then given up.  *)
ServerError(c) ==
    /\ At(c, "call")
    /\ IF thread[c].attempt < ServerRetries
       THEN thread' = [thread EXCEPT ![c].attempt = @ + 1]
       ELSE NextProvider(c)
    /\ UNCHANGED <<table, disabled, world>>

(* 401, 403, 404, zero quota: out for as long as the process lives.        *)
Permanent(c) ==
    /\ At(c, "call")
    /\ disabled' = [disabled EXCEPT ![ProcessOf[c]] = @ \cup {Current(c)}]
    /\ NextProvider(c)
    /\ UNCHANGED <<table, world>>

(* Any other error is a bug in the request, and is raised.                 *)
Raised(c) ==
    /\ At(c, "call")
    /\ Becomes(c, Idle)
    /\ UNCHANGED <<table, disabled, world>>

(* A thread that writes to the ledger holds the lock of its process from   *)
(* the first of the two statements to the second.                          *)
LedgerFree(c) ==
    \A o \in Callers \ {c} :
        ProcessOf[o] = ProcessOf[c] => thread[o].pc \notin {"set_cooling", "count"}

EnsureCooling(c) ==
    /\ At(c, "ensure_cooling")
    /\ LedgerFree(c)
    /\ EnsureRow(Current(c))
    /\ Goto(c, "set_cooling")
    /\ UNCHANGED <<requests, cooldown, disabled, world>>

(* set_cooldown overwrites what is there, an earlier one or a longer one.  *)
SetCooling(c) ==
    /\ At(c, "set_cooling")
    /\ cooldown' = Update(cooldown, Current(c), thread[c].until)
    /\ NextProvider(c)
    /\ UNCHANGED <<rows, requests, disabled, world>>

RecordEnsure(c) ==
    /\ At(c, "ensure_row")
    /\ LedgerFree(c)
    /\ EnsureRow(Current(c))
    /\ Goto(c, "count")
    /\ UNCHANGED <<requests, cooldown, disabled, world>>

RecordCount(c) ==
    /\ At(c, "count")
    /\ requests' = Update(requests, Current(c), requests[Current(c)] + 1)
    /\ Becomes(c, Idle)
    /\ UNCHANGED <<rows, cooldown, disabled, world>>

(* The statement c is about to execute in the ledger.                      *)
InLedger(c) ==
    \/ At(c, "check") /\ thread[c].at <= Len(Chain[c])
                      /\ Current(c) \notin disabled[ProcessOf[c]]
    \/ At(c, "usage")
    \/ (At(c, "ensure_cooling") \/ At(c, "ensure_row")) /\ LedgerFree(c)
    \/ At(c, "set_cooling")
    \/ At(c, "count")

Uncharged(c) == At(c, "ensure_row") \/ At(c, "count")

(* It raises (a database that is gone, a locked file), and chat() with it; *)
(* an answer that was to be charged is not.                                *)
LedgerRaises(c) ==
    /\ InLedger(c)
    /\ Becomes(c, Idle)
    /\ lost' = IF Uncharged(c) THEN [lost EXCEPT ![Current(c)] = @ + 1] ELSE lost
    /\ UNCHANGED <<table, disabled, now, served, restarts>>

(* The process is killed in the middle of its calls and started again: its *)
(* threads and its list of disabled providers are gone, the table is not.  *)
ThreadsOf(x) == {c \in Callers : ProcessOf[c] = x}

Restart(x) ==
    /\ restarts < MaxRestarts
    /\ restarts' = restarts + 1
    /\ disabled' = [disabled EXCEPT ![x] = {}]
    /\ thread' = [c \in Callers |-> IF c \in ThreadsOf(x) THEN Idle ELSE thread[c]]
    /\ lost' = [p \in Providers |->
                   lost[p] + Cardinality({c \in ThreadsOf(x) : Uncharged(c) /\ Current(c) = p})]
    /\ UNCHANGED <<table, now, served>>

-----------------------------------------------------------------------------
Walk(c) ==
    \/ CheckCooling(c) \/ CheckUsage(c) \/ Exhausted(c)
    \/ Answered(c) \/ RateLimited(c) \/ QuotaExceeded(c) \/ ServerError(c)
    \/ Unreadable(c) \/ Permanent(c) \/ Raised(c) \/ LedgerRaises(c)
    \/ EnsureCooling(c) \/ SetCooling(c) \/ RecordEnsure(c) \/ RecordCount(c)

Next ==
    \/ Minute
    \/ NewDay
    \/ \E c \in Callers : Chat(c) \/ Walk(c)
    \/ \E x \in Processes : Restart(x)

Spec == Init /\ [][Next]_vars

(* A thread in chat() runs on: a request ends within its timeout, and the  *)
(* ledger's statements are brief.  A thread that waits for the ledger's    *)
(* lock gets it in the end, for who has held it comes back only after      *)
(* another request to a provider.  Nothing obliges a caller to call again, *)
(* or time to pass while it does.                                          *)
FairSpec ==
    /\ Spec
    /\ \A c \in Callers : WF_vars(Walk(c)) /\ SF_vars(EnsureCooling(c) \/ RecordEnsure(c))

-----------------------------------------------------------------------------
(* The type invariant.                                                     *)
TypeOK ==
    /\ now \in 0..MaxNow
    /\ rows \subseteq Providers
    /\ requests \in [Providers -> Nat]
    /\ cooldown \in [Providers -> 0..MaxNow + DayLength]
    /\ disabled \in [Processes -> SUBSET Providers]
    /\ thread \in [Callers -> Thread]
    /\ \A c \in Callers :
          thread[c].pc \notin {"idle", "check"} => thread[c].at <= Len(Chain[c])
    /\ served \in [Providers -> Nat]
    /\ lost \in [Providers -> Nat]
    /\ restarts \in 0..MaxRestarts

(* The budget is read before a request and charged after its answer, by    *)
(* threads that do not wait for each other, so it can be overspent; but    *)
(* what a provider has answered today exceeds its budget by no more than   *)
(* the answers that were under way, one for each other thread, and those   *)
(* that were given up uncharged: their process died, they could not be     *)
(* read, or the ledger raised.  Restarts, midnights and cooldowns in       *)
(* between add nothing (router.py chat, budgets.py record_request).        *)
OverspendBounded ==
    \A p \in Providers :
        RequestLimit[p] # Unlimited =>
            served[p] <= RequestLimit[p] + Cardinality(Callers) - 1 + lost[p]

(* Every call of chat() ends: with an answer, with the error of a provider *)
(* or with AllProvidersExhausted, whatever the other threads write to the  *)
(* ledger meanwhile (router.py chat, _call_with_retry).                    *)
EveryChatEnds == \A c \in Callers : []<>At(c, "idle")

(* "402  -> QuotaExceededError   (cooldown until UTC midnight, then next   *)
(* provider)" (llm/errors.py): a cooldown until midnight stands until      *)
(* midnight.  (Before the last minute of the day only a 402 asks for one.)  *)
QuotaHeld ==
    [][\A p \in Providers :
          cooldown[p] = Midnight /\ now + 1 < Midnight => cooldown'[p] = Midnight]_vars
=============================================================================
