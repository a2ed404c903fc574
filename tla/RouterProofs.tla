---------------------------- MODULE RouterProofs ----------------------------
(***************************************************************************)
(* Proofs that the router keeps its types, and that a budget is overspent  *)
(* by no more than the answers under way and those that were given up      *)
(* uncharged: for any number of threads, processes, providers, restarts    *)
(* and days.                                                               *)
(***************************************************************************)
EXTENDS Router, FiniteSetTheorems, SequenceTheorems, TLAPS

(* The threads that have passed p's budget and not charged it yet.         *)
Spending(p) ==
    {c \in Callers : thread[c].pc \in {"call", "ensure_row", "count"} /\ Current(c) = p}

(* Those among them that p has answered today.  A row that was ensured is  *)
(* there until midnight: a thread about to count in a row that is not there *)
(* was answered on an earlier day, and its UPDATE will change nothing.     *)
Answers(p) ==
    {c \in Callers : /\ thread[c].pc = "ensure_row" \/ (thread[c].pc = "count" /\ p \in rows)
                     /\ Current(c) = p}

(* What is served is charged, about to be, or given up: with its process,  *)
(* for it cannot be read, or because the ledger raised.                    *)
ChargedInv ==
    \A p \in Providers : served[p] <= requests[p] + Cardinality(Answers(p)) + lost[p]

(* What is charged and what is about to be: the last thread to be let in   *)
(* found the budget not spent, and may have found every other one under way. *)
SpendingInv ==
    \A p \in Providers : RequestLimit[p] # Unlimited =>
        requests[p] + Cardinality(Spending(p)) <= RequestLimit[p] + Cardinality(Callers) - 1

(* A budget of nothing lets nobody in.                                     *)
ClosedInv == \A p \in Providers : RequestLimit[p] = 0 => Spending(p) = {} /\ requests[p] = 0

IInv == TypeOK /\ ChargedInv /\ SpendingInv /\ ClosedInv

-----------------------------------------------------------------------------
(* Types                                                                   *)

(* Midnight is at most a day away.                                         *)
LEMMA MidnightType ==
    ASSUME now \in 0..MaxNow
    PROVE  Today \in Nat /\ Midnight \in 0..MaxNow + DayLength
<1>1. DayLength \in Nat /\ DayLength > 0 /\ MaxNow \in Nat
  BY NumbersAssumption
<1>2. Today \in Nat /\ Today * DayLength <= now
  BY <1>1 DEF Today
<1>3. (Today + 1) * DayLength = Today * DayLength + DayLength
  BY <1>1, <1>2
<1>4. Today * DayLength \in Nat
  BY <1>1, <1>2
<1> HIDE DEF Today
<1> QED  BY <1>1, <1>2, <1>3, <1>4 DEF Midnight

(* A thread that becomes another leaves the others as they are.            *)
LEMMA BecomesType ==
    ASSUME thread \in [Callers -> Thread], NEW c \in Callers, NEW t \in Thread, Becomes(c, t)
    PROVE  /\ thread' \in [Callers -> Thread]
           /\ thread'[c] = t
           /\ \A o \in Callers \ {c} : thread'[o] = thread[o]
  BY DEF Becomes

(* The thread goes on to the next provider of its chain.                   *)
LEMMA NextProviderType ==
    ASSUME thread \in [Callers -> Thread], NEW c \in Callers, NextProvider(c)
    PROVE  /\ thread' \in [Callers -> Thread]
           /\ thread'[c].pc = "check"
           /\ \A o \in Callers \ {c} : thread'[o] = thread[o]
<1>1. ComesTo(thread[c].at + 1) \in Thread
  BY NumbersAssumption DEF ComesTo, Thread, Stages
<1>2. ComesTo(thread[c].at + 1).pc = "check"
  BY DEF ComesTo
<1> QED  BY <1>1, <1>2, BecomesType DEF NextProvider

(* A thread that goes to another stage keeps its place and its locals.     *)
LEMMA GotoType ==
    ASSUME thread \in [Callers -> Thread], NEW c \in Callers, NEW stage \in Stages,
           Goto(c, stage)
    PROVE  /\ thread' \in [Callers -> Thread]
           /\ thread'[c].pc = stage
           /\ thread'[c].at = thread[c].at
           /\ \A o \in Callers \ {c} : thread'[o] = thread[o]
<1>1. [thread[c] EXCEPT !.pc = stage] \in Thread
  BY DEF Thread
<1>2. thread' = [thread EXCEPT ![c] = [thread[c] EXCEPT !.pc = stage]]
  BY DEF Goto
<1> QED  BY <1>1, <1>2 DEF Thread

(* The same for a thread whose call has returned or raised.                *)
LEMMA ReturnsType ==
    ASSUME thread \in [Callers -> Thread], NEW c \in Callers, NEW stage \in Stages,
           NEW until \in 0..MaxNow + DayLength, Returns(c, stage, until)
    PROVE  /\ thread' \in [Callers -> Thread]
           /\ thread'[c].pc = stage
           /\ thread'[c].at = thread[c].at
           /\ \A o \in Callers \ {c} : thread'[o] = thread[o]
<1> DEFINE t == [pc |-> stage, at |-> thread[c].at, attempt |-> 0, until |-> until]
<1>1. t \in Thread /\ t.pc = stage /\ t.at = thread[c].at
  BY NumbersAssumption DEF Thread
<1>2. Becomes(c, t)
  BY DEF Returns
<1> HIDE DEF t
<1> QED  BY <1>1, <1>2, BecomesType

(* What a step of thread c does to the threads: the others stay, and c     *)
(* stays at its provider, or is done with it.                              *)
Moves(c) ==
    /\ thread' \in [Callers -> Thread]
    /\ \A o \in Callers \ {c} : thread'[o] = thread[o]
    /\ \/ thread'[c].pc \in {"idle", "check"}
       \/ thread'[c].at = thread[c].at /\ thread[c].at <= Len(Chain[c])

(* How a call returns.                                                     *)
LEMMA CallReturns ==
    ASSUME TypeOK, NEW c \in Callers, Answered(c) \/ RateLimited(c) \/ QuotaExceeded(c)
    PROVE  /\ thread[c].pc = "call"
           /\ \E stage \in {"ensure_row", "ensure_cooling"}, until \in 0..MaxNow + DayLength :
                 Returns(c, stage, until)
<1>1. /\ 0 \in 0..MaxNow + DayLength
      /\ now + 1 \in 0..MaxNow + DayLength
      /\ Midnight \in 0..MaxNow + DayLength
  BY MidnightType, NumbersAssumption DEF TypeOK
<1>2. CASE Answered(c)
  BY <1>1, <1>2 DEF Answered, At
<1>3. CASE RateLimited(c)
  BY <1>1, <1>3 DEF RateLimited, Cools, At
<1>4. CASE QuotaExceeded(c)
  BY <1>1, <1>4 DEF QuotaExceeded, Cools, At
<1> QED  BY <1>2, <1>3, <1>4

(* Every step of a walk moves its thread so.                               *)
LEMMA WalkMoves ==
    ASSUME TypeOK, NEW c \in Callers, Chat(c) \/ Walk(c)
    PROVE  Moves(c)
<1>a. thread \in [Callers -> Thread]
  BY DEF TypeOK
<1>b. thread[c].pc \notin {"idle", "check"} => thread[c].at <= Len(Chain[c])
  BY DEF TypeOK
<1> USE <1>a DEF Moves
<1>1. Idle \in Thread /\ Idle.pc = "idle" /\ ComesTo(1) \in Thread /\ ComesTo(1).pc = "check"
  BY NumbersAssumption DEF Idle, ComesTo, Thread, Stages
<1>2. ASSUME \/ Chat(c) \/ Exhausted(c) \/ Raised(c) \/ RecordCount(c)
             \/ Unreadable(c) \/ LedgerRaises(c)
      PROVE  Moves(c)
  <2>1. PICK t \in Thread : Becomes(c, t) /\ t.pc \in {"idle", "check"}
    BY <1>1, <1>2 DEF Chat, Exhausted, Raised, RecordCount, Unreadable, LedgerRaises
  <2>2. /\ thread' \in [Callers -> Thread]
        /\ thread'[c] = t
        /\ \A o \in Callers \ {c} : thread'[o] = thread[o]
    BY <2>1, BecomesType
  <2> QED  BY <2>1, <2>2
<1>3. ASSUME Permanent(c) \/ SetCooling(c)
      PROVE  Moves(c)
  <2>1. NextProvider(c)
    BY <1>3 DEF Permanent, SetCooling
  <2>2. /\ thread' \in [Callers -> Thread]
        /\ thread'[c].pc = "check"
        /\ \A o \in Callers \ {c} : thread'[o] = thread[o]
    BY <2>1, NextProviderType
  <2> QED  BY <2>2
<1>4. ASSUME CheckCooling(c)
      PROVE  Moves(c)
  <2>1. NextProvider(c) \/ Goto(c, "usage")
    BY <1>4 DEF CheckCooling
  <2>2. thread[c].at <= Len(Chain[c])
    BY <1>4 DEF CheckCooling
  <2> QED  BY <2>1, <2>2, NextProviderType, GotoType DEF Stages
<1>5. ASSUME CheckUsage(c)
      PROVE  Moves(c)
  <2>1. NextProvider(c) \/ Goto(c, "call")
    BY <1>5 DEF CheckUsage
  <2>2. thread[c].at <= Len(Chain[c])
    BY <1>5, <1>b DEF CheckUsage, At
  <2> QED  BY <2>1, <2>2, NextProviderType, GotoType DEF Stages
<1>6. ASSUME NEW stage \in Stages, Goto(c, stage), thread[c].pc \notin {"idle", "check"}
      PROVE  Moves(c)
  BY <1>6, <1>b, GotoType
<1>7. ASSUME EnsureCooling(c) \/ RecordEnsure(c)
      PROVE  Moves(c)
  BY <1>6, <1>7 DEF EnsureCooling, RecordEnsure, At, Stages
<1>8. ASSUME Answered(c) \/ RateLimited(c) \/ QuotaExceeded(c)
      PROVE  Moves(c)
  <2>1. PICK stage \in Stages, until \in 0..MaxNow + DayLength : Returns(c, stage, until)
    BY <1>8, CallReturns DEF Stages
  <2>2. thread[c].at <= Len(Chain[c])
    BY <1>8, <1>b DEF Answered, RateLimited, QuotaExceeded, Cools, At
  <2> QED  BY <2>1, <2>2, ReturnsType
<1>9. ASSUME ServerError(c)
      PROVE  Moves(c)
  <2>1. CASE thread[c].attempt < ServerRetries
    <3>1. [thread[c] EXCEPT !.attempt = thread[c].attempt + 1] \in Thread
      <4>1. thread[c].attempt + 1 \in 0..ServerRetries /\ thread[c] \in Thread
        BY <2>1, NumbersAssumption DEF Thread
      <4> QED  BY <4>1 DEF Thread
    <3>2. thread' = [thread EXCEPT ![c] =
                         [thread[c] EXCEPT !.attempt = thread[c].attempt + 1]]
      BY <1>9, <2>1 DEF ServerError
    <3>3. thread[c].at <= Len(Chain[c])
      BY <1>9, <1>b DEF ServerError, At
    <3> QED  BY <3>1, <3>2, <3>3 DEF Thread
  <2>2. CASE ~(thread[c].attempt < ServerRetries)
    <3>1. NextProvider(c)
      BY <1>9, <2>2 DEF ServerError
    <3> QED  BY <3>1, NextProviderType
  <2> QED  BY <2>1, <2>2
<1> QED  BY <1>2, <1>3, <1>4, <1>5, <1>7, <1>8, <1>9 DEF Walk

(* What a thread calls is a provider.                                      *)
LEMMA CurrentType ==
    ASSUME TypeOK, NEW c \in Callers, thread[c].at <= Len(Chain[c])
    PROVE  Current(c) \in Providers
<1>1. Chain[c] \in Seq(Providers) /\ thread[c].at \in 1..Len(Chain[c])
  BY ChainAssumption DEF TypeOK, Thread
<1> QED  BY <1>1 DEF Current

LEMMA TypeStep == TypeOK /\ [Next]_vars => TypeOK'
<1> SUFFICES ASSUME TypeOK, [Next]_vars
             PROVE  TypeOK'
  OBVIOUS
<1> USE NumbersAssumption DEF table, world
<1>1. ASSUME Minute \/ NewDay
      PROVE  TypeOK'
  <2>1. now' \in 0..MaxNow /\ UNCHANGED <<disabled, thread, restarts>>
    BY <1>1 DEF Minute, NewDay, Tick, TypeOK
  <2>2. CASE Minute
    BY <2>1, <2>2 DEF Minute, TypeOK
  <2>3. CASE NewDay
    BY <2>1, <2>3 DEF NewDay, Nothing, TypeOK
  <2> QED  BY <1>1, <2>2, <2>3
<1>2. ASSUME NEW c \in Callers, Chat(c) \/ Walk(c)
      PROVE  TypeOK'
  <2>1. /\ thread' \in [Callers -> Thread]
        /\ \A o \in Callers :
              thread'[o].pc \notin {"idle", "check"} => thread'[o].at <= Len(Chain[o])
    BY <1>2, WalkMoves DEF TypeOK, Moves
  <2>2. /\ At(c, "idle") \/ At(c, "check") \/ Current(c) \in Providers
        /\ thread[c].until \in 0..MaxNow + DayLength
    BY CurrentType DEF TypeOK, At, Thread
  <2>3. now' = now /\ restarts' = restarts
    BY <1>2 DEF Chat, Walk, CheckCooling, CheckUsage, Exhausted, Answered, RateLimited,
                QuotaExceeded, Cools, ServerError, Permanent, Raised, EnsureCooling,
                SetCooling, RecordEnsure, RecordCount, Unreadable, LedgerRaises
  <2>4. lost' \in [Providers -> Nat] /\ served' \in [Providers -> Nat]
    <3>1. CASE Answered(c) \/ Unreadable(c) \/ (LedgerRaises(c) /\ Uncharged(c))
      <4>1. Current(c) \in Providers
        BY <3>1, <2>2 DEF Answered, Unreadable, Uncharged, At
      <4>2. /\ served \in [Providers -> Nat] /\ served[Current(c)] + 1 \in Nat
            /\ lost \in [Providers -> Nat] /\ lost[Current(c)] + 1 \in Nat
        BY <4>1 DEF TypeOK
      <4> QED  BY <3>1, <4>2 DEF Answered, Unreadable, LedgerRaises
    <3>2. CASE ~Answered(c) /\ ~Unreadable(c) /\ ~(LedgerRaises(c) /\ Uncharged(c))
      BY <1>2, <3>2 DEF TypeOK, Chat, Walk, CheckCooling, CheckUsage, Exhausted, RateLimited,
                  QuotaExceeded, Cools, ServerError, Permanent, Raised, EnsureCooling,
                  SetCooling, RecordEnsure, RecordCount, LedgerRaises
    <3> QED  BY <3>1, <3>2
  <2>5. rows' \subseteq Providers
    BY <1>2, <2>2 DEF TypeOK, Chat, Walk, CheckCooling, CheckUsage, Exhausted, Answered,
                RateLimited, QuotaExceeded, Cools, ServerError, Permanent, Raised,
                Unreadable, LedgerRaises, EnsureCooling, SetCooling, RecordEnsure,
                RecordCount, EnsureRow, At
  <2>6. requests' \in [Providers -> Nat]
    <3>1. CASE RecordCount(c)
      <4>1. requests' = requests \/ requests' = [requests EXCEPT ![Current(c)] = requests[Current(c)] + 1]
        BY <3>1 DEF RecordCount, Update
      <4>2. Current(c) \in Providers
        BY <3>1, <2>2 DEF RecordCount, At
      <4>3. requests \in [Providers -> Nat] /\ requests[Current(c)] + 1 \in Nat
        BY <4>2 DEF TypeOK
      <4> QED  BY <4>1, <4>3
    <3>2. CASE ~RecordCount(c)
      BY <1>2, <3>2 DEF TypeOK, Chat, Walk, CheckCooling, CheckUsage, Exhausted, Answered,
                  RateLimited, QuotaExceeded, Cools, ServerError, Permanent, Raised,
                  Unreadable, LedgerRaises, EnsureCooling, SetCooling, RecordEnsure
    <3> QED  BY <3>1, <3>2
  <2>7. cooldown' \in [Providers -> 0..MaxNow + DayLength]
    <3>1. CASE SetCooling(c)
      <4>1. cooldown' = cooldown \/ cooldown' = [cooldown EXCEPT ![Current(c)] = thread[c].until]
        BY <3>1 DEF SetCooling, Update
      <4>2. Current(c) \in Providers
        BY <3>1, <2>2 DEF SetCooling, At
      <4> QED  BY <2>2, <4>1, <4>2 DEF TypeOK
    <3>2. CASE ~SetCooling(c)
      BY <1>2, <3>2 DEF TypeOK, Chat, Walk, CheckCooling, CheckUsage, Exhausted, Answered,
                  RateLimited, QuotaExceeded, Cools, ServerError, Permanent, Raised,
                  Unreadable, LedgerRaises, EnsureCooling, RecordEnsure, RecordCount
    <3> QED  BY <3>1, <3>2
  <2>8. disabled' \in [Processes -> SUBSET Providers]
    <3>1. CASE Permanent(c)
      BY <3>1, <2>2, ProcessAssumption DEF TypeOK, Permanent, At
    <3>2. CASE ~Permanent(c)
      BY <1>2, <3>2 DEF TypeOK, Chat, Walk, CheckCooling, CheckUsage, Exhausted, Answered,
                  RateLimited, QuotaExceeded, Cools, ServerError, Raised, Unreadable,
                  LedgerRaises, EnsureCooling, SetCooling, RecordEnsure, RecordCount
    <3> QED  BY <3>1, <3>2
  <2> QED  BY <2>1, <2>3, <2>4, <2>5, <2>6, <2>7, <2>8 DEF TypeOK
<1>3. ASSUME NEW x \in Processes, Restart(x)
      PROVE  TypeOK'
  <2>1. Idle \in Thread /\ Idle.pc = "idle"
    BY DEF Idle, Thread, Stages
  <2>2. /\ thread' \in [Callers -> Thread]
        /\ \A c \in Callers : thread'[c] = Idle \/ thread'[c] = thread[c]
    BY <1>3, <2>1 DEF Restart, TypeOK
  <2>3. lost' \in [Providers -> Nat]
    <3>1. ASSUME NEW p \in Providers
          PROVE  lost[p] + Cardinality({c \in ThreadsOf(x) : Uncharged(c) /\ Current(c) = p})
                    \in Nat
      <4> DEFINE dropped == {c \in ThreadsOf(x) : Uncharged(c) /\ Current(c) = p}
      <4>1. IsFiniteSet(dropped)
        BY CallersAssumption, FS_Subset DEF ThreadsOf
      <4>2. Cardinality(dropped) \in Nat
        BY <4>1, FS_CardinalityType
      <4>3. lost[p] \in Nat
        BY DEF TypeOK
      <4> HIDE DEF dropped
      <4>4. lost[p] + Cardinality(dropped) \in Nat
        BY <4>2, <4>3
      <4> QED  BY <4>4 DEF dropped
    <3> QED  BY <1>3, <3>1 DEF Restart
  <2>4. restarts' \in 0..MaxRestarts
    BY <1>3 DEF Restart, TypeOK
  <2>5. disabled' \in [Processes -> SUBSET Providers]
    BY <1>3 DEF Restart, TypeOK
  <2> QED  BY <1>3, <2>1, <2>2, <2>3, <2>4, <2>5 DEF Restart, TypeOK
<1>4. ASSUME UNCHANGED vars
      PROVE  TypeOK'
  BY <1>4 DEF vars, TypeOK
<1> QED  BY <1>1, <1>2, <1>3, <1>4 DEF Next

(* The types are kept by every step (router.py, budgets.py).               *)
THEOREM TypesKept == Spec => []TypeOK
<1>1. Init => TypeOK
  BY NumbersAssumption DEF Init, TypeOK, Nothing, Idle, Thread, Stages
<1> QED  BY <1>1, TypeStep, PTL DEF Spec

-----------------------------------------------------------------------------
(* Counting threads                                                        *)

(* There are finitely many threads, and one at least.                      *)
LEMMA Few ==
    ASSUME NEW S \in SUBSET Callers
    PROVE  /\ IsFiniteSet(S)
           /\ Cardinality(S) \in Nat
           /\ Cardinality(Callers) \in Nat
           /\ Cardinality(S) <= Cardinality(Callers)
           /\ Cardinality(Callers) >= 1
<1>1. IsFiniteSet(Callers)
  BY CallersAssumption
<1>2. IsFiniteSet(S) /\ Cardinality(S) <= Cardinality(Callers)
  BY <1>1, FS_Subset
<1>3. Cardinality(S) \in Nat /\ Cardinality(Callers) \in Nat
  BY <1>1, <1>2, FS_CardinalityType
<1>4. Cardinality(Callers) # 0
  BY <1>1, CallersAssumption, FS_EmptySet
<1> QED  BY <1>2, <1>3, <1>4

(* A smaller set of threads has no more of them.                           *)
LEMMA Fewer ==
    ASSUME NEW T \in SUBSET Callers, NEW S \in SUBSET T
    PROVE  Cardinality(S) <= Cardinality(T)
  BY Few, FS_Subset

(* One thread that is not in a set makes it one larger.                    *)
LEMMA OneMore ==
    ASSUME NEW T \in SUBSET Callers, NEW S \in SUBSET Callers, NEW c \in Callers,
           c \in T, S \subseteq T \ {c}
    PROVE  Cardinality(S) + 1 <= Cardinality(T)
<1>1. IsFiniteSet(T) /\ Cardinality(T) \in Nat
  BY Few
<1>2. IsFiniteSet(T \ {c}) /\ Cardinality(T \ {c}) = Cardinality(T) - 1
  BY <1>1, FS_RemoveElement
<1>3. Cardinality(S) <= Cardinality(T \ {c})
  BY <1>2, FS_Subset
<1>4. Cardinality(S) \in Nat /\ Cardinality(T \ {c}) \in Nat
  BY <1>2, Few
<1> QED  BY <1>1, <1>2, <1>3, <1>4

(* ... and a set that lacks only that thread is at most one smaller.       *)
LEMMA AtMostOneMore ==
    ASSUME NEW S \in SUBSET Callers, NEW T \in SUBSET Callers, NEW c \in Callers,
           T \ {c} \subseteq S
    PROVE  Cardinality(T) <= Cardinality(S) + 1
<1>1. CASE c \in T
  <2>1. IsFiniteSet(T) /\ Cardinality(T) \in Nat
    BY Few
  <2>2. Cardinality(T \ {c}) = Cardinality(T) - 1
    BY <1>1, <2>1, FS_RemoveElement
  <2>3. Cardinality(T \ {c}) <= Cardinality(S)
    BY Fewer
  <2>4. Cardinality(S) \in Nat /\ Cardinality(T \ {c}) \in Nat
    BY Few
  <2> QED  BY <2>1, <2>2, <2>3, <2>4
<1>2. CASE c \notin T
  <2>1. T \in SUBSET S
    BY <1>2
  <2>2. Cardinality(T) <= Cardinality(S)
    BY <2>1, Fewer
  <2>3. Cardinality(S) \in Nat /\ Cardinality(T) \in Nat
    BY Few
  <2> QED  BY <2>2, <2>3
<1> QED  BY <1>1, <1>2

-----------------------------------------------------------------------------
(* What a step of a thread does to the two sets.                           *)

(* How a thread comes to the stages between a budget and its charge.       *)
LEMMA WalkStages ==
    ASSUME TypeOK, NEW c \in Callers, Chat(c) \/ Walk(c)
    PROVE  /\ thread'[c].pc = "call" =>
                 \/ thread[c].pc = "call"
                 \/ thread[c].pc = "usage" /\ WithinBudget(Current(c))
           /\ thread'[c].pc = "ensure_row" => thread[c].pc = "call"
           /\ thread'[c].pc = "count" => thread[c].pc = "ensure_row"
<1>a. thread \in [Callers -> Thread]
  BY DEF TypeOK
<1> USE <1>a
<1>1. ComesTo(1).pc = "check" /\ Idle.pc = "idle" /\ ComesTo(1) \in Thread /\ Idle \in Thread
  BY NumbersAssumption DEF ComesTo, Idle, Thread, Stages
<1>2. CASE \/ Chat(c) \/ Exhausted(c) \/ Raised(c) \/ RecordCount(c)
           \/ Unreadable(c) \/ LedgerRaises(c)
  <2>1. PICK t \in Thread : Becomes(c, t) /\ t.pc \in {"idle", "check"}
    BY <1>1, <1>2 DEF Chat, Exhausted, Raised, RecordCount, Unreadable, LedgerRaises
  <2>2. thread'[c] = t
    BY <2>1 DEF Becomes
  <2> QED  BY <2>1, <2>2
<1>3. ASSUME NextProvider(c)
      PROVE  thread'[c].pc = "check"
  BY <1>3, NextProviderType
<1>4. ASSUME NEW stage \in Stages, Goto(c, stage)
      PROVE  thread'[c].pc = stage
  BY <1>4, GotoType
<1>5. CASE CheckCooling(c)
  <2>1. NextProvider(c) \/ Goto(c, "usage")
    BY <1>5 DEF CheckCooling
  <2> QED  BY <2>1, <1>3, <1>4 DEF Stages
<1>6. CASE CheckUsage(c)
  <2>1. NextProvider(c) \/ (Goto(c, "call") /\ WithinBudget(Current(c)))
    BY <1>6 DEF CheckUsage
  <2>2. thread[c].pc = "usage"
    BY <1>6 DEF CheckUsage, At
  <2>3. thread'[c].pc = "check" \/ (thread'[c].pc = "call" /\ WithinBudget(Current(c)))
    BY <2>1, <1>3, <1>4 DEF Stages
  <2> QED  BY <2>2, <2>3
<1>7. CASE Answered(c) \/ RateLimited(c) \/ QuotaExceeded(c)
  <2>1. thread'[c].pc \in {"ensure_row", "ensure_cooling"} /\ thread[c].pc = "call"
    BY <1>7, CallReturns, ReturnsType DEF Stages
  <2> QED  BY <2>1
<1>8. CASE RecordEnsure(c)
  <2>1. thread[c].pc = "ensure_row" /\ Goto(c, "count")
    BY <1>8 DEF RecordEnsure, At
  <2> QED  BY <2>1, <1>4 DEF Stages
<1>9. CASE EnsureCooling(c)
  <2>1. Goto(c, "set_cooling")
    BY <1>9 DEF EnsureCooling
  <2> QED  BY <2>1, <1>4 DEF Stages
<1>10. CASE Permanent(c) \/ SetCooling(c)
  <2>1. NextProvider(c)
    BY <1>10 DEF Permanent, SetCooling
  <2> QED  BY <2>1, <1>3
<1>11. CASE ServerError(c)
  <2>1. thread[c].pc = "call"
    BY <1>11 DEF ServerError, At
  <2>2. CASE thread[c].attempt < ServerRetries
    <3>1. thread' = [thread EXCEPT ![c] =
                         [thread[c] EXCEPT !.attempt = thread[c].attempt + 1]]
      BY <1>11, <2>2 DEF ServerError
    <3>2. thread'[c].pc = thread[c].pc
      BY <3>1 DEF Thread
    <3> QED  BY <2>1, <3>2
  <2>3. CASE ~(thread[c].attempt < ServerRetries)
    <3>1. NextProvider(c)
      BY <1>11, <2>3 DEF ServerError
    <3> QED  BY <3>1, <1>3
  <2> QED  BY <2>2, <2>3
<1> QED  BY <1>2, <1>5, <1>6, <1>7, <1>8, <1>9, <1>10, <1>11 DEF Walk

(* Nobody joins those that are spending but a thread that finds the budget *)
(* not spent, and it joins those of its provider.                          *)
LEMMA WhoSpends ==
    ASSUME TypeOK, NEW c \in Callers, Chat(c) \/ Walk(c), NEW p \in Providers
    PROVE  \/ Spending(p)' \subseteq Spending(p)
           \/ /\ WithinBudget(p)
              /\ Spending(p)' \subseteq Spending(p) \cup {c}
<1>1. \A o \in Callers \ {c} : thread'[o] = thread[o]
  BY WalkMoves DEF Moves
<1>2. Spending(p)' \ {c} \subseteq Spending(p)
  BY <1>1 DEF Spending, Current
<1>3. CASE c \notin Spending(p)'
  BY <1>2, <1>3
<1>4. CASE c \in Spending(p)'
  <2>1. thread'[c].pc \in {"call", "ensure_row", "count"} /\ Current(c)' = p
    BY <1>4 DEF Spending
  <2>2. Current(c) = p
    BY <2>1, WalkMoves DEF Moves, Current
  <2>3. \/ thread[c].pc \in {"call", "ensure_row", "count"}
        \/ WithinBudget(Current(c))
    BY <2>1, WalkStages
  <2>4. CASE thread[c].pc \in {"call", "ensure_row", "count"}
    <3>1. c \in Spending(p)
      BY <2>2, <2>4 DEF Spending
    <3> QED  BY <1>2, <3>1
  <2> QED  BY <1>2, <2>2, <2>3, <2>4
<1> QED  BY <1>3, <1>4

(* Nobody leaves those that were answered but by counting, or not being    *)
(* able to.                                                                *)
LEMMA WhoIsAnswered ==
    ASSUME TypeOK, NEW c \in Callers, Chat(c) \/ Walk(c), NEW p \in Providers
    PROVE  /\ Answers(p) \ {c} \subseteq Answers(p)'
           /\ ~RecordCount(c) /\ ~(LedgerRaises(c) /\ c \in Answers(p)) =>
                 Answers(p) \subseteq Answers(p)'
<1>1. \A o \in Callers \ {c} : thread'[o] = thread[o]
  BY WalkMoves DEF Moves
<1>2. rows \subseteq rows'
  BY DEF Chat, Walk, CheckCooling, CheckUsage, Exhausted, Answered, RateLimited,
         QuotaExceeded, Cools, ServerError, Permanent, Raised, Unreadable, LedgerRaises,
         EnsureCooling, SetCooling, RecordEnsure, RecordCount, EnsureRow, table
<1>3. Answers(p) \ {c} \subseteq Answers(p)'
  BY <1>1, <1>2 DEF Answers, Current
<1>4. ASSUME ~RecordCount(c), ~LedgerRaises(c), c \in Answers(p)
      PROVE  c \in Answers(p)'
  <2>1. thread[c].pc \in {"ensure_row", "count"} /\ Current(c) = p
    BY <1>4 DEF Answers
  <2>2. RecordEnsure(c)
    BY <1>4, <2>1 DEF Chat, Walk, CheckCooling, CheckUsage, Exhausted, Answered, RateLimited,
         QuotaExceeded, Cools, ServerError, Permanent, Raised, Unreadable, LedgerRaises,
         EnsureCooling, SetCooling, At
  <2>3. p \in rows' /\ Goto(c, "count")
    BY <2>1, <2>2 DEF RecordEnsure, EnsureRow
  <2>4. thread'[c].pc = "count" /\ thread'[c].at = thread[c].at
    BY <2>3, GotoType DEF Stages, TypeOK
  <2> QED  BY <2>1, <2>3, <2>4 DEF Answers, Current
<1> QED  BY <1>3, <1>4

-----------------------------------------------------------------------------
(* The inductive invariant                                                 *)

(* What a step of a thread does to the numbers.                            *)
LEMMA WalkNumbers ==
    ASSUME TypeOK, NEW c \in Callers, Chat(c) \/ Walk(c)
    PROVE  /\ ~Unreadable(c) /\ ~LedgerRaises(c) => lost' = lost
           /\ ~Answered(c) /\ ~Unreadable(c) => served' = served
           /\ ~RecordCount(c) => requests' = requests
<1> USE DEF Walk, table, world
<1>1. ~Unreadable(c) /\ ~LedgerRaises(c) => lost' = lost
  BY DEF Chat, CheckCooling, CheckUsage, Exhausted, Answered, RateLimited, QuotaExceeded,
         Cools, ServerError, Permanent, Raised, Unreadable, LedgerRaises, EnsureCooling,
         SetCooling, RecordEnsure, RecordCount
<1>2. ~Answered(c) /\ ~Unreadable(c) => served' = served
  BY DEF Chat, CheckCooling, CheckUsage, Exhausted, RateLimited, QuotaExceeded,
         Cools, ServerError, Permanent, Raised, Unreadable, LedgerRaises, EnsureCooling,
         SetCooling, RecordEnsure, RecordCount
<1>3. ~RecordCount(c) => requests' = requests
  BY DEF Chat, CheckCooling, CheckUsage, Exhausted, Answered, RateLimited, QuotaExceeded,
         Cools, ServerError, Permanent, Raised, Unreadable, LedgerRaises, EnsureCooling,
         SetCooling, RecordEnsure
<1> QED  BY <1>1, <1>2, <1>3

(* Counting is adding one to the row of the present provider, if it is there. *)
LEMMA CountNumbers ==
    ASSUME TypeOK, NEW c \in Callers, RecordCount(c), NEW p \in Providers
    PROVE  /\ Current(c) = p /\ p \in rows =>
                 /\ c \in Answers(p)
                 /\ requests'[p] = requests[p] + 1
           /\ ~(Current(c) = p /\ p \in rows) =>
                 /\ c \notin Answers(p)
                 /\ requests'[p] = requests[p]
           /\ Current(c) = p => c \in Spending(p)
           /\ c \notin Spending(p)'
<1>1. thread[c].pc = "count" /\ requests \in [Providers -> Nat]
  BY DEF RecordCount, At, TypeOK
<1>2. Current(c) = p => c \in Spending(p)
  BY <1>1 DEF Spending
<1>3. thread'[c] = Idle
  BY DEF RecordCount, Becomes, TypeOK
<1>4. c \notin Spending(p)'
  BY <1>3 DEF Spending, Idle
<1>5. ASSUME Current(c) = p, p \in rows
      PROVE  c \in Answers(p) /\ requests'[p] = requests[p] + 1
  <2>1. requests' = [requests EXCEPT ![p] = requests[p] + 1]
    BY <1>5 DEF RecordCount, Update
  <2> QED  BY <1>1, <1>5, <2>1 DEF Answers
<1>6. ASSUME ~(Current(c) = p /\ p \in rows)
      PROVE  c \notin Answers(p) /\ requests'[p] = requests[p]
  <2>1. requests' = requests \/
           (Current(c) \in rows /\ requests' = [requests EXCEPT ![Current(c)] = requests[Current(c)] + 1])
    BY DEF RecordCount, Update
  <2> QED  BY <1>1, <1>6, <2>1 DEF Answers
<1> QED  BY <1>2, <1>4, <1>5, <1>6

(* The two sets are sets of threads.                                       *)
LEMMA CountedThreads ==
    ASSUME NEW p
    PROVE  /\ Answers(p) \subseteq Spending(p)
           /\ Spending(p) \subseteq Callers
           /\ Answers(p)' \subseteq Spending(p)'
           /\ Spending(p)' \subseteq Callers
           /\ Cardinality(Answers(p)) \in Nat
           /\ Cardinality(Spending(p)) \in Nat
           /\ Cardinality(Answers(p)') \in Nat
           /\ Cardinality(Spending(p)') \in Nat
<1>1. /\ Answers(p) \subseteq Spending(p)
      /\ Spending(p) \subseteq Callers
      /\ Answers(p)' \subseteq Spending(p)'
      /\ Spending(p)' \subseteq Callers
  BY DEF Answers, Spending
<1>2. /\ Answers(p) \in SUBSET Callers
      /\ Answers(p)' \in SUBSET Callers
      /\ Spending(p) \in SUBSET Callers
      /\ Spending(p)' \in SUBSET Callers
  BY <1>1
<1> QED  BY <1>1, <1>2, Few

(* What is served is charged, about to be, or given up.                    *)
LEMMA ChargedStep == TypeOK /\ ChargedInv /\ [Next]_vars => ChargedInv'
<1> SUFFICES ASSUME TypeOK, ChargedInv, [Next]_vars, NEW p \in Providers
             PROVE  served'[p] <= requests'[p] + Cardinality(Answers(p)') + lost'[p]
  BY DEF ChargedInv
<1>1. served[p] <= requests[p] + Cardinality(Answers(p)) + lost[p]
  BY DEF ChargedInv
<1>2. /\ served[p] \in Nat /\ requests[p] \in Nat /\ lost[p] \in Nat
      /\ served'[p] \in Nat /\ requests'[p] \in Nat /\ lost'[p] \in Nat
  BY TypeStep DEF TypeOK
<1>3. Cardinality(Answers(p)) \in Nat /\ Cardinality(Answers(p)') \in Nat
  BY CountedThreads
<1>4. Answers(p) \in SUBSET Callers /\ Answers(p)' \in SUBSET Callers
  BY CountedThreads
<1>5. ASSUME Answers(p) \subseteq Answers(p)'
      PROVE  Cardinality(Answers(p)) <= Cardinality(Answers(p)')
  BY <1>4, <1>5, Fewer
<1>6. CASE Minute \/ UNCHANGED vars
  <2>1. UNCHANGED <<served, requests, lost, thread, rows>>
    BY <1>6 DEF Minute, Tick, vars, table, world
  <2>2. Answers(p)' = Answers(p)
    BY <2>1 DEF Answers, Current
  <2> QED  BY <1>1, <2>1, <2>2
<1>7. CASE NewDay
  <2>1. served'[p] = 0
    BY <1>7 DEF NewDay, Nothing
  <2> QED  BY <1>2, <1>3, <2>1
<1>8. ASSUME NEW c \in Callers, Chat(c) \/ Walk(c)
      PROVE  served'[p] <= requests'[p] + Cardinality(Answers(p)') + lost'[p]
  <2>1. CASE Answered(c)
    <3>1. Answers(p) \subseteq Answers(p)' /\ lost' = lost /\ requests' = requests
      <4>1. ~RecordCount(c) /\ ~LedgerRaises(c)
        BY <2>1 DEF Answered, RecordCount, LedgerRaises, InLedger, At
      <4> QED  BY <1>8, <2>1, <4>1, WhoIsAnswered, WalkNumbers DEF Answered
    <3>2. served \in [Providers -> Nat] /\ served' = [served EXCEPT ![Current(c)] = @ + 1]
      BY <2>1 DEF Answered, TypeOK
    <3>3. CASE Current(c) # p
      <4>1. served'[p] = served[p]
        BY <3>2, <3>3
      <4> QED  BY <1>1, <1>2, <1>3, <1>5, <3>1, <4>1
    <3>4. CASE Current(c) = p
      <4>1. served'[p] = served[p] + 1
        BY <3>2, <3>4
      <4>2. thread[c].pc = "call" /\ Returns(c, "ensure_row", 0)
        BY <2>1 DEF Answered, At
      <4>3. thread'[c].pc = "ensure_row" /\ thread'[c].at = thread[c].at
        BY <4>2, ReturnsType, NumbersAssumption DEF Stages, TypeOK
      <4>4. c \notin Answers(p) /\ c \in Answers(p)'
        BY <3>4, <4>2, <4>3 DEF Answers, Current
      <4>5. Cardinality(Answers(p)) + 1 <= Cardinality(Answers(p)')
        BY <1>4, <3>1, <4>4, OneMore
      <4> QED  BY <1>1, <1>2, <1>3, <3>1, <4>1, <4>5
    <3> QED  BY <3>3, <3>4
  <2>2. CASE RecordCount(c)
    <3>1. lost' = lost /\ served' = served
      BY <2>2 DEF RecordCount, world
    <3>2. CASE Current(c) = p /\ p \in rows
      <4>1. requests'[p] = requests[p] + 1
        BY <2>2, <3>2, CountNumbers
      <4>2. Cardinality(Answers(p)) <= Cardinality(Answers(p)') + 1
        BY <1>4, <1>8, WhoIsAnswered, AtMostOneMore
      <4> QED  BY <1>1, <1>2, <1>3, <3>1, <4>1, <4>2
    <3>3. CASE ~(Current(c) = p /\ p \in rows)
      <4>1. requests'[p] = requests[p] /\ Answers(p) \subseteq Answers(p)'
        BY <1>8, <2>2, <3>3, CountNumbers, WhoIsAnswered
      <4> QED  BY <1>1, <1>2, <1>3, <1>5, <3>1, <4>1
    <3> QED  BY <3>2, <3>3
  <2>3. CASE Unreadable(c)
    <3>1. requests' = requests /\ Answers(p) \subseteq Answers(p)'
      <4>1. ~RecordCount(c) /\ ~LedgerRaises(c)
        BY <2>3 DEF Unreadable, RecordCount, LedgerRaises, InLedger, At
      <4> QED  BY <1>8, <4>1, WhoIsAnswered, WalkNumbers
    <3>2. /\ served' = [served EXCEPT ![Current(c)] = @ + 1] /\ served \in [Providers -> Nat]
          /\ lost' = [lost EXCEPT ![Current(c)] = @ + 1] /\ lost \in [Providers -> Nat]
      BY <2>3 DEF Unreadable, TypeOK
    <3>3. CASE Current(c) = p
      <4>1. served'[p] = served[p] + 1 /\ lost'[p] = lost[p] + 1
        BY <3>2, <3>3
      <4> QED  BY <1>1, <1>2, <1>3, <1>5, <3>1, <4>1
    <3>4. CASE Current(c) # p
      <4>1. served'[p] = served[p] /\ lost'[p] = lost[p]
        BY <3>2, <3>4
      <4> QED  BY <1>1, <1>2, <1>3, <1>5, <3>1, <4>1
    <3> QED  BY <3>3, <3>4
  <2>4. CASE LedgerRaises(c) /\ c \in Answers(p)
    <3>1. Uncharged(c) /\ Current(c) = p
      BY <2>4 DEF Answers, Uncharged, At
    <3>2. served' = served /\ requests' = requests /\ lost'[p] = lost[p] + 1
      <4>1. lost' = [lost EXCEPT ![p] = lost[p] + 1] /\ lost \in [Providers -> Nat]
        BY <2>4, <3>1 DEF LedgerRaises, TypeOK
      <4> QED  BY <2>4, <4>1 DEF LedgerRaises, table
    <3>3. Answers(p) \ {c} \subseteq Answers(p)'
      BY <1>8, WhoIsAnswered
    <3>4. Cardinality(Answers(p)) <= Cardinality(Answers(p)') + 1
      BY <1>4, <3>3, AtMostOneMore
    <3> QED  BY <1>1, <1>2, <1>3, <3>2, <3>4
  <2>5. CASE LedgerRaises(c) /\ c \notin Answers(p)
    <3>1. served' = served /\ requests' = requests
      BY <2>5 DEF LedgerRaises, table
    <3>2. lost[p] <= lost'[p]
      <4>1. lost \in [Providers -> Nat] /\ lost[p] \in Nat
        BY DEF TypeOK
      <4>2. lost' = lost \/ lost' = [lost EXCEPT ![Current(c)] = lost[Current(c)] + 1]
        BY <2>5 DEF LedgerRaises
      <4> QED  BY <4>1, <4>2
    <3>3. Answers(p) \subseteq Answers(p)'
      <4>1. Answers(p) \ {c} \subseteq Answers(p)'
        BY <1>8, WhoIsAnswered
      <4> QED  BY <2>5, <4>1
    <3> QED  BY <1>1, <1>2, <1>3, <1>5, <3>1, <3>2, <3>3
  <2>6. CASE ~Answered(c) /\ ~RecordCount(c) /\ ~Unreadable(c) /\ ~LedgerRaises(c)
    <3>1. /\ served' = served /\ requests' = requests /\ lost' = lost
          /\ Answers(p) \subseteq Answers(p)'
      BY <1>8, <2>6, WalkNumbers, WhoIsAnswered
    <3> QED  BY <1>1, <1>2, <1>3, <1>5, <3>1
  <2> QED  BY <2>1, <2>2, <2>3, <2>4, <2>5, <2>6
<1>9. ASSUME NEW x \in Processes, Restart(x)
      PROVE  served'[p] <= requests'[p] + Cardinality(Answers(p)') + lost'[p]
  <2> DEFINE dropped == {c \in ThreadsOf(x) : Uncharged(c) /\ Current(c) = p}
  <2>1. /\ served' = served /\ requests' = requests /\ rows' = rows
        /\ lost'[p] = lost[p] + Cardinality(dropped)
        /\ thread' = [c \in Callers |-> IF c \in ThreadsOf(x) THEN Idle ELSE thread[c]]
    BY <1>9 DEF Restart, table
  <2>2. \A c \in Callers \ ThreadsOf(x) : thread'[c] = thread[c]
    BY <2>1
  <2>3. Answers(p) \subseteq Answers(p)' \cup dropped
    BY <2>1, <2>2 DEF Answers, Current, Uncharged, At
  <2>4. dropped \in SUBSET Callers
    BY DEF ThreadsOf
  <2> HIDE DEF dropped
  <2>5. IsFiniteSet(dropped) /\ IsFiniteSet(Answers(p)') /\ Cardinality(dropped) \in Nat
    BY <1>4, <2>4, Few
  <2>6. (Answers(p)' \cup dropped) \in SUBSET Callers
    BY <1>4, <2>4
  <2>7. Cardinality(Answers(p)) <= Cardinality(Answers(p)' \cup dropped)
    BY <2>3, <2>6, Fewer
  <2>8. Cardinality(Answers(p)' \cup dropped) <= Cardinality(Answers(p)') + Cardinality(dropped)
    <3>1. Cardinality(Answers(p)' \cup dropped) =
             Cardinality(Answers(p)') + Cardinality(dropped)
                - Cardinality(Answers(p)' \cap dropped)
      BY <2>5, FS_Union
    <3>2. Answers(p)' \cap dropped \in SUBSET Callers
      BY <2>4
    <3>3. Cardinality(Answers(p)' \cap dropped) \in Nat
      BY <3>2, Few
    <3> QED  BY <1>3, <2>5, <3>1, <3>3
  <2>9. Cardinality(Answers(p)' \cup dropped) \in Nat
    BY <2>6, Few
  <2> QED  BY <1>1, <1>2, <1>3, <2>1, <2>5, <2>7, <2>8, <2>9
<1> QED  BY <1>6, <1>7, <1>8, <1>9 DEF Next

(* Nobody spends a budget of nothing.                                      *)
LEMMA ClosedStep == TypeOK /\ ClosedInv /\ [Next]_vars => ClosedInv'
<1> SUFFICES ASSUME TypeOK, ClosedInv, [Next]_vars,
                    NEW p \in Providers, RequestLimit[p] = 0
             PROVE  Spending(p)' = {} /\ requests'[p] = 0
  BY DEF ClosedInv
<1>1. Spending(p) = {} /\ requests[p] = 0
  BY DEF ClosedInv
<1>2. CASE Minute \/ NewDay \/ UNCHANGED vars
  <2>1. thread' = thread /\ requests'[p] = 0
    BY <1>1, <1>2 DEF Minute, NewDay, Nothing, Tick, vars, table
  <2> QED  BY <1>1, <2>1 DEF Spending, Current
<1>3. ASSUME NEW c \in Callers, Chat(c) \/ Walk(c)
      PROVE  Spending(p)' = {} /\ requests'[p] = 0
  <2>1. ~WithinBudget(p)
    BY <1>1, UnlimitedAssumption DEF WithinBudget
  <2>2. Spending(p)' = {}
    BY <1>1, <1>3, <2>1, WhoSpends
  <2>3. requests'[p] = requests[p]
    BY <1>1, <1>3, WalkNumbers, CountNumbers
  <2> QED  BY <1>1, <2>2, <2>3
<1>4. ASSUME NEW x \in Processes, Restart(x)
      PROVE  Spending(p)' = {} /\ requests'[p] = 0
  <2>1. \A c \in Callers : thread'[c] = Idle \/ thread'[c] = thread[c]
    BY <1>4 DEF Restart
  <2>2. Spending(p)' \subseteq Spending(p)
    BY <2>1 DEF Spending, Current, Idle
  <2> QED  BY <1>1, <1>4, <2>2 DEF Restart, table
<1> QED  BY <1>2, <1>3, <1>4 DEF Next

(* The last thread let in found the budget not spent.                      *)
LEMMA SpendingStep == TypeOK /\ SpendingInv /\ ClosedInv /\ [Next]_vars => SpendingInv'
<1> SUFFICES ASSUME TypeOK, SpendingInv, ClosedInv, [Next]_vars,
                    NEW p \in Providers, RequestLimit[p] # Unlimited
             PROVE  requests'[p] + Cardinality(Spending(p)')
                       <= RequestLimit[p] + Cardinality(Callers) - 1
  BY DEF SpendingInv
<1>1. requests[p] + Cardinality(Spending(p)) <= RequestLimit[p] + Cardinality(Callers) - 1
  BY DEF SpendingInv
<1>2. requests[p] \in Nat /\ requests'[p] \in Nat /\ RequestLimit[p] \in Nat
  BY TypeStep, LimitAssumption DEF TypeOK
<1>3. Cardinality(Spending(p)) \in Nat /\ Cardinality(Spending(p)') \in Nat
  BY CountedThreads
<1>4. Spending(p) \in SUBSET Callers /\ Spending(p)' \in SUBSET Callers
  BY CountedThreads
<1>5. /\ Cardinality(Callers) \in Nat /\ Cardinality(Callers) >= 1
      /\ Cardinality(Spending(p)') <= Cardinality(Callers)
  BY <1>4, Few
<1>6. ASSUME Spending(p)' \subseteq Spending(p), requests'[p] = requests[p]
      PROVE  requests'[p] + Cardinality(Spending(p)')
                <= RequestLimit[p] + Cardinality(Callers) - 1
  <2>1. Cardinality(Spending(p)') <= Cardinality(Spending(p))
    BY <1>4, <1>6, Fewer
  <2> QED  BY <1>1, <1>2, <1>3, <1>5, <1>6, <2>1
<1>7. CASE Minute \/ UNCHANGED vars
  <2>1. thread' = thread /\ requests' = requests
    BY <1>7 DEF Minute, Tick, vars, table
  <2> QED  BY <1>6, <2>1 DEF Spending, Current
<1>8. CASE NewDay
  <2>1. thread' = thread /\ requests'[p] = 0
    BY <1>8 DEF NewDay, Nothing, Tick
  <2>2. Spending(p)' = Spending(p)
    BY <2>1 DEF Spending, Current
  <2>3. CASE RequestLimit[p] = 0
    <3>1. Cardinality(Spending(p)') = 0
      BY <2>2, <2>3, FS_EmptySet DEF ClosedInv
    <3> QED  BY <1>2, <1>5, <2>1, <3>1
  <2>4. CASE RequestLimit[p] # 0
    BY <1>2, <1>3, <1>5, <2>1, <2>4
  <2> QED  BY <2>3, <2>4
<1>9. ASSUME NEW c \in Callers, Chat(c) \/ Walk(c)
      PROVE  requests'[p] + Cardinality(Spending(p)')
                <= RequestLimit[p] + Cardinality(Callers) - 1
  <2>1. CASE RecordCount(c)
    <3>1. ~(thread[c].pc = "usage")
      BY <2>1 DEF RecordCount, At
    <3>2. \A o \in Callers \ {c} : thread'[o] = thread[o]
      BY <1>9, WalkMoves DEF Moves
    <3>3. c \notin Spending(p)'
      BY <2>1, CountNumbers
    <3>4. Spending(p)' \subseteq Spending(p) \ {c}
      BY <3>2, <3>3 DEF Spending, Current
    <3>5. CASE Current(c) = p
      <4>1. c \in Spending(p)
        BY <2>1, <3>5, CountNumbers
      <4>2. Cardinality(Spending(p)') + 1 <= Cardinality(Spending(p))
        BY <1>4, <3>4, <4>1, OneMore
      <4>3. requests'[p] <= requests[p] + 1
        BY <1>2, <2>1, CountNumbers
      <4> QED  BY <1>1, <1>2, <1>3, <1>5, <4>2, <4>3
    <3>6. CASE Current(c) # p
      BY <1>6, <2>1, <3>4, <3>6, CountNumbers
    <3> QED  BY <3>5, <3>6
  <2>2. CASE ~RecordCount(c)
    <3>1. requests' = requests
      BY <1>9, <2>2, WalkNumbers
    <3>2. Spending(p)' \subseteq Spending(p) \/ WithinBudget(p)
      BY <1>9, WhoSpends
    <3>3. CASE WithinBudget(p)
      <4>1. requests[p] < RequestLimit[p]
        BY <3>3 DEF WithinBudget
      <4>2. requests'[p] = requests[p]
        BY <3>1
      <4> QED  BY <1>2, <1>3, <1>5, <4>1, <4>2
    <3>4. CASE Spending(p)' \subseteq Spending(p)
      BY <1>6, <3>1, <3>4
    <3> QED  BY <3>2, <3>3, <3>4
  <2> QED  BY <2>1, <2>2
<1>10. ASSUME NEW x \in Processes, Restart(x)
       PROVE  requests'[p] + Cardinality(Spending(p)')
                 <= RequestLimit[p] + Cardinality(Callers) - 1
  <2>1. \A c \in Callers : thread'[c] = Idle \/ thread'[c] = thread[c]
    BY <1>10 DEF Restart
  <2>2. Spending(p)' \subseteq Spending(p)
    BY <2>1 DEF Spending, Current, Idle
  <2> QED  BY <1>6, <1>10, <2>2 DEF Restart, table
<1> QED  BY <1>7, <1>8, <1>9, <1>10 DEF Next

(* Nothing is served, charged or lost at first.                            *)
LEMMA InitInv == Init => IInv
<1> SUFFICES ASSUME Init
             PROVE  IInv
  OBVIOUS
<1>1. TypeOK
  BY NumbersAssumption DEF Init, TypeOK, Nothing, Idle, Thread, Stages
<1>2. ASSUME NEW p \in Providers
      PROVE  /\ Spending(p) = {} /\ Answers(p) = {}
             /\ served[p] = 0 /\ requests[p] = 0 /\ lost[p] = 0
  BY <1>2 DEF Init, Spending, Answers, Nothing, Idle
<1>3. Cardinality({}) = 0
  BY FS_EmptySet
<1>4. ChargedInv
  BY <1>2, <1>3 DEF ChargedInv
<1>5. SpendingInv
  <2>1. Cardinality(Callers) \in Nat /\ Cardinality(Callers) >= 1
    BY Few
  <2>2. ASSUME NEW p \in Providers, RequestLimit[p] # Unlimited
        PROVE  requests[p] + Cardinality(Spending(p))
                  <= RequestLimit[p] + Cardinality(Callers) - 1
    <3>1. requests[p] = 0 /\ Cardinality(Spending(p)) = 0
      BY <1>2, <1>3
    <3>2. RequestLimit[p] \in Nat
      BY <2>2, LimitAssumption
    <3> QED  BY <2>1, <3>1, <3>2
  <2> QED  BY <2>2 DEF SpendingInv
<1>6. ClosedInv
  BY <1>2 DEF ClosedInv
<1> QED  BY <1>1, <1>4, <1>5, <1>6 DEF IInv

(* What is served is charged or about to be, or lost; and what is charged  *)
(* or about to be is bounded.                                              *)
LEMMA Bounded == IInv => OverspendBounded
<1> SUFFICES ASSUME IInv, NEW p \in Providers, RequestLimit[p] # Unlimited
             PROVE  served[p] <= RequestLimit[p] + Cardinality(Callers) - 1 + lost[p]
  BY DEF OverspendBounded
<1>1. served[p] <= requests[p] + Cardinality(Answers(p)) + lost[p]
  BY DEF IInv, ChargedInv
<1>2. requests[p] + Cardinality(Spending(p)) <= RequestLimit[p] + Cardinality(Callers) - 1
  BY DEF IInv, SpendingInv
<1>3. Cardinality(Answers(p)) <= Cardinality(Spending(p))
  BY CountedThreads, Fewer
<1>4. /\ Cardinality(Answers(p)) \in Nat /\ Cardinality(Spending(p)) \in Nat
      /\ Cardinality(Callers) \in Nat
  BY CountedThreads, Few
<1>5. served[p] \in Nat /\ requests[p] \in Nat /\ lost[p] \in Nat /\ RequestLimit[p] \in Nat
  BY LimitAssumption DEF IInv, TypeOK
<1> QED  BY <1>1, <1>2, <1>3, <1>4, <1>5

-----------------------------------------------------------------------------
(* In every state, what a provider has answered today is charged, about to *)
(* be, or given up (ChargedInv), and what is charged or about to be is     *)
(* within the budget and the other threads (SpendingInv): router.py chat,  *)
(* budgets.py record_request.                                              *)
THEOREM Inductive == Spec => []IInv
<1>1. Init => IInv
  BY InitInv
<1>2. IInv /\ [Next]_vars => IInv'
  BY TypeStep, ChargedStep, SpendingStep, ClosedStep DEF IInv
<1> QED  BY <1>1, <1>2, PTL DEF Spec

(* What a provider with a budget has answered today exceeds it by the      *)
(* answers of the other threads that were under way, and by those given up *)
(* uncharged (their process died, they could not be read, the ledger       *)
(* raised), and by no more: however many threads, processes and providers  *)
(* there are, and whatever restarts, midnights and cooldowns come between. *)
THEOREM BudgetHolds == Spec => []OverspendBounded
<1>1. IInv => OverspendBounded
  BY Bounded
<1> QED  BY <1>1, Inductive, PTL
=============================================================================
