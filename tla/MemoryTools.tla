---------------------------- MODULE MemoryTools ----------------------------
(***************************************************************************)
(* The memory tools (memory_tools.py), called by turns of several sessions *)
(* and by clients of the memory server (memory_server/__main__.py):        *)
(* core_memory_append and core_memory_replace, which read a block, compute *)
(* and write it back; conversation_search, by which a model walks through  *)
(* the recall log page by page; and what turns add to the other tables.    *)
(* The server opens the SQLite stores whatever backend is configured.      *)
(***************************************************************************)
EXTENDS Stores

CONSTANTS
    Clients,        \* bound: the threads and processes that call tools at once
    ServerClients   \* those that call them through the memory server

ASSUME ClientsAssumption == ServerClients \subseteq Clients

VARIABLES
    client,     \* client[c]: a core memory tool at work
    walk,       \* one model's walk through the pages of a search
    \* read by the properties only
    kept,       \* kept[b]: the lines a block holds if its writers took turns
    overlap     \* two writers were at a block at once

tools == <<client, walk, kept, overlap>>

-----------------------------------------------------------------------------
Idle == [stage |-> "idle", block |-> <<>>, adds |-> {}, drops |-> {}]
NoWalk == [stage |-> "none", at |-> "lite", page |-> 0, total |-> 0, wanted |-> {}, shown |-> {},
           raced |-> FALSE, cut |-> FALSE]

ToolsInit ==
    /\ client = [c \in Clients |-> Idle]
    /\ walk = NoWalk
    /\ kept = [b \in Backends |-> {0}]
    /\ overlap = FALSE

\* The backend a client's tools open.
Home(c) == IF c \in ServerClients THEN "lite" ELSE active
Homes == {Home(c) : c \in Clients}

Writing(b) == {c \in Clients : client[c].stage = "write" /\ Home(c) = b}

-----------------------------------------------------------------------------
(* core_memory_append and core_memory_replace                              *)

\* The tool has read the block and made `block` of it.  An update past the limit is
\* refused in words; otherwise the UPDATE is still to come.
Reads(c, block, adds, drops) ==
    /\ client[c].stage = "idle"
    /\ Spend("lines")
    /\ made' = made + Cardinality(adds)
    /\ IF Fits(block)
       THEN /\ client' = [client EXCEPT ![c] = [stage |-> "write", block |-> block,
                                                adds |-> adds, drops |-> drops]]
            /\ overlap' = (overlap \/ Writing(Home(c)) # {})
       ELSE UNCHANGED <<client, overlap>>
    /\ UNCHANGED <<core, recall, archive, usage, active, width, put, walk, kept>>

AppendReads(c) == Reads(c, Appended(core[Home(c)], Fresh), {Fresh}, {})

\* new_text may be empty, a line, or more than it replaces.  An old_text that is not
\* in the block changes nothing.
ReplaceReads(c) ==
    \E i \in DOMAIN core[Home(c)], texts \in {<<>>, <<Fresh>>, <<Fresh, Fresh + 1>>} :
        Reads(c, Replaced(core[Home(c)], i, texts), ToSet(texts), {core[Home(c)][i]})

\* Mutant: the UPDATE appends to what the row holds by then, checked or not.
ToolWritesAppending(c) ==
    /\ client[c].stage = "write"
    /\ core' = [core EXCEPT ![Home(c)] = SelectSeq(@, LAMBDA line : line \notin client[c].drops)
                                        \o SetToSeq(client[c].adds)]
    /\ kept' = [kept EXCEPT ![Home(c)] = (@ \ client[c].drops) \union client[c].adds]
    /\ client' = [client EXCEPT ![c] = Idle]
    /\ UNCHANGED <<recall, archive, usage, active, width, put, made, left, walk, overlap>>

ToolWrites(c) ==
    /\ client[c].stage = "write"
    /\ SetBlock(Home(c), client[c].block)
    /\ kept' = [kept EXCEPT ![Home(c)] = (@ \ client[c].drops) \union client[c].adds]
    /\ client' = [client EXCEPT ![c] = Idle]
    /\ UNCHANGED <<recall, archive, usage, active, width, put, made, left, walk, overlap>>

-----------------------------------------------------------------------------
(* What turns add to the other tables                                      *)

\* record_event
TurnRecords(kind) ==
    /\ Spend("rows")
    /\ made' = made + 1
    /\ AddRow(active, Row(Fresh, kind))
    /\ UNCHANGED <<core, archive, usage, active, width, put, tools>>

\* archival_memory_insert; the error of a collection that refuses it is the tool's answer
ArchivalInsert ==
    /\ Spend("passages")
    /\ made' = made + 1
    /\ \E b \in Homes : AddPassage(b, Fresh)
    /\ UNCHANGED <<core, recall, usage, active, tools>>

\* the router's record_request, the subject of Router
Charge ==
    /\ Spend("charges")
    /\ usage' = [usage EXCEPT ![active] = @ + 1]
    /\ UNCHANGED <<core, recall, archive, active, width, put, made, tools>>

-----------------------------------------------------------------------------
(* conversation_search: a walk asks for the next page as long as the       *)
(* result says there are more.  Each page is two statements.               *)

WalkBegins ==
    /\ walk.stage = "none"
    /\ Spend("walks")
    /\ \E b \in Homes :
           walk' = [NoWalk EXCEPT !.stage = "count", !.at = b, !.wanted = TextsAt(b, Messages(b))]
    /\ UNCHANGED <<core, recall, archive, usage, active, width, put, made, client, kept, overlap>>

PageCounts ==
    /\ walk.stage = "count"
    /\ walk' = [walk EXCEPT !.stage = "select", !.total = CountMessages(walk.at)]
    /\ UNCHANGED <<stores, left, client, kept, overlap>>

\* _truncate keeps the head of a result: of a page with a long row, what comes after
\* it is gone, with the line that says there is more.
IsLong(b, id) == recall[b][id].kind = "long"
Shown(b, page) == {id \in page : \A long \in page : IsLong(b, long) => long <= id}

\* Mutant: more is announced only if another page is full.
SaysMoreFull(page, rows, total) == page * PageSize + Cardinality(rows) + PageSize <= total

\* _format_recall: shown_end < total
SaysMore(page, rows, total) == page * PageSize + Cardinality(rows) < total

PageSelects ==
    /\ walk.stage = "select"
    /\ LET rows == Page(Messages(walk.at), walk.page, PageSize)
           cut == \E id \in rows : IsLong(walk.at, id)
           more == walk.total # 0 /\ rows # {} /\ ~cut /\ SaysMore(walk.page, rows, walk.total)
       IN  walk' = [walk EXCEPT
               !.stage = IF more THEN "count" ELSE "done",
               !.page = IF more THEN @ + 1 ELSE @,
               !.shown = IF walk.total = 0 THEN @
                         ELSE @ \union TextsAt(walk.at, Shown(walk.at, rows)),
               !.raced = @ \/ CountMessages(walk.at) # walk.total,
               !.cut = cut]
    /\ UNCHANGED <<stores, left, client, kept, overlap>>

ToolsNext ==
    \/ \E c \in Clients : AppendReads(c) \/ ReplaceReads(c) \/ ToolWrites(c)
    \/ \E kind \in left.kinds : TurnRecords(kind)
    \/ ArchivalInsert
    \/ Charge
    \/ WalkBegins
    \/ PageCounts
    \/ PageSelects

\* The programs stop, whatever they were at, and start on backend b.  The memory server
\* need not: it opens what it did before.
ToolsRestart(b) ==
    /\ client' = [c \in Clients |-> IF c \in ServerClients THEN client[c] ELSE Idle]
    /\ walk' = NoWalk
    /\ kept' = [kept EXCEPT ![b] = Lines(b)]
    /\ overlap' = FALSE
=============================================================================
