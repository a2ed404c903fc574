------------------------------- MODULE Stores -------------------------------
(***************************************************************************)
(* The memory stores, as the statements the programs send them: a core     *)
(* block, the recall log, the archival passages and the provider ledger of *)
(* each backend, "lite" (storage/sqlite.py and chroma.py) and "pg"         *)
(* (storage/postgres.py and pgvector_store.py), which assembly.py chooses  *)
(* between.  Each session, the job and the memory server open connections  *)
(* of their own, so a store's lock covers one statement, never two.        *)
(* The modules that extend this one are the programs.                      *)
(***************************************************************************)
EXTENDS Workload, Sequences, FiniteSets, SequencesExt

CONSTANTS
    CharLimit,      \* core_block_char_limit, in lines
    PageSize        \* SEARCH_PAGE_SIZE

ASSUME StoresAssumption ==
    /\ CharLimit \in Nat \ {0}
    /\ PageSize \in Nat \ {0}

VARIABLES
    core,       \* core[b]: the lines of a block, or NoBlock
    recall,     \* recall[b]: the rows of the messages table, oldest first
    archive,    \* archive[b]: the texts of the passages
    usage,      \* usage[b]: the day's requests in provider_usage
    active,     \* the backend the programs open
    width,      \* the vectors of the Chroma collection: "old" embedder's, "new", or "none" yet
    put,        \* the passages the Chroma collection has taken; read by a property only
    made        \* the texts written so far: text n is the n-th

stores == <<core, recall, archive, usage, active, width, put, made>>

-----------------------------------------------------------------------------
Backends == {"lite", "pg"}

\* A table without a row for the block: a database no store has been opened on.
NoBlock == <<-1>>
\* DEFAULT_HUMAN, the text every database is seeded with.
Seed == <<0>>

Fresh == made + 1

StoresInit ==
    /\ core = [b \in Backends |-> IF b = "lite" THEN Seed ELSE NoBlock]
    /\ recall = [b \in Backends |-> <<>>]
    \* passages an older version stored
    /\ archive = [b \in Backends |-> IF b = "lite" THEN [i \in 1..left.old |-> i] ELSE <<>>]
    /\ usage = [b \in Backends |-> 0]
    /\ active = "lite"
    /\ width = IF left.old = 0 THEN "none" ELSE "old"
    /\ put = 1..left.old
    /\ made = left.old

-----------------------------------------------------------------------------
(* core_blocks                                                             *)

\* _seed_core_blocks: INSERT OR IGNORE
Seeded(b) == core' = [core EXCEPT ![b] = IF @ = NoBlock THEN Seed ELSE @]

\* append_block and replace_block compute the new content from what they read
Appended(block, text) == Append(block, text)
\* Mutant: what follows the replaced text is dropped with it.
ReplacedToEnd(block, i, texts) == SubSeq(block, 1, i - 1) \o texts
Replaced(block, i, texts) == SubSeq(block, 1, i - 1) \o texts \o SubSeq(block, i + 1, Len(block))

\* The check of _set_block, on the content it is given.
Fits(block) == Len(block) <= CharLimit

\* The UPDATE of _set_block.
SetBlock(b, block) == core' = [core EXCEPT ![b] = block]

-----------------------------------------------------------------------------
(* messages                                                                *)

\* The sensitivity patterns, as far as a row by itself decides them, and what
\* withhold_reason looks at besides.  An "open" row ends in "password:", harmless
\* until another text follows it; a "long" one fills a result to its cap.
RowKinds == {"plain", "long", "open", "secret", "marked", "tool", "record"}
Row(n, kind) == [n |-> n, kind |-> kind]

\* EVENT_MESSAGE: what conversation_search looks for.  The id of a row is its place.
IsMessage(row) == row.kind \notin {"tool", "record"}
Messages(b) == {id \in DOMAIN recall[b] : IsMessage(recall[b][id])}

\* count_messages with the message filter, search_messages' first statement
CountMessages(b) == Cardinality(Messages(b))

AddRow(b, row) == recall' = [recall EXCEPT ![b] = Append(@, row)]

\* ORDER BY id DESC LIMIT size OFFSET page * size
Newer(ids, id) == {other \in ids : other > id}
Page(ids, page, size) ==
    {id \in ids : Cardinality(Newer(ids, id)) \in page * size..page * size + size - 1}

(* Archival passages.  A Chroma collection takes vectors of one width; the *)
(* add of any other raises.                                                *)

TakesPassages(b) == b = "lite" => width # "old"

AddPassage(b, text) ==
    /\ TakesPassages(b)
    /\ archive' = [archive EXCEPT ![b] = Append(@, text)]
    /\ width' = IF b = "lite" THEN "new" ELSE width
    /\ put' = IF b = "lite" THEN put \union {text} ELSE put

Lines(b) == ToSet(core[b])
Texts(rows) == {row.n : row \in ToSet(rows)}
TextsAt(b, ids) == {recall[b][id].n : id \in ids}
=============================================================================
