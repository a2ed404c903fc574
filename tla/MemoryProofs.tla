---------------------------- MODULE MemoryProofs ----------------------------
(***************************************************************************)
(* Proofs about the memory stores and everything that writes to them: for  *)
(* any number of clients, rows, passages and runs, any limit and any batch. *)
(***************************************************************************)
EXTENDS ToolSystem, SequenceContents, FiniteSetTheorems

-----------------------------------------------------------------------------
(* The inductive invariant, part by part                                   *)

(* No two rows have one name.                                              *)
NoTwins(rows) == \A r, q \in rows : r.n = q.n => r = q

(* The passages the records among some rows name.                          *)
Named(rows) == {r.n : r \in {q \in ToSet(rows) : q.kind = "record"}}

(* The block of a backend that has been opened.                            *)
Opened(b) == b = "lite" \/ past.started

(* How far the runs are: the destination is opened by the first of them,   *)
(* and the switch comes after one that ended.                              *)
RunsInv ==
    /\ mig.stage # "idle" => past.started
    /\ past.finished => past.started
    /\ active = "pg" => past.finished
    /\ mig.stage # "idle" /\ active = "pg" => past.late
    /\ past.broken \/ past.again => past.started
    /\ past.started /\ mig.stage = "idle" => past.finished \/ past.broken
    /\ ~past.again /\ mig.stage # "idle" => ~past.finished /\ ~past.broken
    /\ mig.stage \notin {"rows", "passages"} => mig.todo = <<>>

(* A block is a sequence of lines, each there once, and of allowed length. *)
IsBlock(block) ==
    /\ block \in Blocks
    /\ Once(block)
    /\ ToSet(block) \subseteq 0..made
    /\ Fits(block)

BlocksInv ==
    /\ \A b \in Backends : IF Opened(b) THEN IsBlock(core[b]) ELSE core[b] = NoBlock
    /\ \A c \in Clients : IsBlock(client[c].block)

(* No text is anywhere before it is made, or twice in one place.           *)
RowsInv ==
    /\ \A b \in Backends :
          /\ Once(recall[b])
          /\ NoTwins(ToSet(recall[b]))
          /\ Texts(recall[b]) \subseteq 1..made
    /\ mig.stage = "rows" =>
          /\ mig.todo \in RowSeqs
          /\ Once(mig.todo)
          /\ ToSet(mig.todo) \subseteq ToSet(recall["lite"])
          /\ Texts(mig.todo) \cap Texts(recall["pg"]) = {}
    /\ job.stage = "record" =>
          /\ job.passage \in 1..made
          /\ \A b \in Backends : job.passage \notin Texts(recall[b])

PassagesInv ==
    /\ \A b \in Backends : Once(archive[b]) /\ ToSet(archive[b]) \subseteq 1..made
    /\ mig.stage = "passages" =>
          /\ mig.todo \in Seq(Nat)
          /\ Once(mig.todo)
          /\ ToSet(mig.todo) \subseteq 1..made
          /\ ToSet(mig.todo) \cap ToSet(archive["pg"]) = {}
    /\ Once(re.held) /\ ToSet(re.held) \subseteq 1..made
    /\ re.stage = "idle" => re.held = <<>>
    /\ re.stage = "read" => re.held = archive["lite"] /\ width = "old"
    /\ re.stage = "dropped" => re.held # <<>> /\ ToSet(re.held) \cap ToSet(archive["lite"]) = {}

(* What the first run found is there until it is copied.                   *)
SourceInv ==
    past.started =>
        /\ past.rows \subseteq Texts(recall["lite"])
        /\ past.charges <= usage["lite"]
        /\ ~past.spilt => past.passages \subseteq ToSet(archive["lite"]) \cup ToSet(re.held)

(* The destination is empty until the first run comes to it, which then    *)
(* has behind it what it has copied, and before it what it has still to.   *)
FirstRunInv ==
    /\ ~past.started => recall["pg"] = <<>> /\ archive["pg"] = <<>>
    /\ past.started /\ ~past.finished /\ ~past.broken =>
          /\ mig.stage \in {"core", "messages"} => recall["pg"] = <<>>
          /\ mig.stage = "rows" =>
                past.rows \subseteq Texts(recall["pg"]) \cup Texts(mig.todo)
          /\ mig.stage \in {"usage", "archive", "passages"} =>
                past.rows \subseteq Texts(recall["pg"])
          /\ mig.stage \in {"archive", "passages"} => past.charges <= usage["pg"]
          /\ mig.stage \in {"core", "messages", "rows", "usage", "archive"} =>
                archive["pg"] = <<>>
          /\ mig.stage = "passages" /\ ~past.spilt /\ ~past.hollow =>
                past.passages \subseteq ToSet(archive["pg"]) \cup ToSet(mig.todo)

(* What a record names is in its store, or on its way there.               *)
NamesInv ==
    /\ Named(recall["lite"]) \subseteq ToSet(archive["lite"])
    /\ job.stage = "record" => job.passage \in ToSet(archive[active])
    /\ width = "old" => Named(recall["lite"]) = {} /\ ~(job.stage = "record" /\ active = "lite")
    /\ ~past.again =>
          /\ mig.stage \in {"core", "messages", "rows", "usage", "archive"} =>
                Named(recall["pg"]) \subseteq Named(recall["lite"])
          /\ mig.stage = "passages" =>
                Named(recall["pg"]) \subseteq ToSet(archive["pg"]) \cup ToSet(mig.todo)
          /\ mig.stage = "idle" /\ past.finished =>
                Named(recall["pg"]) \subseteq ToSet(archive["pg"])

(* As long as writers took turns, the block is what their updates make of  *)
(* it, and so it will be after the one at work.                            *)
TurnsInv ==
    ~overlap /\ ~past.late =>
        /\ Lines(active) = kept[active]
        /\ \A c, d \in Writing(active) : c = d
        /\ \A c \in Writing(active) :
              ToSet(client[c].block) = (Lines(active) \ client[c].drops) \cup client[c].adds

MemoryInv ==
    /\ left \in Allowances
    /\ MemoryTypeOK
    /\ DOMAIN walk = DOMAIN NoWalk
    /\ DOMAIN mig = DOMAIN NoRun
    /\ DOMAIN kept = Backends
    /\ RunsInv
    /\ BlocksInv
    /\ RowsInv
    /\ PassagesInv
    /\ SourceInv
    /\ FirstRunInv
    /\ RunCopiesAll
    /\ PassagesSurvive
    /\ NamesInv
    /\ TurnsInv

-----------------------------------------------------------------------------
(* Who writes what                                                         *)

Reading(c) == AppendReads(c) \/ ReplaceReads(c)

LEMMA StoreWriters ==
    ASSUME MemoryNext
    PROVE  /\ core' = core \/ (\E c \in Clients : ToolWrites(c)) \/ RunStarts \/ CopyCore
           /\ recall' = recall \/ (\E kind \in left.kinds : TurnRecords(kind)) \/ PassRecords
                 \/ CopyRows
           /\ (archive' = archive /\ width' = width /\ put' = put)
                 \/ ArchivalInsert \/ PassInserts \/ CopyPassage \/ Drops \/ Refills
           /\ usage' = usage \/ Charge \/ CopyUsage
           /\ active' = active \/ Switch
           /\ made' = made \/ (\E c \in Clients : Reading(c))
                 \/ (\E kind \in left.kinds : TurnRecords(kind)) \/ ArchivalInsert \/ PassInserts
<1> USE DEF MemoryNext, stores, tools, jobs, migrations,
        ToolsNext, Reading, AppendReads, ReplaceReads, Reads, ToolWrites, TurnRecords,
        ArchivalInsert, Charge, WalkBegins, PageCounts, PageSelects,
        JobNext, PassStarts, PassStops, PassAnswered, PassInserts, PassRecords,
        MigrationNext, RunStarts, CopyCore, CheckMessages, CopyRows, CopyUsage, CheckArchive,
        CopyPassage, RunEnds, RunBreaksOff, ReembedReads, Drops, Refills, ReembedBreaksOff,
        Switch
<1>1. core' = core \/ (\E c \in Clients : ToolWrites(c)) \/ RunStarts \/ CopyCore
  OBVIOUS
<1>2. recall' = recall \/ (\E kind \in left.kinds : TurnRecords(kind)) \/ PassRecords \/ CopyRows
  OBVIOUS
<1>3. (archive' = archive /\ width' = width /\ put' = put)
         \/ ArchivalInsert \/ PassInserts \/ CopyPassage \/ Drops \/ Refills
  OBVIOUS
<1>4. usage' = usage \/ Charge \/ CopyUsage
  OBVIOUS
<1>5. active' = active \/ Switch
  OBVIOUS
<1>6. made' = made \/ (\E c \in Clients : Reading(c))
         \/ (\E kind \in left.kinds : TurnRecords(kind)) \/ ArchivalInsert \/ PassInserts
  OBVIOUS
<1> QED  BY <1>1, <1>2, <1>3, <1>4, <1>5, <1>6

LEMMA ProgramWriters ==
    ASSUME MemoryNext
    PROVE  /\ (client' = client /\ overlap' = overlap)
                 \/ (\E c \in Clients : Reading(c) \/ ToolWrites(c)) \/ Switch
           /\ kept' = kept \/ (\E c \in Clients : ToolWrites(c)) \/ Switch
           /\ job' = job \/ JobNext \/ Switch
           /\ mig' = mig \/ RunStarts \/ CopyCore \/ CheckMessages \/ CopyRows \/ CopyUsage
                 \/ CheckArchive \/ CopyPassage \/ RunEnds \/ RunBreaksOff
           /\ re' = re \/ ReembedReads \/ Drops \/ Refills \/ ReembedBreaksOff
           /\ past' = past \/ RunStarts \/ CheckArchive \/ RunEnds \/ RunBreaksOff
                 \/ ReembedBreaksOff
<1> USE DEF MemoryNext, stores, tools, jobs, migrations,
        ToolsNext, Reading, AppendReads, ReplaceReads, Reads, ToolWrites, TurnRecords,
        ArchivalInsert, Charge, WalkBegins, PageCounts, PageSelects,
        MigrationNext, RunStarts, CopyCore, CheckMessages, CopyRows, CopyUsage, CheckArchive,
        CopyPassage, RunEnds, RunBreaksOff, ReembedReads, Drops, Refills, ReembedBreaksOff,
        Switch
<1>1. (client' = client /\ overlap' = overlap)
         \/ (\E c \in Clients : Reading(c) \/ ToolWrites(c)) \/ Switch
  OBVIOUS
<1>2. kept' = kept \/ (\E c \in Clients : ToolWrites(c)) \/ Switch
  OBVIOUS
<1>3. job' = job \/ JobNext \/ Switch
  OBVIOUS
<1>4. mig' = mig \/ RunStarts \/ CopyCore \/ CheckMessages \/ CopyRows \/ CopyUsage
         \/ CheckArchive \/ CopyPassage \/ RunEnds \/ RunBreaksOff
  OBVIOUS
<1>5. re' = re \/ ReembedReads \/ Drops \/ Refills \/ ReembedBreaksOff
  OBVIOUS
<1>6. past' = past \/ RunStarts \/ CheckArchive \/ RunEnds \/ RunBreaksOff \/ ReembedBreaksOff
  OBVIOUS
<1> QED  BY <1>1, <1>2, <1>3, <1>4, <1>5, <1>6

-----------------------------------------------------------------------------
(* What the writers write                                                  *)

Spendable == {"lines", "rows", "passages", "charges", "walks", "passes", "runs", "reembeds",
              "crashes", "starts", "calls", "nodes"}

(* An allowance that is spent from remains one.                            *)
LEMMA SpendType ==
    ASSUME left \in Allowances, NEW what \in Spendable, Spend(what)
    PROVE  left' \in Allowances
<1>1. left[what] \in Nat /\ left[what] - 1 \in Nat
  BY DEF Spend, Spendable, Allowances
<1>2. left' = [left EXCEPT ![what] = left[what] - 1]
  BY DEF Spend
<1> QED  BY <1>1, <1>2 DEF Spendable, Allowances

(* The steps of the memory's programs keep it one.                         *)
LEMMA LeftStep ==
    ASSUME left \in Allowances, MemoryNext
    PROVE  left' \in Allowances
<1>1. left' = left \/ \E what \in Spendable : Spend(what)
  BY DEF MemoryNext, Spendable, stores, tools, jobs, migrations,
        ToolsNext, AppendReads, ReplaceReads, Reads, ToolWrites, TurnRecords,
        ArchivalInsert, Charge, WalkBegins, PageCounts, PageSelects,
        JobNext, PassStarts, PassStops, PassAnswered, PassInserts, PassRecords,
        MigrationNext, RunStarts, CopyCore, CheckMessages, CopyRows, CopyUsage, CheckArchive,
        CopyPassage, RunEnds, RunBreaksOff, ReembedReads, Drops, Refills, ReembedBreaksOff,
        Switch
<1> QED  BY <1>1, SpendType

(* The tools of a client find an opened block.                             *)
LEMMA HomeBlock ==
    ASSUME RunsInv, BlocksInv, active \in Backends, NEW c \in Clients
    PROVE  Home(c) \in Backends /\ Opened(Home(c)) /\ IsBlock(core[Home(c)])
<1>1. Home(c) \in Backends /\ Opened(Home(c))
  BY DEF RunsInv, Home, Opened, Backends
<1> QED  BY <1>1 DEF BlocksInv

(* A line put in the place of another: what the block is then.             *)
LEMMA ReplacedBlock ==
    ASSUME NEW block \in Blocks, Once(block), NEW i \in DOMAIN block,
           NEW texts \in Blocks, Once(texts), ToSet(texts) \cap ToSet(block) = {}
    PROVE  /\ Replaced(block, i, texts) \in Blocks
           /\ Once(Replaced(block, i, texts))
           /\ ToSet(Replaced(block, i, texts)) = (ToSet(block) \ {block[i]}) \cup ToSet(texts)
<1> DEFINE before == SubSeq(block, 1, i - 1)
           from == SubSeq(block, i, Len(block))
           after == SubSeq(block, i + 1, Len(block))
<1>1. Len(block) \in Nat /\ i \in 1..Len(block)
  BY LenProperties DEF Blocks
<1>2. i - 1 \in 0..Len(block) /\ i \in 0..Len(block) /\ (i - 1) + 1 = i
  BY <1>1
<1>3. /\ before \in Blocks /\ from \in Blocks
      /\ ToSet(block) = ToSet(before) \cup ToSet(from)
      /\ Once(before) /\ Once(from) /\ ToSet(before) \cap ToSet(from) = {}
  <2> DEFINE k == i - 1
  <2>1. k \in 0..Len(block) /\ block \in Seq(Nat)
    BY <1>2 DEF Blocks
  <2>2. before = SubSeq(block, 1, k) /\ from = SubSeq(block, k + 1, Len(block))
    BY <1>2
  <2> HIDE DEF k, before, from
  <2>3. /\ SubSeq(block, 1, k) \in Seq(Nat)
        /\ SubSeq(block, k + 1, Len(block)) \in Seq(Nat)
        /\ ToSet(block) = ToSet(SubSeq(block, 1, k)) \cup ToSet(SubSeq(block, k + 1, Len(block)))
    BY <2>1, InCut
  <2>4. /\ Once(SubSeq(block, 1, k))
        /\ Once(SubSeq(block, k + 1, Len(block)))
        /\ ToSet(SubSeq(block, 1, k)) \cap ToSet(SubSeq(block, k + 1, Len(block))) = {}
    BY <2>1, InCut
  <2> QED  BY <2>2, <2>3, <2>4 DEF Blocks
<1>4. after \in Blocks /\ Once(after)
  BY <1>2, InCut DEF Blocks
<1>5. from # <<>> /\ Head(from) = block[i] /\ Tail(from) = after
  <2>1. Len(block) \in i..Len(block)
    BY <1>1
  <2>2. Head(from) = block[i] /\ Tail(from) = after
    BY <1>1, <2>1, HeadTailOfSubSeq DEF Blocks
  <2>3. Len(from) = Len(block) - (i - 1)
    BY <1>2, InCut DEF Blocks
  <2>4. Len(from) # 0
    BY <1>1, <2>3
  <2> QED  BY <1>3, <2>2, <2>4, EmptySeq DEF Blocks
<1> HIDE DEF before, from, after
<1>6. ToSet(from) = {block[i]} \cup ToSet(after) /\ block[i] \notin ToSet(after)
  <2>1. from \in Seq(Nat) /\ from # <<>> /\ Once(from)
    BY <1>3, <1>5 DEF Blocks
  <2>2. ToSet(from) = {Head(from)} \cup ToSet(Tail(from))
    BY <2>1, InTail
  <2>3. Head(from) \notin ToSet(Tail(from))
    BY <2>1, InTail
  <2> QED  BY <1>5, <2>2, <2>3
<1>7. ToSet(block) \ {block[i]} = ToSet(before) \cup ToSet(after)
  BY <1>3, <1>6
<1>8. /\ before \o texts \in Blocks
      /\ ToSet(before \o texts) = ToSet(before) \cup ToSet(texts)
      /\ Once(before \o texts)
  BY <1>3, InConcat DEF Blocks
<1>9. ToSet(before \o texts) \cap ToSet(after) = {}
  BY <1>3, <1>6, <1>8
<1>10. /\ (before \o texts) \o after \in Blocks
       /\ ToSet((before \o texts) \o after) = ToSet(before \o texts) \cup ToSet(after)
       /\ Once((before \o texts) \o after)
  <2> DEFINE head == before \o texts
  <2>1. head \in Seq(Nat) /\ after \in Seq(Nat) /\ Once(head) /\ Once(after)
        /\ ToSet(head) \cap ToSet(after) = {}
    BY <1>4, <1>8, <1>9 DEF Blocks
  <2> HIDE DEF head
  <2>2. head \o after \in Seq(Nat) /\ ToSet(head \o after) = ToSet(head) \cup ToSet(after)
    BY <2>1, InConcat
  <2>3. Once(head \o after)
    BY <2>1, InConcat
  <2> QED  BY <2>2, <2>3 DEF head, Blocks
<1>11. Replaced(block, i, texts) = (before \o texts) \o after
  BY DEF Replaced, before, after
<1> QED  BY <1>7, <1>8, <1>10, <1>11

(* A tool that reads makes of the block, at once, what its update would:   *)
(* lines go and new ones come.                                             *)
ReadsBlock(c, block, adds, drops) ==
    /\ Reads(c, block, adds, drops)
    /\ block \in Blocks
    /\ Once(block)
    /\ adds \subseteq made + 1..made'
    /\ drops \subseteq 0..made
    /\ ToSet(block) = (Lines(Home(c)) \ drops) \cup adds
    /\ ToSet(block) \subseteq 0..made'
    /\ made' \in Nat /\ made <= made'

LEMMA ReadingEffect ==
    ASSUME RunsInv, BlocksInv, active \in Backends, made \in Nat,
           NEW c \in Clients, Reading(c)
    PROVE  \E block, adds, drops : ReadsBlock(c, block, adds, drops)
<1> DEFINE old == core[Home(c)]
<1>1. old \in Blocks /\ Once(old) /\ ToSet(old) \subseteq 0..made /\ Lines(Home(c)) = ToSet(old)
  BY HomeBlock DEF IsBlock, Lines
<1>2. Fresh \in Nat /\ Fresh + 1 \in Nat /\ Fresh \notin 0..made /\ Fresh + 1 \notin 0..made
  BY DEF Fresh
<1>3. CASE AppendReads(c)
  <2>1. Reads(c, Append(old, Fresh), {Fresh}, {})
    BY <1>3 DEF AppendReads, Appended
  <2>2. made' = made + 1
    BY <2>1, FS_Singleton DEF Reads
  <2>3. /\ Append(old, Fresh) \in Blocks
        /\ ToSet(Append(old, Fresh)) = ToSet(old) \cup {Fresh}
        /\ Once(Append(old, Fresh))
    BY <1>1, <1>2, InAppend DEF Blocks
  <2>4. {Fresh} \subseteq made + 1..made' /\ 0..made \subseteq 0..made' /\ made' \in Nat
    BY <2>2 DEF Fresh
  <2>5. ReadsBlock(c, Append(old, Fresh), {Fresh}, {})
    BY <1>1, <2>1, <2>2, <2>3, <2>4 DEF ReadsBlock
  <2> QED  BY <2>5
<1>4. CASE ReplaceReads(c)
  <2>1. PICK i \in DOMAIN old, texts \in {<<>>, <<Fresh>>, <<Fresh, Fresh + 1>>} :
                Reads(c, Replaced(old, i, texts), ToSet(texts), {old[i]})
    BY <1>4 DEF ReplaceReads
  <2>2. /\ texts \in Blocks /\ Once(texts) /\ ToSet(texts) \subseteq {Fresh, Fresh + 1}
        /\ Cardinality(ToSet(texts)) \in 0..2
        /\ ToSet(texts) \subseteq made + 1..made + Cardinality(ToSet(texts))
    <3>1. CASE texts = <<>>
      <4>1. ToSet(texts) = {} /\ Once(texts) /\ texts \in Blocks
        BY <3>1, InNothing DEF Blocks
      <4>2. Cardinality(ToSet(texts)) = 0
        BY <4>1, FS_EmptySet
      <4> QED  BY <4>1, <4>2
    <3>2. CASE texts = <<Fresh>>
      <4>1. ToSet(texts) = {Fresh}
        BY <3>2 DEF ToSet
      <4>2. Cardinality({Fresh}) = 1
        BY FS_Singleton
      <4> QED  BY <1>2, <3>2, <4>1, <4>2 DEF Blocks, Once, Fresh
    <3>3. CASE texts = <<Fresh, Fresh + 1>>
      <4>1. ToSet(texts) = {Fresh, Fresh + 1}
        BY <3>3 DEF ToSet
      <4>2. Cardinality({Fresh, Fresh + 1}) = 2
        <5>1. IsFiniteSet({Fresh}) /\ Cardinality({Fresh}) = 1
          BY FS_Singleton
        <5>2. Fresh + 1 \notin {Fresh}
          BY <1>2
        <5>3. Cardinality({Fresh} \cup {Fresh + 1}) = Cardinality({Fresh}) + 1
          BY <5>1, <5>2, FS_AddElement
        <5>4. {Fresh} \cup {Fresh + 1} = {Fresh, Fresh + 1}
          OBVIOUS
        <5>5. Cardinality({Fresh, Fresh + 1}) = Cardinality({Fresh}) + 1
          BY <5>3, <5>4, Zenon
        <5>6. Cardinality({Fresh, Fresh + 1}) = 1 + 1
          BY <5>1, <5>5, Zenon
        <5> QED  BY <5>6
      <4>3. texts \in Blocks /\ Once(texts)
        BY <1>2, <3>3 DEF Blocks, Once
      <4> QED  BY <1>2, <4>1, <4>2, <4>3 DEF Fresh
    <3> QED  BY <2>1, <3>1, <3>2, <3>3
  <2>3. made' = made + Cardinality(ToSet(texts))
    BY <2>1 DEF Reads
  <2>4. ToSet(texts) \cap ToSet(old) = {}
    BY <1>1, <1>2, <2>2
  <2>5. /\ Replaced(old, i, texts) \in Blocks
        /\ Once(Replaced(old, i, texts))
        /\ ToSet(Replaced(old, i, texts)) = (ToSet(old) \ {old[i]}) \cup ToSet(texts)
    BY <1>1, <2>1, <2>2, <2>4, ReplacedBlock
  <2>6. old[i] \in 0..made
    BY <1>1, <2>1 DEF ToSet
  <2>7. made' \in Nat /\ made <= made' /\ ToSet(texts) \subseteq made + 1..made'
    BY <2>2, <2>3
  <2>8. ToSet(texts) \subseteq 0..made' /\ 0..made \subseteq 0..made'
    BY <2>7
  <2>9. ReadsBlock(c, Replaced(old, i, texts), ToSet(texts), {old[i]})
    BY <1>1, <2>1, <2>5, <2>6, <2>7, <2>8 DEF ReadsBlock
  <2> QED  BY <2>9
<1> QED  BY <1>3, <1>4 DEF Reading

(* The number of texts only grows.                                         *)
LEMMA MadeStep ==
    ASSUME RunsInv, BlocksInv, active \in Backends, made \in Nat, MemoryNext
    PROVE  made' \in Nat /\ made <= made'
<1>1. CASE made' = made
  BY <1>1
<1>2. CASE \E c \in Clients : Reading(c)
  BY <1>2, ReadingEffect DEF ReadsBlock
<1>3. CASE (\E kind \in left.kinds : TurnRecords(kind)) \/ ArchivalInsert \/ PassInserts
  BY <1>3 DEF TurnRecords, ArchivalInsert, PassInserts
<1> QED  BY <1>1, <1>2, <1>3, StoreWriters

Rows == [n : Nat, kind : RowKinds]

(* A row is added to others.                                               *)
LEMMA RowAdded ==
    ASSUME NEW rows \in RowSeqs, NEW row \in Rows
    PROVE  /\ Append(rows, row) \in RowSeqs
           /\ ToSet(Append(rows, row)) = ToSet(rows) \cup {row}
           /\ Texts(Append(rows, row)) = Texts(rows) \cup {row.n}
           /\ row.kind # "record" => Named(Append(rows, row)) = Named(rows)
           /\ row.kind = "record" => Named(Append(rows, row)) = Named(rows) \cup {row.n}
           /\ Once(rows) /\ NoTwins(ToSet(rows)) /\ row.n \notin Texts(rows) =>
                 Once(Append(rows, row)) /\ NoTwins(ToSet(Append(rows, row)))
<1>1. rows \in Seq(Rows)
  BY DEF RowSeqs, Rows
<1>2. Append(rows, row) \in Seq(Rows) /\ ToSet(Append(rows, row)) = ToSet(rows) \cup {row}
  BY <1>1, InAppend
<1>3. Once(rows) /\ row \notin ToSet(rows) => Once(Append(rows, row))
  BY <1>1, InAppend
<1>4. Texts(Append(rows, row)) = Texts(rows) \cup {row.n}
  BY <1>2 DEF Texts
<1>5. /\ row.kind # "record" => Named(Append(rows, row)) = Named(rows)
      /\ row.kind = "record" => Named(Append(rows, row)) = Named(rows) \cup {row.n}
  BY <1>2 DEF Named
<1>6. ASSUME NoTwins(ToSet(rows)), row.n \notin Texts(rows)
      PROVE  row \notin ToSet(rows) /\ NoTwins(ToSet(Append(rows, row)))
  BY <1>2, <1>6 DEF NoTwins, Texts
<1> QED  BY <1>2, <1>3, <1>4, <1>5, <1>6 DEF RowSeqs, Rows

(* Rows are put after others.                                              *)
LEMMA RowsJoined ==
    ASSUME NEW rows \in RowSeqs, NEW more \in RowSeqs
    PROVE  /\ rows \o more \in RowSeqs
           /\ ToSet(rows \o more) = ToSet(rows) \cup ToSet(more)
           /\ Texts(rows \o more) = Texts(rows) \cup Texts(more)
           /\ Named(rows \o more) = Named(rows) \cup Named(more)
           /\ (/\ Once(rows) /\ NoTwins(ToSet(rows))
               /\ Once(more) /\ NoTwins(ToSet(more))
               /\ Texts(rows) \cap Texts(more) = {})
                 => Once(rows \o more) /\ NoTwins(ToSet(rows \o more))
<1>1. rows \in Seq(Rows) /\ more \in Seq(Rows)
  BY DEF RowSeqs, Rows
<1>2. rows \o more \in Seq(Rows) /\ ToSet(rows \o more) = ToSet(rows) \cup ToSet(more)
  BY <1>1, InConcat
<1>3. Once(rows) /\ Once(more) /\ ToSet(rows) \cap ToSet(more) = {} => Once(rows \o more)
  BY <1>1, InConcat
<1>4. Texts(rows \o more) = Texts(rows) \cup Texts(more)
  BY <1>2 DEF Texts
<1>5. Named(rows \o more) = Named(rows) \cup Named(more)
  BY <1>2 DEF Named
<1>6. ASSUME Texts(rows) \cap Texts(more) = {}
      PROVE  ToSet(rows) \cap ToSet(more) = {}
  BY <1>6 DEF Texts
<1>7. ASSUME NoTwins(ToSet(rows)), NoTwins(ToSet(more)), Texts(rows) \cap Texts(more) = {}
      PROVE  NoTwins(ToSet(rows \o more))
  <2> SUFFICES ASSUME NEW r \in ToSet(rows \o more), NEW q \in ToSet(rows \o more), r.n = q.n
               PROVE  r = q
    BY DEF NoTwins
  <2>1. CASE (r \in ToSet(rows) /\ q \in ToSet(rows)) \/ (r \in ToSet(more) /\ q \in ToSet(more))
    BY <1>7, <2>1 DEF NoTwins
  <2>2. CASE (r \in ToSet(rows) /\ q \in ToSet(more)) \/ (r \in ToSet(more) /\ q \in ToSet(rows))
    BY <1>7, <2>2 DEF Texts
  <2> QED  BY <1>2, <2>1, <2>2
<1> QED  BY <1>2, <1>3, <1>4, <1>5, <1>6, <1>7 DEF RowSeqs, Rows

(* A batch is the beginning of what is left to copy.                       *)
FirstBatch == SubSeq(mig.todo, 1, Taken)
OtherBatches == SubSeq(mig.todo, Taken + 1, Len(mig.todo))

LEMMA BatchTaken ==
    ASSUME mig.todo \in RowSeqs
    PROVE  /\ FirstBatch \in RowSeqs
           /\ OtherBatches \in RowSeqs
           /\ Len(mig.todo) <= Batch => OtherBatches = <<>>
           /\ ToSet(mig.todo) = ToSet(FirstBatch) \cup ToSet(OtherBatches)
           /\ Texts(mig.todo) = Texts(FirstBatch) \cup Texts(OtherBatches)
           /\ Once(mig.todo) =>
                 /\ Once(FirstBatch)
                 /\ Once(OtherBatches)
                 /\ ToSet(FirstBatch) \cap ToSet(OtherBatches) = {}
<1> DEFINE todo == mig.todo
           k == Taken
<1>1. todo \in Seq(Rows) /\ Len(todo) \in Nat
  BY LenProperties DEF RowSeqs, Rows
<1>2. k \in 0..Len(todo) /\ (Len(todo) <= Batch => k = Len(todo))
  BY <1>1, BatchAssumption DEF Taken
<1>a. FirstBatch = SubSeq(todo, 1, k) /\ OtherBatches = SubSeq(todo, k + 1, Len(todo))
  BY DEF FirstBatch, OtherBatches
<1> HIDE DEF k, todo
<1>3. /\ SubSeq(todo, 1, k) \in Seq(Rows) /\ SubSeq(todo, k + 1, Len(todo)) \in Seq(Rows)
      /\ Len(SubSeq(todo, k + 1, Len(todo))) = Len(todo) - k
  BY <1>1, <1>2, InCut
<1>4. ToSet(todo) = ToSet(SubSeq(todo, 1, k)) \cup ToSet(SubSeq(todo, k + 1, Len(todo)))
  BY <1>1, <1>2, InCut
<1>5. Once(todo) =>
         /\ Once(SubSeq(todo, 1, k)) /\ Once(SubSeq(todo, k + 1, Len(todo)))
         /\ ToSet(SubSeq(todo, 1, k)) \cap ToSet(SubSeq(todo, k + 1, Len(todo))) = {}
  BY <1>1, <1>2, InCut
<1>6. Len(todo) <= Batch => OtherBatches = <<>>
  <2>1. Len(todo) <= Batch => Len(OtherBatches) = 0
    BY <1>1, <1>2, <1>3, <1>a
  <2> QED  BY <1>3, <1>a, <2>1, EmptySeq
<1>7. Texts(todo) = Texts(FirstBatch) \cup Texts(OtherBatches)
  BY <1>4, <1>a DEF Texts
<1>8. FirstBatch \in RowSeqs /\ OtherBatches \in RowSeqs
  BY <1>3, <1>a DEF RowSeqs, Rows
<1>9. ToSet(todo) = ToSet(FirstBatch) \cup ToSet(OtherBatches)
  BY <1>4, <1>a
<1>10. Once(todo) => /\ Once(FirstBatch) /\ Once(OtherBatches)
                     /\ ToSet(FirstBatch) \cap ToSet(OtherBatches) = {}
  BY <1>5, <1>a
<1> QED  BY <1>6, <1>7, <1>8, <1>9, <1>10 DEF todo

(* A passage is added to one store, and the others stay as they are.       *)
LEMMA PassageAdded ==
    ASSUME archive \in [Backends -> Seq(Nat)], NEW b \in Backends, NEW text \in Nat,
           AddPassage(b, text)
    PROVE  /\ archive' \in [Backends -> Seq(Nat)]
           /\ ToSet(archive'[b]) = ToSet(archive[b]) \cup {text}
           /\ archive'[b] # <<>>
           /\ Once(archive[b]) /\ text \notin ToSet(archive[b]) => Once(archive'[b])
           /\ \A a \in Backends : a # b => archive'[a] = archive[a]
           /\ b = "lite" => width # "old" /\ width' = "new" /\ put' = put \cup {text}
           /\ b # "lite" => width' = width /\ put' = put
<1>1. archive' = [archive EXCEPT ![b] = Append(archive[b], text)]
  BY DEF AddPassage
<1>2. archive[b] \in Seq(Nat)
  OBVIOUS
<1>3. /\ Append(archive[b], text) \in Seq(Nat)
      /\ ToSet(Append(archive[b], text)) = ToSet(archive[b]) \cup {text}
      /\ Append(archive[b], text) # <<>>
  BY <1>2, InAppend
<1>4. Once(archive[b]) /\ text \notin ToSet(archive[b]) => Once(Append(archive[b], text))
  BY <1>2, InAppend
<1>5. archive'[b] = Append(archive[b], text) /\ \A a \in Backends : a # b => archive'[a] = archive[a]
  BY <1>1
<1>6. archive' \in [Backends -> Seq(Nat)]
  BY <1>1, <1>3
<1>7. /\ b = "lite" => width # "old" /\ width' = "new" /\ put' = put \cup {text}
      /\ b # "lite" => width' = width /\ put' = put
  BY DEF AddPassage, TakesPassages
<1> QED  BY <1>3, <1>4, <1>5, <1>6, <1>7

(* Passages are added to the stores programs open, and these are the       *)
(* SQLite one's and the active one.  All else that writes to the stores of *)
(* passages are the migrations.                                            *)
Inserts(b) == AddPassage(b, Fresh) /\ made' = made + 1 /\ UNCHANGED <<recall, active, migrations>>

LEMMA PassageSteps ==
    ASSUME MemoryNext, active \in Backends
    PROVE  \/ UNCHANGED <<archive, width, put, migrations>>
           \/ Inserts("lite") \/ Inserts(active)
           \/ MigrationNext
<1>1. ASSUME ToolsNext, UNCHANGED <<jobs, migrations>>
      PROVE  UNCHANGED <<archive, width, put, migrations>> \/ Inserts("lite") \/ Inserts(active)
  BY <1>1 DEF stores, jobs, migrations, tools,
        ToolsNext, AppendReads, ReplaceReads, Reads, ToolWrites, TurnRecords,
        ArchivalInsert, Charge, WalkBegins, PageCounts, PageSelects, Inserts, Homes, Home
<1>2. ASSUME JobNext, UNCHANGED <<tools, migrations>>
      PROVE  UNCHANGED <<archive, width, put, migrations>> \/ Inserts(active)
  BY <1>2 DEF stores, jobs, migrations, tools, Inserts,
        JobNext, PassStarts, PassStops, PassAnswered, PassInserts, PassRecords
<1>3. ASSUME Switch
      PROVE  UNCHANGED <<archive, width, put, migrations>>
  BY <1>3 DEF Switch, migrations
<1> QED  BY <1>1, <1>2, <1>3 DEF MemoryNext

-----------------------------------------------------------------------------
(* Types                                                                   *)

(* The stores keep their types.                                            *)
LEMMA StoresTypeStep ==
    ASSUME MemoryInv, MemoryNext
    PROVE  /\ core' \in [Backends -> Blocks \cup {NoBlock}]
           /\ recall' \in [Backends -> RowSeqs]
           /\ archive' \in [Backends -> Seq(Nat)]
           /\ usage' \in [Backends -> Nat]
           /\ active' \in Backends
           /\ made' \in Nat /\ made <= made'
           /\ put' \subseteq 1..made'
<1>a. /\ core \in [Backends -> Blocks \cup {NoBlock}]
      /\ recall \in [Backends -> RowSeqs]
      /\ archive \in [Backends -> Seq(Nat)]
      /\ usage \in [Backends -> Nat]
      /\ active \in Backends
      /\ made \in Nat
      /\ put \subseteq 1..made
      /\ re.held \in Seq(Nat)
      /\ job.passage \in 0..made
      /\ mig.todo \in IF mig.stage = "rows" THEN RowSeqs ELSE Seq(Nat)
  BY DEF MemoryInv, MemoryTypeOK
<1>b. "lite" \in Backends /\ "pg" \in Backends /\ Fresh \in Nat /\ Fresh = made + 1
  BY <1>a DEF Backends, Fresh
<1>c. RunsInv /\ BlocksInv
  BY DEF MemoryInv
<1>1. core' \in [Backends -> Blocks \cup {NoBlock}]
  <2>1. ASSUME NEW c \in Clients, ToolWrites(c)
        PROVE  core' \in [Backends -> Blocks \cup {NoBlock}]
    <3>1. core' = [core EXCEPT ![Home(c)] = client[c].block]
      BY <2>1 DEF ToolWrites, SetBlock
    <3>2. client[c].block \in Blocks
      BY <1>c DEF BlocksInv, IsBlock
    <3> QED  BY <1>a, <3>1, <3>2
  <2>2. CASE RunStarts
    <3>1. core' = [core EXCEPT !["pg"] = IF core["pg"] = NoBlock THEN Seed ELSE core["pg"]]
      BY <2>2 DEF RunStarts, Seeded
    <3>2. Seed \in Blocks
      BY DEF Seed, Blocks
    <3>3. (IF core["pg"] = NoBlock THEN Seed ELSE core["pg"]) \in Blocks \cup {NoBlock}
      BY <1>a, <1>b, <3>2
    <3> QED  BY <1>a, <3>1, <3>3
  <2>3. CASE CopyCore
    <3>1. core' = [core EXCEPT !["pg"] = core["lite"]] /\ core["lite"] \in Blocks \cup {NoBlock}
      BY <1>a, <1>b, <2>3 DEF CopyCore, SetBlock
    <3> QED  BY <1>a, <1>b, <3>1
  <2> QED  BY <1>a, <2>1, <2>2, <2>3, StoreWriters
<1>2. recall' \in [Backends -> RowSeqs]
  <2>1. ASSUME NEW row \in Rows, AddRow(active, row)
        PROVE  recall' \in [Backends -> RowSeqs]
    <3>1. Append(recall[active], row) \in RowSeqs
      BY <1>a, RowAdded
    <3> QED  BY <1>a, <2>1, <3>1 DEF AddRow
  <2>2. ASSUME NEW kind \in left.kinds, TurnRecords(kind)
        PROVE  recall' \in [Backends -> RowSeqs]
    <3>1. Row(Fresh, kind) \in Rows
      BY <1>b DEF MemoryInv, Allowances, Row, Rows, RowKinds
    <3> QED  BY <2>1, <2>2, <3>1 DEF TurnRecords
  <2>3. CASE PassRecords
    <3>1. Row(job.passage, "record") \in Rows
      BY <1>a DEF Row, Rows, RowKinds
    <3> QED  BY <2>1, <2>3, <3>1 DEF PassRecords
  <2>4. CASE CopyRows
    <3>1. recall' = [recall EXCEPT !["pg"] = recall["pg"] \o FirstBatch]
      BY <2>4 DEF CopyRows, FirstBatch
    <3>2. FirstBatch \in RowSeqs
      BY <1>a, <2>4, BatchTaken DEF CopyRows
    <3>3. recall["pg"] \o FirstBatch \in RowSeqs
      BY <1>a, <1>b, <3>2, RowsJoined
    <3> QED  BY <1>a, <3>1, <3>3
  <2> QED  BY <1>a, <2>2, <2>3, <2>4, StoreWriters
<1>3. archive' \in [Backends -> Seq(Nat)]
  <2>1. ASSUME NEW b \in Backends, NEW text \in Nat, AddPassage(b, text)
        PROVE  archive' \in [Backends -> Seq(Nat)]
    BY <1>a, <2>1, PassageAdded
  <2>2. CASE Inserts("lite") \/ Inserts(active)
    BY <1>a, <1>b, <2>1, <2>2 DEF Inserts
  <2>3. CASE CopyPassage
    <3>1. Head(mig.todo) \in Nat
      BY <1>a, <2>3, InTail DEF CopyPassage
    <3> QED  BY <1>b, <2>1, <2>3, <3>1 DEF CopyPassage
  <2>4. CASE Drops
    <3>1. archive' = [archive EXCEPT !["lite"] = <<>>]
      BY <2>4 DEF Drops
    <3>2. <<>> \in Seq(Nat)
      OBVIOUS
    <3> QED  BY <1>a, <3>1, <3>2
  <2>5. CASE Refills
    <3>1. archive' = [archive EXCEPT !["lite"] = archive["lite"] \o re.held]
      BY <2>5 DEF Refills
    <3>2. archive["lite"] \o re.held \in Seq(Nat)
      BY <1>a, <1>b, InConcat
    <3> QED  BY <1>a, <3>1, <3>2
  <2>6. archive' = archive \/ Inserts("lite") \/ Inserts(active) \/ CopyPassage \/ Drops \/ Refills
    <3>1. CASE MigrationNext
      BY <3>1 DEF stores, MigrationNext, RunStarts, CopyCore, CheckMessages, CopyRows, CopyUsage,
         CheckArchive, RunEnds, RunBreaksOff, ReembedReads, ReembedBreaksOff
    <3> QED  BY <1>a, <3>1, PassageSteps
  <2> QED  BY <1>a, <2>2, <2>3, <2>4, <2>5, <2>6
<1>4. usage' \in [Backends -> Nat]
  <2>1. CASE Charge
    <3>1. usage[active] + 1 \in Nat
      BY <1>a
    <3> QED  BY <1>a, <2>1, <3>1 DEF Charge
  <2>2. CASE CopyUsage
    <3>1. usage' = [usage EXCEPT !["pg"] = usage["lite"]] /\ usage["lite"] \in Nat
      BY <1>a, <1>b, <2>2 DEF CopyUsage
    <3> QED  BY <1>a, <1>b, <3>1
  <2> QED  BY <1>a, <2>1, <2>2, StoreWriters
<1>5. active' \in Backends
  BY <1>a, <1>b, StoreWriters DEF Switch
<1>6. made' \in Nat /\ made <= made'
  BY <1>a, <1>c, MadeStep
<1>7. put' \subseteq 1..made'
  <2>1. CASE put' = put
    BY <1>a, <1>6, <2>1
  <2>2. CASE ArchivalInsert \/ PassInserts
    <3>1. PICK b : AddPassage(b, Fresh) /\ made' = made + 1
      BY <2>2 DEF ArchivalInsert, PassInserts
    <3>2. put' \subseteq put \cup {Fresh}
      BY <3>1 DEF AddPassage
    <3> QED  BY <1>a, <1>b, <3>1, <3>2
  <2>3. CASE CopyPassage
    BY <2>1, <2>3 DEF CopyPassage, AddPassage
  <2>4. CASE Drops \/ Refills
    BY <2>1, <2>4 DEF Drops, Refills
  <2> QED  BY <2>1, <2>2, <2>3, <2>4, StoreWriters
<1> QED  BY <1>1, <1>2, <1>3, <1>4, <1>5, <1>6, <1>7

(* What a run of the job or of a migration is in the middle of keeps its   *)
(* type, and so do the fields the properties read.                         *)
LEMMA ProgramsTypeStep ==
    ASSUME MemoryInv, MemoryNext
    PROVE  /\ client' \in [Clients -> [stage : {"idle", "write"}, block : Blocks,
                                       adds : SUBSET (1..made'), drops : SUBSET (0..made')]]
           /\ job' \in [stage : {"idle", "asking", "insert", "record"}, passage : 0..made']
           /\ re' \in [stage : {"idle", "read", "dropped"}, held : Seq(Nat)]
           /\ past' \in [started : BOOLEAN, rows : SUBSET (1..made'),
                         passages : SUBSET (1..made'), charges : Nat, finished : BOOLEAN,
                         broken : BOOLEAN, again : BOOLEAN, late : BOOLEAN,
                         hollow : BOOLEAN, spilt : BOOLEAN]
           /\ DOMAIN kept' = Backends
<1>a. /\ active \in Backends
      /\ made \in Nat
      /\ recall \in [Backends -> RowSeqs]
      /\ archive \in [Backends -> Seq(Nat)]
      /\ usage \in [Backends -> Nat]
      /\ client \in [Clients -> [stage : {"idle", "write"}, block : Blocks,
                                 adds : SUBSET (1..made), drops : SUBSET (0..made)]]
      /\ job \in [stage : {"idle", "asking", "insert", "record"}, passage : 0..made]
      /\ re \in [stage : {"idle", "read", "dropped"}, held : Seq(Nat)]
      /\ past \in [started : BOOLEAN, rows : SUBSET (1..made), passages : SUBSET (1..made),
                   charges : Nat, finished : BOOLEAN, broken : BOOLEAN, again : BOOLEAN,
                   late : BOOLEAN, hollow : BOOLEAN, spilt : BOOLEAN]
      /\ DOMAIN kept = Backends
  BY DEF MemoryInv, MemoryTypeOK
<1>b. RunsInv /\ BlocksInv /\ RowsInv /\ PassagesInv
  BY DEF MemoryInv
<1>c. /\ made' \in Nat /\ made <= made'
      /\ 1..made \subseteq 1..made' /\ 0..made \subseteq 0..made'
  BY <1>a, StoresTypeStep
<1>1. client' \in [Clients -> [stage : {"idle", "write"}, block : Blocks,
                               adds : SUBSET (1..made'), drops : SUBSET (0..made')]]
  <2> DEFINE Work == [stage : {"idle", "write"}, block : Blocks,
                      adds : SUBSET (1..made'), drops : SUBSET (0..made')]
  <2>1. client \in [Clients -> Work]
    <3> SUFFICES ASSUME NEW c \in Clients PROVE client[c] \in Work
      BY <1>a
    <3>1. client[c] \in [stage : {"idle", "write"}, block : Blocks,
                         adds : SUBSET (1..made), drops : SUBSET (0..made)]
      BY <1>a
    <3> QED  BY <1>c, <3>1
  <2>2. Idle \in Work
    <3>1. <<>> \in Blocks
      BY InNothing DEF Blocks
    <3> QED  BY <3>1 DEF Idle
  <2>3. ASSUME NEW c \in Clients, Reading(c) PROVE client' \in [Clients -> Work]
    <3>1. PICK block, adds, drops : ReadsBlock(c, block, adds, drops)
      BY <1>a, <1>b, <2>3, ReadingEffect
    <3>2. block \in Blocks /\ adds \subseteq 1..made' /\ drops \subseteq 0..made'
      BY <1>a, <1>c, <3>1 DEF ReadsBlock
    <3>3. [stage |-> "write", block |-> block, adds |-> adds, drops |-> drops] \in Work
      BY <3>2
    <3>4. client' = client \/ client' = [client EXCEPT ![c] =
                        [stage |-> "write", block |-> block, adds |-> adds, drops |-> drops]]
      BY <3>1 DEF ReadsBlock, Reads
    <3> HIDE DEF Work
    <3> QED  BY <2>1, <3>3, <3>4
  <2>4. ASSUME NEW c \in Clients, ToolWrites(c) PROVE client' \in [Clients -> Work]
    <3>1. client' = [client EXCEPT ![c] = Idle]
      BY <2>4 DEF ToolWrites
    <3> HIDE DEF Work
    <3> QED  BY <2>1, <2>2, <3>1
  <2>5. ASSUME Switch PROVE client' \in [Clients -> Work]
    <3>1. client' = [c \in Clients |-> IF c \in ServerClients THEN client[c] ELSE Idle]
      BY <2>5 DEF Switch, ToolsRestart
    <3> HIDE DEF Work
    <3> QED  BY <2>1, <2>2, <3>1
  <2>6. client' \in [Clients -> Work]
    <3> HIDE DEF Work
    <3>1. client' = client \/ Switch \/ \E c \in Clients : Reading(c) \/ ToolWrites(c)
      BY ProgramWriters
    <3> QED  BY <2>1, <2>3, <2>4, <2>5, <3>1
  <2> QED  BY <2>6
<1>2. job' \in [stage : {"idle", "asking", "insert", "record"}, passage : 0..made']
  <2>1. CASE job' = job
    BY <1>a, <1>c, <2>1
  <2>2. CASE Switch
    BY <1>c, <2>2 DEF Switch, JobRestart, NoPass
  <2>3. CASE JobNext
    <3>1. job' = job \/ job' = NoPass \/ job' = [NoPass EXCEPT !.stage = "asking"]
             \/ job' = [job EXCEPT !.stage = "insert"]
             \/ (job' = [job EXCEPT !.stage = "record", !.passage = Fresh] /\ made' = made + 1)
      <4>1. CASE PassStarts
        <5>1. job' = job \/ job' = [NoPass EXCEPT !.stage = "asking"]
          BY <4>1 DEF PassStarts, jobs
        <5> QED  BY <5>1
      <4>2. CASE PassStops \/ PassAnswered \/ PassInserts \/ PassRecords
        BY <4>2 DEF PassStops, PassAnswered, PassInserts, PassRecords
      <4> QED  BY <2>3, <4>1, <4>2 DEF JobNext
    <3>2. job' = [NoPass EXCEPT !.stage = "asking"] => job' = [stage |-> "asking", passage |-> 0]
      BY DEF NoPass
    <3>3. ASSUME job' = [job EXCEPT !.stage = "record", !.passage = Fresh], made' = made + 1
          PROVE  job' \in [stage : {"idle", "asking", "insert", "record"}, passage : 0..made']
      <4>1. job' = [stage |-> "record", passage |-> Fresh]
        BY <1>a, <3>3
      <4>2. Fresh \in 0..made'
        BY <1>a, <3>3 DEF Fresh
      <4> QED  BY <4>1, <4>2
    <3>4. ASSUME job' = [job EXCEPT !.stage = "insert"]
          PROVE  job' \in [stage : {"idle", "asking", "insert", "record"}, passage : 0..made']
      <4>1. job' = [stage |-> "insert", passage |-> job.passage] /\ job.passage \in 0..made
        BY <1>a, <3>4
      <4> QED  BY <1>c, <4>1
    <3>5. ASSUME job' = NoPass \/ job' = [stage |-> "asking", passage |-> 0]
          PROVE  job' \in [stage : {"idle", "asking", "insert", "record"}, passage : 0..made']
      BY <1>c, <3>5 DEF NoPass
    <3> QED  BY <2>1, <3>1, <3>2, <3>3, <3>4, <3>5
  <2> QED  BY <2>1, <2>2, <2>3, ProgramWriters
<1>3. re' \in [stage : {"idle", "read", "dropped"}, held : Seq(Nat)]
  <2>1. <<>> \in Seq(Nat) /\ archive["lite"] \in Seq(Nat)
    BY <1>a, InNothing DEF Backends
  <2>2. NoReembed \in [stage : {"idle", "read", "dropped"}, held : Seq(Nat)]
    BY <2>1 DEF NoReembed
  <2>3. CASE ReembedReads
    BY <2>1, <2>3 DEF ReembedReads
  <2>4. CASE Drops
    BY <1>a, <2>4 DEF Drops
  <2>5. CASE Refills \/ ReembedBreaksOff
    BY <2>2, <2>5 DEF Refills, ReembedBreaksOff
  <2> QED  BY <1>a, <2>3, <2>4, <2>5, ProgramWriters
<1>4. past' \in [started : BOOLEAN, rows : SUBSET (1..made'), passages : SUBSET (1..made'),
                 charges : Nat, finished : BOOLEAN, broken : BOOLEAN, again : BOOLEAN,
                 late : BOOLEAN, hollow : BOOLEAN, spilt : BOOLEAN]
  <2>1. /\ Texts(recall["lite"]) \subseteq 1..made
        /\ ToSet(archive["lite"]) \subseteq 1..made
        /\ usage["lite"] \in Nat
    BY <1>a, <1>b DEF RowsInv, PassagesInv, Backends
  <2>2. CASE RunStarts
    <3> DEFINE rows == IF past.started THEN past.rows ELSE Texts(recall["lite"])
               passages == IF past.started THEN past.passages ELSE ToSet(archive["lite"])
               charges == IF past.started THEN past.charges ELSE usage["lite"]
    <3>1. rows \subseteq 1..made' /\ passages \subseteq 1..made' /\ charges \in Nat
      BY <1>a, <1>c, <2>1
    <3>2. past' = [past EXCEPT !.started = TRUE, !.rows = rows, !.passages = passages,
                               !.charges = charges, !.again = past.started,
                               !.late = past.late \/ active = "pg"]
      BY <2>2 DEF RunStarts
    <3> HIDE DEF rows, passages, charges
    <3>3. (past.late \/ active = "pg") \in BOOLEAN /\ past.started \in BOOLEAN
      BY <1>a
    <3>4. /\ past.finished \in BOOLEAN /\ past.broken \in BOOLEAN
          /\ past.hollow \in BOOLEAN /\ past.spilt \in BOOLEAN
      BY <1>a
    <3>5. past' = [started |-> TRUE, rows |-> rows, passages |-> passages, charges |-> charges,
                   finished |-> past.finished, broken |-> past.broken, again |-> past.started,
                   late |-> (past.late \/ active = "pg"), hollow |-> past.hollow,
                   spilt |-> past.spilt]
      BY <1>a, <3>2
    <3> QED  BY <3>1, <3>3, <3>4, <3>5
  <2>3. CASE CheckArchive \/ RunEnds \/ RunBreaksOff \/ ReembedBreaksOff
    <3> DEFINE PastRecords ==
          [started : BOOLEAN, rows : SUBSET (1..made), passages : SUBSET (1..made),
           charges : Nat, finished : BOOLEAN, broken : BOOLEAN, again : BOOLEAN,
           late : BOOLEAN, hollow : BOOLEAN, spilt : BOOLEAN]
    <3>1. ASSUME NEW p \in PastRecords, NEW flag \in BOOLEAN
          PROVE  /\ [p EXCEPT !.hollow = flag] \in PastRecords
                 /\ [p EXCEPT !.finished = flag] \in PastRecords
                 /\ [p EXCEPT !.broken = flag] \in PastRecords
                 /\ [p EXCEPT !.spilt = flag] \in PastRecords
      OBVIOUS
    <3>2. past \in PastRecords
      BY <1>a
    <3>3. \E flag \in BOOLEAN : \/ past' = [past EXCEPT !.hollow = flag]
                                \/ past' = [past EXCEPT !.finished = flag]
                                \/ past' = [past EXCEPT !.broken = flag]
                                \/ past' = [past EXCEPT !.spilt = flag]
      <4>1. /\ (past.hollow \/ re.stage = "dropped") \in BOOLEAN
            /\ (past.spilt \/ re.stage = "dropped") \in BOOLEAN
        BY <3>2
      <4> QED
        BY <2>3, <4>1 DEF CheckArchive, RunEnds, RunBreaksOff, ReembedBreaksOff
    <3>4. made' = made
      BY <2>3 DEF CheckArchive, RunEnds, RunBreaksOff, ReembedBreaksOff, stores
    <3> HIDE DEF PastRecords
    <3>5. past' \in PastRecords
      BY <3>1, <3>2, <3>3
    <3> QED  BY <3>4, <3>5 DEF PastRecords
  <2>4. CASE past' = past
    BY <1>a, <1>c, <2>4
  <2> QED  BY <2>2, <2>3, <2>4, ProgramWriters
<1>5. DOMAIN kept' = Backends
  <2>1. ASSUME NEW c \in Clients, ToolWrites(c) PROVE DOMAIN kept' = DOMAIN kept
    BY <2>1 DEF ToolWrites
  <2>2. CASE Switch
    BY <1>a, <2>2 DEF Switch, ToolsRestart
  <2> QED  BY <1>a, <2>1, <2>2, ProgramWriters
<1> QED  BY <1>1, <1>2, <1>3, <1>4, <1>5

(* The collection's vectors are of one width, if it has any.               *)
LEMMA WidthTypeStep ==
    ASSUME MemoryInv, MemoryNext
    PROVE  width' \in IF archive'["lite"] = <<>> THEN {"none"} ELSE {"old", "new"}
<1>a. /\ archive \in [Backends -> Seq(Nat)]
      /\ width \in IF archive["lite"] = <<>> THEN {"none"} ELSE {"old", "new"}
      /\ re.held \in Seq(Nat)
      /\ mig.todo \in IF mig.stage = "rows" THEN RowSeqs ELSE Seq(Nat)
      /\ active \in Backends
      /\ Fresh \in Nat
  BY DEF MemoryInv, MemoryTypeOK, Fresh
<1>b. PassagesInv
  BY DEF MemoryInv
<1>1. ASSUME NEW b \in Backends, NEW text \in Nat, AddPassage(b, text)
      PROVE  width' \in IF archive'["lite"] = <<>> THEN {"none"} ELSE {"old", "new"}
  <2>1. /\ archive'[b] # <<>>
        /\ \A a \in Backends : a # b => archive'[a] = archive[a]
        /\ b = "lite" => width' = "new"
        /\ b # "lite" => width' = width
    BY <1>a, <1>1, PassageAdded
  <2> QED  BY <1>a, <2>1 DEF Backends
<1>2. CASE Inserts("lite") \/ Inserts(active)
  BY <1>a, <1>1, <1>2 DEF Inserts, Backends
<1>3. CASE CopyPassage
  <2>1. Head(mig.todo) \in Nat
    BY <1>a, <1>3, InTail DEF CopyPassage
  <2> QED  BY <1>1, <1>3, <2>1 DEF CopyPassage, Backends
<1>4. CASE Drops
  <2>1. archive'["lite"] = <<>> /\ width' = "none"
    BY <1>a, <1>4 DEF Drops, Backends
  <2> QED  BY <2>1
<1>5. CASE Refills
  <2>1. archive'["lite"] = archive["lite"] \o re.held /\ width' = "new"
    BY <1>a, <1>5 DEF Refills, Backends
  <2>2. re.held # <<>> /\ archive["lite"] \in Seq(Nat)
    BY <1>a, <1>b, <1>5 DEF PassagesInv, Refills, Backends
  <2>3. ToSet(re.held) # {}
    BY <1>a, <2>2, InSeq
  <2>4. /\ archive["lite"] \o re.held \in Seq(Nat)
        /\ ToSet(archive["lite"] \o re.held) = ToSet(archive["lite"]) \cup ToSet(re.held)
    BY <1>a, <2>2, InConcat
  <2>5. archive'["lite"] # <<>>
    BY <2>1, <2>3, <2>4, InSeq
  <2> QED  BY <2>1, <2>5
<1>6. CASE UNCHANGED <<archive, width>>
  BY <1>a, <1>6
<1>7. \/ UNCHANGED <<archive, width>>
      \/ Inserts("lite") \/ Inserts(active) \/ CopyPassage \/ Drops \/ Refills
  <2>1. CASE MigrationNext
    BY <2>1 DEF stores, MigrationNext, RunStarts, CopyCore, CheckMessages, CopyRows, CopyUsage,
       CheckArchive, RunEnds, RunBreaksOff, ReembedReads, ReembedBreaksOff
  <2> QED  BY <1>a, <2>1, PassageSteps
<1> QED  BY <1>2, <1>3, <1>4, <1>5, <1>6, <1>7

(* A run of migrate_to_postgres goes from stage to stage.                  *)
LEMMA RunTypeStep ==
    ASSUME MemoryInv, MemoryNext
    PROVE  /\ mig'.stage \in {"idle", "core", "messages", "rows", "usage", "archive",
                              "passages"}
           /\ mig'.todo \in IF mig'.stage = "rows" THEN RowSeqs ELSE Seq(Nat)
           /\ DOMAIN mig' = DOMAIN NoRun
<1>a. /\ DOMAIN mig = {"stage", "todo"}
      /\ mig.stage \in {"idle", "core", "messages", "rows", "usage", "archive", "passages"}
      /\ mig.todo \in IF mig.stage = "rows" THEN RowSeqs ELSE Seq(Nat)
      /\ mig.stage \notin {"rows", "passages"} => mig.todo = <<>>
      /\ recall["lite"] \in RowSeqs
      /\ archive["lite"] \in Seq(Nat)
  BY DEF MemoryInv, MemoryTypeOK, Backends, NoRun, RunsInv
<1>b. DOMAIN NoRun = {"stage", "todo"} /\ <<>> \in Seq(Nat) /\ <<>> \in RowSeqs
  BY InNothing DEF NoRun, RowSeqs
<1>1. CASE RunStarts
  <2>1. mig' = [stage |-> "core", todo |-> <<>>]
    BY <1>1 DEF RunStarts, NoRun
  <2> QED  BY <1>b, <2>1
<1>2. CASE CopyCore
  <2>1. mig.stage = "core" /\ mig' = [mig EXCEPT !.stage = "messages"]
    BY <1>2 DEF CopyCore
  <2> QED  BY <1>a, <1>b, <2>1
<1>3. CASE CheckMessages
  <2>1. mig.stage = "messages"
    BY <1>3 DEF CheckMessages
  <2>2. mig' = [mig EXCEPT !.stage = "usage"] \/ mig' = [stage |-> "rows", todo |-> recall["lite"]]
    BY <1>3 DEF CheckMessages
  <2>3. CASE mig' = [mig EXCEPT !.stage = "usage"]
    BY <1>a, <1>b, <2>1, <2>3
  <2>4. CASE mig' = [stage |-> "rows", todo |-> recall["lite"]]
    BY <1>a, <1>b, <2>4
  <2> QED  BY <2>2, <2>3, <2>4
<1>4. CASE CopyRows
  <2>1. mig.todo \in RowSeqs /\ OtherBatches \in RowSeqs
        /\ (Len(mig.todo) <= Batch => OtherBatches = <<>>)
    BY <1>a, <1>4, BatchTaken DEF CopyRows
  <2>2. mig' = [stage |-> IF Len(mig.todo) <= Batch THEN "usage" ELSE "rows",
                todo |-> OtherBatches]
    BY <1>4 DEF CopyRows, OtherBatches
  <2> QED  BY <1>b, <2>1, <2>2
<1>5. CASE CopyUsage
  <2>1. mig.stage = "usage" /\ mig' = [mig EXCEPT !.stage = "archive"]
    BY <1>5 DEF CopyUsage
  <2> QED  BY <1>a, <1>b, <2>1
<1>6. CASE CheckArchive
  <2>1. mig' = [stage |-> "passages", todo |-> <<>>]
           \/ mig' = [stage |-> "passages", todo |-> archive["lite"]]
    BY <1>6 DEF CheckArchive
  <2>2. CASE mig' = [stage |-> "passages", todo |-> <<>>]
    BY <1>b, <2>2
  <2>3. CASE mig' = [stage |-> "passages", todo |-> archive["lite"]]
    BY <1>a, <1>b, <2>3
  <2> QED  BY <2>1, <2>2, <2>3
<1>7. CASE CopyPassage
  <2>1. mig.stage = "passages" /\ mig' = [mig EXCEPT !.todo = Tail(mig.todo)] /\ mig.todo # <<>>
    BY <1>7 DEF CopyPassage
  <2>2. Tail(mig.todo) \in Seq(Nat)
    BY <1>a, <2>1, InTail
  <2> QED  BY <1>a, <1>b, <2>1, <2>2
<1>8. CASE RunEnds \/ RunBreaksOff
  <2>1. mig' = [stage |-> "idle", todo |-> <<>>]
    BY <1>8 DEF RunEnds, RunBreaksOff, NoRun
  <2> QED  BY <1>b, <2>1
<1> QED  BY <1>a, <1>b, <1>1, <1>2, <1>3, <1>4, <1>5, <1>6, <1>7, <1>8, ProgramWriters

(* So does a walk.                                                         *)
LEMMA WalkTypeStep ==
    ASSUME MemoryInv, MemoryNext
    PROVE  walk'.stage \in {"none", "count", "select", "done"} /\ DOMAIN walk' = DOMAIN NoWalk
<1>a. /\ walk.stage \in {"none", "count", "select", "done"}
      /\ DOMAIN walk = DOMAIN NoWalk
      /\ "stage" \in DOMAIN NoWalk /\ NoWalk.stage = "none"
  BY DEF MemoryInv, MemoryTypeOK, NoWalk
<1>1. CASE Switch
  BY <1>a, <1>1 DEF Switch, ToolsRestart
<1>2. CASE MigrationNext /\ UNCHANGED tools
  BY <1>a, <1>2 DEF tools
<1>3. CASE JobNext /\ UNCHANGED tools
  BY <1>a, <1>3 DEF tools
<1>4. CASE ToolsNext
  <2>1. ASSUME NEW c \in Clients, AppendReads(c) \/ ReplaceReads(c) \/ ToolWrites(c)
        PROVE  walk' = walk
    BY <2>1 DEF AppendReads, ReplaceReads, Reads, ToolWrites
  <2>2. ASSUME NEW kind, TurnRecords(kind)
        PROVE  walk'.stage = walk.stage /\ DOMAIN walk' = DOMAIN walk
    BY <2>2 DEF TurnRecords, tools
  <2>3. CASE ArchivalInsert \/ Charge
    BY <1>a, <2>3 DEF ArchivalInsert, Charge, tools
  <2>4. CASE WalkBegins
    <3>1. \E at, wanted : walk' = [NoWalk EXCEPT !.stage = "count", !.at = at, !.wanted = wanted]
      BY <2>4 DEF WalkBegins
    <3> QED  BY <1>a, <3>1
  <2>5. CASE PageCounts
    <3>1. \E total : walk' = [walk EXCEPT !.stage = "select", !.total = total]
      BY <2>5 DEF PageCounts
    <3> QED  BY <1>a, <3>1
  <2>6. CASE PageSelects
    <3> HIDE DEF MemoryInv, MemoryNext
    <3> USE <2>6 DEF PageSelects
    <3>1. PICK stage \in {"count", "done"} : \E page, shown, raced, cut :
             walk' = [walk EXCEPT !.stage = stage, !.page = page, !.shown = shown,
                                  !.raced = raced, !.cut = cut]
      OBVIOUS
    <3> QED  BY <1>a, <3>1
  <2> QED  BY <1>a, <1>4, <2>1, <2>2, <2>3, <2>4, <2>5, <2>6 DEF ToolsNext
<1> QED  BY <1>1, <1>2, <1>3, <1>4 DEF MemoryNext

(* All types are kept.                                                     *)
LEMMA MemoryTypeStep ==
    ASSUME MemoryInv, MemoryNext
    PROVE  /\ left' \in Allowances
           /\ MemoryTypeOK'
           /\ DOMAIN walk' = DOMAIN NoWalk
           /\ DOMAIN mig' = DOMAIN NoRun
           /\ DOMAIN kept' = Backends
<1>1. left' \in Allowances
  BY LeftStep DEF MemoryInv
<1>2. MemoryTypeOK'
  BY StoresTypeStep, ProgramsTypeStep, WidthTypeStep, RunTypeStep, WalkTypeStep
     DEF MemoryTypeOK
<1> QED  BY <1>1, <1>2, ProgramsTypeStep, RunTypeStep, WalkTypeStep

-----------------------------------------------------------------------------
(* How far the runs are                                                    *)

LEMMA RunsStep ==
    ASSUME MemoryInv, MemoryNext
    PROVE  RunsInv'
<1>a. /\ RunsInv
      /\ DOMAIN mig = {"stage", "todo"}
      /\ mig.stage \in {"idle", "core", "messages", "rows", "usage", "archive", "passages"}
      /\ past \in [started : BOOLEAN, rows : SUBSET (1..made), passages : SUBSET (1..made),
                   charges : Nat, finished : BOOLEAN, broken : BOOLEAN, again : BOOLEAN,
                   late : BOOLEAN, hollow : BOOLEAN, spilt : BOOLEAN]
  BY DEF MemoryInv, MemoryTypeOK, NoRun
<1>b. /\ DOMAIN past = {"started", "rows", "passages", "charges", "finished", "broken",
                        "again", "late", "hollow", "spilt"}
      /\ active \in {"lite", "pg"}
  BY <1>a DEF MemoryInv, MemoryTypeOK, Backends
<1>1. CASE RunStarts
  <2>1. /\ mig'.stage = "core" /\ mig'.todo = <<>> /\ active' = active
        /\ mig.stage = "idle"
    BY <1>1 DEF RunStarts, NoRun
  <2>2. /\ past'.started /\ past'.finished = past.finished /\ past'.broken = past.broken
        /\ past'.again = past.started /\ (active = "pg" => past'.late)
    BY <1>1, <1>b DEF RunStarts
  <2> QED  BY <1>a, <2>1, <2>2 DEF RunsInv
<1>2. CASE CopyCore \/ CheckMessages \/ CopyUsage \/ CopyRows \/ CopyPassage
  <2>1. UNCHANGED <<past, active>> /\ mig.stage # "idle"
    BY <1>2 DEF CopyCore, CheckMessages, CopyUsage, CopyRows, CopyPassage, stores
  <2>2. mig'.stage # "idle"
    BY <1>2, <1>a DEF CopyCore, CheckMessages, CopyUsage, CopyRows, CopyPassage
  <2>3. mig'.stage \notin {"rows", "passages"} => mig'.todo = <<>>
    <3>1. CASE CopyCore \/ CopyUsage
      BY <3>1, <1>a DEF CopyCore, CopyUsage, RunsInv
    <3>2. CASE CheckMessages
      <4>1. mig' = [mig EXCEPT !.stage = "usage"] \/ mig'.stage = "rows"
        BY <3>2 DEF CheckMessages
      <4> QED  BY <1>a, <3>2, <4>1 DEF CheckMessages, RunsInv
    <3>3. CASE CopyRows
      <4>1. mig.todo \in RowSeqs
        BY <3>3 DEF CopyRows, MemoryInv, MemoryTypeOK
      <4>2. mig'.stage \notin {"rows", "passages"} => Len(mig.todo) <= Batch
        BY <3>3 DEF CopyRows
      <4>3. mig'.todo = OtherBatches
        BY <3>3 DEF CopyRows, OtherBatches
      <4> QED  BY <4>1, <4>2, <4>3, BatchTaken
    <3>4. CASE CopyPassage
      BY <3>4, <1>a DEF CopyPassage
    <3> QED  BY <1>2, <3>1, <3>2, <3>3, <3>4
  <2> QED  BY <1>a, <2>1, <2>2, <2>3 DEF RunsInv
<1>3. CASE CheckArchive
  <2>1. mig'.stage = "passages" /\ mig.stage = "archive" /\ active' = active
    BY <1>3 DEF CheckArchive, stores
  <2>2. /\ past'.started = past.started /\ past'.finished = past.finished
        /\ past'.broken = past.broken /\ past'.again = past.again /\ past'.late = past.late
    BY <1>3, <1>b DEF CheckArchive
  <2> QED  BY <1>a, <2>1, <2>2 DEF RunsInv
<1>4. CASE RunEnds
  <2>1. mig'.stage = "idle" /\ mig'.todo = <<>> /\ mig.stage = "passages" /\ active' = active
    BY <1>4 DEF RunEnds, stores, NoRun
  <2>2. /\ past'.started = past.started /\ past'.finished
        /\ past'.broken = past.broken /\ past'.again = past.again /\ past'.late = past.late
    BY <1>4, <1>b DEF RunEnds
  <2> QED  BY <1>a, <2>1, <2>2 DEF RunsInv
<1>5. CASE RunBreaksOff
  <2>1. mig'.stage = "idle" /\ mig'.todo = <<>> /\ mig.stage # "idle" /\ active' = active
    BY <1>5 DEF RunBreaksOff, NoRun
  <2>2. /\ past'.started = past.started /\ past'.finished = past.finished
        /\ past'.broken /\ past'.again = past.again /\ past'.late = past.late
    BY <1>5, <1>b DEF RunBreaksOff
  <2> QED  BY <1>a, <2>1, <2>2 DEF RunsInv
<1>6. CASE ReembedBreaksOff
  <2>1. mig' = mig /\ active' = active
    BY <1>6 DEF ReembedBreaksOff
  <2>2. /\ past'.started = past.started /\ past'.finished = past.finished
        /\ past'.broken = past.broken /\ past'.again = past.again /\ past'.late = past.late
    BY <1>6, <1>b DEF ReembedBreaksOff
  <2> QED  BY <1>a, <2>1, <2>2 DEF RunsInv
<1>7. CASE Switch
  <2>1. active' = "pg" /\ UNCHANGED <<mig, past>> /\ mig.stage = "idle" /\ past.finished
    BY <1>7 DEF Switch, MaySwitch, migrations
  <2> QED  BY <1>a, <2>1 DEF RunsInv
<1>8. CASE UNCHANGED <<mig, past, active>>
  BY <1>a, <1>8 DEF RunsInv
<1> QED  BY <1>1, <1>2, <1>3, <1>4, <1>5, <1>6, <1>7, <1>8, ProgramWriters, StoreWriters

-----------------------------------------------------------------------------
(* The blocks                                                              *)

\* A block stays one when texts are made.
LEMMA BlockStays ==
    ASSUME NEW block, IsBlock(block), made \in Nat, made' \in Nat, made <= made'
    PROVE  IsBlock(block)'
BY DEF IsBlock, Fits

LEMMA BlocksStep ==
    ASSUME MemoryInv, MemoryNext
    PROVE  BlocksInv'
<1>a. /\ RunsInv /\ BlocksInv
      /\ core \in [Backends -> Blocks \cup {NoBlock}]
      /\ made \in Nat /\ made' \in Nat /\ made <= made'
      /\ client \in [Clients -> [stage : {"idle", "write"}, block : Blocks,
                                 adds : SUBSET (1..made), drops : SUBSET (0..made)]]
      /\ active \in Backends
  BY StoresTypeStep DEF MemoryInv, MemoryTypeOK
<1>b. past.started \in BOOLEAN /\ past'.started \in BOOLEAN /\ (past.started => past'.started)
  <2>1. DOMAIN past = {"started", "rows", "passages", "charges", "finished", "broken",
                        "again", "late", "hollow", "spilt"} /\ past.started \in BOOLEAN
    BY DEF MemoryInv, MemoryTypeOK
  <2>2. CASE RunStarts
    BY <2>1, <2>2 DEF RunStarts
  <2>3. CASE CheckArchive \/ RunEnds \/ RunBreaksOff \/ ReembedBreaksOff
    BY <2>1, <2>3 DEF CheckArchive, RunEnds, RunBreaksOff, ReembedBreaksOff
  <2> QED  BY <2>1, <2>2, <2>3, ProgramWriters
<1>c. past'.started = past.started \/ RunStarts
  <2>1. DOMAIN past = {"started", "rows", "passages", "charges", "finished", "broken",
                        "again", "late", "hollow", "spilt"}
    BY DEF MemoryInv, MemoryTypeOK
  <2>3. CASE CheckArchive \/ RunEnds \/ RunBreaksOff \/ ReembedBreaksOff
    BY <2>1, <2>3 DEF CheckArchive, RunEnds, RunBreaksOff, ReembedBreaksOff
  <2> QED  BY <2>3, ProgramWriters
<1>d. /\ Seed \in Blocks /\ Once(Seed) /\ ToSet(Seed) = {0} /\ Fits(Seed)
      /\ <<>> \in Blocks /\ Once(<<>>) /\ ToSet(<<>>) = {} /\ Fits(<<>>)
  BY StoresAssumption, InNothing DEF Seed, Blocks, Once, ToSet, Fits
<1>e. IsBlock(Seed)' /\ IsBlock(<<>>)'
  BY <1>a, <1>d DEF IsBlock, Fits
<1>1. ASSUME NEW b \in Backends
      PROVE  (IF Opened(b) THEN IsBlock(core[b]) ELSE core[b] = NoBlock)'
  <2>a. Opened(b)' <=> (b = "lite" \/ past'.started)
    BY DEF Opened
  <2>b. IF Opened(b) THEN IsBlock(core[b]) ELSE core[b] = NoBlock
    BY <1>a DEF BlocksInv
  <2>1. CASE core' = core /\ past'.started = past.started
    BY <1>a, <2>1, <2>a, <2>b, BlockStays DEF IsBlock, Opened, Fits
  <2>2. CASE RunStarts
    <3>1. /\ past'.started
          /\ core' = [core EXCEPT !["pg"] = IF core["pg"] = NoBlock THEN Seed ELSE core["pg"]]
      BY <2>2, <1>a DEF RunStarts, Seeded, MemoryInv, MemoryTypeOK
    <3>2. core'[b] = core[b] \/ core'[b] = Seed
      BY <1>a, <3>1
    <3>3. core[b] = NoBlock => b = "pg" /\ core'[b] = Seed
      <4>1. NoBlock \notin Blocks
        BY DEF NoBlock, Blocks
      <4> QED  BY <1>a, <2>b, <3>1, <4>1 DEF Opened, IsBlock, Backends
    <3>4. core[b] # NoBlock => IsBlock(core[b])
      BY <2>b
    <3>5. IsBlock(core[b])'
      BY <1>a, <1>e, <3>2, <3>3, <3>4, BlockStays DEF IsBlock, Fits
    <3> QED  BY <2>a, <3>1, <3>5 DEF IsBlock, Fits
  <2>3. CASE CopyCore
    <3>1. core' = [core EXCEPT !["pg"] = core["lite"]] /\ past' = past /\ past.started
      BY <1>a, <2>3 DEF CopyCore, SetBlock, RunsInv
    <3>2. IsBlock(core["lite"]) /\ IsBlock(core[b])
      BY <1>a, <2>b, <3>1 DEF BlocksInv, Backends, Opened
    <3>3. core'[b] = core[b] \/ core'[b] = core["lite"]
      BY <1>a, <3>1
    <3> QED  BY <1>a, <2>a, <3>1, <3>2, <3>3, BlockStays DEF IsBlock, Fits
  <2>4. ASSUME NEW c \in Clients, ToolWrites(c), past'.started = past.started
        PROVE  (IF Opened(b) THEN IsBlock(core[b]) ELSE core[b] = NoBlock)'
    <3>1. core' = [core EXCEPT ![Home(c)] = client[c].block]
      BY <2>4 DEF ToolWrites, SetBlock
    <3>2. Opened(Home(c)) /\ IsBlock(client[c].block)
      BY <1>a, HomeBlock DEF BlocksInv
    <3>3. core'[b] = core[b] \/ (b = Home(c) /\ core'[b] = client[c].block)
      BY <1>a, <3>1
    <3> QED  BY <1>a, <2>4, <2>a, <2>b, <3>2, <3>3, BlockStays DEF IsBlock, Opened, Fits
  <2> QED  BY <1>c, <2>1, <2>2, <2>3, <2>4, StoreWriters
<1>2. ASSUME NEW c \in Clients PROVE IsBlock(client[c].block)'
  <2>a. IsBlock(client[c].block)
    BY <1>a DEF BlocksInv
  <2>1. CASE client'[c].block = client[c].block
    BY <1>a, <2>1, <2>a, BlockStays DEF IsBlock, Fits
  <2>2. CASE client'[c].block = <<>>
    BY <1>e, <2>2 DEF IsBlock, Fits
  <2>3. ASSUME NEW d \in Clients, Reading(d) PROVE IsBlock(client[c].block)'
    <3>1. PICK block, adds, drops : ReadsBlock(d, block, adds, drops)
      BY <1>a, <2>3, ReadingEffect
    <3>2. client'[c].block = client[c].block \/ (client'[c].block = block /\ Fits(block))
      BY <1>a, <3>1 DEF ReadsBlock, Reads
    <3> QED  BY <2>1, <3>1, <3>2 DEF ReadsBlock, IsBlock, Fits
  <2>4. ASSUME NEW d \in Clients, ToolWrites(d) PROVE IsBlock(client[c].block)'
    <3>1. client'[c].block = client[c].block \/ client'[c].block = <<>>
      BY <1>a, <2>4 DEF ToolWrites, Idle
    <3> QED  BY <2>1, <2>2, <3>1
  <2>5. CASE Switch
    <3>1. client'[c] = client[c] \/ client'[c] = Idle
      BY <1>a, <2>5 DEF Switch, ToolsRestart
    <3> QED  BY <2>1, <2>2, <3>1 DEF Idle
  <2> QED  BY <2>1, <2>2, <2>3, <2>4, <2>5, ProgramWriters
<1> QED  BY <1>1, <1>2 DEF BlocksInv

-----------------------------------------------------------------------------
(* The rows                                                                *)

\* A row no store has yet is added to the active one.
RecordsRow(row) ==
    /\ row \in Rows
    /\ AddRow(active, row)
    /\ row.n \in 1..made'
    /\ \A b \in Backends : row.n \notin Texts(recall[b])
    /\ row.kind = "record" => job.stage = "record" /\ row.n = job.passage
    /\ job'.stage = "record" => job' = job /\ row.n # job.passage
    /\ UNCHANGED <<core, archive, usage, active, width, put, migrations>>

LEMMA RowSteps ==
    ASSUME MemoryInv, MemoryNext
    PROVE  \/ UNCHANGED recall
           \/ \E row : RecordsRow(row)
           \/ CopyRows /\ UNCHANGED jobs
<1>a. /\ RowsInv
      /\ made \in Nat /\ Fresh \in Nat /\ Fresh \in 1..Fresh /\ Fresh \notin 1..made
      /\ left.kinds \subseteq RowKinds \ {"record"}
      /\ job \in [stage : {"idle", "asking", "insert", "record"}, passage : 0..made]
  <2>1. RowsInv /\ MemoryTypeOK
    BY DEF MemoryInv
  <2>2. made \in Nat
    BY <2>1 DEF MemoryTypeOK
  <2>3. Fresh \in Nat /\ Fresh \in 1..Fresh /\ Fresh \notin 1..made
    BY <2>2 DEF Fresh
  <2>4. left.kinds \subseteq RowKinds \ {"record"}
    <3>1. left \in Allowances
      BY DEF MemoryInv
    <3> QED  BY <3>1 DEF Allowances, RowKinds
  <2>5. job \in [stage : {"idle", "asking", "insert", "record"}, passage : 0..made]
    BY <2>1 DEF MemoryTypeOK
  <2> QED  BY <2>1, <2>2, <2>3, <2>4, <2>5
<1>1. ASSUME NEW kind \in left.kinds, TurnRecords(kind), UNCHANGED <<jobs, migrations>>
      PROVE  RecordsRow(Row(Fresh, kind))
  <2>1. /\ Row(Fresh, kind) \in Rows
        /\ Row(Fresh, kind).n = Fresh /\ Row(Fresh, kind).kind # "record"
    BY <1>a DEF Row, Rows
  <2>2. made' = Fresh
    BY <1>1 DEF TurnRecords, Fresh
  <2>3. \A b \in Backends : Fresh \notin Texts(recall[b])
    BY <1>a DEF RowsInv
  <2>4. job' = job /\ (job.stage = "record" => job.passage # Fresh)
    BY <1>1, <1>a DEF jobs, RowsInv
  <2>5. AddRow(active, Row(Fresh, kind)) /\ UNCHANGED <<core, archive, usage, active, width, put>>
    BY <1>1 DEF TurnRecords
  <2> QED  BY <1>1, <1>a, <2>1, <2>2, <2>3, <2>4, <2>5 DEF RecordsRow
<1>2. ASSUME PassRecords, UNCHANGED <<tools, migrations>>
      PROVE  RecordsRow(Row(job.passage, "record"))
  <2>1. /\ job.stage = "record" /\ job.passage \in 1..made
        /\ \A b \in Backends : job.passage \notin Texts(recall[b])
    BY <1>a, <1>2 DEF PassRecords, RowsInv
  <2>2. /\ Row(job.passage, "record") \in Rows
        /\ Row(job.passage, "record").n = job.passage
    BY <1>a, <2>1 DEF Row, Rows, RowKinds
  <2>3. job'.stage # "record" /\ made' = made
    BY <1>2 DEF PassRecords, NoPass
  <2>4. /\ AddRow(active, Row(job.passage, "record"))
        /\ UNCHANGED <<core, archive, usage, active, width, put>>
    BY <1>2 DEF PassRecords
  <2> QED  BY <1>2, <2>1, <2>2, <2>3, <2>4 DEF RecordsRow
<1>3. CASE ToolsNext /\ UNCHANGED <<jobs, migrations>>
  <2>1. UNCHANGED recall \/ \E kind \in left.kinds : TurnRecords(kind)
    BY <1>3 DEF ToolsNext, AppendReads, ReplaceReads, Reads, ToolWrites, ArchivalInsert, Charge,
       WalkBegins, PageCounts, PageSelects, stores
  <2> QED  BY <1>1, <1>3, <2>1
<1>4. CASE JobNext /\ UNCHANGED <<tools, migrations>>
  <2>1. UNCHANGED recall \/ PassRecords
    BY <1>4 DEF JobNext, PassStarts, PassStops, PassAnswered, PassInserts, stores
  <2> QED  BY <1>2, <1>4, <2>1
<1>5. CASE MigrationNext /\ UNCHANGED <<tools, jobs>>
  BY <1>5 DEF MigrationNext, stores, RunStarts, CopyCore, CheckMessages, CopyUsage,
     CheckArchive, CopyPassage, RunEnds, RunBreaksOff, ReembedReads, Drops, Refills,
     ReembedBreaksOff
<1>6. CASE Switch
  BY <1>6 DEF Switch
<1> QED  BY <1>3, <1>4, <1>5, <1>6 DEF MemoryNext

\* What one batch does to the two logs.
LEMMA RowsCopied ==
    ASSUME MemoryInv, CopyRows
    PROVE  /\ recall'["lite"] = recall["lite"]
           /\ Texts(recall'["pg"]) = Texts(recall["pg"]) \cup Texts(FirstBatch)
           /\ Named(recall'["pg"]) = Named(recall["pg"]) \cup Named(FirstBatch)
           /\ Once(recall'["pg"]) /\ NoTwins(ToSet(recall'["pg"]))
           /\ Texts(mig.todo) = Texts(FirstBatch) \cup Texts(OtherBatches)
           /\ ToSet(mig.todo) = ToSet(FirstBatch) \cup ToSet(OtherBatches)
           /\ Texts(FirstBatch) \cap Texts(OtherBatches) = {}
           /\ ToSet(mig.todo) \subseteq ToSet(recall["lite"])
           /\ mig'.todo = OtherBatches /\ OtherBatches \in RowSeqs /\ Once(OtherBatches)
           /\ mig'.stage \in {"rows", "usage"}
           /\ mig'.stage = "usage" => OtherBatches = <<>>
<1>a. /\ RowsInv
      /\ recall \in [Backends -> RowSeqs]
      /\ recall["pg"] \in RowSeqs
      /\ mig.stage = "rows" /\ mig.todo \in RowSeqs /\ Once(mig.todo)
      /\ ToSet(mig.todo) \subseteq ToSet(recall["lite"])
      /\ Texts(mig.todo) \cap Texts(recall["pg"]) = {}
      /\ NoTwins(ToSet(recall["lite"])) /\ NoTwins(ToSet(recall["pg"])) /\ Once(recall["pg"])
  BY DEF MemoryInv, MemoryTypeOK, RowsInv, CopyRows, Backends
<1>1. recall' = [recall EXCEPT !["pg"] = recall["pg"] \o FirstBatch]
  BY DEF CopyRows, FirstBatch
<1>2. recall'["lite"] = recall["lite"] /\ recall'["pg"] = recall["pg"] \o FirstBatch
  BY <1>a, <1>1 DEF Backends
<1>3. /\ FirstBatch \in RowSeqs
      /\ OtherBatches \in RowSeqs
      /\ Len(mig.todo) <= Batch => OtherBatches = <<>>
      /\ ToSet(mig.todo) = ToSet(FirstBatch) \cup ToSet(OtherBatches)
      /\ Texts(mig.todo) = Texts(FirstBatch) \cup Texts(OtherBatches)
      /\ Once(FirstBatch)
      /\ Once(OtherBatches)
      /\ ToSet(FirstBatch) \cap ToSet(OtherBatches) = {}
  BY <1>a, BatchTaken
<1>4. NoTwins(ToSet(FirstBatch)) /\ Texts(recall["pg"]) \cap Texts(FirstBatch) = {}
  BY <1>a, <1>3 DEF NoTwins
<1>5. Texts(FirstBatch) \cap Texts(OtherBatches) = {}
  <2> SUFFICES ASSUME NEW r \in ToSet(FirstBatch), NEW q \in ToSet(OtherBatches), r.n = q.n
               PROVE  FALSE
    BY DEF Texts
  <2>1. r = q
    BY <1>a, <1>3 DEF NoTwins
  <2> QED  BY <1>3, <2>1
<1>6. /\ Texts(recall'["pg"]) = Texts(recall["pg"]) \cup Texts(FirstBatch)
      /\ Named(recall'["pg"]) = Named(recall["pg"]) \cup Named(FirstBatch)
      /\ Once(recall'["pg"]) /\ NoTwins(ToSet(recall'["pg"]))
  BY <1>a, <1>2, <1>3, <1>4, RowsJoined
<1>7. /\ mig'.todo = OtherBatches
      /\ mig'.stage \in {"rows", "usage"}
      /\ mig'.stage = "usage" => Len(mig.todo) <= Batch
  BY DEF CopyRows, OtherBatches
<1> QED  BY <1>a, <1>2, <1>3, <1>5, <1>6, <1>7

\* What one row does to the log it is added to.
LEMMA RowRecorded ==
    ASSUME MemoryInv, NEW row, RecordsRow(row)
    PROVE  /\ \A b \in Backends : b # active => recall'[b] = recall[b]
           /\ ToSet(recall'[active]) = ToSet(recall[active]) \cup {row}
           /\ Texts(recall'[active]) = Texts(recall[active]) \cup {row.n}
           /\ Once(recall'[active]) /\ NoTwins(ToSet(recall'[active]))
           /\ row.kind # "record" => Named(recall'[active]) = Named(recall[active])
           /\ row.kind = "record" =>
                 Named(recall'[active]) = Named(recall[active]) \cup {row.n}
<1>a. /\ recall \in [Backends -> RowSeqs]
      /\ active \in Backends /\ recall[active] \in RowSeqs
      /\ row \in Rows /\ row.n \notin Texts(recall[active])
      /\ Once(recall[active]) /\ NoTwins(ToSet(recall[active]))
  BY DEF MemoryInv, MemoryTypeOK, RowsInv, RecordsRow
<1>1. recall' = [recall EXCEPT ![active] = Append(recall[active], row)]
  BY DEF RecordsRow, AddRow
<1>2. /\ recall'[active] = Append(recall[active], row)
      /\ \A b \in Backends : b # active => recall'[b] = recall[b]
  BY <1>a, <1>1
<1>3. /\ ToSet(Append(recall[active], row)) = ToSet(recall[active]) \cup {row}
      /\ Texts(Append(recall[active], row)) = Texts(recall[active]) \cup {row.n}
      /\ row.kind # "record" => Named(Append(recall[active], row)) = Named(recall[active])
      /\ row.kind = "record" =>
            Named(Append(recall[active], row)) = Named(recall[active]) \cup {row.n}
  BY <1>a, RowAdded
<1>4. Once(Append(recall[active], row)) /\ NoTwins(ToSet(Append(recall[active], row)))
  BY <1>a, RowAdded
<1> QED  BY <1>2, <1>3, <1>4

LEMMA RowsStep ==
    ASSUME MemoryInv, MemoryNext
    PROVE  RowsInv'
<1>a. /\ RowsInv
      /\ made \in Nat /\ made' \in Nat /\ made <= made'
      /\ recall \in [Backends -> RowSeqs]
      /\ active \in Backends
      /\ job \in [stage : {"idle", "asking", "insert", "record"}, passage : 0..made]
  BY StoresTypeStep DEF MemoryInv, MemoryTypeOK
<1>b. recall["lite"] \in RowSeqs /\ "lite" \in Backends /\ "pg" \in Backends
  BY <1>a DEF Backends
<1>1. CASE UNCHANGED recall
  <2>1. \A b \in Backends :
            /\ Once(recall'[b])
            /\ NoTwins(ToSet(recall'[b]))
            /\ Texts(recall'[b]) \subseteq 1..made'
    BY <1>a, <1>1 DEF RowsInv
  <2>2. mig'.stage = "rows" =>
            /\ mig'.todo \in RowSeqs
            /\ Once(mig'.todo)
            /\ ToSet(mig'.todo) \subseteq ToSet(recall'["lite"])
            /\ Texts(mig'.todo) \cap Texts(recall'["pg"]) = {}
    <3>1. CASE mig' = mig
      BY <1>a, <1>1, <3>1 DEF RowsInv
    <3>2. CASE CheckMessages
      <4>1. CASE mig' = [mig EXCEPT !.stage = "usage"]
        <5>1. mig'.stage # "rows"
          BY <3>2, <4>1 DEF CheckMessages, MemoryInv, NoRun
        <5> QED  BY <5>1
      <4>2. CASE recall["pg"] = <<>> /\ mig' = [stage |-> "rows", todo |-> recall["lite"]]
        <5>1. Texts(recall["pg"]) = {}
          BY <4>2, InNothing DEF Texts
        <5>2. mig'.todo = recall["lite"]
          BY <4>2
        <5> QED  BY <1>a, <1>b, <1>1, <5>1, <5>2 DEF RowsInv
      <4> QED  BY <3>2, <4>1, <4>2 DEF CheckMessages
    <3>3. CASE CopyRows
      <4>1. /\ Texts(mig.todo) = Texts(FirstBatch) \cup Texts(OtherBatches)
            /\ ToSet(mig.todo) = ToSet(FirstBatch) \cup ToSet(OtherBatches)
            /\ ToSet(mig.todo) \subseteq ToSet(recall["lite"])
            /\ mig'.todo = OtherBatches /\ OtherBatches \in RowSeqs /\ Once(OtherBatches)
        BY <3>3, RowsCopied
      <4>2. Texts(mig.todo) \cap Texts(recall["pg"]) = {}
        BY <1>a, <3>3 DEF RowsInv, CopyRows
      <4> QED  BY <1>1, <4>1, <4>2
    <3>4. CASE RunStarts \/ CopyCore \/ CopyUsage \/ CheckArchive \/ CopyPassage \/ RunEnds
               \/ RunBreaksOff
      <4>1. mig'.stage # "rows"
        BY <3>4 DEF RunStarts, CopyCore, CopyUsage, CheckArchive, CopyPassage, RunEnds,
           RunBreaksOff, NoRun, MemoryInv
      <4> QED  BY <4>1
    <3> QED  BY <3>1, <3>2, <3>3, <3>4, ProgramWriters
  <2>3. job'.stage = "record" =>
            /\ job'.passage \in 1..made'
            /\ \A b \in Backends : job'.passage \notin Texts(recall'[b])
    <3>1. CASE job' = job
      BY <1>a, <1>1, <3>1 DEF RowsInv
    <3>2. CASE Switch
      BY <3>2 DEF Switch, JobRestart, NoPass
    <3>3. CASE PassInserts
      <4>1. job'.passage = Fresh /\ made' = Fresh
        BY <1>a, <3>3 DEF PassInserts, Fresh
      <4> QED  BY <1>a, <1>1, <4>1 DEF RowsInv, Fresh
    <3>4. CASE PassStarts \/ PassStops \/ PassAnswered \/ PassRecords
      <4>1. job' = job \/ job'.stage # "record"
        <5>1. CASE PassStarts
          <6>1. job' = job \/ job' = [NoPass EXCEPT !.stage = "asking"]
            BY <5>1 DEF PassStarts, jobs
          <6> QED  BY <6>1 DEF NoPass
        <5>2. CASE PassStops \/ PassAnswered \/ PassRecords
          BY <1>a, <5>2 DEF PassStops, PassAnswered, PassRecords, NoPass
        <5> QED  BY <3>4, <5>1, <5>2
      <4> QED  BY <3>1, <4>1
    <3> QED  BY <3>1, <3>2, <3>3, <3>4, ProgramWriters DEF JobNext
  <2> QED  BY <2>1, <2>2, <2>3 DEF RowsInv
<1>2. ASSUME NEW row, RecordsRow(row) PROVE RowsInv'
  <2>a. /\ \A b \in Backends : b # active => recall'[b] = recall[b]
        /\ ToSet(recall'[active]) = ToSet(recall[active]) \cup {row}
        /\ Texts(recall'[active]) = Texts(recall[active]) \cup {row.n}
        /\ Once(recall'[active]) /\ NoTwins(ToSet(recall'[active]))
    BY <1>2, RowRecorded
  <2>b. /\ row.n \in 1..made'
        /\ \A b \in Backends : row.n \notin Texts(recall[b])
        /\ job'.stage = "record" => job' = job /\ row.n # job.passage
        /\ mig' = mig
    BY <1>2 DEF RecordsRow, migrations
  <2>1. \A b \in Backends :
            /\ Once(recall'[b])
            /\ NoTwins(ToSet(recall'[b]))
            /\ Texts(recall'[b]) \subseteq 1..made'
    <3> SUFFICES ASSUME NEW b \in Backends
                 PROVE  /\ Once(recall'[b])
                        /\ NoTwins(ToSet(recall'[b]))
                        /\ Texts(recall'[b]) \subseteq 1..made'
      OBVIOUS
    <3>1. CASE b = active
      <4>1. Texts(recall[active]) \subseteq 1..made
        BY <1>a DEF RowsInv
      <4>2. Texts(recall'[active]) \subseteq 1..made'
        BY <1>a, <2>a, <2>b, <4>1
      <4> QED  BY <2>a, <3>1, <4>2
    <3>2. CASE b # active
      BY <1>a, <2>a, <3>2 DEF RowsInv
    <3> QED  BY <3>1, <3>2
  <2>2. mig'.stage = "rows" =>
            /\ mig'.todo \in RowSeqs
            /\ Once(mig'.todo)
            /\ ToSet(mig'.todo) \subseteq ToSet(recall'["lite"])
            /\ Texts(mig'.todo) \cap Texts(recall'["pg"]) = {}
    <3> SUFFICES ASSUME mig.stage = "rows"
                 PROVE  /\ mig.todo \in RowSeqs
                        /\ Once(mig.todo)
                        /\ ToSet(mig.todo) \subseteq ToSet(recall'["lite"])
                        /\ Texts(mig.todo) \cap Texts(recall'["pg"]) = {}
      BY <2>b
    <3>1. /\ mig.todo \in RowSeqs
          /\ Once(mig.todo)
          /\ ToSet(mig.todo) \subseteq ToSet(recall["lite"])
          /\ Texts(mig.todo) \cap Texts(recall["pg"]) = {}
      BY <1>a DEF RowsInv
    <3>2. ToSet(recall["lite"]) \subseteq ToSet(recall'["lite"])
      BY <1>b, <2>a
    <3>3. Texts(recall'["pg"]) \subseteq Texts(recall["pg"]) \cup {row.n}
      BY <1>b, <2>a
    <3>4. row.n \notin Texts(mig.todo)
      BY <1>b, <2>b, <3>1 DEF Texts
    <3> QED  BY <3>1, <3>2, <3>3, <3>4
  <2>3. job'.stage = "record" =>
            /\ job'.passage \in 1..made'
            /\ \A b \in Backends : job'.passage \notin Texts(recall'[b])
    <3> SUFFICES ASSUME job'.stage = "record", NEW b \in Backends
                 PROVE  job'.passage \in 1..made' /\ job'.passage \notin Texts(recall'[b])
      BY <1>b
    <3>1. job' = job /\ row.n # job.passage
      BY <2>b
    <3>2. job.passage \in 1..made /\ job.passage \notin Texts(recall[b])
      BY <1>a, <3>1 DEF RowsInv
    <3>3. Texts(recall'[b]) \subseteq Texts(recall[b]) \cup {row.n}
      BY <2>a
    <3> QED  BY <1>a, <3>1, <3>2, <3>3
  <2> QED  BY <2>1, <2>2, <2>3 DEF RowsInv
<1>3. CASE CopyRows /\ UNCHANGED jobs
  <2>a. /\ recall'["lite"] = recall["lite"]
        /\ Texts(recall'["pg"]) = Texts(recall["pg"]) \cup Texts(FirstBatch)
        /\ Once(recall'["pg"]) /\ NoTwins(ToSet(recall'["pg"]))
        /\ Texts(mig.todo) = Texts(FirstBatch) \cup Texts(OtherBatches)
        /\ ToSet(mig.todo) = ToSet(FirstBatch) \cup ToSet(OtherBatches)
        /\ Texts(FirstBatch) \cap Texts(OtherBatches) = {}
        /\ ToSet(mig.todo) \subseteq ToSet(recall["lite"])
        /\ mig'.todo = OtherBatches /\ OtherBatches \in RowSeqs /\ Once(OtherBatches)
    BY <1>3, RowsCopied
  <2>b. Texts(mig.todo) \subseteq Texts(recall["lite"]) /\ job' = job /\ made' = made
    BY <1>3, <2>a DEF Texts, jobs, CopyRows
  <2>c. Texts(OtherBatches) \cap Texts(recall["pg"]) = {}
    BY <1>a, <1>3, <2>a DEF RowsInv, CopyRows
  <2>1. \A b \in Backends :
            /\ Once(recall'[b])
            /\ NoTwins(ToSet(recall'[b]))
            /\ Texts(recall'[b]) \subseteq 1..made'
    BY <1>a, <1>b, <2>a, <2>b DEF RowsInv, Backends
  <2>2. job'.stage = "record" =>
            /\ job'.passage \in 1..made'
            /\ \A b \in Backends : job'.passage \notin Texts(recall'[b])
    BY <1>a, <1>b, <2>a, <2>b DEF RowsInv, Backends
  <2> QED  BY <2>a, <2>c, <2>1, <2>2 DEF RowsInv
<1> QED  BY <1>1, <1>2, <1>3, RowSteps

-----------------------------------------------------------------------------
(* The passages                                                            *)

LEMMA ArchiveSteps ==
    ASSUME MemoryInv, MemoryNext
    PROVE  \/ UNCHANGED <<archive, width, put, mig, re>>
           \/ Inserts("lite") \/ Inserts(active)
           \/ CheckArchive \/ CopyPassage
           \/ ReembedReads \/ Drops \/ Refills \/ ReembedBreaksOff
           \/ /\ mig'.stage # "passages"
              /\ UNCHANGED <<archive, width, put, re>>
              /\ RunStarts \/ CopyCore \/ CheckMessages \/ CopyRows \/ CopyUsage
                    \/ RunEnds \/ RunBreaksOff
<1>a. active \in Backends /\ DOMAIN mig = {"stage", "todo"}
  BY DEF MemoryInv, MemoryTypeOK, NoRun
<1>1. CASE UNCHANGED <<archive, width, put, migrations>>
  BY <1>1 DEF migrations
<1>2. CASE RunStarts \/ CopyCore \/ CheckMessages \/ CopyRows \/ CopyUsage
              \/ RunEnds \/ RunBreaksOff
  <2>1. UNCHANGED <<archive, width, put, re>>
    BY <1>2 DEF RunStarts, CopyCore, CheckMessages, CopyRows, CopyUsage, RunEnds,
       RunBreaksOff, stores
  <2>2. mig'.stage # "passages"
    <3>1. CASE CheckMessages
      BY <1>a, <3>1 DEF CheckMessages
    <3> QED  BY <1>a, <1>2, <3>1 DEF RunStarts, CopyCore, CopyRows, CopyUsage, RunEnds,
             RunBreaksOff, NoRun
  <2> QED  BY <1>2, <2>1, <2>2
<1>3. CASE MigrationNext
  BY <1>2, <1>3 DEF MigrationNext
<1> QED  BY <1>a, <1>1, <1>3, PassageSteps

\* What an insertion does to the stores of passages.
LEMMA PassageInserted ==
    ASSUME MemoryInv, NEW b \in Backends, Inserts(b)
    PROVE  /\ Fresh = made + 1 /\ made' = Fresh
           /\ ToSet(archive'[b]) = ToSet(archive[b]) \cup {Fresh}
           /\ Once(archive'[b])
           /\ \A a \in Backends : a # b => archive'[a] = archive[a]
           /\ b = "lite" => width # "old" /\ width' = "new" /\ put' = put \cup {Fresh}
           /\ b # "lite" => width' = width /\ put' = put
           /\ UNCHANGED <<recall, active, mig, re, past>>
<1>a. /\ archive \in [Backends -> Seq(Nat)] /\ Fresh \in Nat /\ Fresh = made + 1
      /\ made \in Nat /\ Once(archive[b]) /\ ToSet(archive[b]) \subseteq 1..made
  BY DEF MemoryInv, MemoryTypeOK, PassagesInv, Fresh
<1>1. AddPassage(b, Fresh) /\ made' = made + 1 /\ UNCHANGED <<recall, active, mig, re, past>>
  BY DEF Inserts, migrations
<1>2. Fresh \notin ToSet(archive[b])
  BY <1>a
<1> QED  BY <1>a, <1>1, <1>2, PassageAdded

\* What the copy of one passage does.
LEMMA PassageCopied ==
    ASSUME MemoryInv, CopyPassage
    PROVE  /\ mig.stage = "passages" /\ mig'.stage = "passages"
           /\ mig.todo \in Seq(Nat) /\ mig'.todo = Tail(mig.todo)
           /\ mig'.todo \in Seq(Nat) /\ Once(mig'.todo)
           /\ ToSet(mig.todo) = {Head(mig.todo)} \cup ToSet(mig'.todo)
           /\ Head(mig.todo) \notin ToSet(mig'.todo)
           /\ archive'["lite"] = archive["lite"]
           /\ ToSet(archive'["pg"]) = ToSet(archive["pg"]) \cup {Head(mig.todo)}
           /\ Once(archive'["pg"])
           /\ UNCHANGED <<recall, usage, active, width, put, made, re, past>>
<1>a. /\ archive \in [Backends -> Seq(Nat)] /\ "pg" \in Backends /\ "lite" \in Backends
      /\ mig.stage = "passages" /\ mig.todo \in Seq(Nat) /\ Once(mig.todo) /\ mig.todo # <<>>
      /\ ToSet(mig.todo) \cap ToSet(archive["pg"]) = {} /\ Once(archive["pg"])
      /\ DOMAIN mig = {"stage", "todo"}
  BY DEF MemoryInv, MemoryTypeOK, PassagesInv, CopyPassage, Backends, NoRun
<1>1. /\ Head(mig.todo) \in Nat
      /\ Tail(mig.todo) \in Seq(Nat)
      /\ ToSet(mig.todo) = {Head(mig.todo)} \cup ToSet(Tail(mig.todo))
      /\ Once(Tail(mig.todo)) /\ Head(mig.todo) \notin ToSet(Tail(mig.todo))
  BY <1>a, InTail
<1>2. mig' = [mig EXCEPT !.todo = Tail(mig.todo)] /\ AddPassage("pg", Head(mig.todo))
  BY DEF CopyPassage
<1>3. mig'.stage = "passages" /\ mig'.todo = Tail(mig.todo)
  BY <1>a, <1>2
<1>4. Head(mig.todo) \notin ToSet(archive["pg"])
  BY <1>a, <1>1
<1>5. /\ ToSet(archive'["pg"]) = ToSet(archive["pg"]) \cup {Head(mig.todo)}
      /\ Once(archive'["pg"])
      /\ archive'["lite"] = archive["lite"]
      /\ width' = width /\ put' = put
  BY <1>a, <1>1, <1>2, <1>4, PassageAdded
<1> QED  BY <1>a, <1>1, <1>3, <1>5 DEF CopyPassage

\* What filling the collection again does.
LEMMA CollectionRefilled ==
    ASSUME MemoryInv, Refills
    PROVE  /\ ToSet(archive'["lite"]) = ToSet(archive["lite"]) \cup ToSet(re.held)
           /\ Once(archive'["lite"])
           /\ archive'["pg"] = archive["pg"]
           /\ re'.stage = "idle" /\ re'.held = <<>>
           /\ UNCHANGED <<recall, active, put, made, mig, past>>
<1>a. /\ archive \in [Backends -> Seq(Nat)] /\ "pg" \in Backends /\ "lite" \in Backends
      /\ re.held \in Seq(Nat) /\ Once(re.held) /\ Once(archive["lite"])
      /\ ToSet(re.held) \cap ToSet(archive["lite"]) = {}
  BY DEF MemoryInv, MemoryTypeOK, PassagesInv, Refills, Backends
<1>1. archive' = [archive EXCEPT !["lite"] = archive["lite"] \o re.held] /\ re' = NoReembed
  BY DEF Refills
<1>2. archive'["lite"] = archive["lite"] \o re.held /\ archive'["pg"] = archive["pg"]
  BY <1>a, <1>1
<1>3. /\ ToSet(archive["lite"] \o re.held) = ToSet(archive["lite"]) \cup ToSet(re.held)
      /\ Once(archive["lite"] \o re.held)
  BY <1>a, InConcat
<1>4. UNCHANGED <<recall, active, put, made, mig, past>>
  BY DEF Refills
<1>5. re'.stage = "idle" /\ re'.held = <<>>
  BY <1>1 DEF NoReembed
<1> QED  BY <1>2, <1>3, <1>4, <1>5

LEMMA PassagesStep ==
    ASSUME MemoryInv, MemoryNext
    PROVE  PassagesInv'
<1>a. /\ PassagesInv
      /\ made \in Nat /\ made' \in Nat /\ made <= made'
      /\ archive \in [Backends -> Seq(Nat)]
      /\ active \in Backends /\ "lite" \in Backends /\ "pg" \in Backends
      /\ re \in [stage : {"idle", "read", "dropped"}, held : Seq(Nat)]
      /\ width \in IF archive["lite"] = <<>> THEN {"none"} ELSE {"old", "new"}
  BY StoresTypeStep DEF MemoryInv, MemoryTypeOK, Backends
<1>b. 1..made \subseteq 1..made'
  BY <1>a
<1>1. CASE UNCHANGED <<archive, width, put, mig, re>>
  BY <1>1, <1>a, <1>b DEF PassagesInv
<1>2. ASSUME NEW b \in Backends, Inserts(b) PROVE PassagesInv'
  <2>a. /\ Fresh = made + 1 /\ made' = Fresh
        /\ ToSet(archive'[b]) = ToSet(archive[b]) \cup {Fresh}
        /\ Once(archive'[b])
        /\ \A a \in Backends : a # b => archive'[a] = archive[a]
        /\ b = "lite" => width # "old"
        /\ b # "lite" => width' = width
        /\ UNCHANGED <<mig, re>>
    BY <1>2, PassageInserted
  <2>b. Fresh \in 1..made' /\ Fresh \notin 1..made
    BY <1>a, <2>a
  <2>1. \A a \in Backends : Once(archive'[a]) /\ ToSet(archive'[a]) \subseteq 1..made'
    <3> SUFFICES ASSUME NEW a \in Backends
                 PROVE  Once(archive'[a]) /\ ToSet(archive'[a]) \subseteq 1..made'
      OBVIOUS
    <3>1. Once(archive[a]) /\ ToSet(archive[a]) \subseteq 1..made
      BY <1>a DEF PassagesInv
    <3>2. CASE a = b
      BY <1>b, <2>a, <2>b, <3>1, <3>2
    <3>3. CASE a # b
      <4>1. archive'[a] = archive[a]
        BY <2>a, <3>3
      <4> QED  BY <1>b, <3>1, <4>1
    <3> QED  BY <3>2, <3>3
  <2>2. mig.stage = "passages" =>
            /\ mig.todo \in Seq(Nat)
            /\ Once(mig.todo)
            /\ ToSet(mig.todo) \subseteq 1..made'
            /\ ToSet(mig.todo) \cap ToSet(archive'["pg"]) = {}
    <3> SUFFICES ASSUME mig.stage = "passages"
                 PROVE  /\ mig.todo \in Seq(Nat)
                        /\ Once(mig.todo)
                        /\ ToSet(mig.todo) \subseteq 1..made'
                        /\ ToSet(mig.todo) \cap ToSet(archive'["pg"]) = {}
      OBVIOUS
    <3>1. /\ mig.todo \in Seq(Nat)
          /\ Once(mig.todo)
          /\ ToSet(mig.todo) \subseteq 1..made
          /\ ToSet(mig.todo) \cap ToSet(archive["pg"]) = {}
      BY <1>a DEF PassagesInv
    <3>2. ToSet(archive'["pg"]) \subseteq ToSet(archive["pg"]) \cup {Fresh}
      BY <1>a, <2>a
    <3> QED  BY <1>b, <2>b, <3>1, <3>2
  <2>3. /\ Once(re.held) /\ ToSet(re.held) \subseteq 1..made'
        /\ re.stage = "idle" => re.held = <<>>
    BY <1>a, <1>b DEF PassagesInv
  <2>4. re.stage = "read" => re.held = archive'["lite"] /\ width' = "old"
    BY <1>a, <2>a DEF PassagesInv
  <2>5. re.stage = "dropped" =>
           re.held # <<>> /\ ToSet(re.held) \cap ToSet(archive'["lite"]) = {}
    <3>1. ToSet(archive'["lite"]) \subseteq ToSet(archive["lite"]) \cup {Fresh}
      BY <1>a, <2>a
    <3>2. ToSet(re.held) \subseteq 1..made
      BY <1>a DEF PassagesInv
    <3>3. re.stage = "dropped" =>
             re.held # <<>> /\ ToSet(re.held) \cap ToSet(archive["lite"]) = {}
      BY <1>a DEF PassagesInv
    <3> QED  BY <2>b, <3>1, <3>2, <3>3
  <2> QED  BY <2>a, <2>1, <2>2, <2>3, <2>4, <2>5 DEF PassagesInv
<1>3. CASE CheckArchive
  <2>1. UNCHANGED <<archive, width, made, re>>
    BY <1>3 DEF CheckArchive, stores
  <2>2. CASE mig' = [stage |-> "passages", todo |-> <<>>]
    <3>1. mig'.todo = <<>> /\ ToSet(<<>>) = {} /\ Once(<<>>) /\ <<>> \in Seq(Nat)
      BY <2>2, InNothing
    <3> QED  BY <1>a, <2>1, <3>1 DEF PassagesInv
  <2>3. CASE archive["pg"] = <<>> /\ mig' = [stage |-> "passages", todo |-> archive["lite"]]
    <3>1. mig'.todo = archive["lite"] /\ ToSet(archive["pg"]) = {}
      BY <2>3, InNothing
    <3> QED  BY <1>a, <2>1, <3>1 DEF PassagesInv
  <2> QED  BY <1>3, <2>2, <2>3 DEF CheckArchive
<1>4. CASE CopyPassage
  <2>a. /\ mig'.stage = "passages"
        /\ mig'.todo \in Seq(Nat) /\ Once(mig'.todo)
        /\ ToSet(mig.todo) = {Head(mig.todo)} \cup ToSet(mig'.todo)
        /\ Head(mig.todo) \notin ToSet(mig'.todo)
        /\ archive'["lite"] = archive["lite"]
        /\ ToSet(archive'["pg"]) = ToSet(archive["pg"]) \cup {Head(mig.todo)}
        /\ Once(archive'["pg"])
        /\ UNCHANGED <<width, made, re>>
    BY <1>4, PassageCopied
  <2>b. /\ ToSet(mig.todo) \subseteq 1..made
        /\ ToSet(mig.todo) \cap ToSet(archive["pg"]) = {}
    BY <1>a, <1>4 DEF PassagesInv, CopyPassage
  <2>c. ToSet(archive["pg"]) \subseteq 1..made
    BY <1>a DEF PassagesInv
  <2>1. \A a \in Backends : Once(archive'[a]) /\ ToSet(archive'[a]) \subseteq 1..made'
    BY <1>a, <2>a, <2>b, <2>c DEF PassagesInv, Backends
  <2> QED  BY <1>a, <2>a, <2>b, <2>1 DEF PassagesInv
<1>5. CASE ReembedReads
  <2>1. /\ re'.stage = "read" /\ re'.held = archive["lite"] /\ width = "old"
        /\ UNCHANGED <<archive, width, made, mig>>
    BY <1>5 DEF ReembedReads
  <2> QED  BY <1>a, <2>1 DEF PassagesInv
<1>6. CASE Drops
  <2>1. /\ archive'["lite"] = <<>> /\ archive'["pg"] = archive["pg"]
        /\ re'.stage = "dropped" /\ re'.held = re.held
        /\ UNCHANGED <<made, mig>>
    BY <1>a, <1>6 DEF Drops
  <2>2. re.held # <<>>
    BY <1>a, <1>6 DEF PassagesInv, Drops
  <2>3. \A a \in Backends : Once(archive'[a]) /\ ToSet(archive'[a]) \subseteq 1..made'
    BY <1>a, <2>1, InNothing DEF PassagesInv, Backends
  <2>4. ToSet(re.held) \cap ToSet(archive'["lite"]) = {}
    BY <2>1, InNothing
  <2> QED  BY <1>a, <2>1, <2>2, <2>3, <2>4 DEF PassagesInv
<1>7. CASE Refills
  <2>1. /\ ToSet(archive'["lite"]) = ToSet(archive["lite"]) \cup ToSet(re.held)
        /\ Once(archive'["lite"])
        /\ archive'["pg"] = archive["pg"]
        /\ re'.stage = "idle" /\ re'.held = <<>>
        /\ UNCHANGED <<made, mig>>
    BY <1>7, CollectionRefilled
  <2>2. \A a \in Backends : Once(archive'[a]) /\ ToSet(archive'[a]) \subseteq 1..made'
    BY <1>a, <2>1 DEF PassagesInv, Backends
  <2> QED  BY <1>a, <2>1, <2>2, InNothing DEF PassagesInv
<1>8. CASE ReembedBreaksOff
  <2>1. /\ re'.stage = "idle" /\ re'.held = <<>>
        /\ UNCHANGED <<archive, width, made, mig>>
    BY <1>8 DEF ReembedBreaksOff, NoReembed
  <2> QED  BY <1>a, <2>1, InNothing DEF PassagesInv
<1>9. CASE mig'.stage # "passages" /\ UNCHANGED <<archive, width, put, re>>
  BY <1>9, <1>a, <1>b DEF PassagesInv
<1> QED  BY <1>a, <1>1, <1>2, <1>3, <1>4, <1>5, <1>6, <1>7, <1>8, <1>9, ArchiveSteps

-----------------------------------------------------------------------------
(* What a store has, it keeps                                              *)

PastFields == {"started", "rows", "passages", "charges", "finished", "broken", "again", "late",
               "hollow", "spilt"}

\* What becomes of the fields the properties read.
LEMMA PastStep ==
    ASSUME MemoryInv, MemoryNext
    PROVE  /\ past.started => past'.started /\ past'.rows = past.rows
                                /\ past'.passages = past.passages /\ past'.charges = past.charges
           /\ past'.started # past.started => RunStarts
           /\ past'.finished # past.finished => RunEnds
           /\ past'.broken # past.broken => RunBreaksOff
           /\ past'.again # past.again => RunStarts
           /\ past.spilt => past'.spilt
           /\ past.hollow => past'.hollow
           /\ past.finished => past'.finished
           /\ past.broken => past'.broken
           /\ past.again => past'.again
           /\ past.late => past'.late
           /\ ReembedBreaksOff /\ re.stage = "dropped" => past'.spilt
           /\ CheckArchive /\ re.stage = "dropped" => past'.hollow
<1>a. DOMAIN past = PastFields
  BY DEF MemoryInv, MemoryTypeOK, PastFields
<1>b. past.again => past.started
  BY DEF MemoryInv, RunsInv
<1>1. CASE RunStarts
  BY <1>1, <1>a, <1>b DEF RunStarts, PastFields, CheckArchive, ReembedBreaksOff
<1>2. CASE CheckArchive
  BY <1>2, <1>a DEF CheckArchive, PastFields, ReembedBreaksOff
<1>3. CASE RunEnds
  BY <1>3, <1>a DEF RunEnds, PastFields, CheckArchive, ReembedBreaksOff
<1>4. CASE RunBreaksOff
  <2>1. ~CheckArchive \/ past'.hollow = (past.hollow \/ re.stage = "dropped")
    BY <1>a DEF CheckArchive, PastFields
  <2>2. ~ReembedBreaksOff \/ past'.spilt = (past.spilt \/ re.stage = "dropped")
    BY <1>a DEF ReembedBreaksOff, PastFields
  <2> QED  BY <1>4, <1>a, <2>1, <2>2 DEF RunBreaksOff, PastFields
<1>5. CASE ReembedBreaksOff
  BY <1>5, <1>a DEF ReembedBreaksOff, PastFields, CheckArchive
<1>6. CASE past' = past /\ ~CheckArchive /\ ~ReembedBreaksOff
  BY <1>6
<1> QED  BY <1>1, <1>2, <1>3, <1>4, <1>5, <1>6, ProgramWriters

\* What the SQLite log, its ledger and the Chroma collection have, the last of them
\* with what a re-embedding holds.
LEMMA SourceGrows ==
    ASSUME MemoryInv, MemoryNext
    PROVE  /\ Texts(recall["lite"]) \subseteq Texts(recall'["lite"])
           /\ usage'["lite"] \in Nat /\ usage["lite"] <= usage'["lite"]
           /\ ~past'.spilt => ToSet(archive["lite"]) \cup ToSet(re.held)
                                \subseteq ToSet(archive'["lite"]) \cup ToSet(re'.held)
           /\ put' \subseteq put \cup ToSet(archive'["lite"])
<1>a. /\ PassagesInv
      /\ active \in Backends /\ "lite" \in Backends /\ "pg" \in Backends
      /\ archive \in [Backends -> Seq(Nat)]
      /\ usage \in [Backends -> Nat] /\ usage["lite"] \in Nat
      /\ re \in [stage : {"idle", "read", "dropped"}, held : Seq(Nat)]
  BY DEF MemoryInv, MemoryTypeOK, Backends
<1>1. Texts(recall["lite"]) \subseteq Texts(recall'["lite"])
  <2>1. ASSUME NEW row, RecordsRow(row)
        PROVE  Texts(recall["lite"]) \subseteq Texts(recall'["lite"])
    BY <1>a, <2>1, RowRecorded
  <2>2. CASE CopyRows
    BY <2>2, RowsCopied
  <2> QED  BY <2>1, <2>2, RowSteps
<1>2. usage'["lite"] \in Nat /\ usage["lite"] <= usage'["lite"]
  <2>1. CASE Charge
    BY <1>a, <2>1 DEF Charge
  <2>2. CASE CopyUsage
    BY <1>a, <2>2 DEF CopyUsage, Backends
  <2> QED  BY <1>a, <2>1, <2>2, StoreWriters
<1> DEFINE There == ToSet(archive["lite"]) \cup ToSet(re.held)
           Later == ToSet(archive'["lite"]) \cup ToSet(re'.held)
<1>3. (~past'.spilt => There \subseteq Later) /\ put' \subseteq put \cup ToSet(archive'["lite"])
  <2>1. CASE UNCHANGED <<archive, width, put, mig, re>>
    BY <2>1
  <2>2. ASSUME NEW b \in Backends, Inserts(b)
        PROVE  There \subseteq Later /\ put' \subseteq put \cup ToSet(archive'["lite"])
    BY <1>a, <2>2, PassageInserted
  <2>3. CASE CheckArchive
    BY <2>3 DEF CheckArchive, stores
  <2>4. CASE CopyPassage
    BY <2>4, PassageCopied
  <2>5. CASE ReembedReads
    <3>1. re.stage = "idle" /\ UNCHANGED <<archive, put>>
      BY <2>5 DEF ReembedReads
    <3>2. ToSet(re.held) = {}
      BY <1>a, <3>1, InNothing DEF PassagesInv
    <3> QED  BY <3>1, <3>2
  <2>6. CASE Drops
    <3>1. re.stage = "read" /\ re'.held = re.held /\ put' = put
      BY <1>a, <2>6 DEF Drops
    <3>2. re.held = archive["lite"]
      BY <1>a, <3>1 DEF PassagesInv
    <3> QED  BY <3>1, <3>2
  <2>7. CASE Refills
    BY <2>7, CollectionRefilled
  <2>8. CASE ReembedBreaksOff
    <3>1. /\ re.stage # "idle" /\ UNCHANGED <<archive, put>>
      BY <2>8 DEF ReembedBreaksOff
    <3>2. re.stage = "dropped" => past'.spilt
      BY <2>8, PastStep
    <3>3. re.stage = "read" => re.held = archive["lite"]
      BY <1>a DEF PassagesInv
    <3> QED  BY <1>a, <3>1, <3>2, <3>3
  <2>9. CASE UNCHANGED <<archive, width, put, re>>
    BY <2>9
  <2> QED  BY <1>a, <2>1, <2>2, <2>3, <2>4, <2>5, <2>6, <2>7, <2>8, <2>9, ArchiveSteps
<1> QED  BY <1>1, <1>2, <1>3

\* So does what Postgres has, but for its ledger, which a run makes the source's.
LEMMA DestinationGrows ==
    ASSUME MemoryInv, MemoryNext
    PROVE  /\ Texts(recall["pg"]) \subseteq Texts(recall'["pg"])
           /\ ToSet(archive["pg"]) \subseteq ToSet(archive'["pg"])
           /\ usage'["pg"] \in Nat
           /\ usage["pg"] <= usage'["pg"] \/ usage'["pg"] = usage["lite"]
<1>a. /\ active \in Backends /\ "lite" \in Backends /\ "pg" \in Backends
      /\ archive \in [Backends -> Seq(Nat)]
      /\ usage \in [Backends -> Nat] /\ usage["lite"] \in Nat /\ usage["pg"] \in Nat
  BY DEF MemoryInv, MemoryTypeOK, Backends
<1>1. Texts(recall["pg"]) \subseteq Texts(recall'["pg"])
  <2>1. ASSUME NEW row, RecordsRow(row)
        PROVE  Texts(recall["pg"]) \subseteq Texts(recall'["pg"])
    BY <1>a, <2>1, RowRecorded
  <2>2. CASE CopyRows
    BY <2>2, RowsCopied
  <2> QED  BY <2>1, <2>2, RowSteps
<1>2. usage'["pg"] \in Nat /\ (usage["pg"] <= usage'["pg"] \/ usage'["pg"] = usage["lite"])
  <2>1. CASE Charge
    BY <1>a, <2>1 DEF Charge
  <2>2. CASE CopyUsage
    BY <1>a, <2>2 DEF CopyUsage
  <2> QED  BY <1>a, <2>1, <2>2, StoreWriters
<1>3. ToSet(archive["pg"]) \subseteq ToSet(archive'["pg"])
  <2>1. ASSUME NEW b \in Backends, Inserts(b)
        PROVE  ToSet(archive["pg"]) \subseteq ToSet(archive'["pg"])
    BY <1>a, <2>1, PassageInserted
  <2>2. CASE CopyPassage
    BY <2>2, PassageCopied
  <2>3. CASE Drops
    BY <1>a, <2>3 DEF Drops, Backends
  <2>4. CASE Refills
    BY <2>4, CollectionRefilled
  <2>5. CASE archive' = archive
    BY <2>5
  <2>6. CASE CheckArchive \/ ReembedReads \/ ReembedBreaksOff
    BY <2>5, <2>6 DEF CheckArchive, ReembedReads, ReembedBreaksOff, stores
  <2> QED  BY <1>a, <2>1, <2>2, <2>3, <2>4, <2>5, <2>6, ArchiveSteps
<1> QED  BY <1>1, <1>2, <1>3

LEMMA SurviveStep ==
    ASSUME MemoryInv, MemoryNext
    PROVE  PassagesSurvive'
<1>1. PassagesSurvive /\ (past.spilt => past'.spilt)
  BY PastStep DEF MemoryInv
<1>2. /\ ~past'.spilt => ToSet(archive["lite"]) \cup ToSet(re.held)
                           \subseteq ToSet(archive'["lite"]) \cup ToSet(re'.held)
      /\ put' \subseteq put \cup ToSet(archive'["lite"])
  BY SourceGrows
<1> QED  BY <1>1, <1>2 DEF PassagesSurvive

LEMMA SourceStep ==
    ASSUME MemoryInv, MemoryNext
    PROVE  SourceInv'
<1>a. /\ SourceInv
      /\ past.started \in BOOLEAN /\ past.charges \in Nat /\ usage["lite"] \in Nat
      /\ DOMAIN past = PastFields
  BY DEF MemoryInv, MemoryTypeOK, Backends, PastFields
<1>b. /\ Texts(recall["lite"]) \subseteq Texts(recall'["lite"])
      /\ usage'["lite"] \in Nat /\ usage["lite"] <= usage'["lite"]
      /\ ~past'.spilt => ToSet(archive["lite"]) \cup ToSet(re.held)
                           \subseteq ToSet(archive'["lite"]) \cup ToSet(re'.held)
  BY SourceGrows
<1>1. CASE past.started
  <2>1. /\ past'.rows = past.rows
        /\ past'.passages = past.passages /\ past'.charges = past.charges
        /\ past.spilt => past'.spilt
    BY <1>1, PastStep
  <2>2. /\ past.rows \subseteq Texts(recall["lite"])
        /\ past.charges <= usage["lite"]
        /\ ~past.spilt => past.passages \subseteq ToSet(archive["lite"]) \cup ToSet(re.held)
    BY <1>a, <1>1 DEF SourceInv
  <2> QED  BY <1>a, <1>b, <2>1, <2>2 DEF SourceInv
<1>2. CASE ~past.started /\ RunStarts
  <2>1. /\ past'.rows = Texts(recall["lite"])
        /\ past'.passages = ToSet(archive["lite"])
        /\ past'.charges = usage["lite"]
    BY <1>a, <1>2 DEF RunStarts, PastFields
  <2> QED  BY <1>a, <1>b, <2>1 DEF SourceInv
<1>3. CASE ~past'.started
  BY <1>3 DEF SourceInv
<1> QED  BY <1>1, <1>2, <1>3, PastStep

-----------------------------------------------------------------------------
(* The first run                                                           *)

\* Until the switch, only runs write to Postgres.
LEMMA OnlyRunsFill ==
    ASSUME MemoryInv, MemoryNext, active = "lite"
    PROVE  /\ recall'["pg"] = recall["pg"] \/ CopyRows
           /\ archive'["pg"] = archive["pg"] \/ CopyPassage
           /\ usage'["pg"] = usage["pg"] \/ CopyUsage
<1>a. /\ "lite" \in Backends /\ "pg" \in Backends
      /\ archive \in [Backends -> Seq(Nat)]
      /\ usage \in [Backends -> Nat]
  BY DEF MemoryInv, MemoryTypeOK, Backends
<1>1. recall'["pg"] = recall["pg"] \/ CopyRows
  <2>1. ASSUME NEW row, RecordsRow(row) PROVE recall'["pg"] = recall["pg"]
    BY <1>a, <2>1, RowRecorded
  <2> QED  BY <2>1, RowSteps
<1>2. usage'["pg"] = usage["pg"] \/ CopyUsage
  BY <1>a, StoreWriters DEF Charge
<1>3. archive'["pg"] = archive["pg"] \/ CopyPassage
  <2>1. CASE Inserts("lite")
    BY <1>a, <2>1, PassageInserted
  <2>2. CASE Drops
    BY <1>a, <2>2 DEF Drops, Backends
  <2>3. CASE Refills
    BY <2>3, CollectionRefilled
  <2>4. CASE CheckArchive \/ ReembedReads \/ ReembedBreaksOff
    BY <2>4 DEF CheckArchive, ReembedReads, ReembedBreaksOff, stores
  <2> QED  BY <1>a, <2>1, <2>2, <2>3, <2>4, ArchiveSteps
<1> QED  BY <1>1, <1>2, <1>3

\* What the first run has done, and what it has to do, at each of its stages.
FirstRun == past.started /\ ~past.finished /\ ~past.broken

Progress ==
    /\ mig.stage \in {"core", "messages"} => recall["pg"] = <<>>
    /\ mig.stage = "rows" => past.rows \subseteq Texts(recall["pg"]) \cup Texts(mig.todo)
    /\ mig.stage \in {"usage", "archive", "passages"} => past.rows \subseteq Texts(recall["pg"])
    /\ mig.stage \in {"archive", "passages"} => past.charges <= usage["pg"]
    /\ mig.stage \in {"core", "messages", "rows", "usage", "archive"} => archive["pg"] = <<>>
    /\ mig.stage = "passages" /\ ~past.spilt /\ ~past.hollow =>
          past.passages \subseteq ToSet(archive["pg"]) \cup ToSet(mig.todo)

LEMMA ProgressStep ==
    ASSUME MemoryInv, MemoryNext, FirstRun, FirstRun'
    PROVE  Progress'
<1>a. /\ Progress
      /\ active = "lite" /\ mig.stage # "idle"
      /\ mig.stage \in {"idle", "core", "messages", "rows", "usage", "archive", "passages"}
      /\ DOMAIN mig = {"stage", "todo"}
  <2>1. FirstRunInv /\ RunsInv /\ active \in {"lite", "pg"} /\ DOMAIN mig = {"stage", "todo"}
        /\ mig.stage \in {"idle", "core", "messages", "rows", "usage", "archive", "passages"}
    BY DEF MemoryInv, MemoryTypeOK, Backends, NoRun
  <2>2. active = "lite" /\ mig.stage # "idle"
    BY <2>1 DEF FirstRun, RunsInv
  <2> QED  BY <2>1, <2>2 DEF FirstRunInv, FirstRun, Progress
<1>b. /\ past'.rows = past.rows /\ past'.passages = past.passages
      /\ past'.charges = past.charges
      /\ past.spilt => past'.spilt
      /\ past.hollow => past'.hollow
  BY PastStep DEF FirstRun
<1>c. /\ recall'["pg"] = recall["pg"] \/ CopyRows
      /\ archive'["pg"] = archive["pg"] \/ CopyPassage
      /\ usage'["pg"] = usage["pg"] \/ CopyUsage
  BY <1>a, OnlyRunsFill
<1>d. /\ past.rows \subseteq Texts(recall["lite"])
      /\ past.charges <= usage["lite"]
      /\ ~past.spilt => past.passages \subseteq ToSet(archive["lite"]) \cup ToSet(re.held)
  BY DEF MemoryInv, SourceInv, FirstRun
<1>1. CASE CopyCore
  <2>1. /\ mig.stage = "core" /\ mig'.stage = "messages"
        /\ UNCHANGED <<recall, archive>>
    BY <1>1, <1>a DEF CopyCore
  <2> QED  BY <1>a, <2>1 DEF Progress
<1>2. CASE CheckMessages
  <2>1. /\ mig.stage = "messages" /\ UNCHANGED <<recall, archive>>
    BY <1>2 DEF CheckMessages, stores
  <2>2. recall["pg"] = <<>> /\ archive["pg"] = <<>>
    BY <1>a, <2>1 DEF Progress
  <2>3. mig'.stage = "rows" /\ mig'.todo = recall["lite"]
    BY <1>2, <2>2 DEF CheckMessages
  <2> QED  BY <1>b, <1>d, <2>1, <2>2, <2>3 DEF Progress
<1>3. CASE CopyRows
  <2>1. /\ Texts(recall'["pg"]) = Texts(recall["pg"]) \cup Texts(FirstBatch)
        /\ Texts(mig.todo) = Texts(FirstBatch) \cup Texts(OtherBatches)
        /\ mig'.todo = OtherBatches
        /\ mig'.stage \in {"rows", "usage"}
        /\ mig'.stage = "usage" => OtherBatches = <<>>
    BY <1>3, RowsCopied
  <2>2. mig.stage = "rows" /\ archive' = archive
    BY <1>3 DEF CopyRows
  <2>3. Texts(<<>>) = {}
    BY InNothing DEF Texts
  <2>4. past.rows \subseteq Texts(recall'["pg"]) \cup Texts(mig'.todo)
    BY <1>a, <2>1, <2>2 DEF Progress
  <2>5. archive["pg"] = <<>>
    BY <1>a, <2>2 DEF Progress
  <2>6. mig'.stage = "usage" => past.rows \subseteq Texts(recall'["pg"])
    BY <2>1, <2>3, <2>4
  <2> QED  BY <1>b, <2>1, <2>2, <2>4, <2>5, <2>6 DEF Progress
<1>4. CASE CopyUsage
  <2>1. /\ mig.stage = "usage" /\ mig'.stage = "archive" /\ UNCHANGED <<recall, archive>>
        /\ usage'["pg"] = usage["lite"]
    BY <1>4, <1>a DEF CopyUsage, MemoryInv, MemoryTypeOK, Backends
  <2> QED  BY <1>a, <1>b, <1>d, <2>1 DEF Progress
<1>5. CASE CheckArchive
  <2>1. /\ mig.stage = "archive" /\ UNCHANGED <<recall, archive, usage>>
    BY <1>5 DEF CheckArchive, stores
  <2>2. archive["pg"] = <<>>
    BY <1>a, <2>1 DEF Progress
  <2>3. mig'.stage = "passages" /\ mig'.todo = archive["lite"]
    BY <1>5, <2>2 DEF CheckArchive
  <2>4. ~past'.hollow => ToSet(re.held) \subseteq ToSet(archive["lite"])
    <3>1. re.stage = "dropped" => past'.hollow
      BY <1>5, PastStep
    <3>2. /\ re.stage = "idle" => re.held = <<>>
          /\ re.stage = "read" => re.held = archive["lite"]
          /\ re.stage \in {"idle", "read", "dropped"}
      BY DEF MemoryInv, PassagesInv, MemoryTypeOK
    <3> QED  BY <3>1, <3>2, InNothing
  <2> QED  BY <1>a, <1>b, <1>d, <2>1, <2>2, <2>3, <2>4 DEF Progress
<1>6. CASE CopyPassage
  <2>1. /\ mig.stage = "passages" /\ mig'.stage = "passages"
        /\ ToSet(mig.todo) = {Head(mig.todo)} \cup ToSet(mig'.todo)
        /\ ToSet(archive'["pg"]) = ToSet(archive["pg"]) \cup {Head(mig.todo)}
        /\ UNCHANGED <<recall, usage>>
    BY <1>6, PassageCopied
  <2>2. ~past'.spilt /\ ~past'.hollow =>
           past'.passages \subseteq ToSet(archive'["pg"]) \cup ToSet(mig'.todo)
    BY <1>a, <1>b, <2>1 DEF Progress
  <2> QED  BY <1>a, <1>b, <2>1, <2>2 DEF Progress
<1>7. CASE mig' = mig /\ ~CopyRows /\ ~CopyUsage /\ ~CopyPassage
  BY <1>7, <1>a, <1>b, <1>c DEF Progress
<1>8. CASE RunStarts \/ RunEnds \/ RunBreaksOff
  <2>1. ~RunStarts
    BY <1>a DEF RunStarts
  <2>2. RunEnds => past'.finished
    BY DEF RunEnds, MemoryInv, MemoryTypeOK
  <2>3. RunBreaksOff => past'.broken
    BY DEF RunBreaksOff, MemoryInv, MemoryTypeOK
  <2> QED  BY <1>8, <2>1, <2>2, <2>3 DEF FirstRun
<1> QED  BY <1>1, <1>2, <1>3, <1>4, <1>5, <1>6, <1>7, <1>8, ProgramWriters

LEMMA FirstRunStep ==
    ASSUME MemoryInv, MemoryNext
    PROVE  FirstRunInv'
<1>a. /\ FirstRunInv /\ RunsInv
      /\ active \in {"lite", "pg"}
  BY DEF MemoryInv, MemoryTypeOK, Backends
<1>b. /\ past.started => past'.started
      /\ past.finished => past'.finished
      /\ past.broken => past'.broken
      /\ past'.started # past.started => RunStarts
      /\ past.started \in BOOLEAN /\ past'.started \in BOOLEAN
  BY PastStep, ProgramsTypeStep DEF MemoryInv, MemoryTypeOK
<1>1. ASSUME ~past.started
      PROVE  recall'["pg"] = <<>> /\ archive'["pg"] = <<>>
  <2>1. active = "lite" /\ mig.stage = "idle"
    BY <1>a, <1>1 DEF RunsInv
  <2>2. ~CopyRows /\ ~CopyPassage
    BY <2>1 DEF CopyRows, CopyPassage
  <2> QED  BY <1>a, <1>1, <2>1, <2>2, OnlyRunsFill DEF FirstRunInv
<1>2. ASSUME FirstRun' PROVE Progress'
  <2>1. CASE FirstRun
    BY <1>2, <2>1, ProgressStep
  <2>2. CASE ~FirstRun
    <3>1. ~past.started
      BY <1>2, <1>b, <2>2 DEF FirstRun
    <3>2. RunStarts
      BY <1>2, <1>b, <3>1 DEF FirstRun
    <3>3. mig'.stage = "core"
      BY <3>2 DEF RunStarts, NoRun
    <3> QED  BY <1>1, <3>1, <3>3 DEF Progress
  <2> QED  BY <2>1, <2>2
<1>3. ~past'.started => recall'["pg"] = <<>> /\ archive'["pg"] = <<>>
  BY <1>1, <1>b
<1> QED  BY <1>2, <1>3 DEF FirstRunInv, FirstRun, Progress

LEMMA CopiesStep ==
    ASSUME MemoryInv, MemoryNext
    PROVE  RunCopiesAll'
<1>a. RunCopiesAll /\ RunsInv /\ FirstRunInv /\ SourceInv /\ past.charges \in Nat
      /\ usage["lite"] \in Nat /\ usage["pg"] \in Nat
  BY DEF MemoryInv, MemoryTypeOK, Backends
<1> SUFFICES ASSUME past'.finished, ~past'.broken, ~past'.spilt, ~past'.hollow
             PROVE  /\ past'.rows \subseteq Texts(recall'["pg"])
                    /\ past'.passages \subseteq ToSet(archive'["pg"])
                    /\ past'.charges <= usage'["pg"]
  BY DEF RunCopiesAll
<1>b. ~past.broken /\ ~past.spilt /\ ~past.hollow
  BY PastStep
<1>1. CASE past.finished
  <2>1. past.started
    BY <1>a, <1>1 DEF RunsInv
  <2>2. /\ past'.rows = past.rows /\ past'.passages = past.passages
        /\ past'.charges = past.charges
    BY <2>1, PastStep
  <2>3. /\ past.rows \subseteq Texts(recall["pg"])
        /\ past.passages \subseteq ToSet(archive["pg"])
        /\ past.charges <= usage["pg"]
        /\ past.charges <= usage["lite"]
    BY <1>a, <1>b, <1>1, <2>1 DEF RunCopiesAll, SourceInv
  <2>4. /\ Texts(recall["pg"]) \subseteq Texts(recall'["pg"])
        /\ ToSet(archive["pg"]) \subseteq ToSet(archive'["pg"])
        /\ usage'["pg"] \in Nat
        /\ usage["pg"] <= usage'["pg"] \/ usage'["pg"] = usage["lite"]
    BY DestinationGrows
  <2>5. past.charges <= usage'["pg"]
    BY <1>a, <2>3, <2>4
  <2> QED  BY <2>2, <2>3, <2>4, <2>5
<1>2. CASE ~past.finished
  <2>1. RunEnds
    BY <1>2, PastStep
  <2>2. /\ mig.stage = "passages" /\ mig.todo = <<>> /\ UNCHANGED <<recall, archive, usage>>
    BY <2>1 DEF RunEnds, stores
  <2>3. past.started
    BY <1>a, <2>2 DEF RunsInv
  <2>4. /\ past'.rows = past.rows /\ past'.passages = past.passages
        /\ past'.charges = past.charges
    BY <2>3, PastStep
  <2>5. /\ past.rows \subseteq Texts(recall["pg"])
        /\ past.charges <= usage["pg"]
        /\ past.passages \subseteq ToSet(archive["pg"]) \cup ToSet(mig.todo)
    BY <1>a, <1>b, <1>2, <2>2, <2>3 DEF FirstRunInv
  <2> QED  BY <2>2, <2>4, <2>5, InNothing
<1> QED  BY <1>1, <1>2

-----------------------------------------------------------------------------
(* What the records name                                                   *)

\* The vectors of a collection never get the old width back.
LEMMA WidthStep ==
    ASSUME MemoryInv, MemoryNext
    PROVE  width' = "old" => width = "old" /\ ~Inserts("lite") /\ ~Drops /\ ~Refills
                               /\ archive'["lite"] = archive["lite"]
<1>a. active \in Backends /\ "lite" \in Backends
  BY DEF MemoryInv, MemoryTypeOK, Backends
<1>1. ASSUME NEW b \in Backends, Inserts(b)
      PROVE  width' = "old" => width = "old" /\ b # "lite" /\ archive'["lite"] = archive["lite"]
  BY <1>a, <1>1, PassageInserted
<1>2. Drops \/ Refills => width' # "old"
  BY DEF Drops, Refills
<1>3. Inserts("lite") => width' # "old"
  BY <1>a, <1>1
<1>4. CopyPassage => width' = width /\ archive'["lite"] = archive["lite"]
  BY PassageCopied
<1>5. CheckArchive \/ ReembedReads \/ ReembedBreaksOff => UNCHANGED <<width, archive>>
  BY DEF CheckArchive, ReembedReads, ReembedBreaksOff, stores
<1>6. width' = "old" => width = "old" /\ archive'["lite"] = archive["lite"]
  BY <1>a, <1>1, <1>2, <1>4, <1>5, ArchiveSteps
<1> QED  BY <1>2, <1>3, <1>6

\* A pass that has inserted its passage, and is going to record it.
LEMMA PassStep ==
    ASSUME MemoryInv, MemoryNext, job'.stage = "record"
    PROVE  \/ job' = job /\ active' = active
           \/ /\ job.stage = "insert" /\ job'.passage = Fresh
              /\ Inserts(active)
<1>a. job \in [stage : {"idle", "asking", "insert", "record"}, passage : 0..made]
  BY DEF MemoryInv, MemoryTypeOK
<1>1. CASE JobNext /\ UNCHANGED <<tools, migrations>>
  <2>1. CASE PassInserts
    <3>1. /\ job.stage = "insert" /\ job'.passage = Fresh
          /\ AddPassage(active, Fresh) /\ made' = made + 1 /\ UNCHANGED <<recall, active>>
      BY <1>a, <2>1 DEF PassInserts
    <3> QED  BY <1>1, <3>1 DEF Inserts
  <2>2. CASE PassStarts
    <3>1. job' = job \/ job' = [NoPass EXCEPT !.stage = "asking"]
      BY <2>2 DEF PassStarts, jobs
    <3>2. job' = job /\ active' = active
      BY <2>2, <3>1 DEF NoPass, PassStarts
    <3> QED  BY <3>2
  <2>3. CASE PassStops \/ PassAnswered \/ PassRecords
    BY <1>a, <2>3 DEF PassStops, PassAnswered, PassRecords, NoPass
  <2> QED  BY <1>1, <2>1, <2>2, <2>3 DEF JobNext
<1>2. CASE ToolsNext /\ UNCHANGED <<jobs, migrations>>
  <2>1. active' = active
    BY <1>2, StoreWriters DEF Switch, MaySwitch, ToolsNext, AppendReads, ReplaceReads, Reads,
       ToolWrites, TurnRecords, ArchivalInsert, Charge, WalkBegins, PageCounts, PageSelects,
       stores
  <2> QED  BY <1>2, <2>1 DEF jobs
<1>3. CASE MigrationNext /\ UNCHANGED <<tools, jobs>>
  <2>1. active' = active
    BY <1>3 DEF MigrationNext, RunStarts, CopyCore, CheckMessages, CopyRows, CopyUsage,
       CheckArchive, CopyPassage, RunEnds, RunBreaksOff, ReembedReads, Drops, Refills,
       ReembedBreaksOff, stores
  <2> QED  BY <1>3, <2>1 DEF jobs
<1>4. CASE Switch
  BY <1>4 DEF Switch, JobRestart, NoPass
<1> QED  BY <1>1, <1>2, <1>3, <1>4 DEF MemoryNext

\* What names there are more of after a step.
LEMMA NamesGrow ==
    ASSUME MemoryInv, MemoryNext
    PROVE  /\ \A b \in Backends : b # active => (Named(recall'[b]) = Named(recall[b]) \/ CopyRows)
           /\ \/ Named(recall'[active]) = Named(recall[active])
              \/ /\ job.stage = "record"
                 /\ Named(recall'[active]) = Named(recall[active]) \cup {job.passage}
                 /\ UNCHANGED <<archive, width, active, mig, re, past>>
              \/ CopyRows
<1>1. ASSUME NEW row, RecordsRow(row)
      PROVE  /\ \A b \in Backends : b # active => recall'[b] = recall[b]
             /\ \/ Named(recall'[active]) = Named(recall[active])
                \/ /\ job.stage = "record"
                   /\ Named(recall'[active]) = Named(recall[active]) \cup {job.passage}
                   /\ UNCHANGED <<archive, width, active, mig, re, past>>
  <2>1. /\ \A b \in Backends : b # active => recall'[b] = recall[b]
        /\ row.kind # "record" => Named(recall'[active]) = Named(recall[active])
        /\ row.kind = "record" =>
              Named(recall'[active]) = Named(recall[active]) \cup {row.n}
    BY <1>1, RowRecorded
  <2>2. /\ row.kind = "record" => job.stage = "record" /\ row.n = job.passage
        /\ UNCHANGED <<archive, width, active, mig, re, past>>
    BY <1>1 DEF RecordsRow, migrations
  <2> QED  BY <2>1, <2>2
<1>2. CASE UNCHANGED recall
  BY <1>2
<1> QED  BY <1>1, <1>2, RowSteps

LEMMA NamesStep ==
    ASSUME MemoryInv, MemoryNext
    PROVE  NamesInv'
<1>a. /\ NamesInv /\ RunsInv /\ FirstRunInv /\ PassagesInv
      /\ active \in {"lite", "pg"} /\ Backends = {"lite", "pg"}
      /\ mig.stage \in {"idle", "core", "messages", "rows", "usage", "archive", "passages"}
      /\ DOMAIN mig = {"stage", "todo"}
      /\ width \in IF archive["lite"] = <<>> THEN {"none"} ELSE {"old", "new"}
      /\ archive \in [Backends -> Seq(Nat)]
  BY DEF MemoryInv, MemoryTypeOK, Backends, NoRun
<1>b. ToSet(archive["pg"]) \subseteq ToSet(archive'["pg"])
  BY DestinationGrows
<1>c. ToSet(archive["lite"]) \subseteq ToSet(archive'["lite"]) \/ Drops
  <2>1. ASSUME NEW b \in Backends, Inserts(b)
        PROVE  ToSet(archive["lite"]) \subseteq ToSet(archive'["lite"])
    BY <1>a, <2>1, PassageInserted
  <2>2. CASE CopyPassage
    BY <2>2, PassageCopied
  <2>3. CASE Refills
    BY <2>3, CollectionRefilled
  <2>4. CASE CheckArchive \/ ReembedReads \/ ReembedBreaksOff
    BY <2>4 DEF CheckArchive, ReembedReads, ReembedBreaksOff, stores
  <2> QED  BY <1>a, <2>1, <2>2, <2>3, <2>4, ArchiveSteps
<1>d. CopyRows => mig.stage = "rows" /\ recall'["lite"] = recall["lite"]
  BY RowsCopied DEF CopyRows
<1>e. Drops => width = "old" /\ UNCHANGED <<recall, job, mig, past, active>>
  <2>1. Drops => width = "old" /\ UNCHANGED <<recall, mig, past, active>>
    BY <1>a DEF Drops, PassagesInv
  <2>2. Drops => job' = job
    <3>1. re \in [stage : {"idle", "read", "dropped"}, held : Seq(Nat)]
      BY DEF MemoryInv, MemoryTypeOK
    <3>2. Drops => re'.stage # re.stage
      BY <3>1 DEF Drops
    <3>3. re'.stage # re.stage => UNCHANGED jobs
      BY DEF MemoryNext, migrations, Switch
    <3> QED  BY <3>2, <3>3 DEF jobs
  <2> QED  BY <2>1, <2>2
<1>f. /\ \A b \in Backends : b # active => (Named(recall'[b]) = Named(recall[b]) \/ CopyRows)
      /\ \/ Named(recall'[active]) = Named(recall[active])
         \/ /\ job.stage = "record"
            /\ Named(recall'[active]) = Named(recall[active]) \cup {job.passage}
            /\ UNCHANGED <<archive, width, active, mig, re, past>>
         \/ CopyRows
  BY NamesGrow
<1>g. /\ Named(recall["lite"]) \subseteq ToSet(archive["lite"])
      /\ job.stage = "record" => job.passage \in ToSet(archive[active])
      /\ width = "old" => Named(recall["lite"]) = {} /\ ~(job.stage = "record" /\ active = "lite")
  BY <1>a DEF NamesInv
<1>h. Named(recall["lite"]) \subseteq Named(recall'["lite"])
  BY <1>a, <1>d, <1>f
<1>1. Named(recall'["lite"]) \subseteq ToSet(archive'["lite"])
  <2>1. CASE Drops
    BY <1>e, <1>g, <2>1
  <2>2. CASE ToSet(archive["lite"]) \subseteq ToSet(archive'["lite"])
    <3>1. CASE CopyRows \/ active # "lite"
      BY <1>a, <1>d, <1>f, <1>g, <2>2, <3>1
    <3>2. CASE ~CopyRows /\ active = "lite"
      BY <1>f, <1>g, <2>2, <3>2
    <3> QED  BY <3>1, <3>2
  <2> QED  BY <1>c, <2>1, <2>2
<1>2. job'.stage = "record" => job'.passage \in ToSet(archive'[active'])
  <2>1. ASSUME job'.stage = "record", job' = job, active' = active
        PROVE  job'.passage \in ToSet(archive'[active'])
    <3>1. job.stage = "record" /\ job.passage \in ToSet(archive[active])
      BY <1>g, <2>1
    <3>2. ToSet(archive[active]) \subseteq ToSet(archive'[active])
      BY <1>a, <1>b, <1>c, <1>e, <1>g, <3>1
    <3> QED  BY <2>1, <3>1, <3>2
  <2>2. ASSUME job'.passage = Fresh, Inserts(active)
        PROVE  job'.passage \in ToSet(archive'[active'])
    <3>1. ToSet(archive'[active]) = ToSet(archive[active]) \cup {Fresh} /\ active' = active
      BY <1>a, <2>2, PassageInserted
    <3> QED  BY <2>2, <3>1
  <2> QED  BY <2>1, <2>2, PassStep
<1>3. width' = "old" => Named(recall'["lite"]) = {} /\ ~(job'.stage = "record" /\ active' = "lite")
  <2> SUFFICES ASSUME width' = "old"
               PROVE  Named(recall'["lite"]) = {} /\ ~(job'.stage = "record" /\ active' = "lite")
    OBVIOUS
  <2>1. width = "old" /\ ~Inserts("lite")
    BY WidthStep
  <2>2. Named(recall'["lite"]) = {}
    BY <1>a, <1>d, <1>f, <1>g, <2>1
  <2>3. ASSUME job'.stage = "record", active' = "lite" PROVE FALSE
    <3>1. CASE job' = job /\ active' = active
      BY <1>g, <2>1, <2>3, <3>1
    <3>2. CASE Inserts(active)
      <4>1. active' = active
        BY <3>2 DEF Inserts
      <4> QED  BY <2>1, <2>3, <3>2, <4>1
    <3> QED  BY <2>3, <3>1, <3>2, PassStep
  <2> QED  BY <2>2, <2>3
<1>4. ~past'.again =>
         /\ mig'.stage \in {"core", "messages", "rows", "usage", "archive"} =>
               Named(recall'["pg"]) \subseteq Named(recall'["lite"])
         /\ mig'.stage = "passages" =>
               Named(recall'["pg"]) \subseteq ToSet(archive'["pg"]) \cup ToSet(mig'.todo)
         /\ mig'.stage = "idle" /\ past'.finished =>
               Named(recall'["pg"]) \subseteq ToSet(archive'["pg"])
  <2> SUFFICES ASSUME ~past'.again
               PROVE  /\ mig'.stage \in {"core", "messages", "rows", "usage", "archive"} =>
                            Named(recall'["pg"]) \subseteq Named(recall'["lite"])
                      /\ mig'.stage = "passages" =>
                            Named(recall'["pg"])
                              \subseteq ToSet(archive'["pg"]) \cup ToSet(mig'.todo)
                      /\ mig'.stage = "idle" /\ past'.finished =>
                            Named(recall'["pg"]) \subseteq ToSet(archive'["pg"])
    OBVIOUS
  <2>a. ~past.again
    BY PastStep
  <2>b. mig.stage # "idle" =>
           ~past.finished /\ ~past.broken /\ past.started /\ active = "lite"
    BY <1>a, <2>a DEF RunsInv
  <2>c. /\ mig.stage \in {"core", "messages", "rows", "usage", "archive"} =>
               Named(recall["pg"]) \subseteq Named(recall["lite"])
        /\ mig.stage = "passages" =>
               Named(recall["pg"]) \subseteq ToSet(archive["pg"]) \cup ToSet(mig.todo)
        /\ mig.stage = "idle" /\ past.finished => Named(recall["pg"]) \subseteq ToSet(archive["pg"])
    BY <1>a, <2>a DEF NamesInv
  <2>1. CASE RunStarts
    <3>1. mig'.stage = "core" /\ recall' = recall /\ past'.again = past.started
      BY <2>1 DEF RunStarts, NoRun, MemoryInv, MemoryTypeOK
    <3>2. recall["pg"] = <<>>
      BY <1>a, <3>1 DEF FirstRunInv
    <3>3. Named(recall["pg"]) = {}
      BY <3>2, InNothing DEF Named
    <3> QED  BY <3>1, <3>3
  <2>2. CASE CopyCore
    <3>1. mig.stage = "core" /\ mig'.stage = "messages" /\ recall' = recall
      BY <1>a, <2>2 DEF CopyCore
    <3> QED  BY <2>c, <3>1
  <2>3. CASE CheckMessages
    <3>1. mig.stage = "messages" /\ recall' = recall
      BY <2>3 DEF CheckMessages, stores
    <3>2. mig'.stage \in {"rows", "usage"}
      BY <1>a, <2>3 DEF CheckMessages
    <3> QED  BY <2>c, <3>1, <3>2
  <2>4. CASE CopyRows
    <3>1. /\ mig.stage = "rows" /\ recall'["lite"] = recall["lite"]
          /\ Named(recall'["pg"]) = Named(recall["pg"]) \cup Named(FirstBatch)
          /\ ToSet(FirstBatch) \subseteq ToSet(recall["lite"])
          /\ mig'.stage \in {"rows", "usage"}
      BY <1>d, <2>4, RowsCopied
    <3>2. Named(FirstBatch) \subseteq Named(recall["lite"])
      BY <3>1 DEF Named
    <3> QED  BY <2>c, <3>1, <3>2
  <2>5. CASE CopyUsage
    <3>1. mig.stage = "usage" /\ mig'.stage = "archive" /\ recall' = recall
      BY <1>a, <2>5 DEF CopyUsage
    <3> QED  BY <2>c, <3>1
  <2>6. CASE CheckArchive
    <3>1. mig.stage = "archive" /\ UNCHANGED <<recall, archive>>
      BY <2>6 DEF CheckArchive, stores
    <3>2. archive["pg"] = <<>>
      BY <1>a, <2>b, <3>1 DEF FirstRunInv
    <3>3. mig'.stage = "passages" /\ mig'.todo = archive["lite"]
      BY <2>6, <3>2 DEF CheckArchive
    <3> QED  BY <1>g, <2>c, <3>1, <3>3
  <2>7. CASE CopyPassage
    <3>1. /\ mig.stage = "passages" /\ mig'.stage = "passages"
          /\ ToSet(mig.todo) = {Head(mig.todo)} \cup ToSet(mig'.todo)
          /\ ToSet(archive'["pg"]) = ToSet(archive["pg"]) \cup {Head(mig.todo)}
          /\ recall' = recall
      BY <2>7, PassageCopied
    <3> QED  BY <2>c, <3>1
  <2>8. CASE RunEnds
    <3>1. /\ mig.stage = "passages" /\ mig.todo = <<>> /\ mig'.stage = "idle"
          /\ UNCHANGED <<recall, archive>>
      BY <2>8 DEF RunEnds, NoRun, stores
    <3> QED  BY <2>c, <3>1, InNothing
  <2>9. CASE RunBreaksOff
    <3>1. mig.stage # "idle" /\ mig'.stage = "idle" /\ past'.finished = past.finished
      BY <2>9 DEF RunBreaksOff, NoRun, MemoryInv, MemoryTypeOK
    <3> QED  BY <2>b, <3>1
  <2>10. CASE mig' = mig /\ ~CopyRows /\ ~RunEnds
    <3>1. past'.finished = past.finished
      BY <2>10, PastStep
    <3>2. CASE active = "lite"
      BY <1>a, <1>b, <1>f, <1>h, <2>c, <2>10, <3>1, <3>2
    <3>3. CASE active = "pg"
      <4>1. mig.stage = "idle"
        BY <2>b, <3>3
      <4>2. \/ Named(recall'["pg"]) = Named(recall["pg"])
            \/ Named(recall'["pg"]) = Named(recall["pg"]) \cup {job.passage}
                  /\ job.passage \in ToSet(archive["pg"])
        BY <1>f, <1>g, <2>10, <3>3
      <4> QED  BY <1>b, <2>c, <2>10, <3>1, <4>1, <4>2
    <3> QED  BY <1>a, <3>2, <3>3
  <2> QED  BY <2>1, <2>2, <2>3, <2>4, <2>5, <2>6, <2>7, <2>8, <2>9, <2>10, ProgramWriters
<1> QED  BY <1>1, <1>2, <1>3, <1>4 DEF NamesInv

-----------------------------------------------------------------------------
(* Writers that take turns                                                 *)

\* Home of a client, and so who writes to a block, changes at the switch only.
LEMMA TurnsStep ==
    ASSUME MemoryInv, MemoryNext
    PROVE  TurnsInv'
<1>a. /\ TurnsInv /\ RunsInv /\ BlocksInv
      /\ core \in [Backends -> Blocks \cup {NoBlock}]
      /\ client \in [Clients -> [stage : {"idle", "write"}, block : Blocks,
                                 adds : SUBSET (1..made), drops : SUBSET (0..made)]]
      /\ active \in Backends /\ Backends = {"lite", "pg"}
      /\ made \in Nat
      /\ DOMAIN kept = Backends
  BY DEF MemoryInv, MemoryTypeOK, Backends
<1>b. past.late => past'.late
  BY PastStep
<1> SUFFICES ASSUME ~overlap', ~past'.late
             PROVE  /\ Lines(active)' = kept'[active']
                    /\ \A c, d \in Writing(active)' : c = d
                    /\ \A c \in Writing(active)' :
                          ToSet(client'[c].block)
                            = (Lines(active)' \ client'[c].drops) \cup client'[c].adds
  BY DEF TurnsInv
<1>c. ~past.late
  BY <1>b
<1>1. CASE Switch
  <2>1. /\ active' = "pg" /\ core' = core
        /\ client' = [c \in Clients |-> IF c \in ServerClients THEN client[c] ELSE Idle]
        /\ kept' = [kept EXCEPT !["pg"] = Lines("pg")]
    BY <1>1 DEF Switch, ToolsRestart
  <2>2. Lines(active)' = kept'[active']
    BY <1>a, <2>1 DEF Lines
  <2>3. Writing(active)' = {}
    <3> SUFFICES ASSUME NEW c \in Clients, client'[c].stage = "write", Home(c)' = active'
                 PROVE  FALSE
      BY DEF Writing
    <3>1. c \in ServerClients
      BY <2>1 DEF Idle
    <3> QED  BY <2>1, <3>1 DEF Home
  <2> QED  BY <2>2, <2>3
<1>2. ASSUME active' = active, core'[active] = core[active], UNCHANGED <<client, kept, overlap>>
      PROVE  /\ Lines(active)' = kept'[active']
             /\ \A c, d \in Writing(active)' : c = d
             /\ \A c \in Writing(active)' :
                   ToSet(client'[c].block)
                     = (Lines(active)' \ client'[c].drops) \cup client'[c].adds
  <2>1. Lines(active)' = Lines(active) /\ Writing(active)' = Writing(active)
    BY <1>2 DEF Lines, Writing, Home
  <2> QED  BY <1>a, <1>c, <1>2, <2>1 DEF TurnsInv
<1>3. ASSUME NEW c \in Clients, Reading(c)
      PROVE  /\ Lines(active)' = kept'[active']
             /\ \A a, d \in Writing(active)' : a = d
             /\ \A d \in Writing(active)' :
                   ToSet(client'[d].block)
                     = (Lines(active)' \ client'[d].drops) \cup client'[d].adds
  <2>1. PICK block, adds, drops : ReadsBlock(c, block, adds, drops)
    BY <1>a, <1>3, ReadingEffect
  <2>2. /\ client[c].stage = "idle"
        /\ UNCHANGED <<core, active, kept>>
        /\ ToSet(block) = (Lines(Home(c)) \ drops) \cup adds
    BY <2>1 DEF ReadsBlock, Reads
  <2>3. CASE UNCHANGED <<client, overlap>>
    BY <1>2, <2>2, <2>3
  <2>4. CASE /\ client' = [client EXCEPT ![c] = [stage |-> "write", block |-> block,
                                                 adds |-> adds, drops |-> drops]]
             /\ overlap' = (overlap \/ Writing(Home(c)) # {})
    <3>1. ~overlap /\ Writing(Home(c)) = {}
      BY <2>4
    <3>2. Lines(active)' = Lines(active) /\ \A d \in Clients : Home(d)' = Home(d)
      BY <2>2 DEF Lines, Home
    <3>3. \A d \in Clients : d # c => client'[d] = client[d]
      BY <1>a, <2>4
    <3>4. /\ client'[c].stage = "write" /\ client'[c].block = block
          /\ client'[c].adds = adds /\ client'[c].drops = drops
      BY <1>a, <2>4
    <3>5. Lines(active) = kept[active]
      BY <1>a, <1>c, <3>1 DEF TurnsInv
    <3>6. CASE Home(c) = active
      <4>1. Writing(active)' \subseteq {c}
        BY <2>2, <3>1, <3>2, <3>3, <3>6 DEF Writing
      <4> QED  BY <2>2, <3>2, <3>4, <3>5, <3>6, <4>1
    <3>7. CASE Home(c) # active
      <4>1. Writing(active)' = Writing(active) /\ c \notin Writing(active)
        BY <2>2, <3>2, <3>3, <3>7 DEF Writing
      <4>2. \A d \in Writing(active) : d \in Clients /\ client'[d] = client[d]
        BY <3>3, <4>1 DEF Writing
      <4> QED  BY <1>a, <1>c, <2>2, <3>1, <3>2, <3>5, <4>1, <4>2 DEF TurnsInv
    <3> QED  BY <3>6, <3>7
  <2> QED  BY <2>1, <2>3, <2>4 DEF ReadsBlock, Reads
<1>4. ASSUME NEW c \in Clients, ToolWrites(c)
      PROVE  /\ Lines(active)' = kept'[active']
             /\ \A a, d \in Writing(active)' : a = d
             /\ \A d \in Writing(active)' :
                   ToSet(client'[d].block)
                     = (Lines(active)' \ client'[d].drops) \cup client'[d].adds
  <2>1. /\ client[c].stage = "write"
        /\ core' = [core EXCEPT ![Home(c)] = client[c].block]
        /\ kept' = [kept EXCEPT ![Home(c)] = (kept[Home(c)] \ client[c].drops)
                                               \cup client[c].adds]
        /\ client' = [client EXCEPT ![c] = Idle]
        /\ UNCHANGED <<active, overlap>>
    BY <1>4 DEF ToolWrites, SetBlock
  <2>2. \A d \in Clients : Home(d)' = Home(d)
    BY <2>1 DEF Home
  <2>3. \A d \in Clients : d # c => client'[d] = client[d]
    BY <1>a, <2>1
  <2>4. client'[c].stage = "idle"
    BY <1>a, <2>1 DEF Idle
  <2>5. /\ ~overlap
        /\ Lines(active) = kept[active]
        /\ \A a, d \in Writing(active) : a = d
        /\ \A d \in Writing(active) :
              ToSet(client[d].block) = (Lines(active) \ client[d].drops) \cup client[d].adds
    BY <1>a, <1>c, <2>1 DEF TurnsInv
  <2>6. Writing(active)' \subseteq Writing(active) \ {c}
    BY <2>1, <2>2, <2>3, <2>4 DEF Writing
  <2>7. CASE Home(c) = active
    <3>1. c \in Writing(active)
      BY <2>1, <2>7 DEF Writing
    <3>2. Writing(active)' = {}
      BY <2>5, <2>6, <3>1
    <3>3. /\ core'[active] = client[c].block
          /\ kept'[active] = (kept[active] \ client[c].drops) \cup client[c].adds
      BY <1>a, <2>1, <2>7
    <3>4. Lines(active)' = ToSet(client[c].block)
      BY <2>1, <3>3 DEF Lines
    <3> QED  BY <2>1, <2>5, <3>1, <3>2, <3>3, <3>4
  <2>8. CASE Home(c) # active
    <3>1. core'[active] = core[active] /\ kept'[active] = kept[active]
      BY <1>a, <2>1, <2>8
    <3>2. Lines(active)' = Lines(active)
      BY <2>1, <3>1 DEF Lines
    <3>3. \A d \in Writing(active)' : client'[d] = client[d]
      BY <2>3, <2>6 DEF Writing
    <3> QED  BY <2>1, <2>5, <2>6, <3>1, <3>2, <3>3
  <2> QED  BY <2>7, <2>8
<1>5. ASSUME RunStarts \/ CopyCore, UNCHANGED <<active, client, kept, overlap>>
      PROVE  core'[active] = core[active]
  <2>1. active = "lite"
    <3>1. RunStarts /\ active = "pg" => past'.late
      BY DEF RunStarts, MemoryInv, MemoryTypeOK
    <3>2. CopyCore /\ active = "pg" => past.late
      BY <1>a DEF CopyCore, RunsInv
    <3> QED  BY <1>a, <1>c, <1>5, <3>1, <3>2
  <2> QED  BY <1>a, <1>5, <2>1 DEF RunStarts, Seeded, CopyCore, SetBlock
<1>6. CASE ~Switch /\ ~\E c \in Clients : Reading(c) \/ ToolWrites(c)
  <2>1. UNCHANGED <<active, client, kept, overlap>>
    BY <1>6, StoreWriters, ProgramWriters
  <2>2. core' = core \/ RunStarts \/ CopyCore
    BY <1>6, StoreWriters
  <2> QED  BY <1>2, <1>5, <2>1, <2>2
<1> QED  BY <1>1, <1>3, <1>4, <1>6

-----------------------------------------------------------------------------
(* The walk                                                                *)

(* Of a finite log each row has a place of its own, counted from the       *)
(* newest, and every place has a row.                                      *)
LEMMA NewerCounts ==
    ASSUME NEW ids \in SUBSET Nat, IsFiniteSet(ids)
    PROVE  /\ Cardinality(ids) \in Nat
           /\ \A id \in ids : Cardinality(Newer(ids, id)) \in 0..Cardinality(ids) - 1
           /\ \A id, other \in ids :
                 Cardinality(Newer(ids, id)) = Cardinality(Newer(ids, other)) => id = other
           /\ \A place \in 0..Cardinality(ids) - 1 :
                 \E id \in ids : Cardinality(Newer(ids, id)) = place
<1> DEFINE count == Cardinality(ids)
           places == 0..count - 1
           Place(id) == Cardinality(Newer(ids, id))
           f == [id \in ids |-> Place(id)]
<1>1. count \in Nat
  BY FS_CardinalityType
<1>2. ASSUME NEW id \in ids
      PROVE  IsFiniteSet(Newer(ids, id)) /\ Place(id) \in places
  <2>1. Newer(ids, id) \in SUBSET ids /\ id \notin Newer(ids, id)
    BY DEF Newer
  <2>2. /\ IsFiniteSet(Newer(ids, id)) /\ Place(id) <= count
        /\ Place(id) = count => Newer(ids, id) = ids
    BY <2>1, FS_Subset
  <2>3. Place(id) \in Nat /\ Place(id) # count
    BY <2>1, <2>2, FS_CardinalityType
  <2> QED  BY <1>1, <2>2, <2>3
<1>3. ASSUME NEW id \in ids, NEW other \in ids, id < other
      PROVE  Place(id) # Place(other)
  <2>1. Newer(ids, other) \in SUBSET Newer(ids, id)
    <3>1. \A row \in ids : row > other => row > id
      BY <1>3
    <3> QED  BY <3>1 DEF Newer
  <2>2. other \in Newer(ids, id) /\ other \notin Newer(ids, other)
    <3>1. other > id /\ ~(other > other)
      BY <1>3
    <3> QED  BY <3>1 DEF Newer
  <2>3. Place(id) = Place(other) => Newer(ids, other) = Newer(ids, id)
    BY <1>2, <2>1, FS_Subset
  <2> QED  BY <2>2, <2>3
<1>4. \A id, other \in ids : Place(id) = Place(other) => id = other
  <2> SUFFICES ASSUME NEW id \in ids, NEW other \in ids, Place(id) = Place(other)
               PROVE  id = other
    OBVIOUS
  <2>1. id \in Nat /\ other \in Nat
    OBVIOUS
  <2>2. id = other \/ id < other \/ other < id
    BY <2>1
  <2> QED  BY <1>3, <2>2
<1>5. f \in Injection(ids, places)
  BY <1>2, <1>4 DEF Injection, IsInjective
<1>6. IsFiniteSet(places) /\ Cardinality(places) = count
  <2>1. 0 \in Int /\ count - 1 \in Int
    BY <1>1
  <2>2. Cardinality(places) = IF 0 > count - 1 THEN 0 ELSE count - 1 - 0 + 1
    BY <2>1, FS_Interval
  <2>3. IsFiniteSet(places)
    BY <2>1, FS_Interval
  <2> HIDE DEF count, places
  <2> QED  BY <1>1, <2>2, <2>3
<1>7. f \in Surjection(ids, places)
  BY <1>5, <1>6, FS_Injection
<1>8. \A place \in places : \E id \in ids : Place(id) = place
  BY <1>7 DEF Surjection
<1> QED  BY <1>1, <1>2, <1>4, <1>8

(* A place moves back as rows come.                                        *)
LEMMA NewerGrows ==
    ASSUME NEW more, IsFiniteSet(more), NEW ids \in SUBSET more, NEW id
    PROVE  /\ Cardinality(Newer(ids, id)) \in Nat
           /\ Cardinality(Newer(more, id)) \in Nat
           /\ Cardinality(Newer(ids, id)) <= Cardinality(Newer(more, id))
<1>1. Newer(more, id) \in SUBSET more /\ Newer(ids, id) \in SUBSET Newer(more, id)
  BY DEF Newer
<1>2. IsFiniteSet(Newer(more, id)) /\ IsFiniteSet(Newer(ids, id))
  BY <1>1, FS_Subset
<1> QED  BY <1>1, <1>2, FS_Subset, FS_CardinalityType

(* A page that an older row comes after is full, and not the last.         *)
LEMMA PageBefore ==
    ASSUME NEW ids \in SUBSET Nat, IsFiniteSet(ids), NEW page \in Nat, NEW size \in Nat \ {0},
           NEW id \in ids, Cardinality(Newer(ids, id)) >= page * size
    PROVE  /\ Page(ids, page, size) # {}
           /\ Cardinality(Newer(ids, id)) >= page * size + size =>
                 page * size + Cardinality(Page(ids, page, size)) < Cardinality(ids)
<1> DEFINE count == Cardinality(ids)
           start == page * size
           Place(other) == Cardinality(Newer(ids, other))
           places == start..start + size - 1
           rows == Page(ids, page, size)
<1>1. start \in Nat /\ start + size - 1 \in Nat /\ start <= start + size - 1
  OBVIOUS
<1>2. rows = {other \in ids : Place(other) \in places}
  BY DEF Page
<1>3. /\ count \in Nat
      /\ \A other \in ids : Place(other) \in 0..count - 1
      /\ \A one, other \in ids : Place(one) = Place(other) => one = other
      /\ \A place \in 0..count - 1 : \E other \in ids : Place(other) = place
  BY NewerCounts
<1>4. Place(id) \in 0..count - 1 /\ Place(id) >= start
  BY <1>3
<1> HIDE DEF count, start, Place, rows
<1>5. rows # {}
  <2>1. start \in 0..count - 1 /\ start \in places
    BY <1>1, <1>3, <1>4
  <2> QED  BY <1>2, <1>3, <2>1
<1>6. ASSUME Place(id) >= start + size
      PROVE  start + Cardinality(rows) < count
  <2> DEFINE f == [other \in rows |-> Place(other)]
  <2>1. places \subseteq 0..count - 1
    BY <1>1, <1>3, <1>4, <1>6
  <2>2. \A place \in places : \E other \in rows : f[other] = place
    BY <1>2, <1>3, <2>1
  <2>3. f \in [rows -> places] /\ \A one, other \in rows : f[one] = f[other] => one = other
    BY <1>2, <1>3
  <2>4. f \in Injection(rows, places)
    BY <2>3 DEF Injection, IsInjective
  <2>5. f \in Surjection(rows, places)
    BY <2>2, <2>3 DEF Surjection
  <2>6. IsFiniteSet(places) /\ Cardinality(places) = size
    <3>1. start \in Int /\ start + size - 1 \in Int
      BY <1>1
    <3>2. /\ IsFiniteSet(places)
          /\ Cardinality(places) = IF start > start + size - 1 THEN 0
                                   ELSE (start + size - 1) - start + 1
      BY <3>1, FS_Interval
    <3> HIDE DEF places
    <3> QED  BY <1>1, <3>2
  <2> HIDE DEF f
  <2>7. Cardinality(rows) = Cardinality(places)
    BY <2>4, <2>5, <2>6, FS_Injection
  <2> HIDE DEF places
  <2> QED  BY <1>1, <1>3, <1>4, <1>6, <2>6, <2>7
<1> QED  BY <1>5, <1>6 DEF count, start, Place, rows

(* A walk under way has shown, of what it wanted, all that its pages have  *)
(* passed, counted from the newest row.                                    *)
WalkInv ==
    /\ WalkSeesAll
    /\ walk.stage \in {"count", "select"} =>
          /\ walk.at \in Backends
          /\ walk.page \in Nat
          /\ ~walk.cut
          /\ walk.wanted \subseteq TextsAt(walk.at, Messages(walk.at))
          /\ ~walk.raced =>
                \A id \in Messages(walk.at) :
                    /\ recall[walk.at][id].n \in walk.wanted
                    /\ Cardinality(Newer(Messages(walk.at), id)) < walk.page * PageSize
                    => recall[walk.at][id].n \in walk.shown

(* Rows come after the others of a log, and are new to it.                 *)
LogGrows(b) ==
    /\ Len(recall[b]) <= Len(recall'[b])
    /\ \A id \in 1..Len(recall[b]) : recall'[b][id] = recall[b][id]
    /\ \A id \in 1..Len(recall'[b]) :
          id > Len(recall[b]) => recall'[b][id].n \notin Texts(recall[b])

LEMMA LogsGrow ==
    ASSUME MemoryInv, MemoryNext
    PROVE  \A b \in Backends : LogGrows(b)
<1> SUFFICES ASSUME NEW b \in Backends
             PROVE  LogGrows(b)
  OBVIOUS
<1>a. /\ recall \in [Backends -> Seq(Rows)]
      /\ recall' \in [Backends -> Seq(Rows)]
      /\ active \in Backends /\ "pg" \in Backends
      /\ recall[b] \in Seq(Rows) /\ recall["pg"] \in Seq(Rows) /\ recall[active] \in Seq(Rows)
  <2>1. recall \in [Backends -> RowSeqs] /\ recall' \in [Backends -> RowSeqs]
        /\ active \in Backends
    BY StoresTypeStep DEF MemoryInv, MemoryTypeOK
  <2> QED  BY <2>1 DEF RowSeqs, Rows, Backends
<1>b. Len(recall[b]) \in Nat
  BY <1>a
<1>1. CASE recall'[b] = recall[b]
  BY <1>1, <1>b DEF LogGrows
<1>2. ASSUME NEW row, RecordsRow(row), b = active
      PROVE  LogGrows(b)
  <2>1. row \in Rows /\ row.n \notin Texts(recall[b])
    BY <1>2, <1>a DEF RecordsRow
  <2>2. recall'[b] = Append(recall[b], row)
    BY <1>2, <1>a DEF RecordsRow, AddRow
  <2>3. /\ Len(recall'[b]) = Len(recall[b]) + 1
        /\ \A id \in 1..Len(recall[b]) : recall'[b][id] = recall[b][id]
        /\ recall'[b][Len(recall[b]) + 1] = row
    BY <1>a, <2>1, <2>2, AppendProperties
  <2>4. \A id \in 1..Len(recall'[b]) : id > Len(recall[b]) => id = Len(recall[b]) + 1
    BY <1>b, <2>3
  <2> QED  BY <1>b, <2>1, <2>3, <2>4 DEF LogGrows
<1>3. ASSUME CopyRows, b = "pg"
      PROVE  LogGrows(b)
  <2>1. recall'[b] = recall[b] \o FirstBatch
    BY <1>3, <1>a DEF CopyRows, FirstBatch
  <2>2. /\ FirstBatch \in Seq(Rows)
        /\ Texts(FirstBatch) \cap Texts(recall[b]) = {}
    <3>1. mig.todo \in RowSeqs /\ Texts(mig.todo) \cap Texts(recall["pg"]) = {}
      BY <1>3 DEF MemoryInv, RowsInv, CopyRows
    <3>2. FirstBatch \in RowSeqs /\ Texts(FirstBatch) \subseteq Texts(mig.todo)
      BY <3>1, BatchTaken
    <3> QED  BY <1>3, <3>1, <3>2 DEF RowSeqs, Rows
  <2>3. /\ Len(recall'[b]) = Len(recall[b]) + Len(FirstBatch)
        /\ Len(FirstBatch) \in Nat
        /\ \A id \in 1..Len(recall[b]) : recall'[b][id] = recall[b][id]
        /\ \A i \in 1..Len(FirstBatch) :
              recall'[b][Len(recall[b]) + i] = FirstBatch[i]
    BY <1>a, <2>1, <2>2, Joined
  <2>4. \A i \in 1..Len(FirstBatch) : FirstBatch[i].n \in Texts(FirstBatch)
    BY <2>2, InSeq DEF Texts
  <2>5. ASSUME NEW id \in 1..Len(recall'[b]), id > Len(recall[b])
        PROVE  recall'[b][id].n \notin Texts(recall[b])
    <3>1. /\ id - Len(recall[b]) \in 1..Len(FirstBatch)
          /\ Len(recall[b]) + (id - Len(recall[b])) = id
      BY <1>b, <2>3, <2>5
    <3>2. recall'[b][id] = FirstBatch[id - Len(recall[b])]
      BY <2>3, <3>1
    <3> QED  BY <2>2, <2>4, <3>1, <3>2
  <2> QED  BY <1>b, <2>3, <2>5 DEF LogGrows
<1>4. CASE UNCHANGED recall
  BY <1>1, <1>4
<1>5. ASSUME NEW row, RecordsRow(row), b # active
      PROVE  recall'[b] = recall[b]
  BY <1>5, RowRecorded
<1>6. CopyRows /\ b # "pg" => recall'[b] = recall[b]
  BY RowsCopied DEF Backends
<1> QED  BY <1>1, <1>2, <1>3, <1>4, <1>5, <1>6, RowSteps

(* Messages of a longer log: the same, and newer ones.                     *)
LEMMA MessagesGrow ==
    ASSUME NEW b \in Backends, recall \in [Backends -> RowSeqs],
           recall' \in [Backends -> RowSeqs], LogGrows(b)
    PROVE  /\ Messages(b)' \in SUBSET Nat /\ IsFiniteSet(Messages(b)')
           /\ Messages(b) \in SUBSET Messages(b)'
           /\ \A id \in Messages(b) : recall'[b][id] = recall[b][id]
           /\ \A id \in Messages(b)' :
                 id \in Messages(b) \/ recall'[b][id].n \notin Texts(recall[b])
           /\ TextsAt(b, Messages(b)) \subseteq Texts(recall[b])
<1>1. /\ recall[b] \in Seq(Rows) /\ recall'[b] \in Seq(Rows)
      /\ Len(recall[b]) \in Nat /\ Len(recall'[b]) \in Nat
      /\ DOMAIN recall[b] = 1..Len(recall[b]) /\ DOMAIN recall'[b] = 1..Len(recall'[b])
  BY LenProperties DEF RowSeqs, Rows
<1>2. /\ Messages(b) = {id \in 1..Len(recall[b]) : IsMessage(recall[b][id])}
      /\ Messages(b)' = {id \in 1..Len(recall'[b]) : IsMessage(recall'[b][id])}
  BY <1>1 DEF Messages, IsMessage
<1>3. Messages(b)' \in SUBSET (1..Len(recall'[b])) /\ 1..Len(recall'[b]) \in SUBSET Nat
  BY <1>1, <1>2
<1>4. IsFiniteSet(Messages(b)')
  <2>1. IsFiniteSet(1..Len(recall'[b]))
    BY <1>1, FS_Interval
  <2> QED  BY <1>3, <2>1, FS_Subset
<1>5. ASSUME NEW id \in 1..Len(recall[b])
      PROVE  id \in 1..Len(recall'[b]) /\ recall'[b][id] = recall[b][id]
  BY <1>1 DEF LogGrows
<1>6. Messages(b) \in SUBSET Messages(b)'
  BY <1>2, <1>5
<1>7. ASSUME NEW id \in Messages(b)', id \notin Messages(b)
      PROVE  recall'[b][id].n \notin Texts(recall[b])
  <2>1. id \in 1..Len(recall'[b]) /\ id \notin 1..Len(recall[b])
    BY <1>2, <1>5, <1>7
  <2>2. id > Len(recall[b])
    BY <1>1, <2>1
  <2> QED  BY <2>1, <2>2 DEF LogGrows
<1>8. TextsAt(b, Messages(b)) \subseteq Texts(recall[b])
  BY <1>1, <1>2, InSeq DEF TextsAt, Texts
<1> QED  BY <1>2, <1>3, <1>4, <1>5, <1>6, <1>7, <1>8

(* A walk that waits sees no less of what it wanted as the log grows.      *)
LEMMA WalkWaits ==
    ASSUME MemoryInv, WalkInv, MemoryNext, walk' = walk
    PROVE  WalkInv'
<1>a. recall \in [Backends -> RowSeqs] /\ recall' \in [Backends -> RowSeqs]
  BY StoresTypeStep DEF MemoryInv, MemoryTypeOK
<1>1. WalkSeesAll'
  BY DEF WalkInv, WalkSeesAll
<1>2. ASSUME NEW b \in Backends, b = walk.at, walk.stage \in {"count", "select"}
      PROVE  /\ walk.wanted \subseteq TextsAt(b, Messages(b))'
             /\ ~walk.raced =>
                   \A id \in Messages(b)' :
                      /\ recall'[b][id].n \in walk.wanted
                      /\ Cardinality(Newer(Messages(b)', id)) < walk.page * PageSize
                      => recall'[b][id].n \in walk.shown
  <2> DEFINE start == walk.page * PageSize
  <2>1. walk.wanted \subseteq TextsAt(b, Messages(b)) /\ start \in Nat
    BY <1>2, StoresAssumption DEF WalkInv
  <2>2. ~walk.raced =>
           \A id \in Messages(b) :
              recall[b][id].n \in walk.wanted /\ Cardinality(Newer(Messages(b), id)) < start
              => recall[b][id].n \in walk.shown
    BY <1>2 DEF WalkInv
  <2> HIDE DEF start
  <2>3. LogGrows(b)
    BY LogsGrow
  <2>4. /\ Messages(b)' \in SUBSET Nat /\ IsFiniteSet(Messages(b)')
        /\ Messages(b) \in SUBSET Messages(b)'
        /\ \A id \in Messages(b) : recall'[b][id] = recall[b][id]
        /\ \A id \in Messages(b)' :
              id \in Messages(b) \/ recall'[b][id].n \notin Texts(recall[b])
        /\ TextsAt(b, Messages(b)) \subseteq Texts(recall[b])
    BY <1>a, <2>1, <2>3, MessagesGrow
  <2>5. walk.wanted \subseteq TextsAt(b, Messages(b))'
    BY <2>1, <2>4 DEF TextsAt
  <2>6. ASSUME ~walk.raced, NEW id \in Messages(b)', recall'[b][id].n \in walk.wanted,
               Cardinality(Newer(Messages(b)', id)) < start
        PROVE  recall'[b][id].n \in walk.shown
    <3>1. id \in Messages(b) /\ recall'[b][id] = recall[b][id]
      BY <2>1, <2>4, <2>6
    <3>2. /\ Cardinality(Newer(Messages(b), id)) \in Nat
          /\ Cardinality(Newer(Messages(b)', id)) \in Nat
          /\ Cardinality(Newer(Messages(b), id)) <= Cardinality(Newer(Messages(b)', id))
      BY <2>4, NewerGrows
    <3>3. Cardinality(Newer(Messages(b), id)) < start
      BY <2>1, <2>6, <3>2
    <3> QED  BY <2>2, <2>6, <3>1, <3>3
  <2> QED  BY <2>5, <2>6 DEF start
<1>3. walk'.stage \in {"count", "select"} =>
         walk.at \in Backends /\ walk.page \in Nat /\ ~walk.cut
  BY DEF WalkInv
<1>4. ASSUME walk.stage \in {"count", "select"}
      PROVE  WalkInv'
  <2>1. PICK b \in Backends : b = walk.at
    BY <1>3, <1>4
  <2>2. b = walk'.at
    BY <2>1
  <2> QED  BY <1>1, <1>2, <1>3, <1>4, <2>1, <2>2 DEF WalkInv
<1>5. CASE walk.stage \notin {"count", "select"}
  BY <1>1, <1>5 DEF WalkInv
<1> QED  BY <1>4, <1>5

(* A page shows its rows, and is the last only if nothing comes after it.  *)
LEMMA PageShown ==
    ASSUME MemoryInv, WalkInv, PageSelects
    PROVE  WalkInv'
<1>a. /\ walk.stage = "select" /\ walk.at \in Backends /\ walk.page \in Nat
      /\ DOMAIN walk = DOMAIN NoWalk
      /\ recall \in [Backends -> RowSeqs] /\ recall' = recall
  BY DEF MemoryInv, MemoryTypeOK, WalkInv, PageSelects, stores
<1>b. PICK b \in Backends : b = walk.at
  BY <1>a
<1> DEFINE ids == Messages(b)
           rows == Page(ids, walk.page, PageSize)
           cut == \E id \in rows : IsLong(b, id)
           more == walk.total # 0 /\ rows # {} /\ ~cut /\ SaysMore(walk.page, rows, walk.total)
           start == walk.page * PageSize
           Place(id) == Cardinality(Newer(ids, id))
           Said(id) == recall[b][id].n
<1>1. /\ walk'.stage = (IF more THEN "count" ELSE "done")
      /\ walk'.page = (IF more THEN walk.page + 1 ELSE walk.page)
      /\ walk'.shown = (IF walk.total = 0 THEN walk.shown
                        ELSE walk.shown \cup TextsAt(b, Shown(b, rows)))
      /\ walk'.raced = (walk.raced \/ CountMessages(b) # walk.total)
      /\ walk'.cut = cut
      /\ walk'.at = b /\ walk'.wanted = walk.wanted
  <2>1. DOMAIN walk = {"stage", "at", "page", "total", "wanted", "shown", "raced", "cut"}
    BY <1>a DEF NoWalk
  <2>2. walk' = [walk EXCEPT
               !.stage = IF more THEN "count" ELSE "done",
               !.page = IF more THEN walk.page + 1 ELSE walk.page,
               !.shown = IF walk.total = 0 THEN walk.shown
                         ELSE walk.shown \cup TextsAt(b, Shown(b, rows)),
               !.raced = walk.raced \/ CountMessages(b) # walk.total,
               !.cut = cut]
    BY <1>b DEF PageSelects
  <2> HIDE DEF more, cut, rows
  <2> QED  BY <1>b, <2>1, <2>2
<1>2. /\ ids \in SUBSET Nat /\ IsFiniteSet(ids)
      /\ CountMessages(b) = Cardinality(ids)
  <2>1. /\ DOMAIN recall[b] = 1..Len(recall[b]) /\ Len(recall[b]) \in Nat
    BY <1>a, LenProperties DEF RowSeqs
  <2>2. ids \in SUBSET (1..Len(recall[b])) /\ IsFiniteSet(1..Len(recall[b]))
    BY <2>1, FS_Interval DEF Messages
  <2> QED  BY <2>1, <2>2, FS_Subset DEF CountMessages
<1>3. /\ walk.wanted \subseteq TextsAt(b, ids)
      /\ ~walk.raced =>
            \A id \in ids : Said(id) \in walk.wanted /\ Place(id) < start
                            => Said(id) \in walk.shown
  BY <1>a, <1>b DEF WalkInv
<1>4. start \in Nat /\ PageSize \in Nat \ {0} /\ start + PageSize = (walk.page + 1) * PageSize
  BY <1>a, StoresAssumption
<1>5. /\ Cardinality(ids) \in Nat
      /\ \A id \in ids : Place(id) \in 0..Cardinality(ids) - 1
  BY <1>2, NewerCounts
<1>6. rows = {id \in ids : Place(id) \in start..start + PageSize - 1}
  BY DEF Page
<1>7. ASSUME NEW id \in ids, Place(id) >= start
      PROVE  /\ rows # {}
             /\ Place(id) >= start + PageSize => start + Cardinality(rows) < Cardinality(ids)
  BY <1>2, <1>4, <1>a, <1>7, PageBefore
<1>8. ASSUME ~walk'.raced, ~walk'.cut, NEW id \in ids, Said(id) \in walk.wanted,
             Place(id) < start + PageSize
      PROVE  Said(id) \in walk'.shown
  <2>1. ~walk.raced /\ walk.total = Cardinality(ids) /\ ~cut
    BY <1>1, <1>2, <1>8
  <2>2. walk.total # 0
    BY <1>5, <2>1
  <2>3. walk'.shown = walk.shown \cup TextsAt(b, Shown(b, rows))
    BY <1>1, <2>2
  <2>4. CASE Place(id) < start
    BY <1>3, <1>8, <2>1, <2>3, <2>4
  <2>5. CASE Place(id) >= start
    <3>1. id \in rows
      BY <1>4, <1>5, <1>6, <1>8, <2>5
    <3>2. Shown(b, rows) = rows
      BY <2>1 DEF Shown
    <3>3. Said(id) \in TextsAt(b, Shown(b, rows))
      BY <3>1, <3>2 DEF TextsAt
    <3> QED  BY <2>3, <3>3
  <2> QED  BY <1>4, <1>5, <2>4, <2>5
<1>9. ASSUME walk'.stage = "done", ~walk'.raced, ~walk'.cut, NEW id \in ids
      PROVE  Place(id) < start + PageSize
  <2>1. walk.total = Cardinality(ids) /\ ~cut /\ ~more
    BY <1>1, <1>2, <1>9
  <2>2. walk.total # 0
    BY <1>5, <2>1
  <2>3. rows = {} \/ ~(start + Cardinality(rows) < Cardinality(ids))
    BY <2>1, <2>2 DEF SaysMore
  <2> QED  BY <1>4, <1>5, <1>7, <2>3
<1> HIDE DEF start, Place, Said, rows, cut, more
<1>10. WalkSeesAll'
  <2> SUFFICES ASSUME walk'.stage = "done", ~walk'.raced, ~walk'.cut
               PROVE  walk.wanted \subseteq walk'.shown
    BY <1>1 DEF WalkSeesAll
  <2>1. \A id \in ids : Said(id) \in walk.wanted => Said(id) \in walk'.shown
    BY <1>8, <1>9
  <2>2. TextsAt(b, ids) = {Said(id) : id \in ids}
    BY DEF TextsAt, Said
  <2> QED  BY <1>3, <2>1, <2>2
<1>11. ASSUME walk'.stage = "count"
       PROVE  WalkInv'
  <2>1. more /\ ~cut /\ walk'.page = walk.page + 1
    BY <1>1, <1>11 DEF more
  <2>2. ~walk'.raced =>
           \A id \in ids : Said(id) \in walk'.wanted /\ Place(id) < walk'.page * PageSize
                           => Said(id) \in walk'.shown
    BY <1>1, <1>4, <1>8, <2>1
  <2>3. /\ walk'.at = b /\ walk'.page \in Nat /\ ~walk'.cut
        /\ walk'.wanted \subseteq TextsAt(b, ids)
    BY <1>1, <1>3, <1>a, <2>1
  <2>4. Messages(b)' = ids /\ TextsAt(b, Messages(b))' = TextsAt(b, ids)
    BY <1>a DEF Messages, TextsAt
  <2> QED  BY <1>10, <1>a, <2>2, <2>3, <2>4 DEF WalkInv, Said, Place
<1>12. CASE walk'.stage = "done"
  BY <1>10, <1>12 DEF WalkInv
<1> QED  BY <1>1, <1>11, <1>12

(* Every step keeps what has been shown of the log.                        *)
LEMMA WalkStep ==
    ASSUME MemoryInv, WalkInv, MemoryNext
    PROVE  WalkInv'
<1>a. DOMAIN walk = DOMAIN NoWalk
  BY DEF MemoryInv
<1>1. CASE walk' = walk
  BY <1>1, WalkWaits
<1>2. CASE Switch
  <2>1. walk' = NoWalk
    BY <1>2 DEF Switch, ToolsRestart
  <2> QED  BY <2>1 DEF NoWalk, WalkInv, WalkSeesAll
<1>3. CASE WalkBegins
  <2>1. PICK b \in Homes :
           walk' = [NoWalk EXCEPT !.stage = "count", !.at = b, !.wanted = TextsAt(b, Messages(b))]
    BY <1>3 DEF WalkBegins
  <2>2. /\ walk'.stage = "count" /\ walk'.at = b /\ walk'.page = 0 /\ ~walk'.cut
        /\ walk'.wanted = TextsAt(b, Messages(b))
    BY <2>1 DEF NoWalk
  <2>3. b \in Backends /\ recall' = recall
    BY <1>3, HomeBlock DEF WalkBegins, Homes, MemoryInv, MemoryTypeOK
  <2>4. Messages(b)' = Messages(b) /\ TextsAt(b, Messages(b))' = TextsAt(b, Messages(b))
    BY <2>3 DEF Messages, TextsAt
  <2>5. \A id \in Messages(b) : ~(Cardinality(Newer(Messages(b), id)) < 0 * PageSize)
    <3>1. LogGrows(b) /\ recall \in [Backends -> RowSeqs] /\ recall' \in [Backends -> RowSeqs]
      BY <2>3, LogsGrow, StoresTypeStep DEF MemoryInv, MemoryTypeOK
    <3>2. IsFiniteSet(Messages(b))
      BY <2>3, <2>4, <3>1, MessagesGrow
    <3>3. \A id : Cardinality(Newer(Messages(b), id)) \in Nat
      BY <3>2, NewerGrows
    <3>4. 0 * PageSize = 0
      BY StoresAssumption
    <3> QED  BY <3>3, <3>4
  <2> QED  BY <2>2, <2>3, <2>4, <2>5 DEF WalkInv, WalkSeesAll
<1>4. CASE PageCounts
  <2>1. PICK total : walk' = [walk EXCEPT !.stage = "select", !.total = total]
    BY <1>4 DEF PageCounts
  <2>2. /\ walk.stage = "count" /\ walk'.stage = "select"
        /\ walk'.at = walk.at /\ walk'.page = walk.page /\ walk'.cut = walk.cut
        /\ walk'.wanted = walk.wanted /\ walk'.shown = walk.shown /\ walk'.raced = walk.raced
    BY <1>4, <1>a, <2>1 DEF PageCounts, NoWalk
  <2>3. recall' = recall
    BY <1>4 DEF PageCounts, stores
  <2> QED  BY <2>2, <2>3 DEF WalkInv, WalkSeesAll, Messages, TextsAt
<1>5. CASE PageSelects
  BY <1>5, PageShown
<1>6. walk' = walk \/ Switch \/ WalkBegins \/ PageCounts \/ PageSelects
  BY DEF MemoryNext, tools, ToolsNext, AppendReads, ReplaceReads, Reads, ToolWrites,
     TurnRecords, ArchivalInsert, Charge
<1> QED  BY <1>1, <1>2, <1>3, <1>4, <1>5, <1>6

-----------------------------------------------------------------------------
(* The order of the logs                                                   *)

(* CopiedInOrder, of two logs.                                             *)
InOrder(lite, pg, first) ==
    \A id \in DOMAIN lite, copy \in DOMAIN pg :
        pg[copy].n = lite[id].n =>
            /\ pg[copy] = lite[id]
            /\ \A older \in 1..id - 1 : \E before \in 1..copy - 1 : pg[before] = lite[older]
            /\ first => copy = id

(* What is left to copy is the end of the log, and the rest is copied.     *)
Left(lite, pg, todo, first) ==
    \E done \in Nat :
        /\ Len(lite) = done + Len(todo)
        /\ \A i \in 1..Len(todo) : todo[i] = lite[done + i]
        /\ \A id \in 1..done : \E copy \in 1..Len(pg) : pg[copy] = lite[id]
        /\ first => Len(pg) = done

LEMMA BatchInOrder ==
    ASSUME NEW lite \in Seq(Rows), NEW pg \in Seq(Rows), NEW todo \in Seq(Rows),
           NEW k \in 0..Len(todo), NEW first \in BOOLEAN,
           \A i, j \in DOMAIN lite : lite[i].n = lite[j].n => i = j,
           InOrder(lite, pg, first), Left(lite, pg, todo, first)
    PROVE  LET more == pg \o SubSeq(todo, 1, k)
           IN  /\ InOrder(lite, more, first)
               /\ Left(lite, more, SubSeq(todo, k + 1, Len(todo)), first)
<1> DEFINE batch == SubSeq(todo, 1, k)
           others == SubSeq(todo, k + 1, Len(todo))
           more == pg \o batch
<1>1. PICK done \in Nat :
         /\ Len(lite) = done + Len(todo)
         /\ \A i \in 1..Len(todo) : todo[i] = lite[done + i]
         /\ \A id \in 1..done : \E copy \in 1..Len(pg) : pg[copy] = lite[id]
         /\ first => Len(pg) = done
  BY DEF Left
<1>2. /\ Len(lite) \in Nat /\ Len(pg) \in Nat /\ Len(todo) \in Nat
      /\ DOMAIN lite = 1..Len(lite) /\ DOMAIN pg = 1..Len(pg)
  BY LenProperties
<1>3. /\ batch \in Seq(Rows) /\ others \in Seq(Rows)
      /\ Len(batch) = k /\ Len(others) = Len(todo) - k
      /\ \A i \in 1..k : batch[i] = todo[i]
      /\ \A i \in 1..Len(todo) - k : others[i] = todo[k + i]
  BY Cut
<1>4. /\ more \in Seq(Rows) /\ Len(more) = Len(pg) + k
      /\ \A i \in 1..Len(pg) : more[i] = pg[i]
      /\ \A i \in 1..k : more[Len(pg) + i] = batch[i]
  BY <1>3, Joined, ConcatProperties
<1>5. DOMAIN more = 1..Len(pg) + k
  BY <1>4, LenProperties
<1> HIDE DEF batch, others, more
<1>a. /\ k \in Nat /\ k <= Len(todo)
      /\ Len(lite) = done + Len(todo)
      /\ Len(more) = Len(pg) + k /\ Len(others) = Len(todo) - k
  <2>1. Len(lite) = done + Len(todo)
    BY <1>1
  <2>2. Len(more) = Len(pg) + k
    BY <1>4
  <2>3. Len(others) = Len(todo) - k
    BY <1>3
  <2>4. k \in Nat /\ k <= Len(todo)
    BY <1>2
  <2> QED  BY <2>1, <2>2, <2>3, <2>4
<1>6. ASSUME NEW i \in 1..k
      PROVE  /\ more[Len(pg) + i] = lite[done + i] /\ done + i \in 1..Len(lite)
             /\ Len(pg) + i \in 1..Len(more)
  <2>1. i \in 1..Len(todo) /\ done + i \in 1..Len(lite) /\ Len(pg) + i \in 1..Len(more)
    BY <1>2, <1>a
  <2> QED  BY <1>1, <1>3, <1>4, <2>1
<1>7. ASSUME NEW older \in 1..done + k
      PROVE  \E before \in 1..Len(more) : more[before] = lite[older]
  <2>1. CASE older <= done
    <3>1. PICK before \in 1..Len(pg) : pg[before] = lite[older]
      BY <1>1, <2>1
    <3>2. before \in 1..Len(more)
      BY <1>2, <1>4
    <3> QED  BY <1>4, <3>1, <3>2
  <2>2. CASE older > done
    <3>1. older - done \in 1..k /\ done + (older - done) = older
      BY <2>2
    <3> QED  BY <1>6, <3>1
  <2> QED  BY <2>1, <2>2
<1>8. ASSUME NEW id \in 1..Len(lite), NEW copy \in 1..Len(pg) + k, more[copy].n = lite[id].n
      PROVE  /\ more[copy] = lite[id]
             /\ \A older \in 1..id - 1 : \E before \in 1..copy - 1 : more[before] = lite[older]
             /\ first => copy = id
  <2>1. CASE copy <= Len(pg)
    <3>1. copy \in 1..Len(pg) /\ more[copy] = pg[copy]
      BY <1>2, <1>4, <2>1
    <3>2. /\ pg[copy] = lite[id]
          /\ \A older \in 1..id - 1 : \E before \in 1..copy - 1 : pg[before] = lite[older]
          /\ first => copy = id
      BY <1>2, <1>8, <3>1 DEF InOrder
    <3>3. \A before \in 1..copy - 1 : more[before] = pg[before]
      BY <1>2, <1>4, <3>1
    <3> QED  BY <3>1, <3>2, <3>3
  <2>2. CASE copy > Len(pg)
    <3> DEFINE i == copy - Len(pg)
    <3>1. i \in 1..k /\ Len(pg) + i = copy
      BY <1>2, <2>2
    <3> HIDE DEF i
    <3>2. more[copy] = lite[done + i] /\ done + i \in 1..Len(lite)
      BY <1>6, <3>1
    <3>3. id = done + i
      BY <1>2, <1>8, <3>2
    <3>4. ASSUME NEW older \in 1..id - 1
          PROVE  \E before \in 1..copy - 1 : more[before] = lite[older]
      <4>1. CASE older <= done
        <5>1. PICK before \in 1..Len(pg) : pg[before] = lite[older]
          BY <1>1, <4>1
        <5>2. before \in 1..copy - 1
          BY <1>2, <3>1
        <5> QED  BY <1>4, <5>1, <5>2
      <4>2. CASE older > done
        <5>1. older - done \in 1..k /\ done + (older - done) = older
          BY <3>1, <3>3, <4>2
        <5>2. Len(pg) + (older - done) \in 1..copy - 1
          BY <1>2, <3>1, <3>3, <4>2
        <5> QED  BY <1>6, <5>1, <5>2
      <4> QED  BY <4>1, <4>2
    <3>5. first => copy = id
      BY <1>1, <3>1, <3>3
    <3> QED  BY <3>2, <3>3, <3>4, <3>5
  <2> QED  BY <1>2, <2>1, <2>2
<1>9. InOrder(lite, more, first)
  BY <1>2, <1>5, <1>8 DEF InOrder
<1>10. Left(lite, more, others, first)
  <2> DEFINE then == done + k
  <2>1. then \in Nat /\ Len(lite) = then + Len(others)
    BY <1>2, <1>a
  <2>2. ASSUME NEW i \in 1..Len(others)
        PROVE  others[i] = lite[then + i]
    <3>1. k + i \in 1..Len(todo) /\ done + (k + i) = then + i
      BY <1>2, <1>3
    <3> QED  BY <1>1, <1>3, <2>2, <3>1
  <2>3. \A id \in 1..then : \E copy \in 1..Len(more) : more[copy] = lite[id]
    BY <1>7
  <2>4. first => Len(more) = then
    BY <1>1, <1>4
  <2> HIDE DEF then
  <2> QED  BY <2>1, <2>2, <2>3, <2>4 DEF Left
<1> QED  BY <1>9, <1>10 DEF more, batch, others

(* The copies are in order, and a run has the end of the log in hand.      *)
OrderInv ==
    /\ InOrder(recall["lite"], recall["pg"], ~past.late)
    /\ SourceLocked => Left(recall["lite"], recall["pg"], mig.todo, ~past.late)

\* A run that has rows left to copy finds the log it began with.
LEMMA SourceHeld ==
    ASSUME MemoryInv, MemoryNext, SourceLocked
    PROVE  recall'["lite"] = recall["lite"]
<1>1. CASE SourceLocked => SourceStays
  BY <1>1 DEF SourceStays
<1>2. CASE MigrationNext \/ Switch
  <2>1. recall' = recall \/ CopyRows
    BY <1>2 DEF MigrationNext, stores, RunStarts, CopyCore, CheckMessages, CopyUsage,
       CheckArchive, CopyPassage, RunEnds, RunBreaksOff, ReembedReads, Drops, Refills,
       ReembedBreaksOff, Switch
  <2> QED  BY <2>1, RowsCopied
<1> QED  BY <1>1, <1>2 DEF MemoryNext

\* So no turn writes to it, unless the switch is behind them.
LEMMA RecordsElsewhere ==
    ASSUME MemoryInv, MemoryNext, SourceLocked, NEW row, RecordsRow(row)
    PROVE  active = "pg" /\ past.late
<1>1. /\ active \in Backends /\ recall \in [Backends -> Seq(Rows)] /\ row \in Rows
      /\ recall' = [recall EXCEPT ![active] = Append(recall[active], row)]
  BY DEF MemoryInv, MemoryTypeOK, RowSeqs, Rows, RecordsRow, AddRow
<1>2. active # "lite"
  <2> SUFFICES ASSUME active = "lite" PROVE FALSE
    OBVIOUS
  <2>1. recall["lite"] \in Seq(Rows) /\ recall'["lite"] = Append(recall["lite"], row)
    BY <1>1
  <2>2. Len(recall'["lite"]) = Len(recall["lite"]) + 1 /\ Len(recall["lite"]) \in Nat
    BY <1>1, <2>1, AppendProperties
  <2> QED  BY <2>2, SourceHeld
<1>3. mig.stage # "idle"
  BY DEF SourceLocked
<1> QED  BY <1>1, <1>2, <1>3 DEF Backends, MemoryInv, RunsInv

LEMMA OrderStep ==
    ASSUME MemoryInv, OrderInv, MemoryNext
    PROVE  OrderInv'
<1>a. /\ recall \in [Backends -> RowSeqs] /\ recall' \in [Backends -> RowSeqs]
      /\ active \in Backends /\ past.late \in BOOLEAN /\ past'.late \in BOOLEAN
  BY StoresTypeStep, ProgramsTypeStep DEF MemoryInv, MemoryTypeOK
<1>b. PICK lite \in Seq(Rows), pg \in Seq(Rows), longer \in Seq(Rows), more \in Seq(Rows),
           was \in BOOLEAN, first \in BOOLEAN :
         /\ recall["lite"] = lite /\ recall["pg"] = pg
         /\ recall'["lite"] = longer /\ recall'["pg"] = more
         /\ was = ~past.late /\ first = ~past'.late
  <2>1. /\ recall["lite"] \in Seq(Rows) /\ recall["pg"] \in Seq(Rows)
        /\ recall'["lite"] \in Seq(Rows) /\ recall'["pg"] \in Seq(Rows)
    BY <1>a DEF Backends, RowSeqs, Rows
  <2>2. (~past.late) \in BOOLEAN /\ (~past'.late) \in BOOLEAN
    OBVIOUS
  <2> QED  BY <2>1, <2>2
<1>c. /\ InOrder(lite, pg, was)
      /\ SourceLocked => Left(lite, pg, mig.todo, was)
      /\ first => was
  BY <1>b, PastStep DEF OrderInv
<1>d. /\ Len(lite) <= Len(longer) /\ \A id \in 1..Len(lite) : longer[id] = lite[id]
      /\ Len(pg) <= Len(more) /\ \A copy \in 1..Len(pg) : more[copy] = pg[copy]
      /\ \A id \in 1..Len(longer) : id > Len(lite) => longer[id].n \notin Texts(lite)
      /\ \A copy \in 1..Len(more) : copy > Len(pg) => more[copy].n \notin Texts(pg)
  BY <1>b, LogsGrow DEF LogGrows, Backends
<1>e. /\ Len(lite) \in Nat /\ Len(pg) \in Nat /\ Len(longer) \in Nat /\ Len(more) \in Nat
      /\ \A copy \in 1..Len(more) : more[copy] \in ToSet(more)
      /\ \A id \in 1..Len(longer) : longer[id] \in ToSet(longer)
  BY InSeq
<1>k. ASSUME \A id \in 1..Len(longer), copy \in 1..Len(more) :
                more[copy].n = longer[id].n => id <= Len(lite) /\ copy <= Len(pg)
      PROVE  InOrder(longer, more, first)
  <2>1. /\ DOMAIN lite = 1..Len(lite) /\ DOMAIN pg = 1..Len(pg)
        /\ DOMAIN longer = 1..Len(longer) /\ DOMAIN more = 1..Len(more)
    BY LenProperties
  <2> SUFFICES ASSUME NEW id \in 1..Len(longer), NEW copy \in 1..Len(more),
                      more[copy].n = longer[id].n
               PROVE  /\ more[copy] = longer[id]
                      /\ \A older \in 1..id - 1 :
                            \E before \in 1..copy - 1 : more[before] = longer[older]
                      /\ first => copy = id
    BY <2>1 DEF InOrder
  <2>2. id \in 1..Len(lite) /\ copy \in 1..Len(pg)
    <3>1. id <= Len(lite) /\ copy <= Len(pg)
      BY <1>k
    <3> QED  BY <1>e, <3>1
  <2>3. longer[id] = lite[id] /\ more[copy] = pg[copy]
    BY <1>d, <2>2
  <2>4. /\ pg[copy] = lite[id]
        /\ \A older \in 1..id - 1 : \E before \in 1..copy - 1 : pg[before] = lite[older]
        /\ was => copy = id
    BY <1>c, <2>1, <2>2, <2>3 DEF InOrder
  <2>5. ASSUME NEW older \in 1..id - 1
        PROVE  \E before \in 1..copy - 1 : more[before] = longer[older]
    <3>1. PICK before \in 1..copy - 1 : pg[before] = lite[older]
      BY <2>4
    <3>2. before \in 1..Len(pg) /\ older \in 1..Len(lite)
      BY <1>e, <2>2
    <3>3. more[before] = pg[before] /\ longer[older] = lite[older]
      BY <1>d, <3>2
    <3> QED  BY <3>1, <3>3
  <2> QED  BY <1>c, <2>3, <2>4, <2>5
<1>1. ASSUME NEW row, RecordsRow(row)
      PROVE  InOrder(longer, more, first)
  <2>1. row.n \notin Texts(lite) /\ row.n \notin Texts(pg)
    BY <1>1, <1>b DEF RecordsRow, Backends
  <2>2. CASE active = "lite"
    <3>1. more = pg /\ ToSet(longer) = ToSet(lite) \cup {row}
      BY <1>1, <1>b, <2>2, RowRecorded DEF Backends
    <3>2. ASSUME NEW id \in 1..Len(longer), NEW copy \in 1..Len(more),
                 more[copy].n = longer[id].n
          PROVE  id <= Len(lite) /\ copy <= Len(pg)
      <4>1. more[copy].n \in Texts(pg)
        BY <1>e, <3>1 DEF Texts
      <4>2. copy <= Len(pg)
        BY <1>e, <3>1
      <4>3. CASE id > Len(lite)
        <5>1. longer[id].n \notin Texts(lite) /\ longer[id] \in ToSet(longer)
          BY <1>d, <1>e, <4>3
        <5>2. longer[id] = row
          BY <3>1, <5>1 DEF Texts
        <5> QED  BY <2>1, <3>2, <4>1, <5>2
      <4> QED  BY <1>e, <4>2, <4>3
    <3> QED  BY <1>k, <3>2
  <2>3. CASE active = "pg"
    <3>1. longer = lite /\ ToSet(more) = ToSet(pg) \cup {row}
      BY <1>1, <1>b, <2>3, RowRecorded DEF Backends
    <3>2. ASSUME NEW id \in 1..Len(longer), NEW copy \in 1..Len(more),
                 more[copy].n = longer[id].n
          PROVE  id <= Len(lite) /\ copy <= Len(pg)
      <4>1. longer[id].n \in Texts(lite)
        BY <1>e, <3>1 DEF Texts
      <4>2. id <= Len(lite)
        BY <1>e, <3>1
      <4>3. CASE copy > Len(pg)
        <5>1. more[copy].n \notin Texts(pg) /\ more[copy] \in ToSet(more)
          BY <1>d, <1>e, <4>3
        <5>2. more[copy] = row
          BY <3>1, <5>1 DEF Texts
        <5> QED  BY <2>1, <3>2, <4>1, <5>2
      <4> QED  BY <1>e, <4>2, <4>3
    <3> QED  BY <1>k, <3>2
  <2> QED  BY <1>a, <2>2, <2>3 DEF Backends
<1>2. ASSUME NEW row, RecordsRow(row)
      PROVE  SourceLocked' => Left(longer, more, mig'.todo, first)
  <2> SUFFICES ASSUME SourceLocked PROVE Left(lite, more, mig.todo, first)
    BY <1>2, <1>b, SourceHeld DEF RecordsRow, migrations, SourceLocked
  <2>1. ~first
    BY <1>2, <1>b, RecordsElsewhere, PastStep
  <2>2. PICK done \in Nat :
           /\ Len(lite) = done + Len(mig.todo)
           /\ \A i \in 1..Len(mig.todo) : mig.todo[i] = lite[done + i]
           /\ \A id \in 1..done : \E copy \in 1..Len(pg) : pg[copy] = lite[id]
    BY <1>c DEF Left
  <2>3. \A id \in 1..done : \E copy \in 1..Len(more) : more[copy] = lite[id]
    <3>1. \A copy \in 1..Len(pg) : copy \in 1..Len(more)
      BY <1>d, <1>e
    <3> QED  BY <1>d, <2>2, <3>1
  <2> QED  BY <2>1, <2>2, <2>3 DEF Left
<1>3. ASSUME UNCHANGED recall, ~CopyRows
      PROVE  /\ InOrder(longer, more, first)
             /\ SourceLocked' => Left(longer, more, mig'.todo, first)
  <2>1. longer = lite /\ more = pg
    BY <1>3, <1>b
  <2>2. InOrder(longer, more, first)
    <3>1. \A id \in 1..Len(longer), copy \in 1..Len(more) : id <= Len(lite) /\ copy <= Len(pg)
      BY <1>e, <2>1
    <3> QED  BY <1>k, <3>1
  <2>3. CASE mig' = mig
    <3> SUFFICES ASSUME SourceLocked PROVE Left(lite, pg, mig.todo, first)
      BY <2>1, <2>2, <2>3 DEF SourceLocked
    <3>1. PICK done \in Nat :
             /\ Len(lite) = done + Len(mig.todo)
             /\ \A i \in 1..Len(mig.todo) : mig.todo[i] = lite[done + i]
             /\ \A id \in 1..done : \E copy \in 1..Len(pg) : pg[copy] = lite[id]
             /\ was => Len(pg) = done
      BY <1>c DEF Left
    <3>2. first => Len(pg) = done
      BY <1>c, <3>1
    <3> QED  BY <3>1, <3>2 DEF Left
  <2>4. CASE CheckMessages
    <3>1. CASE mig' = [mig EXCEPT !.stage = "usage"]
      <4>1. mig'.stage # "rows"
        BY <3>1 DEF MemoryInv, NoRun
      <4> QED  BY <2>2, <4>1 DEF SourceLocked
    <3>2. CASE pg = <<>> /\ mig' = [stage |-> "rows", todo |-> lite]
      <4>1. Len(pg) = 0 /\ mig'.todo = lite
        BY <3>2
      <4> DEFINE done == 0
      <4>2. /\ done \in Nat /\ Len(pg) = done
            /\ Len(lite) = done + Len(lite)
            /\ \A i \in 1..Len(lite) : lite[i] = lite[done + i]
            /\ \A id \in 1..done : \E copy \in 1..Len(pg) : pg[copy] = lite[id]
        BY <1>e, <4>1
      <4> HIDE DEF done
      <4>3. Left(lite, pg, lite, first)
        BY <4>2 DEF Left
      <4> QED  BY <2>1, <2>2, <4>1, <4>3
    <3> QED  BY <1>b, <2>4, <3>1, <3>2 DEF CheckMessages
  <2>5. CASE RunStarts \/ CopyCore \/ CopyUsage \/ CheckArchive \/ CopyPassage \/ RunEnds
             \/ RunBreaksOff
    <3>1. mig'.stage # "rows"
      BY <2>5 DEF RunStarts, CopyCore, CopyUsage, CheckArchive, CopyPassage, RunEnds,
         RunBreaksOff, NoRun, MemoryInv
    <3> QED  BY <2>2, <3>1 DEF SourceLocked
  <2> QED  BY <1>3, <2>2, <2>3, <2>4, <2>5, ProgramWriters
<1>4. ASSUME CopyRows
      PROVE  /\ InOrder(longer, more, first)
             /\ SourceLocked' => Left(longer, more, mig'.todo, first)
  <2>1. longer = lite /\ first = was
    BY <1>4, <1>b, RowsCopied DEF CopyRows
  <2>2. PICK todo \in Seq(Rows) : todo = mig.todo
    BY <1>4 DEF CopyRows, MemoryInv, RowsInv, RowSeqs, Rows
  <2>3. PICK k \in 0..Len(todo) : k = Taken
    <3>1. Len(todo) \in Nat /\ Taken = (IF Len(todo) < Batch THEN Len(todo) ELSE Batch)
      BY <2>2 DEF Taken
    <3>2. Taken \in 0..Len(todo)
      BY <3>1, BatchAssumption
    <3> QED  BY <3>2
  <2>4. more = pg \o SubSeq(todo, 1, k) /\ mig'.todo = SubSeq(todo, k + 1, Len(todo))
    <3>1. recall' = [recall EXCEPT !["pg"] = recall["pg"] \o SubSeq(todo, 1, k)]
      BY <1>4, <2>2, <2>3 DEF CopyRows
    <3>2. mig'.todo = SubSeq(todo, k + 1, Len(todo))
      BY <1>4, <2>2, <2>3 DEF CopyRows
    <3>3. "pg" \in Backends
      BY DEF Backends
    <3> QED  BY <1>a, <1>b, <3>1, <3>2, <3>3
  <2>5. \A i, j \in DOMAIN lite : lite[i].n = lite[j].n => i = j
    <3>1. Once(lite) /\ NoTwins(ToSet(lite))
      BY <1>b DEF MemoryInv, RowsInv, Backends
    <3>2. \A i \in DOMAIN lite : lite[i] \in ToSet(lite)
      BY DEF ToSet
    <3> QED  BY <3>1, <3>2 DEF Once, NoTwins
  <2>6. CASE todo # <<>>
    <3>1. Left(lite, pg, todo, first)
      BY <1>4, <1>c, <2>1, <2>2, <2>6 DEF CopyRows, SourceLocked
    <3> QED  BY <1>c, <2>1, <2>4, <2>5, <3>1, BatchInOrder
  <2>7. CASE todo = <<>>
    <3>1. Len(todo) = 0 /\ k = 0
      BY <2>3, <2>7
    <3>2. Len(mig'.todo) = 0 /\ mig'.todo \in Seq(Rows)
      BY <2>4, <3>1, Cut
    <3>3. mig'.todo = <<>>
      BY <3>2, EmptySeq
    <3>4. SubSeq(todo, 1, k) \in Seq(Rows) /\ Len(SubSeq(todo, 1, k)) = 0
      BY <3>1, Cut
    <3>5. Len(more) = Len(pg)
      BY <2>4, <3>4, <1>e, Joined
    <3>6. \A id \in 1..Len(longer), copy \in 1..Len(more) : id <= Len(lite) /\ copy <= Len(pg)
      BY <1>e, <2>1, <3>5
    <3>7. InOrder(longer, more, first)
      BY <1>k, <3>6
    <3> QED  BY <3>3, <3>7 DEF SourceLocked
  <2> QED  BY <2>6, <2>7
<1>5. /\ InOrder(longer, more, first)
      /\ SourceLocked' => Left(longer, more, mig'.todo, first)
  BY <1>1, <1>2, <1>3, <1>4, RowSteps
<1> QED  BY <1>5, <1>b DEF OrderInv

-----------------------------------------------------------------------------
(* The invariant and what follows from it                                  *)

LEMMA MemoryStep ==
    ASSUME MemoryInv, MemoryNext
    PROVE  MemoryInv'
BY MemoryTypeStep, RunsStep, BlocksStep, RowsStep, PassagesStep, SourceStep, FirstRunStep,
   CopiesStep, SurviveStep, NamesStep, TurnsStep DEF MemoryInv

\* What is about the memory only stays so while the memory does.
LEMMA MemoryKept ==
    ASSUME MemoryInv, left' \in Allowances, UNCHANGED memory
    PROVE  MemoryInv'
<1>a. /\ UNCHANGED <<core, recall, archive, usage, active, width, put, made>>
      /\ UNCHANGED <<client, walk, kept, overlap, job, outbound, mig, re, past>>
  BY DEF memory, stores, tools, jobs, migrations
<1>1. MemoryTypeOK'
  BY <1>a DEF MemoryInv, MemoryTypeOK
<1>2. RunsInv' /\ SourceInv' /\ FirstRunInv' /\ RunCopiesAll' /\ PassagesSurvive'
  BY <1>a DEF MemoryInv, RunsInv, SourceInv, FirstRunInv, RunCopiesAll, PassagesSurvive
<1>3. BlocksInv'
  BY <1>a DEF MemoryInv, BlocksInv, IsBlock, Fits, Opened
<1>4. RowsInv' /\ PassagesInv'
  BY <1>a DEF MemoryInv, RowsInv, PassagesInv
<1>5. NamesInv'
  BY <1>a DEF MemoryInv, NamesInv
<1>6. TurnsInv'
  BY <1>a DEF MemoryInv, TurnsInv, Lines, Writing, Home
<1> QED  BY <1>a, <1>1, <1>2, <1>3, <1>4, <1>5, <1>6 DEF MemoryInv

LEMMA InitiallyConsistent == Init => MemoryInv
<1> SUFFICES ASSUME Init PROVE MemoryInv
  OBVIOUS
<1>a. /\ left \in Allowances /\ left.old \in Nat
      /\ core = [b \in Backends |-> IF b = "lite" THEN Seed ELSE NoBlock]
      /\ recall = [b \in Backends |-> <<>>]
      /\ archive = [b \in Backends |-> IF b = "lite" THEN [i \in 1..left.old |-> i] ELSE <<>>]
      /\ usage = [b \in Backends |-> 0]
      /\ active = "lite"
      /\ width = IF left.old = 0 THEN "none" ELSE "old"
      /\ put = 1..left.old
      /\ made = left.old
  BY WorkloadsAssumption DEF Init, MemoryInit, StoresInit, Allowances
<1>b. /\ client = [c \in Clients |-> Idle]
      /\ walk = NoWalk
      /\ kept = [b \in Backends |-> {0}]
      /\ job = NoPass
      /\ mig = NoRun
      /\ re = NoReembed
      /\ past = [started |-> FALSE, rows |-> {}, passages |-> {}, charges |-> 0,
                 finished |-> FALSE, broken |-> FALSE, again |-> FALSE, late |-> FALSE,
                 hollow |-> FALSE, spilt |-> FALSE]
  BY DEF Init, MemoryInit, ToolsInit, JobInit, MigrationInit
<1>c. Backends = {"lite", "pg"} /\ 0 \in Nat /\ made \in Nat
  BY <1>a DEF Backends
<1>d. ToSet(<<>>) = {} /\ Once(<<>>) /\ <<>> \in Seq(Nat) /\ <<>> \in RowSeqs /\ <<>> \in Blocks
  BY InNothing DEF RowSeqs, Blocks
<1>e. /\ archive["lite"] \in Seq(Nat) /\ Once(archive["lite"])
      /\ ToSet(archive["lite"]) = 1..left.old
      /\ archive["lite"] = <<>> <=> left.old = 0
  <2>1. archive["lite"] = [i \in 1..left.old |-> i]
    BY <1>a, <1>c
  <2>2. [i \in 1..left.old |-> i] \in Seq(Nat)
    BY <1>a
  <2>3. /\ Len([i \in 1..left.old |-> i]) = left.old
        /\ DOMAIN [i \in 1..left.old |-> i] = 1..left.old
    BY <1>a, <2>2
  <2>4. \A i \in 1..left.old : archive["lite"][i] = i
    BY <2>1
  <2> DEFINE first == archive["lite"]
  <2>5. first \in Seq(Nat) /\ Len(first) = left.old /\ DOMAIN first = 1..left.old
    BY <2>1, <2>2, <2>3
  <2> HIDE DEF first
  <2>6. /\ \A x : x \in ToSet(first) <=> \E i \in 1..Len(first) : x = first[i]
        /\ first = <<>> <=> Len(first) = 0
    BY <2>5, InSeq
  <2>7. ToSet(first) = 1..left.old
    <3>1. \A i \in 1..left.old : first[i] = i
      BY <2>4 DEF first
    <3>2. \A x : x \in ToSet(first) <=> x \in 1..left.old
      BY <2>5, <2>6, <3>1
    <3> QED  BY <3>2
  <2>8. Once(first)
    BY <2>4, <2>5 DEF Once, first
  <2> QED  BY <2>5, <2>6, <2>7, <2>8 DEF first
<1>f. archive["pg"] = <<>> /\ recall["pg"] = <<>> /\ recall["lite"] = <<>>
  BY <1>a, <1>c
<1>g. Texts(<<>>) = {} /\ Named(<<>>) = {} /\ NoTwins(ToSet(<<>>))
  BY <1>d DEF Texts, Named, NoTwins
<1>h. Seed \in Blocks /\ Once(Seed) /\ ToSet(Seed) = {0} /\ Fits(Seed) /\ Fits(<<>>)
  BY StoresAssumption DEF Seed, Blocks, Once, ToSet, Fits
<1>1. MemoryTypeOK
  <2>1. core \in [Backends -> Blocks \cup {NoBlock}]
    BY <1>a, <1>h
  <2>2. recall \in [Backends -> RowSeqs] /\ archive \in [Backends -> Seq(Nat)]
        /\ usage \in [Backends -> Nat] /\ active \in Backends
    BY <1>a, <1>c, <1>d, <1>e
  <2>3. width \in IF archive["lite"] = <<>> THEN {"none"} ELSE {"old", "new"}
    BY <1>a, <1>e
  <2>4. client \in [Clients -> [stage : {"idle", "write"}, block : Blocks,
                               adds : SUBSET (1..made), drops : SUBSET (0..made)]]
    BY <1>b, <1>d DEF Idle
  <2>5. /\ walk.stage \in {"none", "count", "select", "done"}
        /\ job \in [stage : {"idle", "asking", "insert", "record"}, passage : 0..made]
        /\ mig.stage = "idle" /\ mig.todo = <<>>
        /\ re \in [stage : {"idle", "read", "dropped"}, held : Seq(Nat)]
    BY <1>b, <1>c, <1>d DEF NoWalk, NoPass, NoRun, NoReembed
  <2>6. past \in [started : BOOLEAN, rows : SUBSET (1..made), passages : SUBSET (1..made),
                 charges : Nat, finished : BOOLEAN, broken : BOOLEAN, again : BOOLEAN,
                 late : BOOLEAN, hollow : BOOLEAN, spilt : BOOLEAN]
    BY <1>b, <1>c
  <2> QED  BY <1>a, <1>c, <1>d, <2>1, <2>2, <2>3, <2>4, <2>5, <2>6 DEF MemoryTypeOK
<1>2. RunsInv
  BY <1>a, <1>b DEF RunsInv, NoRun
<1>3. BlocksInv
  <2>1. IsBlock(core["lite"]) /\ core["pg"] = NoBlock
    BY <1>a, <1>c, <1>h DEF IsBlock
  <2>2. \A c \in Clients : IsBlock(client[c].block)
    BY <1>b, <1>d, <1>h DEF IsBlock, Idle
  <2> QED  BY <1>b, <1>c, <2>1, <2>2 DEF BlocksInv, Opened
<1>4. RowsInv
  BY <1>a, <1>b, <1>c, <1>d, <1>g DEF RowsInv, NoRun, NoPass
<1>5. PassagesInv
  BY <1>a, <1>b, <1>c, <1>d, <1>e, <1>f DEF PassagesInv, NoRun, NoReembed
<1>6. SourceInv /\ FirstRunInv /\ RunCopiesAll
  BY <1>b, <1>f DEF SourceInv, FirstRunInv, RunCopiesAll
<1>7. PassagesSurvive
  BY <1>a, <1>e DEF PassagesSurvive
<1>8. NamesInv
  BY <1>b, <1>f, <1>g DEF NamesInv, NoRun, NoPass
<1>9. TurnsInv
  <2>1. Lines(active) = kept[active]
    BY <1>a, <1>b, <1>c, <1>h DEF Lines
  <2>2. Writing(active) = {}
    BY <1>b DEF Writing, Idle
  <2> QED  BY <2>1, <2>2 DEF TurnsInv
<1> QED  BY <1>a, <1>b, <1>1, <1>2, <1>3, <1>4, <1>5, <1>6, <1>7, <1>8, <1>9 DEF MemoryInv

\* The other parts of a turn leave the stores alone.
LEMMA ServicesStep ==
    ASSUME MemoryInv, ServicesNext, UNCHANGED memory
    PROVE  MemoryInv'
<1>1. left' \in Allowances
  <2>1. left' = left \/ \E what \in Spendable : Spend(what)
    BY DEF ServicesNext, ExternalNext, StartsEmpty, StartsLoading, ServerLoads,
       ServerUnavailable, Started, Closes, ServerActs, Replies, Fails, TimesOut, Answer,
       NodeRuns, NodeBegins, ResolvesClient, FindsUnresolved, Claims, Builds, FindsResolved,
       Dispatches, Calls, NodeEnds, BodyEnds, Spendable
  <2> QED  BY <2>1, SpendType DEF MemoryInv
<1> QED  BY <1>1, MemoryKept DEF MemoryInv

(* Every reachable state is as the parts of the invariant say.             *)
THEOREM Consistent == Spec => []MemoryInv
<1>1. Init => MemoryInv
  BY InitiallyConsistent
<1>2. MemoryInv /\ [Next]_vars => MemoryInv'
  <2> SUFFICES ASSUME MemoryInv, [Next]_vars PROVE MemoryInv'
    OBVIOUS
  <2>1. CASE MemoryNext
    BY <2>1, MemoryStep
  <2>2. CASE ServicesNext /\ UNCHANGED memory
    BY <2>2, ServicesStep
  <2>3. CASE UNCHANGED vars
    <3>1. left' = left /\ UNCHANGED memory
      BY <2>3 DEF vars
    <3> QED  BY <3>1, MemoryKept DEF MemoryInv
  <2> QED  BY <2>1, <2>2, <2>3 DEF Next
<1> QED  BY <1>1, <1>2, PTL DEF Spec

(* Every variable has its type, and the backends their tables.             *)
THEOREM MemoryTyped == Spec => []MemoryTypeOK
<1>1. MemoryInv => MemoryTypeOK
  BY DEF MemoryInv
<1> QED  BY <1>1, Consistent, PTL

(* The blocks: no order of reads and writes makes one longer than allowed. *)
THEOREM BlocksFit == Spec => []WithinLimit
<1>1. MemoryInv => WithinLimit
  <2> SUFFICES ASSUME MemoryInv, NEW b \in Backends, core[b] # NoBlock
               PROVE  Len(core[b]) <= CharLimit
    BY DEF WithinLimit
  <2>1. IF Opened(b) THEN IsBlock(core[b]) ELSE core[b] = NoBlock
    BY DEF MemoryInv, BlocksInv
  <2> QED  BY <2>1 DEF IsBlock, Fits
<1> QED  BY <1>1, Consistent, PTL

(* The blocks: writers that took turns left all of their updates in it.    *)
THEOREM NoUpdateLost == Spec => []UpdatesKept
<1>1. MemoryInv => UpdatesKept
  BY DEF MemoryInv, TurnsInv, UpdatesKept
<1> QED  BY <1>1, Consistent, PTL

(* The tables: nothing is in one twice.                                    *)
THEOREM NoDuplicates == Spec => []NothingCopiedTwice
<1>1. MemoryInv => NothingCopiedTwice
  <2> SUFFICES ASSUME MemoryInv, NEW b \in Backends
               PROVE  /\ \A i, j \in DOMAIN recall[b] : recall[b][i].n = recall[b][j].n => i = j
                      /\ \A i, j \in DOMAIN archive[b] : archive[b][i] = archive[b][j] => i = j
    BY DEF NothingCopiedTwice
  <2>1. /\ Once(recall[b]) /\ NoTwins(ToSet(recall[b]))
        /\ recall[b] \in RowSeqs /\ Once(archive[b])
    BY DEF MemoryInv, RowsInv, PassagesInv, MemoryTypeOK
  <2>2. ASSUME NEW i \in DOMAIN recall[b], NEW j \in DOMAIN recall[b],
               recall[b][i].n = recall[b][j].n
        PROVE  i = j
    <3>1. recall[b][i] \in ToSet(recall[b]) /\ recall[b][j] \in ToSet(recall[b])
      BY DEF ToSet
    <3>2. recall[b][i] = recall[b][j]
      BY <2>1, <2>2, <3>1 DEF NoTwins
    <3> QED  BY <2>1, <3>2 DEF Once
  <2> QED  BY <2>1, <2>2 DEF Once
<1> QED  BY <1>1, Consistent, PTL

(* The migration: after Done, what the source had first is there.          *)
THEOREM MigrationComplete == Spec => []RunCopiesAll
<1>1. MemoryInv => RunCopiesAll
  BY DEF MemoryInv
<1> QED  BY <1>1, Consistent, PTL

(* The job: what a record names is in the same backend's store.            *)
THEOREM RecordsTrue == Spec => []RecordedHasPassage
<1>1. MemoryInv => RecordedHasPassage
  <2> SUFFICES ASSUME MemoryInv, ~past.again, NEW i \in DOMAIN recall[active],
                      recall[active][i].kind = "record"
               PROVE  recall[active][i].n \in ToSet(archive[active])
    BY DEF RecordedHasPassage
  <2>1. recall[active][i].n \in Named(recall[active])
    BY DEF Named, ToSet
  <2>2. CASE active = "lite"
    BY <2>1, <2>2 DEF MemoryInv, NamesInv
  <2>3. CASE active = "pg"
    <3>1. past.finished /\ mig.stage = "idle"
      BY <2>3 DEF MemoryInv, RunsInv
    <3> QED  BY <2>1, <2>3, <3>1 DEF MemoryInv, NamesInv
  <2> QED  BY <2>2, <2>3 DEF MemoryInv, MemoryTypeOK, Backends
<1> QED  BY <1>1, Consistent, PTL

(* The re-embedding: what the collection took it keeps or will have again. *)
THEOREM NoPassageLost == Spec => []PassagesSurvive
<1>1. MemoryInv => PassagesSurvive
  BY DEF MemoryInv
<1> QED  BY <1>1, Consistent, PTL

(* The logs and what reads them in steps are as their invariants say,      *)
(* which rest on the rest: these two are inductive beside MemoryInv.       *)
LogsInv == WalkInv /\ OrderInv

\* What is about the logs only stays so while they do.
LEMMA LogsKept ==
    ASSUME LogsInv, UNCHANGED memory
    PROVE  LogsInv'
<1>a. UNCHANGED <<recall, walk, mig, past>>
  BY DEF memory, stores, tools, migrations
<1>1. WalkInv'
  BY <1>a DEF LogsInv, WalkInv, WalkSeesAll, TextsAt, Messages
<1>2. OrderInv'
  BY <1>a DEF LogsInv, OrderInv, SourceLocked
<1> QED  BY <1>1, <1>2 DEF LogsInv

(* Every reachable state is as the two parts say of the logs: what a walk  *)
(* has shown, and what a run has copied.                                   *)
THEOREM LogsConsistent == Spec => []LogsInv
<1>1. Init => LogsInv
  <2> SUFFICES ASSUME Init PROVE LogsInv
    OBVIOUS
  <2>1. walk.stage = "none" /\ mig.stage = "idle"
    BY DEF Init, MemoryInit, ToolsInit, MigrationInit, NoWalk, NoRun
  <2>2. recall["lite"] = <<>>
    BY DEF Init, MemoryInit, StoresInit, Backends
  <2>3. DOMAIN recall["lite"] = {}
    BY <2>2
  <2>4. WalkInv
    BY <2>1 DEF WalkInv, WalkSeesAll
  <2>5. OrderInv
    BY <2>1, <2>3 DEF OrderInv, SourceLocked, InOrder
  <2> QED  BY <2>4, <2>5 DEF LogsInv
<1>2. MemoryInv /\ LogsInv /\ [Next]_vars => LogsInv'
  <2> SUFFICES ASSUME MemoryInv, LogsInv, [Next]_vars PROVE LogsInv'
    OBVIOUS
  <2>1. CASE MemoryNext
    BY <2>1, WalkStep, OrderStep DEF LogsInv
  <2>2. CASE UNCHANGED memory
    BY <2>2, LogsKept
  <2>3. CASE UNCHANGED vars
    BY <2>3, LogsKept DEF vars
  <2> QED  BY <2>1, <2>2, <2>3 DEF Next
<1> QED  BY <1>1, <1>2, Consistent, PTL DEF Spec

(* The search: a model that reads to the last page has seen every message, *)
(* whatever turns, the job and the migrations add to the log between two.  *)
THEOREM WalkComplete == Spec => []WalkSeesAll
<1>1. LogsInv => WalkSeesAll
  BY DEF LogsInv, WalkInv
<1> QED  BY <1>1, LogsConsistent, PTL

(* The migration: the copies keep the order of the log they are from.      *)
THEOREM CopiesOrdered == Spec => []CopiedInOrder
<1>1. LogsInv => CopiedInOrder
  BY DEF LogsInv, OrderInv, InOrder, CopiedInOrder
<1> QED  BY <1>1, LogsConsistent, PTL

(* The job: no pass sends a row it must keep, nor rows that say together   *)
(* what none of them says.                                                 *)
THEOREM NothingWithheldSent == Spec => []WithheldStayHome
<1>1. Init => WithheldStayHome
  <2>1. Init => DOMAIN outbound = {}
    BY DEF Init, MemoryInit, JobInit
  <2> QED  BY <2>1 DEF WithheldStayHome, JointlySensitive
<1>2. WithheldStayHome /\ [Next]_vars => WithheldStayHome'
  <2> SUFFICES ASSUME WithheldStayHome, [Next]_vars PROVE WithheldStayHome'
    OBVIOUS
  <2>1. CASE UNCHANGED outbound
    BY <2>1 DEF WithheldStayHome, JointlySensitive
  <2>2. CASE outbound' = Transcript /\ ~JointlySensitive(Transcript)
    <3>1. \A id \in DOMAIN Transcript : Sendable(Transcript[id])
      BY DEF Transcript, Payload
    <3> HIDE DEF Transcript
    <3> QED  BY <2>2, <3>1 DEF WithheldStayHome, JointlySensitive
  <2>3. CASE MemoryNext
    <3>1. UNCHANGED outbound \/ PassStarts
      BY <2>3 DEF MemoryNext, JobNext, PassStops, PassAnswered, PassInserts, PassRecords,
         Switch, JobRestart, jobs
    <3>2. PassStarts =>
             UNCHANGED outbound \/ (outbound' = Transcript /\ ~JointlySensitive(Transcript))
      BY DEF PassStarts, jobs
    <3> QED  BY <2>1, <2>2, <3>1, <3>2
  <2>4. CASE UNCHANGED memory
    BY <2>1, <2>4 DEF memory, jobs
  <2> QED  BY <2>3, <2>4 DEF Next, vars
<1> QED  BY <1>1, <1>2, PTL DEF Spec
=============================================================================
