-------------------------- MODULE TranscriptProofs --------------------------
(***************************************************************************)
(* Proofs about the queue of messages: that it is a transcript a provider  *)
(* accepts, that a turn is warned once, and how long it grows.             *)
(***************************************************************************)
EXTENDS TurnCycleProofs

(* The nodes at which the model's calls wait for their results.            *)
Calling == {"security_gate", "suspended", "dispatch_tools"}

(* A tool's message behind the calls it answers, and calls with answers.   *)
FollowsCall(queue, i) ==
    \E j \in 1..(i - 1) :
        /\ queue[j].role = "assistant"
        /\ queue[i].ids \subseteq queue[j].ids
        /\ AllTools(queue, j + 1, i - 1)

IsAnswered(queue, i) ==
    \A id \in queue[i].ids :
        \E j \in (i + 1)..Len(queue) : Answers(queue[j], id) /\ AllTools(queue, i + 1, j)

(* A message is where it may be in a transcript.                           *)
Placed(queue, i) ==
    /\ queue[i].role = "tool" => FollowsCall(queue, i)
    /\ queue[i].role = "assistant" => IsAnswered(queue, i)

(* dispatch_tools has answered the calls it is past, in their order.       *)
AnswersInv ==
    /\ pc = "dispatch_tools" => Len(local.answers) = local.at - 1
    /\ \A k \in DOMAIN local.answers :
          /\ local.answers[k].role = "tool"
          /\ local.answers[k].ids = {k}
          /\ local.answers[k].body # "warning"

(* While calls wait, the message that asks for them is the last, and only  *)
(* it is still without its answers.                                        *)
TranscriptInv ==
    IF pc \in Calling
    THEN /\ Len(messages) > 0
         /\ messages[Len(messages)] = AssistantMessage(pending_tool_calls)
         /\ \A i \in 1..(Len(messages) - 1) : Placed(messages, i)
    ELSE \A i \in 1..Len(messages) : Placed(messages, i)

(* Until the first round has warned, the user's message is the last.       *)
WarnedInv ==
    /\ OneWarningPerTurn
    /\ pc = "inject_warning" => heartbeat_count = 0
    /\ pc \in {"build_prompt", "pressure_check", "inject_warning"} /\ heartbeat_count = 0 =>
          Len(messages) > 0 /\ messages[Len(messages)] = UserMessage("plain")

-----------------------------------------------------------------------------
(* Sequences of messages                                                   *)

(* What an eviction leaves, place by place.                                *)
LEMMA RetainedPlaces ==
    ASSUME NEW queue \in Seq(Message), NEW cut \in 1..(Len(queue) - 1)
    PROVE  /\ Retained(queue, cut) \in Seq(Message)
           /\ Len(Retained(queue, cut)) = 1 + Len(queue) - cut
           /\ Retained(queue, cut)[1] = UserMessage("notice")
           /\ \A i \in 2..(1 + Len(queue) - cut) :
                 Retained(queue, cut)[i] = queue[cut + i - 1]
<1> DEFINE head == <<UserMessage("notice")>>
           rest == SubSeq(queue, cut + 1, Len(queue))
<1>1. head \in Seq(Message) /\ Len(head) = 1 /\ head[1] = UserMessage("notice")
  BY DEF UserMessage, Message, Bodies
<1>2. /\ rest \in Seq(Message)
      /\ Len(rest) = Len(queue) - cut
      /\ \A i \in 1..(Len(queue) - cut) : rest[i] = queue[cut + i]
  <2>1. Len(queue) \in Nat /\ \A i \in (cut + 1)..Len(queue) : queue[i] \in Message
    OBVIOUS
  <2>2. /\ rest \in Seq(Message)
        /\ Len(rest) = IF cut + 1 <= Len(queue) THEN Len(queue) - (cut + 1) + 1 ELSE 0
        /\ \A i \in 1..(Len(queue) - (cut + 1) + 1) : rest[i] = queue[cut + 1 + i - 1]
    BY <2>1, SubSeqProperties
  <2> QED  BY <2>1, <2>2
<1> HIDE DEF head, rest
<1>3. /\ head \o rest \in Seq(Message)
      /\ Len(head \o rest) = Len(head) + Len(rest)
      /\ \A i \in 1..(Len(head) + Len(rest)) :
            (head \o rest)[i] = IF i <= Len(head) THEN head[i] ELSE rest[i - Len(head)]
  BY <1>1, <1>2, ConcatProperties
<1>4. Len(queue) \in Nat
  OBVIOUS
<1>5. ASSUME NEW i \in 2..(1 + Len(queue) - cut)
      PROVE  (head \o rest)[i] = queue[cut + i - 1]
  <2>1. (head \o rest)[i] = rest[i - 1] /\ i - 1 \in 1..(Len(queue) - cut)
    BY <1>1, <1>2, <1>3, <1>4
  <2> QED  BY <1>2, <1>4, <2>1
<1>6. Len(head \o rest) = 1 + Len(queue) - cut /\ (head \o rest)[1] = UserMessage("notice")
  BY <1>1, <1>2, <1>3, <1>4
<1> QED  BY <1>3, <1>5, <1>6 DEF Retained, head, rest

(* A message stays placed when others come after it.                       *)
LEMMA StaysPlaced ==
    ASSUME NEW queue \in Seq(Message), NEW longer \in Seq(Message),
           NEW n \in 0..Len(queue), Len(queue) <= Len(longer),
           \A i \in 1..Len(queue) : longer[i] = queue[i],
           \A i \in 1..n : Placed(queue, i)
    PROVE  \A i \in 1..n : Placed(longer, i)
<1> SUFFICES ASSUME NEW i \in 1..n
             PROVE  Placed(longer, i)
  OBVIOUS
<1>0. Len(queue) \in Nat /\ Len(longer) \in Nat /\ i \in 1..Len(queue) /\ longer[i] = queue[i]
  OBVIOUS
<1>1. ASSUME longer[i].role = "tool"
      PROVE  \E j \in 1..(i - 1) : /\ longer[j].role = "assistant"
                                   /\ longer[i].ids \subseteq longer[j].ids
                                   /\ AllTools(longer, j + 1, i - 1)
  <2>1. PICK j \in 1..(i - 1) : /\ queue[j].role = "assistant"
                                /\ queue[i].ids \subseteq queue[j].ids
                                /\ AllTools(queue, j + 1, i - 1)
    BY <1>0, <1>1 DEF Placed, FollowsCall, IsAnswered
  <2>2. longer[j] = queue[j] /\ AllTools(longer, j + 1, i - 1)
    BY <1>0, <2>1 DEF AllTools
  <2> QED  BY <1>0, <2>1, <2>2
<1>2. ASSUME longer[i].role = "assistant", NEW id \in longer[i].ids
      PROVE  \E j \in (i + 1)..Len(longer) :
                 Answers(longer[j], id) /\ AllTools(longer, i + 1, j)
  <2>1. PICK j \in (i + 1)..Len(queue) : Answers(queue[j], id) /\ AllTools(queue, i + 1, j)
    BY <1>0, <1>2 DEF Placed, FollowsCall, IsAnswered
  <2>2. longer[j] = queue[j] /\ AllTools(longer, i + 1, j) /\ j \in (i + 1)..Len(longer)
    BY <1>0, <2>1 DEF AllTools
  <2> QED  BY <2>1, <2>2
<1> QED  BY <1>1, <1>2 DEF Placed, FollowsCall, IsAnswered

(* A message is put behind a transcript, and is not a tool's.              *)
LEMMA Extended ==
    ASSUME NEW queue \in Seq(Message), NEW m \in Message
    PROVE  /\ Append(queue, m) \in Seq(Message)
           /\ Len(Append(queue, m)) = Len(queue) + 1
           /\ Append(queue, m)[Len(queue) + 1] = m
           /\ \A i \in 1..Len(queue) : Append(queue, m)[i] = queue[i]
           /\ (\A i \in 1..Len(queue) : Placed(queue, i)) =>
                 /\ \A i \in 1..Len(queue) : Placed(Append(queue, m), i)
                 /\ m.role = "user" \/ (m.role = "assistant" /\ m.ids = {}) =>
                       \A i \in 1..(Len(queue) + 1) : Placed(Append(queue, m), i)
<1>1. /\ Append(queue, m) \in Seq(Message)
      /\ Len(Append(queue, m)) = Len(queue) + 1
      /\ Append(queue, m)[Len(queue) + 1] = m
      /\ \A i \in 1..Len(queue) : Append(queue, m)[i] = queue[i]
      /\ Len(queue) \in Nat
  BY AppendProperties
<1>2. ASSUME \A i \in 1..Len(queue) : Placed(queue, i)
      PROVE  \A i \in 1..Len(queue) : Placed(Append(queue, m), i)
  <2>1. Len(queue) \in 0..Len(queue) /\ Len(queue) <= Len(Append(queue, m))
    BY <1>1
  <2> HIDE DEF Placed
  <2> QED  BY <1>1, <1>2, <2>1, StaysPlaced
<1>3. m.role = "user" \/ (m.role = "assistant" /\ m.ids = {}) =>
          Placed(Append(queue, m), Len(queue) + 1)
  BY <1>1 DEF Placed, FollowsCall, IsAnswered
<1>4. \A i \in 1..(Len(queue) + 1) : i \in 1..Len(queue) \/ i = Len(queue) + 1
  BY <1>1
<1> QED  BY <1>1, <1>2, <1>3, <1>4

(* Two sequences, one behind the other, place by place.                    *)
LEMMA ConcatPlaces ==
    ASSUME NEW queue \in Seq(Message), NEW answers \in Seq(Message)
    PROVE  /\ queue \o answers \in Seq(Message)
           /\ Len(queue \o answers) = Len(queue) + Len(answers)
           /\ \A i \in 1..Len(queue) : (queue \o answers)[i] = queue[i]
           /\ \A k \in 1..Len(answers) : (queue \o answers)[Len(queue) + k] = answers[k]
<1>1. /\ queue \o answers \in Seq(Message)
      /\ Len(queue \o answers) = Len(queue) + Len(answers)
      /\ \A i \in 1..(Len(queue) + Len(answers)) :
            (queue \o answers)[i] = IF i <= Len(queue) THEN queue[i]
                                                    ELSE answers[i - Len(queue)]
  BY ConcatProperties
<1> QED  BY <1>1

(* The answers come behind the message that asks for them, and all of it   *)
(* is a transcript.                                                        *)
LEMMA Closed ==
    ASSUME NEW queue \in Seq(Message), NEW answers \in Seq(Message),
           NEW calls \in Seq(Kinds), Len(calls) <= MaxCalls, Len(answers) = Len(calls),
           Len(queue) > 0, queue[Len(queue)] = AssistantMessage(calls),
           \A i \in 1..(Len(queue) - 1) : Placed(queue, i),
           \A k \in DOMAIN answers : answers[k].role = "tool" /\ answers[k].ids = {k}
    PROVE  \A i \in 1..Len(queue \o answers) : Placed(queue \o answers, i)
<1> DEFINE whole == queue \o answers
           n == Len(queue)
           m == Len(answers)
<1>1. /\ whole \in Seq(Message) /\ Len(whole) = n + m
      /\ \A i \in 1..n : whole[i] = queue[i]
      /\ \A k \in 1..m : whole[n + k] = answers[k]
  BY ConcatPlaces
<1>2. n \in Nat /\ n >= 1 /\ m \in Nat /\ DOMAIN answers = 1..m
  OBVIOUS
<1>3. /\ whole[n].role = "assistant" /\ whole[n].ids = 1..m
  <2>1. whole[n] = AssistantMessage(calls)
    BY <1>1, <1>2
  <2>2. DOMAIN calls = 1..m
    OBVIOUS
  <2> QED  BY <2>1, <2>2 DEF AssistantMessage
<1>4. \A k \in 1..m : whole[n + k].role = "tool" /\ whole[n + k].ids = {k}
  BY <1>1, <1>2
<1>5. \A i \in 1..(n - 1) : Placed(whole, i)
  <2>1. n - 1 \in 0..n /\ n <= Len(whole)
    BY <1>1, <1>2
  <2> HIDE DEF Placed, whole
  <2> QED  BY <1>1, <2>1, StaysPlaced
<1> HIDE DEF whole, n, m
<1>6. \A i, j \in Int : i >= n + 1 /\ j <= n + m => AllTools(whole, i, j)
  <2>1. SUFFICES ASSUME NEW i \in Int, NEW j \in Int, i >= n + 1, j <= n + m, NEW p \in i..j
                 PROVE  whole[p].role = "tool"
    BY DEF AllTools
  <2>2. p - n \in 1..m /\ n + (p - n) = p
    BY <1>2, <2>1
  <2> QED  BY <1>4, <2>2
<1>7. Placed(whole, n)
  <2>1. ASSUME NEW id \in 1..m
        PROVE  \E j \in (n + 1)..Len(whole) : Answers(whole[j], id) /\ AllTools(whole, n + 1, j)
    <3>1. n + id \in (n + 1)..Len(whole)
      BY <1>1, <1>2
    <3>2. Answers(whole[n + id], id)
      BY <1>4 DEF Answers
    <3>3. AllTools(whole, n + 1, n + id)
      BY <1>2, <1>6
    <3> QED  BY <3>1, <3>2, <3>3
  <2>2. IsAnswered(whole, n)
    BY <1>3, <2>1 DEF IsAnswered
  <2>3. whole[n].role # "tool"
    BY <1>3
  <2> QED  BY <2>2, <2>3 DEF Placed
<1>8. ASSUME NEW k \in 1..m
      PROVE  Placed(whole, n + k)
  <2>1. n \in 1..(n + k - 1) /\ whole[n + k].ids \subseteq whole[n].ids
    <3>1. n \in 1..(n + k - 1)
      BY <1>2
    <3>2. whole[n + k].ids = {k} /\ whole[n].ids = 1..m
      BY <1>3, <1>4
    <3> QED  BY <3>1, <3>2
  <2>2. AllTools(whole, n + 1, n + k - 1)
    <3>1. n + 1 \in Int /\ n + k - 1 \in Int /\ n + 1 >= n + 1 /\ n + k - 1 <= n + m
      BY <1>2
    <3> QED  BY <1>6, <3>1
  <2>3. whole[n + k].role = "tool" /\ whole[n + k].role # "assistant"
    BY <1>4
  <2>4. FollowsCall(whole, n + k)
    BY <1>2, <1>3, <2>1, <2>2 DEF FollowsCall
  <2> QED  BY <2>3, <2>4 DEF Placed
<1>9. ASSUME NEW i \in 1..Len(whole)
      PROVE  Placed(whole, i)
  <2>1. CASE i \in 1..(n - 1)
    BY <1>5, <2>1
  <2>2. CASE i = n
    BY <1>7, <2>2
  <2>3. CASE i > n
    <3>1. i - n \in 1..m /\ n + (i - n) = i
      BY <1>1, <1>2, <2>3
    <3> QED  BY <1>8, <3>1
  <2> QED  BY <1>1, <1>2, <2>1, <2>2, <2>3
<1> QED  BY <1>9 DEF whole

(* A cut in front of a message that is not a tool's leaves a transcript.   *)
LEMMA CutTranscript ==
    ASSUME NEW queue \in Seq(Message), NEW cut \in 1..(Len(queue) - 1),
           queue[cut + 1].role # "tool",
           \A i \in 1..Len(queue) : Placed(queue, i)
    PROVE  \A i \in 1..Len(Retained(queue, cut)) : Placed(Retained(queue, cut), i)
<1> DEFINE rest == Retained(queue, cut)
<1>1. /\ Len(queue) \in Nat /\ cut \in Nat /\ cut >= 1 /\ cut < Len(queue)
      /\ Len(rest) = 1 + Len(queue) - cut
      /\ rest[1] = UserMessage("notice")
      /\ \A i \in 2..(1 + Len(queue) - cut) : rest[i] = queue[cut + i - 1]
  BY RetainedPlaces
<1> HIDE DEF rest
<1>2. Placed(rest, 1)
  BY <1>1 DEF Placed, FollowsCall, IsAnswered, UserMessage
<1>3. \A p \in (cut + 1)..Len(queue) : p - cut + 1 \in 2..Len(rest) /\ rest[p - cut + 1] = queue[p]
  <2>1. SUFFICES ASSUME NEW p \in (cut + 1)..Len(queue)
                 PROVE  p - cut + 1 \in 2..Len(rest) /\ rest[p - cut + 1] = queue[p]
    OBVIOUS
  <2>2. p - cut + 1 \in 2..(1 + Len(queue) - cut) /\ cut + (p - cut + 1) - 1 = p
    BY <1>1
  <2> QED  BY <1>1, <2>2
<1>4. \A from, to \in Int : from >= cut + 1 /\ to <= Len(queue) /\ AllTools(queue, from, to) =>
          AllTools(rest, from - cut + 1, to - cut + 1)
  <2>1. SUFFICES ASSUME NEW from \in Int, NEW to \in Int, from >= cut + 1, to <= Len(queue),
                        AllTools(queue, from, to), NEW k \in (from - cut + 1)..(to - cut + 1)
                 PROVE  rest[k].role = "tool"
    BY DEF AllTools
  <2>2. k + cut - 1 \in from..to /\ k + cut - 1 \in (cut + 1)..Len(queue)
        /\ (k + cut - 1) - cut + 1 = k
    BY <1>1, <2>1
  <2>3. queue[k + cut - 1].role = "tool"
    BY <2>1, <2>2 DEF AllTools
  <2> QED  BY <1>3, <2>2, <2>3
<1>5. ASSUME NEW p \in (cut + 1)..Len(queue)
      PROVE  Placed(rest, p - cut + 1)
  <2>0. Placed(queue, p) /\ rest[p - cut + 1] = queue[p] /\ p \in Int /\ p >= cut + 1
        /\ p <= Len(queue)
    BY <1>1, <1>3, <1>5
  <2>1. ASSUME queue[p].role = "tool"
        PROVE  \E j \in 1..(p - cut) : /\ rest[j].role = "assistant"
                                       /\ queue[p].ids \subseteq rest[j].ids
                                       /\ AllTools(rest, j + 1, p - cut)
    <3>1. PICK j \in 1..(p - 1) : /\ queue[j].role = "assistant"
                                  /\ queue[p].ids \subseteq queue[j].ids
                                  /\ AllTools(queue, j + 1, p - 1)
      BY <2>0, <2>1 DEF Placed, FollowsCall, IsAnswered
    <3>2. j > cut
      <4>1. SUFFICES ASSUME j <= cut PROVE FALSE
        BY <1>1
      <4>2. p # cut + 1
        BY <2>1
      <4>3. cut + 1 \in (j + 1)..(p - 1)
        <5>1. p \in Int /\ p >= cut + 1 /\ cut \in Nat /\ j \in Int
          BY <1>1, <2>0
        <5>2. p - 1 >= cut + 1
          BY <4>2, <5>1
        <5> QED  BY <4>1, <5>1, <5>2
      <4> QED  BY <3>1, <4>3 DEF AllTools
    <3>3. j \in (cut + 1)..Len(queue) /\ j - cut + 1 \in 1..(p - cut)
      BY <1>1, <2>0, <3>2
    <3>4. AllTools(rest, (j - cut + 1) + 1, p - cut)
      <4>1. (j + 1) - cut + 1 = (j - cut + 1) + 1 /\ (p - 1) - cut + 1 = p - cut
        BY <1>1, <2>0
      <4>2. j + 1 \in Int /\ p - 1 \in Int /\ j + 1 >= cut + 1 /\ p - 1 <= Len(queue)
        BY <1>1, <2>0, <3>2
      <4>3. AllTools(rest, (j + 1) - cut + 1, (p - 1) - cut + 1)
        BY <1>4, <3>1, <4>2
      <4> QED  BY <4>1, <4>3
    <3>5. rest[j - cut + 1] = queue[j]
      BY <1>3, <3>3
    <3> QED  BY <3>1, <3>3, <3>4, <3>5
  <2>2. ASSUME queue[p].role = "assistant", NEW id \in queue[p].ids
        PROVE  \E j \in ((p - cut + 1) + 1)..Len(rest) :
                   Answers(rest[j], id) /\ AllTools(rest, (p - cut + 1) + 1, j)
    <3>1. PICK j \in (p + 1)..Len(queue) : Answers(queue[j], id) /\ AllTools(queue, p + 1, j)
      BY <2>0, <2>2 DEF Placed, FollowsCall, IsAnswered
    <3>2. j \in (cut + 1)..Len(queue) /\ j - cut + 1 \in ((p - cut + 1) + 1)..Len(rest)
      BY <1>1, <2>0
    <3>3. AllTools(rest, (p - cut + 1) + 1, j - cut + 1)
      <4>1. (p + 1) - cut + 1 = (p - cut + 1) + 1
        BY <1>1, <2>0
      <4>2. p + 1 \in Int /\ j \in Int /\ p + 1 >= cut + 1 /\ j <= Len(queue)
        BY <1>1, <2>0
      <4>3. AllTools(rest, (p + 1) - cut + 1, j - cut + 1)
        BY <1>4, <3>1, <4>2
      <4> QED  BY <4>1, <4>3
    <3>4. rest[j - cut + 1] = queue[j]
      BY <1>3, <3>2
    <3> QED  BY <3>1, <3>2, <3>3, <3>4
  <2>3. (p - cut + 1) - 1 = p - cut
    BY <1>1, <2>0
  <2> QED  BY <2>0, <2>1, <2>2, <2>3 DEF Placed, FollowsCall, IsAnswered
<1>6. ASSUME NEW i \in 1..Len(rest)
      PROVE  Placed(rest, i)
  <2>1. i = 1 \/ (i + cut - 1 \in (cut + 1)..Len(queue) /\ (i + cut - 1) - cut + 1 = i)
    BY <1>1
  <2> QED  BY <1>2, <1>5, <2>1
<1> QED  BY <1>6 DEF rest

(* Rewriting bodies leaves a transcript.                                   *)
LEMMA RewrittenTranscript ==
    ASSUME NEW queue \in Seq(Message), NEW other \in Seq(Message), Len(other) = Len(queue),
           \A i \in 1..Len(queue) : other[i].role = queue[i].role /\ other[i].ids = queue[i].ids,
           \A i \in 1..Len(queue) : Placed(queue, i)
    PROVE  \A i \in 1..Len(queue) : Placed(other, i)
<1> SUFFICES ASSUME NEW i \in 1..Len(queue)
             PROVE  Placed(other, i)
  OBVIOUS
<1>0. /\ Len(queue) \in Nat /\ Placed(queue, i)
      /\ other[i].role = queue[i].role /\ other[i].ids = queue[i].ids
  OBVIOUS
<1>1. ASSUME queue[i].role = "tool"
      PROVE  \E j \in 1..(i - 1) : /\ other[j].role = "assistant"
                                   /\ other[i].ids \subseteq other[j].ids
                                   /\ AllTools(other, j + 1, i - 1)
  <2>1. PICK j \in 1..(i - 1) : /\ queue[j].role = "assistant"
                                /\ queue[i].ids \subseteq queue[j].ids
                                /\ AllTools(queue, j + 1, i - 1)
    BY <1>0, <1>1 DEF Placed, FollowsCall, IsAnswered
  <2>2. j \in 1..Len(queue) /\ AllTools(other, j + 1, i - 1)
    BY <1>0, <2>1 DEF AllTools
  <2> QED  BY <1>0, <2>1, <2>2
<1>2. ASSUME queue[i].role = "assistant", NEW id \in queue[i].ids
      PROVE  \E j \in (i + 1)..Len(other) : Answers(other[j], id) /\ AllTools(other, i + 1, j)
  <2>1. PICK j \in (i + 1)..Len(queue) : Answers(queue[j], id) /\ AllTools(queue, i + 1, j)
    BY <1>0, <1>2 DEF Placed, FollowsCall, IsAnswered
  <2>2. j \in 1..Len(queue) /\ AllTools(other, i + 1, j)
    BY <1>0, <2>1 DEF AllTools
  <2> QED  BY <2>1, <2>2 DEF Answers
<1> QED  BY <1>0, <1>1, <1>2 DEF Placed, FollowsCall, IsAnswered

-----------------------------------------------------------------------------
(* What dispatch_tools does to the queue                                   *)

(* One call is answered, with nothing a warning says.                      *)
LEMMA AnswerAdded ==
    ASSUME TypeOK, DispatchRefused \/ DispatchSend \/ DispatchExternal \/ DispatchMemory
    PROVE  /\ \E body \in {"plain", "empty", "raw"} :
                 local'.answers = Append(local.answers, ToolMessage(local.at, body))
           /\ local'.at = local.at + 1
           /\ pc = "dispatch_tools"
           /\ UNCHANGED <<pc, messages, pending_tool_calls, heartbeat_count, input_tokens>>
<1>0. local \in LocalType
  BY DEF TypeOK
<1>1. CASE DispatchRefused
  BY <1>0, <1>1 DEF DispatchRefused, DispatchUnchanged, HasCall, Answered, ckpt, LocalType
<1>2. CASE DispatchSend
  BY <1>0, <1>2 DEF DispatchSend, DispatchUnchanged, HasCall, Answered, ckpt, LocalType
<1>3. CASE DispatchExternal
  <2> DEFINE body == IF Untrusted(Current) THEN "raw" ELSE "plain"
  <2>1. /\ local'.answers = Append(local.answers, ToolMessage(local.at, body))
        /\ local'.at = local.at + 1
    BY <1>0, <1>3 DEF DispatchExternal, Answered, LocalType
  <2>2. body \in {"plain", "empty", "raw"}
    OBVIOUS
  <2> QED  BY <1>3, <2>1, <2>2 DEF DispatchExternal, DispatchUnchanged, HasCall, ckpt
<1>4. CASE DispatchMemory
  <2>1. PICK heartbeat \in BOOLEAN, body \in {"plain", "empty"} :
            local' = [Answered(body) EXCEPT
                         !.offloaded = @ \/ (Current = "insert" /\ body = "plain"),
                         !.found = @ \cup {local.at},
                         !.wants = @ \/ heartbeat]
    BY <1>4, Zenon DEF DispatchMemory
  <2>2. DOMAIN Answered(body) = DOMAIN local /\ DOMAIN local = DOMAIN FreshLocal
    BY <1>0 DEF Answered, LocalType, FreshLocal
  <2>3. local'.answers = Answered(body).answers /\ local'.at = Answered(body).at
    BY <2>1, <2>2 DEF FreshLocal
  <2>4. /\ Answered(body).answers = Append(local.answers, ToolMessage(local.at, body))
        /\ Answered(body).at = local.at + 1
    BY <1>0 DEF Answered, LocalType
  <2> QED  BY <1>4, <2>3, <2>4 DEF DispatchMemory, DispatchUnchanged, HasCall, ckpt
<1> QED  BY <1>1, <1>2, <1>3, <1>4

(* Half of a number, rounded down, and what is at least that much.         *)
LEMMA HalfOfIt == \A n \in Nat : n \div 2 \in Nat /\ 2 * (n \div 2) <= n
                                    /\ n <= 2 * (n \div 2) + 1
  OBVIOUS

LEMMA Half ==
    ASSUME NEW n \in Nat, NEW cut \in (n \div 2)..n
    PROVE  /\ n \div 2 \in Nat
           /\ cut \in Nat
           /\ cut >= n \div 2
           /\ cut <= n
           /\ cut = 0 => n <= 1
           /\ n <= 2 * cut + 1
  OBVIOUS

(* The commit puts the answers behind the queue, and may cut what is in    *)
(* front: not within the answers to one response, and not all of it.       *)
LEMMA CommitCuts ==
    ASSUME TypeOK, DispatchCommit,
           NEW queue, queue = messages \o local.answers
    PROVE  /\ queue \in Seq(Message)
           /\ \/ /\ ~PagesOut
                 /\ messages' = queue
              \/ /\ messages' = queue
                 /\ \/ Len(queue) < MinMessages \/ Len(queue) <= 1
                    \/ \A i \in (Len(queue) \div 2)..(Len(queue) - 1) : queue[i + 1].role = "tool"
              \/ \E cut \in 1..(Len(queue) - 1) :
                     /\ cut >= Len(queue) \div 2
                     /\ queue[cut + 1].role # "tool"
                     /\ messages' = Retained(queue, cut)
<1>1. queue \in Seq(Message) /\ Len(queue) \in Nat /\ Len(queue) \div 2 \in Nat
  BY ConcatPlaces DEF TypeOK, LocalType
<1>2. \/ PagesOut /\ Evict(queue)
      \/ ~PagesOut /\ messages' = queue
  BY DEF DispatchCommit
<1>3. ASSUME Evict(queue)
      PROVE  \/ /\ messages' = queue
                /\ \/ Len(queue) < MinMessages \/ Len(queue) <= 1
                   \/ \A i \in (Len(queue) \div 2)..(Len(queue) - 1) : queue[i + 1].role = "tool"
             \/ \E cut \in 1..(Len(queue) - 1) :
                    /\ cut >= Len(queue) \div 2
                    /\ queue[cut + 1].role # "tool"
                    /\ messages' = Retained(queue, cut)
  <2>1. PICK cut \in (Len(queue) \div 2)..Len(queue) :
            /\ IsSafeCut(queue, Len(queue) \div 2, cut)
            /\ IF Len(queue) < MinMessages \/ cut <= 0 \/ cut >= Len(queue)
               THEN messages' = queue /\ UNCHANGED input_tokens
               ELSE messages' = Retained(queue, cut) /\ input_tokens' = Len(messages') + 1
    BY <1>3 DEF Evict
  <2>2. /\ cut \in Nat /\ cut >= Len(queue) \div 2 /\ cut <= Len(queue)
        /\ cut = 0 => Len(queue) <= 1
    BY <1>1, Half
  <2>3. /\ Len(queue) < MinMessages \/ cut <= 0 \/ cut >= Len(queue) => messages' = queue
        /\ ~(Len(queue) < MinMessages \/ cut <= 0 \/ cut >= Len(queue)) =>
               messages' = Retained(queue, cut)
    BY <2>1, Zenon
  <2>4. /\ \A i \in (Len(queue) \div 2)..(cut - 1) : queue[i + 1].role = "tool"
        /\ cut < Len(queue) => queue[cut + 1].role # "tool"
    BY <2>1 DEF IsSafeCut
  <2>5. CASE Len(queue) < MinMessages
    BY <2>3, <2>5
  <2>6. CASE cut = Len(queue)
    <3>1. messages' = queue
      BY <1>1, <2>3, <2>6
    <3> QED  BY <2>4, <2>6, <3>1
  <2>7. CASE cut <= 0
    <3>1. Len(queue) <= 1
      BY <1>1, <2>2, <2>7
    <3> QED  BY <2>3, <2>7, <3>1
  <2>8. CASE cut > 0 /\ cut # Len(queue) /\ ~(Len(queue) < MinMessages)
    <3>1. cut \in 1..(Len(queue) - 1) /\ cut < Len(queue)
      BY <1>1, <2>2, <2>8
    <3>2. messages' = Retained(queue, cut)
      <4>1. ~(cut <= 0) /\ ~(cut >= Len(queue))
        BY <1>1, <2>2, <2>8
      <4> QED  BY <2>3, <2>8, <4>1
    <3> QED  BY <2>2, <2>4, <3>1, <3>2
  <2>9. cut <= 0 \/ cut > 0
    BY <2>2
  <2> QED  BY <2>5, <2>6, <2>7, <2>8, <2>9, Zenon
<1> QED  BY <1>1, <1>2, <1>3

-----------------------------------------------------------------------------
(* The inductive steps                                                     *)

(* The answers are those of the calls dispatch_tools is past.              *)
LEMMA AnswersStep ==
    ASSUME IInv, AnswersInv, [Next]_vars
    PROVE  AnswersInv'
<1>0. /\ TypeOK /\ local \in LocalType /\ local.at \in Nat /\ local.answers \in Seq(Message)
      /\ pc # "dispatch_tools" => local = FreshLocal
      /\ FreshLocal.at = 1 /\ FreshLocal.answers = <<>>
      /\ Len(<<>>) = 0 /\ DOMAIN <<>> = {}
  BY DEF IInv, TypeOK, CallsInv, LocalType, FreshLocal
<1>1. CASE DispatchRefused \/ DispatchSend \/ DispatchExternal \/ DispatchMemory
  <2>1. PICK body \in {"plain", "empty", "raw"} :
            local'.answers = Append(local.answers, ToolMessage(local.at, body))
    BY <1>0, <1>1, AnswerAdded
  <2>2. local'.at = local.at + 1 /\ pc = "dispatch_tools" /\ pc' = pc
    BY <1>0, <1>1, AnswerAdded
  <2>3. Len(local.answers) = local.at - 1
    BY <2>2 DEF AnswersInv
  <2> DEFINE m == ToolMessage(local.at, body)
  <2>4. m.role = "tool" /\ m.ids = {local.at} /\ m.body # "warning"
    BY DEF ToolMessage
  <2> HIDE DEF m
  <2>5. /\ Len(local'.answers) = Len(local.answers) + 1
        /\ DOMAIN local'.answers = 1..local.at
        /\ \A k \in 1..(local.at - 1) : local'.answers[k] = local.answers[k]
        /\ local'.answers[local.at] = m
    <3>1. local'.answers = Append(local.answers, m)
      BY <2>1 DEF m
    <3>2. Len(local.answers) \in Nat
      BY <1>0
    <3> QED  BY <1>0, <2>3, <3>1, <3>2
  <2>6. ASSUME NEW k \in 1..local.at
        PROVE  /\ local'.answers[k].role = "tool"
               /\ local'.answers[k].ids = {k}
               /\ local'.answers[k].body # "warning"
    <3>1. CASE k = local.at
      BY <2>4, <2>5, <3>1
    <3>2. CASE k # local.at
      <4>1. k \in 1..(local.at - 1) /\ k \in DOMAIN local.answers
        BY <1>0, <2>3, <3>2
      <4> QED  BY <2>5, <4>1 DEF AnswersInv
    <3> QED  BY <3>1, <3>2
  <2> QED  BY <1>0, <2>2, <2>3, <2>5, <2>6 DEF AnswersInv
<1>2. CASE local' = FreshLocal
  BY <1>0, <1>2 DEF AnswersInv
<1>3. CASE local' = local /\ pc' # "dispatch_tools"
  BY <1>0, <1>3 DEF AnswersInv
<1>4. CASE UNCHANGED vars
  BY <1>4 DEF vars, AnswersInv
<1>5. ASSUME Step \/ Reset \/ DispatchCommit \/ Fault
             \/ BuildPrompt \/ PressureCheck \/ InjectWarning \/ CallLLM \/ ProvidersExhausted
             \/ Suspend \/ SanitizeResults \/ Respond
      PROVE  local' = FreshLocal \/ (local' = local /\ pc' # "dispatch_tools")
  <2>1. CASE CallLLM
    BY <2>1, CallLLMAnswers DEF ModelAnswers, Advance
  <2>2. CASE Step \/ Reset \/ DispatchCommit \/ Fault
    BY <2>2 DEF Step, Reset, DispatchCommit, Fault
  <2>3. CASE BuildPrompt \/ PressureCheck \/ InjectWarning \/ ProvidersExhausted \/ Respond
    BY <2>3 DEF BuildPrompt, PressureCheck, InjectWarning, ProvidersExhausted, Respond, Advance
  <2>4. CASE Suspend
    BY <2>4 DEF Suspend, Advance, GateUnchanged
  <2>5. CASE SanitizeResults
    BY <2>5 DEF SanitizeResults, Advance, RouteHeartbeat
  <2> QED  BY <1>5, <2>1, <2>2, <2>3, <2>4, <2>5
<1>6. ASSUME SecurityGate \/ \E approved \in BOOLEAN : Resume(approved)
      PROVE  local' = FreshLocal
  BY <1>0, <1>6 DEF SecurityGate, Resume, Advance, GateUnchanged
<1> QED  BY <1>1, <1>2, <1>3, <1>4, <1>5, <1>6 DEF Next, Graph, Dispatch

(* What the steps other than a commit of dispatch_tools do to the queue.   *)
LEMMA QueueSteps ==
    ASSUME IInv, [Next]_vars, ~DispatchCommit
    PROVE  \/ /\ messages' = messages
              /\ pc' \in Calling => pc \in Calling /\ pending_tool_calls' = pending_tool_calls
              /\ \/ pc' \notin {"build_prompt", "pressure_check", "inject_warning"}
                 \/ /\ pc \in {"build_prompt", "pressure_check", "inject_warning"}
                    /\ heartbeat_count' = heartbeat_count
                    /\ pc' = "inject_warning" /\ pc # "inject_warning" => heartbeat_count = 0
              /\ pc \in Calling => pc' \in Calling \/ Fault
           \/ /\ messages' = Append(messages, UserMessage("plain"))
              /\ pc = "idle" /\ pc' = "build_prompt"
           \/ /\ messages' = Append(messages, UserMessage("warning"))
              /\ pc = "inject_warning" /\ pc' = "call_llm"
           \/ /\ \E calls \in Seq(Kinds) :
                    /\ messages' = Append(messages, AssistantMessage(calls))
                    /\ pending_tool_calls' = calls
                    /\ pc' = IF calls # <<>> THEN "security_gate" ELSE "respond"
              /\ pc = "call_llm"
           \/ SanitizeResults
           \/ messages' = <<>> /\ pc' = "idle"
<1>1. CASE Step
  BY <1>1 DEF Step, CarriedMessages
<1>2. CASE BuildPrompt
  BY <1>2 DEF BuildPrompt, Advance, ckpt, Calling
<1>3. CASE PressureCheck
  BY <1>3 DEF PressureCheck, Advance, NeedsWarning, Calling
<1>4. CASE InjectWarning
  BY <1>4 DEF InjectWarning, Advance
<1>5. CASE CallLLM
  BY <1>5, CallLLMAnswers DEF ModelAnswers, Advance
<1>6. CASE ProvidersExhausted \/ Respond
  BY <1>6 DEF ProvidersExhausted, Respond, Advance, Calling
<1>7. CASE SecurityGate \/ Suspend \/ \E approved \in BOOLEAN : Resume(approved)
  BY <1>7 DEF SecurityGate, Suspend, Resume, Advance, GateUnchanged, Calling
<1>8. CASE DispatchRefused \/ DispatchSend \/ DispatchExternal \/ DispatchMemory
  <2>1. TypeOK
    BY DEF IInv
  <2> QED  BY <1>8, <2>1, AnswerAdded DEF Calling
<1>9. CASE Fault
  BY <1>9 DEF Fault, ckpt, Calling
<1>10. CASE Reset
  BY <1>10 DEF Reset
<1>11. CASE UNCHANGED vars
  BY <1>11 DEF vars, ckpt, Calling
<1> QED
  BY <1>1, <1>2, <1>3, <1>4, <1>5, <1>6, <1>7, <1>8, <1>9, <1>10, <1>11
  DEF Next, Graph, Dispatch

(* Every step leaves a transcript, but for the calls that wait.            *)
LEMMA TranscriptStep ==
    ASSUME IInv, AnswersInv, MaxFaults = 0, TranscriptInv, [Next]_vars
    PROVE  TranscriptInv'
<1>0. /\ TypeOK /\ messages \in Seq(Message) /\ local.answers \in Seq(Message)
      /\ pending_tool_calls \in Seq(Kinds) /\ Len(pending_tool_calls) <= MaxCalls
      /\ Len(messages) \in Nat
      /\ ~Fault
  BY FaultNeedsBound DEF IInv, TypeOK, CallsInv, LocalType
<1>1. ASSUME NEW m \in Message, m.role = "user", messages' = Append(messages, m),
             pc \notin Calling, pc' \notin Calling
      PROVE  TranscriptInv'
  <2>1. \A i \in 1..(Len(messages) + 1) : Placed(messages', i)
    BY <1>0, <1>1, Extended DEF TranscriptInv
  <2>2. Len(messages') = Len(messages) + 1
    BY <1>0, <1>1, Extended
  <2> QED  BY <1>1, <2>1, <2>2 DEF TranscriptInv
<1>2. CASE DispatchCommit
  <2> DEFINE queue == messages \o local.answers
  <2>1. /\ pc = "dispatch_tools" /\ pc' = "sanitize_results"
        /\ local.at > Len(pending_tool_calls)
    BY <1>2 DEF DispatchCommit, Advance
  <2>2. Len(local.answers) = Len(pending_tool_calls)
    <3>1. /\ local.at \in 1..(Len(pending_tool_calls) + 1) /\ Len(local.answers) = local.at - 1
          /\ Len(pending_tool_calls) \in Nat
      BY <1>0, <2>1 DEF IInv, CallsInv, AnswersInv
    <3> QED  BY <2>1, <3>1
  <2>3. /\ Len(messages) > 0
        /\ messages[Len(messages)] = AssistantMessage(pending_tool_calls)
        /\ \A i \in 1..(Len(messages) - 1) : Placed(messages, i)
    BY <2>1 DEF TranscriptInv, Calling
  <2>4. \A k \in DOMAIN local.answers :
            local.answers[k].role = "tool" /\ local.answers[k].ids = {k}
    BY DEF AnswersInv
  <2>5. \A i \in 1..Len(queue) : Placed(queue, i)
    BY <1>0, <2>2, <2>3, <2>4, Closed
  <2>6. queue \in Seq(Message)
    BY <1>0, ConcatPlaces
  <2>7. \/ messages' = queue
        \/ \E cut \in 1..(Len(queue) - 1) :
               queue[cut + 1].role # "tool" /\ messages' = Retained(queue, cut)
    BY <1>0, <1>2, CommitCuts
  <2> HIDE DEF queue
  <2>8. \A i \in 1..Len(messages') : Placed(messages', i)
    BY <2>5, <2>6, <2>7, CutTranscript
  <2> QED  BY <2>1, <2>8 DEF TranscriptInv, Calling
<1>3. CASE SanitizeResults
  <2>1. /\ pc = "sanitize_results" /\ pc' \notin Calling
        /\ messages' = [i \in DOMAIN messages |-> Sanitized(messages[i])]
    BY <1>3 DEF SanitizeResults, Advance, RouteHeartbeat, Calling
  <2>2. \A m \in Message : /\ Sanitized(m) \in Message
                           /\ Sanitized(m).role = m.role /\ Sanitized(m).ids = m.ids
    BY DEF Sanitized, Message, Bodies
  <2> HIDE DEF Sanitized
  <2>3. messages' \in Seq(Message) /\ Len(messages') = Len(messages)
    BY <1>0, <2>1, <2>2
  <2>4. \A i \in 1..Len(messages) :
            messages'[i].role = messages[i].role /\ messages'[i].ids = messages[i].ids
    BY <1>0, <2>1, <2>2
  <2>5. \A i \in 1..Len(messages) : Placed(messages, i)
    BY <2>1 DEF TranscriptInv, Calling
  <2>6. \A i \in 1..Len(messages) : Placed(messages', i)
    BY <1>0, <2>3, <2>4, <2>5, RewrittenTranscript
  <2> QED  BY <2>1, <2>3, <2>6 DEF TranscriptInv
<1>4. ASSUME NEW calls \in Seq(Kinds), messages' = Append(messages, AssistantMessage(calls)),
             pending_tool_calls' = calls, pc = "call_llm",
             pc' = IF calls # <<>> THEN "security_gate" ELSE "respond"
      PROVE  TranscriptInv'
  <2> DEFINE m == AssistantMessage(calls)
  <2>1. \A i \in 1..Len(messages) : Placed(messages, i)
    BY <1>4 DEF TranscriptInv, Calling
  <2>2. messages' \in Seq(Message)
    BY TypeStep DEF TypeOK
  <2>3. m.role = "assistant" /\ m.ids = DOMAIN calls
    BY DEF AssistantMessage
  <2>4. m \in Message
    <3>1. /\ Len(messages') = Len(messages) + 1 /\ messages'[Len(messages) + 1] = m
      BY <1>0, <1>4
    <3>2. Len(messages) + 1 \in 1..Len(messages')
      BY <1>0, <3>1
    <3> QED  BY <2>2, <3>1, <3>2, ElementOfSeq
  <2> HIDE DEF m
  <2>5. /\ Len(messages') = Len(messages) + 1 /\ messages'[Len(messages) + 1] = m
        /\ \A i \in 1..Len(messages) : Placed(messages', i)
        /\ m.ids = {} => \A i \in 1..(Len(messages) + 1) : Placed(messages', i)
    <3>1. messages' = Append(messages, m)
      BY <1>4 DEF m
    <3> QED  BY <1>0, <2>1, <2>3, <2>4, <3>1, Extended
  <2>6. CASE calls = <<>>
    <3>1. m.ids = {} /\ pc' = "respond"
      BY <1>4, <2>3, <2>6
    <3> QED  BY <2>5, <3>1 DEF TranscriptInv, Calling
  <2>7. CASE calls # <<>>
    <3>1. pc' \in Calling
      BY <1>4, <2>7 DEF Calling
    <3>2. Len(messages') > 0 /\ Len(messages') - 1 = Len(messages)
      BY <1>0, <2>5
    <3>3. messages'[Len(messages')] = AssistantMessage(calls)
      BY <2>5 DEF m
    <3> QED  BY <1>4, <2>5, <3>1, <3>2, <3>3 DEF TranscriptInv, AssistantMessage
  <2> QED  BY <2>6, <2>7
<1>5. CASE messages' = <<>> /\ pc' = "idle"
  BY <1>5 DEF TranscriptInv, Calling
<1>6. CASE /\ messages' = messages
           /\ pc' \in Calling => pc \in Calling /\ pending_tool_calls' = pending_tool_calls
           /\ pc \in Calling => pc' \in Calling
  BY <1>6 DEF TranscriptInv, AssistantMessage, Placed, FollowsCall, IsAnswered, AllTools, Answers
<1>7. UserMessage("plain") \in Message /\ UserMessage("warning") \in Message
      /\ UserMessage("plain").role = "user" /\ UserMessage("warning").role = "user"
  BY DEF UserMessage, Message, Bodies
<1>8. CASE ~DispatchCommit
  <2>1. CASE messages' = Append(messages, UserMessage("plain")) /\ pc = "idle"
             /\ pc' = "build_prompt"
    BY <1>1, <1>7, <2>1 DEF Calling
  <2>2. CASE messages' = Append(messages, UserMessage("warning")) /\ pc = "inject_warning"
             /\ pc' = "call_llm"
    BY <1>1, <1>7, <2>2 DEF Calling
  <2> QED  BY <1>0, <1>3, <1>4, <1>5, <1>6, <1>8, <2>1, <2>2, QueueSteps
<1> QED  BY <1>2, <1>8

-----------------------------------------------------------------------------
(* One warning in a turn                                                   *)

(* OneWarningPerTurn, of any queue.                                        *)
WarnedOnce(queue) ==
    \A i, j \in 1..Len(queue) :
        i < j /\ queue[i].body = "warning" /\ queue[j].body = "warning" =>
            \E k \in i..j : queue[k] = UserMessage("plain")

(* What comes behind a queue and is no warning warns no one.               *)
LEMMA GrownWarned ==
    ASSUME NEW queue \in Seq(Message), NEW longer \in Seq(Message),
           Len(queue) <= Len(longer),
           \A i \in 1..Len(queue) : longer[i] = queue[i],
           \A i \in (Len(queue) + 1)..Len(longer) : longer[i].body # "warning",
           WarnedOnce(queue)
    PROVE  WarnedOnce(longer)
<1>1. SUFFICES ASSUME NEW i \in 1..Len(longer), NEW j \in 1..Len(longer), i < j,
                      longer[i].body = "warning", longer[j].body = "warning"
               PROVE  \E k \in i..j : longer[k] = UserMessage("plain")
  BY DEF WarnedOnce
<1>2. Len(queue) \in Nat /\ Len(longer) \in Nat
  OBVIOUS
<1>3. i \in 1..Len(queue) /\ j \in 1..Len(queue)
  BY <1>1, <1>2
<1>4. queue[i].body = "warning" /\ queue[j].body = "warning"
  BY <1>1, <1>3
<1>5. PICK k \in i..j : queue[k] = UserMessage("plain")
  BY <1>1, <1>3, <1>4 DEF WarnedOnce
<1> QED  BY <1>2, <1>3, <1>5

(* The one warning of a turn comes behind the user's message.              *)
LEMMA WarnedAfterUser ==
    ASSUME NEW queue \in Seq(Message), NEW m \in Message,
           Len(queue) > 0, queue[Len(queue)] = UserMessage("plain"), WarnedOnce(queue)
    PROVE  WarnedOnce(Append(queue, m))
<1>1. /\ Len(Append(queue, m)) = Len(queue) + 1
      /\ \A i \in 1..Len(queue) : Append(queue, m)[i] = queue[i]
      /\ Len(queue) \in Nat
  BY AppendProperties
<1> DEFINE longer == Append(queue, m)
<1> HIDE DEF longer
<1>2. /\ Len(longer) = Len(queue) + 1
      /\ \A i \in 1..Len(queue) : longer[i] = queue[i]
  BY <1>1 DEF longer
<1>3. SUFFICES ASSUME NEW i \in 1..Len(longer), NEW j \in 1..Len(longer), i < j,
                      longer[i].body = "warning", longer[j].body = "warning"
               PROVE  \E k \in i..j : longer[k] = UserMessage("plain")
  BY DEF WarnedOnce, longer
<1>4. CASE j = Len(queue) + 1
  <2>1. Len(queue) \in i..j /\ longer[Len(queue)] = UserMessage("plain")
    BY <1>1, <1>2, <1>3, <1>4
  <2> QED  BY <2>1
<1>5. CASE j # Len(queue) + 1
  <2>1. i \in 1..Len(queue) /\ j \in 1..Len(queue)
    BY <1>1, <1>2, <1>3, <1>5
  <2>2. queue[i].body = "warning" /\ queue[j].body = "warning"
    BY <1>2, <1>3, <2>1
  <2>3. PICK k \in i..j : queue[k] = UserMessage("plain")
    BY <1>3, <2>1, <2>2 DEF WarnedOnce
  <2> QED  BY <1>1, <1>2, <2>1, <2>3
<1> QED  BY <1>4, <1>5

(* What an eviction leaves was warned no more often.                       *)
LEMMA CutWarned ==
    ASSUME NEW queue \in Seq(Message), NEW cut \in 1..(Len(queue) - 1), WarnedOnce(queue)
    PROVE  WarnedOnce(Retained(queue, cut))
<1> DEFINE rest == Retained(queue, cut)
<1>1. /\ Len(queue) \in Nat /\ cut \in Nat /\ cut >= 1 /\ cut < Len(queue)
      /\ Len(rest) = 1 + Len(queue) - cut
      /\ rest[1] = UserMessage("notice")
      /\ \A i \in 2..(1 + Len(queue) - cut) : rest[i] = queue[cut + i - 1]
  BY RetainedPlaces
<1> HIDE DEF rest
<1>2. SUFFICES ASSUME NEW i \in 1..Len(rest), NEW j \in 1..Len(rest), i < j,
                      rest[i].body = "warning", rest[j].body = "warning"
               PROVE  \E k \in i..j : rest[k] = UserMessage("plain")
  BY DEF WarnedOnce, rest
<1>3. rest[1].body # "warning"
  BY <1>1 DEF UserMessage
<1>4. i # 1 /\ i \in 2..(1 + Len(queue) - cut) /\ j \in 2..(1 + Len(queue) - cut)
  BY <1>1, <1>2, <1>3
<1> DEFINE p == cut + i - 1
           q == cut + j - 1
<1>5. /\ p \in 1..Len(queue) /\ q \in 1..Len(queue) /\ p < q
      /\ queue[p].body = "warning" /\ queue[q].body = "warning"
  <2>1. p \in 1..Len(queue) /\ q \in 1..Len(queue) /\ p < q
    BY <1>1, <1>2, <1>4
  <2>2. rest[i] = queue[p] /\ rest[j] = queue[q]
    BY <1>1, <1>4
  <2> QED  BY <1>2, <2>1, <2>2
<1>6. PICK k \in p..q : queue[k] = UserMessage("plain")
  BY <1>5 DEF WarnedOnce
<1>7. /\ k - cut + 1 \in i..j /\ k - cut + 1 \in 2..(1 + Len(queue) - cut)
      /\ cut + (k - cut + 1) - 1 = k
  BY <1>1, <1>4, <1>5
<1>8. rest[k - cut + 1] = UserMessage("plain")
  BY <1>1, <1>6, <1>7
<1> QED  BY <1>7, <1>8

(* Nor was a queue whose tool messages have been rewritten.                *)
LEMMA RewrittenWarned ==
    ASSUME NEW queue \in Seq(Message), NEW other \in Seq(Message), Len(other) = Len(queue),
           \A i \in 1..Len(queue) : other[i] = queue[i]
                                    \/ (queue[i].role = "tool" /\ other[i].body = "wrapped"),
           WarnedOnce(queue)
    PROVE  WarnedOnce(other)
<1>1. SUFFICES ASSUME NEW i \in 1..Len(queue), NEW j \in 1..Len(queue), i < j,
                      other[i].body = "warning", other[j].body = "warning"
               PROVE  \E k \in i..j : other[k] = UserMessage("plain")
  BY DEF WarnedOnce
<1>2. queue[i].body = "warning" /\ queue[j].body = "warning" /\ Len(queue) \in Nat
  BY <1>1
<1>3. PICK k \in i..j : queue[k] = UserMessage("plain")
  BY <1>1, <1>2 DEF WarnedOnce
<1>4. k \in 1..Len(queue) /\ queue[k].role # "tool"
  BY <1>1, <1>2, <1>3 DEF UserMessage
<1> QED  BY <1>3, <1>4

(* Every step warns a turn once, before its first call of the model.       *)
LEMMA WarnedStep ==
    ASSUME IInv, AnswersInv, WarnedInv, [Next]_vars
    PROVE  WarnedInv'
<1> DEFINE Early == {"build_prompt", "pressure_check", "inject_warning"}
<1>0. /\ TypeOK /\ messages \in Seq(Message) /\ messages' \in Seq(Message)
      /\ local.answers \in Seq(Message)
      /\ Len(messages) \in Nat
      /\ heartbeat_count \in Nat /\ steps \in Nat
  <2>1. TypeOK
    BY DEF IInv
  <2>2. messages' \in Seq(Message)
    BY TypeStep DEF TypeOK
  <2> QED  BY <2>1, <2>2 DEF TypeOK, LocalType
<1>1. OneWarningPerTurn <=> WarnedOnce(messages)
  <2>1. DOMAIN messages = 1..Len(messages)
    BY <1>0
  <2> QED  BY <2>1 DEF OneWarningPerTurn, WarnedOnce
<1>2. OneWarningPerTurn' <=> WarnedOnce(messages')
  <2>1. DOMAIN messages' = 1..Len(messages')
    BY <1>0
  <2> QED  BY <2>1 DEF OneWarningPerTurn, WarnedOnce
<1>3. WarnedOnce(messages)
  BY <1>1 DEF WarnedInv
<1>4. ASSUME NEW m \in Message, messages' = Append(messages, m), m.body # "warning"
      PROVE  OneWarningPerTurn'
  <2>1. /\ Len(messages') = Len(messages) + 1 /\ messages'[Len(messages) + 1] = m
        /\ \A i \in 1..Len(messages) : messages'[i] = messages[i]
    BY <1>0, <1>4, Extended
  <2>2. \A i \in (Len(messages) + 1)..Len(messages') : messages'[i].body # "warning"
    <3>1. \A i \in (Len(messages) + 1)..Len(messages') : i = Len(messages) + 1
      BY <1>0, <2>1
    <3> QED  BY <1>4, <2>1, <3>1
  <2>3. Len(messages) <= Len(messages')
    BY <1>0, <2>1
  <2> QED  BY <1>0, <1>2, <1>3, <2>1, <2>2, <2>3, GrownWarned
<1>5. UserMessage("plain") \in Message /\ UserMessage("warning") \in Message
  BY DEF UserMessage, Message, Bodies
<1>6. CASE DispatchCommit
  <2> DEFINE queue == messages \o local.answers
  <2>1. pc' = "sanitize_results"
    BY <1>6 DEF DispatchCommit, Advance
  <2>2. /\ queue \in Seq(Message)
        /\ \/ messages' = queue
           \/ \E cut \in 1..(Len(queue) - 1) : messages' = Retained(queue, cut)
    BY <1>0, <1>6, CommitCuts
  <2>3. WarnedOnce(queue)
    <3>1. /\ Len(queue) = Len(messages) + Len(local.answers)
          /\ \A i \in 1..Len(messages) : queue[i] = messages[i]
          /\ \A k \in 1..Len(local.answers) : queue[Len(messages) + k] = local.answers[k]
      BY <1>0, ConcatPlaces
    <3> HIDE DEF queue
    <3>2. ASSUME NEW i \in (Len(messages) + 1)..Len(queue)
          PROVE  queue[i].body # "warning"
      <4>1. /\ i - Len(messages) \in 1..Len(local.answers)
            /\ Len(messages) + (i - Len(messages)) = i
        BY <1>0, <3>1
      <4>2. queue[i] = local.answers[i - Len(messages)]
        BY <3>1, <4>1
      <4>3. i - Len(messages) \in DOMAIN local.answers
        BY <1>0, <4>1
      <4> QED  BY <4>2, <4>3 DEF AnswersInv
    <3>3. Len(messages) <= Len(queue)
      BY <1>0, <3>1
    <3> QED  BY <1>0, <1>3, <2>2, <3>1, <3>2, <3>3, GrownWarned
  <2> HIDE DEF queue
  <2>4. WarnedOnce(messages')
    BY <2>2, <2>3, CutWarned
  <2> QED  BY <1>2, <2>1, <2>4 DEF WarnedInv
<1>7. CASE SanitizeResults
  <2>1. /\ pc = "sanitize_results" /\ pc' \in {"respond", "build_prompt"}
        /\ heartbeat_count' = heartbeat_count
        /\ messages' = [i \in DOMAIN messages |-> Sanitized(messages[i])]
    BY <1>7 DEF SanitizeResults, Advance, RouteHeartbeat
  <2>2. heartbeat_count # 0
    <3>1. steps <= 7 * heartbeat_count - 1
      BY <2>1 DEF IInv, StepsInv
    <3> QED  BY <1>0, <3>1
  <2>3. \A m \in Message : Sanitized(m) = m \/ (m.role = "tool" /\ Sanitized(m).body = "wrapped")
    BY DEF Sanitized, Message
  <2> HIDE DEF Sanitized
  <2>4. /\ Len(messages') = Len(messages)
        /\ \A i \in 1..Len(messages) : messages'[i] = messages[i]
              \/ (messages[i].role = "tool" /\ messages'[i].body = "wrapped")
    BY <1>0, <2>1, <2>3
  <2>5. WarnedOnce(messages')
    BY <1>0, <1>3, <2>4, RewrittenWarned
  <2> QED  BY <1>2, <2>1, <2>2, <2>5 DEF WarnedInv
<1>8. CASE messages' = Append(messages, UserMessage("plain")) /\ pc = "idle"
           /\ pc' = "build_prompt"
  <2>1. UserMessage("plain").body # "warning"
    BY DEF UserMessage
  <2>2. OneWarningPerTurn'
    BY <1>4, <1>5, <1>8, <2>1
  <2>3. Len(messages') > 0 /\ messages'[Len(messages')] = UserMessage("plain")
    BY <1>0, <1>5, <1>8, Extended
  <2> QED  BY <1>8, <2>2, <2>3 DEF WarnedInv
<1>9. CASE messages' = Append(messages, UserMessage("warning")) /\ pc = "inject_warning"
           /\ pc' = "call_llm"
  <2>1. Len(messages) > 0 /\ messages[Len(messages)] = UserMessage("plain")
    BY <1>9 DEF WarnedInv
  <2>2. WarnedOnce(messages')
    BY <1>0, <1>3, <1>5, <1>9, <2>1, WarnedAfterUser
  <2> QED  BY <1>2, <1>9, <2>2 DEF WarnedInv
<1>10. ASSUME NEW calls \in Seq(Kinds), messages' = Append(messages, AssistantMessage(calls)),
              pc' = IF calls # <<>> THEN "security_gate" ELSE "respond"
       PROVE  WarnedInv'
  <2> DEFINE m == AssistantMessage(calls)
  <2>1. m.body # "warning"
    BY DEF AssistantMessage
  <2>2. m \in Message
    <3>1. /\ Len(messages') = Len(messages) + 1 /\ messages'[Len(messages) + 1] = m
      BY <1>0, <1>10
    <3>2. Len(messages) + 1 \in 1..Len(messages')
      BY <1>0, <3>1
    <3> QED  BY <1>0, <3>1, <3>2, ElementOfSeq
  <2> HIDE DEF m
  <2>3. messages' = Append(messages, m)
    BY <1>10 DEF m
  <2>4. OneWarningPerTurn'
    BY <1>4, <2>1, <2>2, <2>3
  <2> QED  BY <1>10, <2>4 DEF WarnedInv
<1>11. CASE messages' = <<>> /\ pc' = "idle"
  <2>1. WarnedOnce(<<>>)
    BY DEF WarnedOnce
  <2> QED  BY <1>2, <1>11, <2>1 DEF WarnedInv
<1>12. CASE /\ messages' = messages
            /\ \/ pc' \notin Early
               \/ /\ pc \in Early
                  /\ heartbeat_count' = heartbeat_count
                  /\ pc' = "inject_warning" /\ pc # "inject_warning" => heartbeat_count = 0
  <2>1. OneWarningPerTurn'
    BY <1>2, <1>3, <1>12
  <2>2. CASE pc' \notin Early
    BY <2>1, <2>2 DEF WarnedInv
  <2>3. CASE /\ pc \in Early /\ heartbeat_count' = heartbeat_count
             /\ pc' = "inject_warning" /\ pc # "inject_warning" => heartbeat_count = 0
    <3>1. pc' = "inject_warning" => heartbeat_count = 0
      BY <2>3 DEF WarnedInv
    <3>2. heartbeat_count = 0 => Len(messages) > 0 /\ messages[Len(messages)] = UserMessage("plain")
      BY <2>3 DEF WarnedInv
    <3> QED  BY <1>12, <2>1, <2>3, <3>1, <3>2 DEF WarnedInv
  <2> QED  BY <1>12, <2>2, <2>3
<1>13. CASE ~DispatchCommit
  BY <1>7, <1>8, <1>9, <1>10, <1>11, <1>12, <1>13, QueueSteps
<1> QED  BY <1>6, <1>13

-----------------------------------------------------------------------------
(* The theorems                                                            *)

(* dispatch_tools answers the calls of a response one by one and in order, *)
(* whatever became of each, and a turn that begins anew begins them anew.  *)
THEOREM AnsweredInOrder == Spec => []AnswersInv
<1>1. Init => AnswersInv
  BY DEF Init, AnswersInv, FreshLocal
<1>2. IInv /\ AnswersInv /\ [Next]_vars => AnswersInv'
  BY AnswersStep
<1> QED  BY <1>1, <1>2, Inductive, PTL DEF Spec

(* As long as nothing breaks, whenever a provider is called the queue is a *)
(* transcript it accepts: no tool message without the call it answers, no  *)
(* call without its answer, through refusals, denials, evictions and       *)
(* resumptions.                                                            *)
THEOREM TranscriptAccepted == MaxFaults = 0 => (Spec => []TranscriptWellFormed)
<1> SUFFICES ASSUME MaxFaults = 0
             PROVE  Spec => []TranscriptWellFormed
  OBVIOUS
<1>1. Init => TranscriptInv
  BY DEF Init, TranscriptInv, Calling
<1>2. IInv /\ AnswersInv /\ TranscriptInv /\ [Next]_vars => TranscriptInv'
  BY TranscriptStep
<1>3. IInv /\ TranscriptInv => TranscriptWellFormed
  <2> SUFFICES ASSUME IInv, TranscriptInv, pc = "call_llm"
               PROVE  TranscriptOK(messages)
    BY DEF TranscriptWellFormed
  <2>1. DOMAIN messages = 1..Len(messages)
    BY DEF IInv, TypeOK
  <2>2. \A i \in DOMAIN messages : Placed(messages, i)
    BY <2>1 DEF TranscriptInv, Calling
  <2> QED  BY <2>2 DEF TranscriptOK, Placed, FollowsCall, IsAnswered
<1> QED  BY <1>1, <1>2, <1>3, Inductive, AnsweredInOrder, PTL DEF Spec

(* A turn is warned of memory pressure at most once, whatever breaks: the  *)
(* warning stands behind the user's message, and the next one behind the   *)
(* next user's message, through evictions and rewritten results.           *)
THEOREM WarnedOncePerTurn == Spec => []OneWarningPerTurn
<1>1. Init => WarnedInv
  BY DEF Init, WarnedInv, OneWarningPerTurn
<1>2. IInv /\ AnswersInv /\ WarnedInv /\ [Next]_vars => WarnedInv'
  BY WarnedStep
<1>3. WarnedInv => OneWarningPerTurn
  BY DEF WarnedInv
<1> QED  BY <1>1, <1>2, <1>3, Inductive, AnsweredInOrder, PTL DEF Spec

-----------------------------------------------------------------------------
(* The length of the queue                                                 *)

(* What paging relies on: the model answers with calls, nothing breaks, the *)
(* limit has room for a turn's messages and for the calls of a response,   *)
(* and the queue paging leaves alone is below it.                          *)
LimitsFit ==
    /\ Outcomes \subseteq {"calls"}
    /\ MaxFaults = 0
    /\ Limit >= 6
    /\ MaxCalls < Limit
    /\ MinMessages <= Limit + MaxCalls

(* What a commit leaves at most.                                           *)
Room == Limit + MaxCalls - 1

(* A turn that calls adds its user's message, a warning and the model's    *)
(* message to what the last commit left, and the provider has counted them.*)
QueueInv ==
    /\ pc \in {"idle", "respond", "sanitize_results"} => Len(messages) <= Room
    /\ pc \in {"build_prompt", "pressure_check", "inject_warning"} => Len(messages) <= Room + 1
    /\ pc = "call_llm" => Len(messages) <= Room + 2
    /\ pc \in Calling => Len(messages) <= Room + 3 /\ Len(messages) <= input_tokens

(* However a commit finds the queue, it leaves no more than Room: what     *)
(* paging lets be is below the limit, what it cannot cut is one response's *)
(* answers, and what it cuts is halved.                                    *)
LEMMA CommitBounds ==
    ASSUME IInv, AnswersInv, TranscriptInv, QueueInv, LimitsFit, DispatchCommit
    PROVE  Len(messages') <= Room
<1> DEFINE queue == messages \o local.answers
<1>1. /\ TypeOK /\ messages \in Seq(Message) /\ local.answers \in Seq(Message)
      /\ input_tokens \in Nat
      /\ Len(messages) \in Nat /\ Len(local.answers) \in Nat
  <2>1. TypeOK
    BY DEF IInv
  <2> QED  BY <2>1 DEF TypeOK, LocalType
<1>2. /\ MaxCalls \in Nat /\ MaxCalls >= 1 /\ Limit \in Nat /\ MinMessages \in Nat
      /\ Limit >= 6 /\ MaxCalls < Limit /\ MinMessages <= Limit + MaxCalls
  BY BoundsAssumption DEF LimitsFit
<1>3. pc = "dispatch_tools" /\ local.at > Len(pending_tool_calls)
  BY DEF DispatchCommit, Advance
<1>4. /\ Len(messages) > 0 /\ Len(messages) <= Limit + MaxCalls + 2
      /\ Len(messages) <= input_tokens
  BY <1>1, <1>2, <1>3 DEF QueueInv, TranscriptInv, Calling, Room
<1>5. Len(local.answers) <= MaxCalls
  <2>1. /\ local.at \in 1..(Len(pending_tool_calls) + 1) /\ Len(local.answers) = local.at - 1
        /\ Len(pending_tool_calls) <= MaxCalls
    BY <1>3 DEF IInv, CallsInv, AnswersInv
  <2>2. Len(pending_tool_calls) \in Nat
    BY <1>1 DEF TypeOK
  <2> QED  BY <1>2, <2>1, <2>2
<1>6. messages[Len(messages)].role = "assistant"
  BY <1>3 DEF TranscriptInv, Calling, AssistantMessage
<1>7. /\ queue \in Seq(Message)
      /\ Len(queue) = Len(messages) + Len(local.answers)
      /\ queue[Len(messages)] = messages[Len(messages)]
  BY <1>1, <1>4, ConcatPlaces
<1> DEFINE middle == Len(queue) \div 2
<1>8. \/ ~PagesOut /\ messages' = queue
      \/ messages' = queue /\ (Len(queue) < MinMessages \/ Len(queue) <= 1)
      \/ /\ messages' = queue
         /\ \A i \in middle..(Len(queue) - 1) : queue[i + 1].role = "tool"
      \/ \E cut \in 1..(Len(queue) - 1) : cut >= middle /\ messages' = Retained(queue, cut)
  BY <1>1, CommitCuts
<1>9. Len(queue) \in Nat /\ middle \in Nat /\ 2 * middle <= Len(queue)
      /\ Len(queue) <= 2 * middle + 1
  <2>1. Len(queue) \in Nat
    BY <1>1, <1>7
  <2> HIDE DEF queue
  <2> QED  BY <2>1, HalfOfIt
<1> HIDE DEF queue, middle
<1>10. CASE ~PagesOut /\ messages' = queue
  <2>1. ~(Limit > 0 /\ 100 * input_tokens >= 95 * Limit)
    BY <1>10 DEF PagesOut, OverHardCap, AtLeast
  <2>2. input_tokens <= Limit - 1
    BY <1>1, <1>2, <2>1
  <2> QED  BY <1>1, <1>2, <1>4, <1>5, <1>7, <1>10, <2>2 DEF Room
<1>11. CASE messages' = queue /\ (Len(queue) < MinMessages \/ Len(queue) <= 1)
  BY <1>1, <1>2, <1>7, <1>11 DEF Room
<1>12. CASE /\ messages' = queue
            /\ \A i \in middle..(Len(queue) - 1) : queue[i + 1].role = "tool"
  <2>1. Len(messages) <= middle
    <3>1. SUFFICES ASSUME Len(messages) > middle
                   PROVE  FALSE
      BY <1>1, <1>9
    <3>2. /\ Len(messages) - 1 \in middle..(Len(queue) - 1)
          /\ (Len(messages) - 1) + 1 = Len(messages)
      BY <1>1, <1>4, <1>7, <1>9, <3>1
    <3>3. queue[(Len(messages) - 1) + 1].role = "tool"
      BY <1>12, <3>2
    <3>4. queue[Len(messages)].role = "tool"
      BY <3>2, <3>3
    <3> QED  BY <1>6, <1>7, <3>4
  <2>2. Len(queue) <= 2 * MaxCalls
    BY <1>1, <1>2, <1>5, <1>7, <1>9, <2>1
  <2> QED  BY <1>2, <1>9, <1>12, <2>2 DEF Room
<1>13. ASSUME NEW cut \in 1..(Len(queue) - 1), cut >= middle,
              messages' = Retained(queue, cut)
       PROVE  Len(messages') <= Room
  <2>1. Len(messages') = 1 + Len(queue) - cut
    BY <1>7, <1>13, RetainedPlaces
  <2>2. cut \in Nat /\ Len(queue) <= 2 * cut + 1
    BY <1>9, <1>13
  <2>3. Len(queue) <= Limit + 2 * MaxCalls + 2
    BY <1>1, <1>2, <1>4, <1>5, <1>7
  <2> QED  BY <1>2, <1>9, <2>1, <2>2, <2>3 DEF Room
<1> QED  BY <1>8, <1>10, <1>11, <1>12, <1>13

(* Every step keeps the queue within what its place in the turn allows.    *)
LEMMA QueueStep ==
    ASSUME IInv, AnswersInv, TranscriptInv, QueueInv, LimitsFit, [Next]_vars
    PROVE  QueueInv'
<1>0. /\ TypeOK /\ messages \in Seq(Message) /\ Len(messages) \in Nat /\ input_tokens \in Nat
      /\ Room \in Nat /\ Surplus \subseteq Nat
      /\ ~Fault /\ "prose" \notin Outcomes /\ "exhausted" \notin Outcomes
  <2>1. TypeOK
    BY DEF IInv
  <2>2. Room \in Nat /\ Surplus \subseteq Nat
    BY BoundsAssumption DEF LimitsFit, Room
  <2>3. ~Fault
    BY FaultNeedsBound DEF LimitsFit
  <2> QED  BY <2>1, <2>2, <2>3 DEF TypeOK, LimitsFit
<1>1. CASE Step
  <2>1. pc = "idle" /\ pc' = "build_prompt" /\ messages' = Append(messages, UserMessage("plain"))
    BY <1>1 DEF Step, CarriedMessages
  <2>2. Len(messages') = Len(messages) + 1
    BY <1>0, <2>1
  <2> QED  BY <1>0, <2>1, <2>2 DEF QueueInv, Calling
<1>2. CASE BuildPrompt
  BY <1>2 DEF BuildPrompt, Advance, ckpt, QueueInv, Calling
<1>3. CASE PressureCheck
  <2>1. /\ pc = "pressure_check" /\ pc' \in {"inject_warning", "call_llm"}
        /\ messages' = messages
    BY <1>3 DEF PressureCheck, Advance
  <2> QED  BY <1>0, <2>1 DEF QueueInv, Calling
<1>4. CASE InjectWarning
  <2>1. /\ pc = "inject_warning" /\ pc' = "call_llm"
        /\ messages' = Append(messages, UserMessage("warning"))
    BY <1>4 DEF InjectWarning, Advance
  <2>2. Len(messages') = Len(messages) + 1
    BY <1>0, <2>1
  <2> QED  BY <1>0, <2>1, <2>2 DEF QueueInv, Calling
<1>5. CASE CallLLM
  <2>1. PICK n \in 1..MaxCalls : \E calls \in [1..n -> Kinds], prose \in BOOLEAN :
             ModelAnswers(calls, prose)
    BY <1>0, <1>5 DEF CallLLM
  <2>2. PICK calls \in [1..n -> Kinds], prose \in BOOLEAN : ModelAnswers(calls, prose)
    BY <2>1
  <2>3. calls # <<>>
    <3>1. DOMAIN calls = 1..n /\ 1 \in DOMAIN calls
      BY BoundsAssumption
    <3> QED  BY <3>1
  <2>4. PICK extra \in Surplus : input_tokens' = Len(messages) + 1 + extra
    BY <2>2 DEF ModelAnswers
  <2>5. /\ pc = "call_llm" /\ pc' = "security_gate"
        /\ messages' = Append(messages, AssistantMessage(calls))
    BY <2>2, <2>3 DEF ModelAnswers, Advance
  <2>6. Len(messages') = Len(messages) + 1
    BY <1>0, <2>5
  <2> QED  BY <1>0, <2>4, <2>5, <2>6 DEF QueueInv, Calling
<1>6. CASE ProvidersExhausted
  BY <1>0, <1>6 DEF ProvidersExhausted
<1>7. CASE SecurityGate \/ Suspend \/ \E approved \in BOOLEAN : Resume(approved)
  <2>1. /\ pc \in Calling /\ pc' \in Calling
        /\ messages' = messages /\ input_tokens' = input_tokens
    BY <1>7 DEF SecurityGate, Suspend, Resume, Advance, GateUnchanged, Calling
  <2> QED  BY <2>1 DEF QueueInv, Calling
<1>8. CASE DispatchRefused \/ DispatchSend \/ DispatchExternal \/ DispatchMemory
  <2>1. UNCHANGED <<pc, messages, input_tokens>>
    BY <1>0, <1>8, AnswerAdded
  <2> QED  BY <2>1 DEF QueueInv
<1>9. CASE DispatchCommit
  <2>1. pc' = "sanitize_results"
    BY <1>9 DEF DispatchCommit, Advance
  <2> QED  BY <1>9, <2>1, CommitBounds DEF QueueInv, Calling
<1>10. CASE SanitizeResults
  <2>1. /\ pc = "sanitize_results" /\ pc' \in {"respond", "build_prompt"}
        /\ messages' = [i \in DOMAIN messages |-> Sanitized(messages[i])]
    BY <1>10 DEF SanitizeResults, Advance, RouteHeartbeat
  <2> DEFINE other == [i \in DOMAIN messages |-> Sanitized(messages[i])]
  <2>2. DOMAIN other = 1..Len(messages)
    BY <1>0
  <2>3. messages' \in Seq(Message)
    BY TypeStep DEF TypeOK
  <2>4. Len(messages') = Len(messages)
    BY <1>0, <2>1, <2>2, <2>3
  <2> QED  BY <1>0, <2>1, <2>4 DEF QueueInv, Calling
<1>11. CASE Respond
  BY <1>11 DEF Respond, Advance, QueueInv, Calling
<1>12. CASE Reset
  <2>1. pc' = "idle" /\ Len(messages') = 0
    BY <1>12 DEF Reset
  <2> QED  BY <1>0, <2>1 DEF QueueInv, Calling
<1>13. CASE UNCHANGED vars
  BY <1>13 DEF vars, ckpt, QueueInv, Calling
<1> QED
  BY <1>0, <1>1, <1>2, <1>3, <1>4, <1>5, <1>6, <1>7, <1>8, <1>9, <1>10, <1>11, <1>12, <1>13
  DEF Next, Graph, Dispatch

(* Whatever the model does about the warnings, and however long the        *)
(* conversation, the queue is bounded: what is above the cap is paged out  *)
(* at each commit, and a turn that calls commits.                          *)
THEOREM QueueStaysBounded == LimitsFit => (Spec => []QueueBounded)
<1> SUFFICES ASSUME LimitsFit
             PROVE  Spec => []QueueBounded
  OBVIOUS
<1>0. Room \in Nat /\ Room + 3 = QueueBound
  BY BoundsAssumption DEF LimitsFit, Room, QueueBound
<1>1. Init => QueueInv /\ TranscriptInv
  <2>1. ASSUME Init PROVE pc = "idle" /\ Len(messages) = 0
    BY <2>1 DEF Init
  <2> QED  BY <1>0, <2>1 DEF QueueInv, TranscriptInv, Calling
<1>2. IInv /\ AnswersInv /\ TranscriptInv /\ [Next]_vars => TranscriptInv'
  BY TranscriptStep DEF LimitsFit
<1>3. IInv /\ AnswersInv /\ TranscriptInv /\ QueueInv /\ [Next]_vars => QueueInv'
  BY QueueStep
<1>4. IInv /\ QueueInv => QueueBounded
  <2> SUFFICES ASSUME IInv, QueueInv
               PROVE  Len(messages) <= Room + 3
    BY <1>0 DEF QueueBounded
  <2>1. pc \in Nodes \cup {"idle", "suspended"} /\ Len(messages) \in Nat
    BY DEF IInv, TypeOK
  <2> QED  BY <1>0, <2>1 DEF QueueInv, Nodes, Calling
<1> QED  BY <1>1, <1>2, <1>3, <1>4, Inductive, AnsweredInOrder, PTL DEF Spec
=============================================================================
