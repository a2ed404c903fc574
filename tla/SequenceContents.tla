-------------------------- MODULE SequenceContents --------------------------
(***************************************************************************)
(* Sequences by what is in them: the set of the elements of a sequence     *)
(* that is built by appending, putting together and cutting, and whether   *)
(* each occurs once.                                                       *)
(***************************************************************************)
EXTENDS Integers, Sequences, SequencesExt, SequenceTheorems, TLAPS

Once(s) == \A i, j \in DOMAIN s : s[i] = s[j] => i = j

(* What is in a sequence is of its type.                                   *)
LEMMA InSeq ==
    ASSUME NEW S, NEW s \in Seq(S)
    PROVE  /\ \A x : x \in ToSet(s) <=> \E i \in 1..Len(s) : x = s[i]
           /\ ToSet(s) \subseteq S
           /\ s = <<>> <=> ToSet(s) = {}
           /\ s = <<>> <=> Len(s) = 0
<1>1. DOMAIN s = 1..Len(s) /\ Len(s) \in Nat /\ \A i \in 1..Len(s) : s[i] \in S
  BY LenProperties, ElementOfSeq
<1>2. (\A x : x \in ToSet(s) <=> \E i \in 1..Len(s) : x = s[i]) /\ ToSet(s) \subseteq S
  BY <1>1 DEF ToSet
<1>3. s = <<>> <=> Len(s) = 0
  BY EmptySeq
<1>4. s # <<>> => s[1] \in ToSet(s)
  BY <1>1, <1>2, <1>3
<1>5. s = <<>> => ToSet(s) = {}
  BY <1>1, <1>2, <1>3
<1> QED  BY <1>2, <1>3, <1>4, <1>5

(* Nothing is in the empty sequence.                                       *)
LEMMA InNothing == ToSet(<<>>) = {} /\ Once(<<>>) /\ \A S : <<>> \in Seq(S)
  BY DEF ToSet, Once

(* An element is appended.                                                 *)
LEMMA InAppend ==
    ASSUME NEW S, NEW s \in Seq(S), NEW x \in S
    PROVE  /\ Append(s, x) \in Seq(S)
           /\ ToSet(Append(s, x)) = ToSet(s) \cup {x}
           /\ Len(Append(s, x)) = Len(s) + 1
           /\ Append(s, x) # <<>>
           /\ Once(s) /\ x \notin ToSet(s) => Once(Append(s, x))
<1>1. /\ Append(s, x) \in Seq(S)
      /\ Len(Append(s, x)) = Len(s) + 1
      /\ \A i \in 1..Len(s) : Append(s, x)[i] = s[i]
      /\ Append(s, x)[Len(s) + 1] = x
  BY AppendProperties
<1>2. Len(s) \in Nat /\ 1..Len(s) + 1 = 1..Len(s) \cup {Len(s) + 1}
  BY LenProperties
<1>3. /\ \A y : y \in ToSet(s) <=> \E i \in 1..Len(s) : y = s[i]
      /\ \A y : y \in ToSet(Append(s, x)) <=> \E i \in 1..Len(s) + 1 : y = Append(s, x)[i]
  <2>1. \A y : y \in ToSet(s) <=> \E i \in 1..Len(s) : y = s[i]
    BY InSeq
  <2>2. \A y : y \in ToSet(Append(s, x)) <=>
                  \E i \in 1..Len(Append(s, x)) : y = Append(s, x)[i]
    BY <1>1, InSeq
  <2> QED  BY <1>1, <2>1, <2>2
<1>4. ToSet(Append(s, x)) = ToSet(s) \cup {x}
  BY <1>1, <1>2, <1>3
<1>5. ASSUME Once(s), x \notin ToSet(s)
      PROVE  Once(Append(s, x))
  <2>1. DOMAIN s = 1..Len(s) /\ DOMAIN Append(s, x) = 1..Len(s) + 1
    BY <1>1, LenProperties
  <2>2. \A i \in 1..Len(s) : s[i] # x
    BY <1>3, <1>5
  <2> QED  BY <1>1, <1>2, <1>5, <2>1, <2>2 DEF Once
<1> QED  BY <1>1, <1>2, <1>4, <1>5, InSeq

(* A sequence is put after another.                                        *)
LEMMA InConcat ==
    ASSUME NEW S, NEW s \in Seq(S), NEW t \in Seq(S)
    PROVE  /\ s \o t \in Seq(S)
           /\ ToSet(s \o t) = ToSet(s) \cup ToSet(t)
           /\ Once(s) /\ Once(t) /\ ToSet(s) \cap ToSet(t) = {} => Once(s \o t)
<1>1. /\ s \o t \in Seq(S)
      /\ Len(s \o t) = Len(s) + Len(t)
      /\ \A i \in 1..Len(s) + Len(t) :
            (s \o t)[i] = IF i <= Len(s) THEN s[i] ELSE t[i - Len(s)]
  BY ConcatProperties
<1>2. Len(s) \in Nat /\ Len(t) \in Nat
  BY LenProperties
<1>3. /\ \A i \in 1..Len(s) : (s \o t)[i] = s[i]
      /\ \A i \in 1..Len(t) : (s \o t)[Len(s) + i] = t[i]
      /\ \A i \in 1..Len(s) + Len(t) :
            i \in 1..Len(s) \/ (i - Len(s) \in 1..Len(t) /\ i = Len(s) + (i - Len(s)))
  BY <1>1, <1>2
<1>4. /\ \A x : x \in ToSet(s) <=> \E i \in 1..Len(s) : x = s[i]
      /\ \A x : x \in ToSet(t) <=> \E i \in 1..Len(t) : x = t[i]
      /\ \A x : x \in ToSet(s \o t) <=> \E i \in 1..Len(s) + Len(t) : x = (s \o t)[i]
  <2>1. \A x : x \in ToSet(s) <=> \E i \in 1..Len(s) : x = s[i]
    BY InSeq
  <2>2. \A x : x \in ToSet(t) <=> \E i \in 1..Len(t) : x = t[i]
    BY InSeq
  <2>3. \A x : x \in ToSet(s \o t) <=> \E i \in 1..Len(s \o t) : x = (s \o t)[i]
    BY <1>1, InSeq
  <2> QED  BY <1>1, <2>1, <2>2, <2>3
<1>5. ToSet(s \o t) \subseteq ToSet(s) \cup ToSet(t)
  BY <1>1, <1>2, <1>3, <1>4
<1>6. ToSet(s) \subseteq ToSet(s \o t)
  BY <1>2, <1>3, <1>4
<1>7. ToSet(t) \subseteq ToSet(s \o t)
  <2>1. \A i \in 1..Len(t) : Len(s) + i \in 1..Len(s) + Len(t)
    BY <1>2
  <2> QED  BY <1>3, <1>4, <2>1
<1>8. ASSUME Once(s), Once(t), ToSet(s) \cap ToSet(t) = {}
      PROVE  Once(s \o t)
  <2>1. /\ DOMAIN s = 1..Len(s) /\ DOMAIN t = 1..Len(t)
        /\ DOMAIN (s \o t) = 1..Len(s) + Len(t)
    BY <1>1, LenProperties
  <2>2. \A i \in 1..Len(s), j \in 1..Len(t) : s[i] # t[j]
    BY <1>4, <1>8
  <2> SUFFICES ASSUME NEW i \in 1..Len(s) + Len(t), NEW j \in 1..Len(s) + Len(t),
                      (s \o t)[i] = (s \o t)[j]
               PROVE  i = j
    BY <2>1 DEF Once
  <2>3. CASE i <= Len(s) /\ j <= Len(s)
    BY <1>2, <1>3, <1>8, <2>1, <2>3 DEF Once
  <2>4. CASE i > Len(s) /\ j > Len(s)
    <3>1. i - Len(s) \in 1..Len(t) /\ j - Len(s) \in 1..Len(t)
      BY <1>2, <2>4
    <3>2. t[i - Len(s)] = t[j - Len(s)]
      BY <1>1, <1>2, <2>4
    <3>3. i - Len(s) = j - Len(s)
      BY <1>8, <2>1, <3>1, <3>2 DEF Once
    <3> QED  BY <1>2, <3>3
  <2>5. CASE i <= Len(s) /\ j > Len(s)
    <3>1. i \in 1..Len(s) /\ j - Len(s) \in 1..Len(t) /\ s[i] = t[j - Len(s)]
      BY <1>1, <1>2, <2>5
    <3> QED  BY <2>2, <3>1
  <2>6. CASE i > Len(s) /\ j <= Len(s)
    <3>1. j \in 1..Len(s) /\ i - Len(s) \in 1..Len(t) /\ s[j] = t[i - Len(s)]
      BY <1>1, <1>2, <2>6
    <3> QED  BY <2>2, <3>1
  <2> QED  BY <1>2, <2>3, <2>4, <2>5, <2>6
<1> QED  BY <1>1, <1>5, <1>6, <1>7, <1>8

(* Two sequences one after the other.                                      *)
LEMMA Joined ==
    ASSUME NEW S, NEW s \in Seq(S), NEW t \in Seq(S)
    PROVE  /\ Len(s) \in Nat /\ Len(t) \in Nat
           /\ Len(s \o t) = Len(s) + Len(t)
           /\ \A i \in 1..Len(s) : (s \o t)[i] = s[i]
           /\ \A i \in 1..Len(t) : (s \o t)[Len(s) + i] = t[i]
<1>1. Len(s) \in Nat /\ Len(t) \in Nat
  OBVIOUS
<1>2. /\ Len(s \o t) = Len(s) + Len(t)
      /\ \A i \in 1..Len(s) + Len(t) :
            (s \o t)[i] = IF i <= Len(s) THEN s[i] ELSE t[i - Len(s)]
  BY ConcatProperties
<1>3. \A i \in 1..Len(s) : (s \o t)[i] = s[i]
  BY <1>1, <1>2
<1>4. ASSUME NEW i \in 1..Len(t)
      PROVE  (s \o t)[Len(s) + i] = t[i]
  <2>1. /\ Len(s) + i \in 1..Len(s) + Len(t) /\ ~(Len(s) + i <= Len(s))
        /\ Len(s) + i - Len(s) = i
    BY <1>1
  <2> QED  BY <1>2, <2>1
<1> QED  BY <1>1, <1>2, <1>3, <1>4

(* A sequence is cut in two: the elements of the parts ...                 *)
LEMMA Cut ==
    ASSUME NEW S, NEW s \in Seq(S), NEW k \in 0..Len(s)
    PROVE  /\ SubSeq(s, 1, k) \in Seq(S)
           /\ SubSeq(s, k + 1, Len(s)) \in Seq(S)
           /\ Len(SubSeq(s, 1, k)) = k
           /\ Len(SubSeq(s, k + 1, Len(s))) = Len(s) - k
           /\ \A i \in 1..k : SubSeq(s, 1, k)[i] = s[i]
           /\ \A i \in 1..Len(s) - k : SubSeq(s, k + 1, Len(s))[i] = s[k + i]
<1> DEFINE first == SubSeq(s, 1, k)
           rest == SubSeq(s, k + 1, Len(s))
<1>1. Len(s) \in Nat /\ DOMAIN s = 1..Len(s) /\ \A i \in 1..Len(s) : s[i] \in S
  BY LenProperties, ElementOfSeq
<1>2. first \in Seq(S) /\ Len(first) = k /\ \A i \in 1..k : first[i] = s[i]
  <2>1. 1 \in Int /\ k \in Int /\ k >= 0 /\ \A i \in 1..k : s[i] \in S
    BY <1>1
  <2>2. /\ SubSeq(s, 1, k) \in Seq(S)
        /\ Len(SubSeq(s, 1, k)) = IF 1 <= k THEN k - 1 + 1 ELSE 0
        /\ \A i \in 1..k - 1 + 1 : SubSeq(s, 1, k)[i] = s[1 + i - 1]
    BY ONLY <2>1, SubSeqProperties
  <2> QED  BY <2>1, <2>2
<1>3. /\ rest \in Seq(S) /\ Len(rest) = Len(s) - k
      /\ \A i \in 1..Len(s) - k : rest[i] = s[k + i]
  <2> DEFINE from == k + 1
             to == Len(s)
  <2>1. from \in Int /\ to \in Int /\ \A i \in from..to : s[i] \in S
    BY <1>1
  <2>0. from = k + 1 /\ to = Len(s)
    OBVIOUS
  <2> HIDE DEF from, to
  <2>2. /\ SubSeq(s, from, to) \in Seq(S)
        /\ Len(SubSeq(s, from, to)) = IF from <= to THEN to - from + 1 ELSE 0
        /\ \A i \in 1..to - from + 1 : SubSeq(s, from, to)[i] = s[from + i - 1]
    BY ONLY <2>1, SubSeqProperties
  <2>3. to - from + 1 = Len(s) - k /\ (from <= to \/ Len(s) - k = 0)
    <3>1. Len(s) \in Nat
      BY <1>1
    <3>2. Len(s) - (k + 1) + 1 = Len(s) - k
      BY <3>1
    <3>3. k + 1 <= Len(s) \/ Len(s) - k = 0
      BY <3>1
    <3> QED  BY <2>0, <3>2, <3>3
  <2>4. \A i \in 1..Len(s) - k : from + i - 1 = k + i
    BY <1>1, <2>0
  <2>5. rest = SubSeq(s, from, to)
    BY <2>0
  <2>6. Len(rest) = Len(s) - k
    BY <2>2, <2>3, <2>5
  <2> QED  BY <2>2, <2>3, <2>4, <2>5, <2>6
<1> QED  BY <1>2, <1>3

(* ... and what is in them.                                                *)
LEMMA InCut ==
    ASSUME NEW S, NEW s \in Seq(S), NEW k \in 0..Len(s)
    PROVE  /\ SubSeq(s, 1, k) \in Seq(S)
           /\ SubSeq(s, k + 1, Len(s)) \in Seq(S)
           /\ Len(SubSeq(s, 1, k)) = k
           /\ Len(SubSeq(s, k + 1, Len(s))) = Len(s) - k
           /\ ToSet(s) = ToSet(SubSeq(s, 1, k)) \cup ToSet(SubSeq(s, k + 1, Len(s)))
           /\ Once(s) =>
                 /\ Once(SubSeq(s, 1, k))
                 /\ Once(SubSeq(s, k + 1, Len(s)))
                 /\ ToSet(SubSeq(s, 1, k)) \cap ToSet(SubSeq(s, k + 1, Len(s))) = {}
<1> DEFINE first == SubSeq(s, 1, k)
           rest == SubSeq(s, k + 1, Len(s))
<1>1. Len(s) \in Nat /\ DOMAIN s = 1..Len(s) /\ \A i \in 1..Len(s) : s[i] \in S
  BY LenProperties, ElementOfSeq
<1>2. first \in Seq(S) /\ Len(first) = k /\ \A i \in 1..k : first[i] = s[i]
  BY Cut
<1>3. /\ rest \in Seq(S) /\ Len(rest) = Len(s) - k
      /\ \A i \in 1..Len(s) - k : rest[i] = s[k + i]
  BY Cut
<1> HIDE DEF first, rest
<1>4. /\ \A x : x \in ToSet(s) <=> \E i \in 1..Len(s) : x = s[i]
      /\ \A x : x \in ToSet(first) <=> \E i \in 1..k : x = first[i]
      /\ \A x : x \in ToSet(rest) <=> \E i \in 1..Len(s) - k : x = rest[i]
  <2>1. \A x : x \in ToSet(s) <=> \E i \in 1..Len(s) : x = s[i]
    BY InSeq
  <2>2. \A x : x \in ToSet(first) <=> \E i \in 1..Len(first) : x = first[i]
    BY <1>2, InSeq
  <2>3. \A x : x \in ToSet(rest) <=> \E i \in 1..Len(rest) : x = rest[i]
    BY <1>3, InSeq
  <2> QED  BY <1>2, <1>3, <2>1, <2>2, <2>3
<1>5. ToSet(first) \subseteq ToSet(s) /\ ToSet(rest) \subseteq ToSet(s)
  <2>1. \A i \in 1..k : i \in 1..Len(s) /\ first[i] = s[i]
    BY <1>1, <1>2
  <2>2. \A i \in 1..Len(s) - k : k + i \in 1..Len(s)
    <3>1. Len(s) \in Nat
      BY <1>1
    <3> QED  BY <3>1
  <2> QED  BY <1>3, <1>4, <2>1, <2>2
<1>6. ToSet(s) \subseteq ToSet(first) \cup ToSet(rest)
  <2> SUFFICES ASSUME NEW i \in 1..Len(s)
               PROVE  s[i] \in ToSet(first) \cup ToSet(rest)
    BY <1>4
  <2>1. CASE i <= k
    BY <1>1, <1>2, <1>4, <2>1
  <2>2. CASE i > k
    <3>1. i - k \in 1..Len(s) - k /\ k + (i - k) = i
      BY <1>1, <2>2
    <3> QED  BY <1>3, <1>4, <3>1
  <2> QED  BY <1>1, <2>1, <2>2
<1>7. ASSUME Once(s)
      PROVE  Once(first) /\ Once(rest) /\ ToSet(first) \cap ToSet(rest) = {}
  <2>1. DOMAIN first = 1..k /\ DOMAIN rest = 1..Len(s) - k
    BY <1>2, <1>3, LenProperties
  <2>2. \A i, j \in 1..Len(s) : s[i] = s[j] => i = j
    BY <1>1, <1>7 DEF Once
  <2>3. Once(first)
    BY <1>1, <1>2, <2>1, <2>2 DEF Once
  <2>4. Once(rest)
    <3> SUFFICES ASSUME NEW i \in 1..Len(s) - k, NEW j \in 1..Len(s) - k, rest[i] = rest[j]
                 PROVE  i = j
      BY <2>1 DEF Once
    <3>1. k + i \in 1..Len(s) /\ k + j \in 1..Len(s) /\ s[k + i] = s[k + j]
      BY <1>1, <1>3
    <3> QED  BY <1>1, <2>2, <3>1
  <2>5. \A i \in 1..k, j \in 1..Len(s) - k : first[i] # rest[j]
    <3> SUFFICES ASSUME NEW i \in 1..k, NEW j \in 1..Len(s) - k, first[i] = rest[j]
                 PROVE  FALSE
      OBVIOUS
    <3>1. i \in 1..Len(s) /\ k + j \in 1..Len(s) /\ s[i] = s[k + j]
      BY <1>1, <1>2, <1>3
    <3> QED  BY <1>1, <2>2, <3>1
  <2> QED  BY <1>4, <2>3, <2>4, <2>5
<1> QED  BY <1>2, <1>3, <1>5, <1>6, <1>7 DEF first, rest

(* The first element is taken off.                                         *)
LEMMA InTail ==
    ASSUME NEW S, NEW s \in Seq(S), s # <<>>
    PROVE  /\ Head(s) \in S
           /\ Tail(s) \in Seq(S)
           /\ ToSet(s) = {Head(s)} \cup ToSet(Tail(s))
           /\ Once(s) => Once(Tail(s)) /\ Head(s) \notin ToSet(Tail(s))
<1>1. Len(s) \in Nat /\ Len(s) >= 1 /\ DOMAIN s = 1..Len(s)
  BY LenProperties, EmptySeq
<1>2. Head(s) = s[1] /\ Head(s) \in S /\ Tail(s) \in Seq(S) /\ Len(Tail(s)) = Len(s) - 1
  BY <1>1, HeadTailProperties
<1>3. \A i \in 1..Len(s) - 1 : Tail(s)[i] = s[i + 1]
  BY <1>2, HeadTailProperties
<1>4. /\ \A x : x \in ToSet(s) <=> \E i \in 1..Len(s) : x = s[i]
      /\ \A x : x \in ToSet(Tail(s)) <=> \E i \in 1..Len(s) - 1 : x = Tail(s)[i]
  <2>1. \A x : x \in ToSet(s) <=> \E i \in 1..Len(s) : x = s[i]
    BY InSeq
  <2>2. \A x : x \in ToSet(Tail(s)) <=> \E i \in 1..Len(Tail(s)) : x = Tail(s)[i]
    BY <1>2, InSeq
  <2> QED  BY <1>2, <2>1, <2>2
<1>5. ToSet(Tail(s)) \subseteq ToSet(s) /\ Head(s) \in ToSet(s)
  BY <1>1, <1>2, <1>3, <1>4
<1>6. ToSet(s) \subseteq {Head(s)} \cup ToSet(Tail(s))
  <2> SUFFICES ASSUME NEW i \in 1..Len(s), i # 1
               PROVE  s[i] \in ToSet(Tail(s))
    BY <1>1, <1>2, <1>4
  <2>1. i - 1 \in 1..Len(s) - 1 /\ (i - 1) + 1 = i
    BY <1>1
  <2> QED  BY <1>3, <1>4, <2>1
<1>7. ASSUME Once(s)
      PROVE  Once(Tail(s)) /\ Head(s) \notin ToSet(Tail(s))
  <2>1. \A i, j \in 1..Len(s) : s[i] = s[j] => i = j
    BY <1>1, <1>7 DEF Once
  <2>2. DOMAIN Tail(s) = 1..Len(s) - 1
    BY <1>2, LenProperties
  <2>3. \A i \in 1..Len(s) - 1 : i + 1 \in 1..Len(s) /\ i + 1 # 1
    BY <1>1
  <2>4. Once(Tail(s))
    BY <1>1, <1>3, <2>1, <2>2, <2>3 DEF Once
  <2> QED  BY <1>1, <1>2, <1>3, <1>4, <2>1, <2>3, <2>4
<1> QED  BY <1>2, <1>5, <1>6, <1>7
=============================================================================
