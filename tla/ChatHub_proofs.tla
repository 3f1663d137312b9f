--------------------------- MODULE ChatHub_proofs ---------------------------
(***************************************************************************)
(* The safety of the hub for any number of rooms, channels and messages    *)
(* and any buffer capacity.                                                *)
(*                                                                         *)
(* HubInv, the inductive invariant, adds to the properties of ChatHub what *)
(* ties a publisher's copy to the present: a channel of the copy that is   *)
(* still open is still subscribed to the message's room (channels in use   *)
(* are never made again), and has not been sent the message yet.           *)
(***************************************************************************)
EXTENDS ChatHub, Integers, SequenceTheorems, TLAPS

\* A closed channel holds nothing.
ClosedEmpty ==
  \A ch \in Chans \ open : stream[ch] = <<>> /\ taken[ch] = 0

\* Readers are behind publishers.
TakenBehind == \A ch \in Chans : taken[ch] <= Len(stream[ch])

\* Only a running Publish has a copy to go through, each channel of it once.
ListInv ==
  \A m \in Msgs :
    /\ publish[m] # "ranging" => list[m] = <<>>
    /\ IsInjective(list[m])
    /\ \A ch \in Range(list[m]) :
         ch \in open => ch \in Range(subs[Room[m]]) /\ m \notin Range(stream[ch])

\* What a Publish call has done for everyone of its copy still subscribed.
Served ==
  \A m \in Msgs : publish[m] \in {"ranging", "returned"} =>
    \A ch \in audience[m] : \/ ch \in Range(list[m])
                            \/ m \in Range(stream[ch])
                            \/ <<ch, m>> \in dropped

\* Messages in a channel come from Publish calls that have begun, and the
\* calls recorded as earlier had returned.
BegunInv ==
  /\ \A ch \in Chans : \A m \in Range(stream[ch]) : publish[m] # "none"
  /\ \A m \in Msgs : \A k \in pred[m] : publish[k] = "returned"
  /\ \A m \in Msgs : audience[m] \subseteq open

HubInv ==
  /\ HubTypeOK
  /\ Registered
  /\ ClosedEmpty
  /\ TakenBehind
  /\ ListInv
  /\ Served
  /\ BegunInv
  /\ RoomIsolation
  /\ StreamOrder
-----------------------------------------------------------------------------
(* What Append, Tail and a cut do to the elements of a sequence.            *)

\* The empty sequence has no elements, and they are distinct.
LEMMA EmptyRange == Range(<<>>) = {} /\ IsInjective(<<>>)
BY DEF Range, IsInjective

\* Appending x adds x to the elements, after those that were there.
LEMMA AppendRange ==
  ASSUME NEW S, NEW s \in Seq(S), NEW x \in S
  PROVE  /\ Append(s, x) \in Seq(S)
         /\ DOMAIN Append(s, x) = 1..(Len(s) + 1)
         /\ Range(Append(s, x)) = Range(s) \cup {x}
<1>1. /\ Append(s, x) \in Seq(S)
      /\ Len(Append(s, x)) = Len(s) + 1
      /\ \A i \in 1..Len(s) : Append(s, x)[i] = s[i]
      /\ Append(s, x)[Len(s) + 1] = x
  OBVIOUS
<1>2. DOMAIN s = 1..Len(s) /\ DOMAIN Append(s, x) = 1..(Len(s) + 1) /\ Len(s) \in Nat
  BY <1>1, LenProperties
<1>3. Range(Append(s, x)) \subseteq Range(s) \cup {x}
  BY <1>1, <1>2 DEF Range
<1>4. Range(s) \cup {x} \subseteq Range(Append(s, x))
  <2>1. ASSUME NEW i \in 1..Len(s) PROVE s[i] \in Range(Append(s, x))
    <3>1. i \in 1..(Len(s) + 1) BY <1>2
    <3> QED BY <3>1, <1>1, <1>2 DEF Range
  <2>2. x \in Range(Append(s, x))
    <3>1. Len(s) + 1 \in 1..(Len(s) + 1) BY <1>2
    <3> QED BY <3>1, <1>1, <1>2 DEF Range
  <2> QED BY <2>1, <2>2, <1>2 DEF Range
<1> QED BY <1>1, <1>2, <1>3, <1>4

\* Appending a new element keeps the elements distinct.
LEMMA AppendDistinct ==
  ASSUME NEW S, NEW s \in Seq(S), NEW x \in S, IsInjective(s), x \notin Range(s)
  PROVE  IsInjective(Append(s, x))
<1>1. DOMAIN s = 1..Len(s) /\ Len(s) \in Nat
  BY LenProperties
<1>2. DOMAIN Append(s, x) = 1..(Len(s) + 1)
  BY AppendRange
<1>3. /\ \A i \in 1..Len(s) : Append(s, x)[i] = s[i] /\ s[i] # x
      /\ Append(s, x)[Len(s) + 1] = x
  BY <1>1 DEF Range
<1>4. ASSUME NEW i \in 1..(Len(s) + 1), NEW j \in 1..(Len(s) + 1),
             Append(s, x)[i] = Append(s, x)[j]
      PROVE  i = j
  <2>1. CASE i \in 1..Len(s) /\ j \in 1..Len(s)
    BY <2>1, <1>4, <1>3, <1>1 DEF IsInjective
  <2>2. CASE ~(i \in 1..Len(s) /\ j \in 1..Len(s))
    BY <2>2, <1>4, <1>3, <1>1
  <2> QED BY <2>1, <2>2
<1> QED BY <1>2, <1>4 DEF IsInjective

\* The head and the tail of a sequence make up its elements.
LEMMA HeadTailRange ==
  ASSUME NEW S, NEW s \in Seq(S), s # <<>>
  PROVE  /\ Head(s) \in S /\ Tail(s) \in Seq(S)
         /\ Range(s) = {Head(s)} \cup Range(Tail(s))
<1>1. /\ Head(s) \in S /\ Tail(s) \in Seq(S)
      /\ Len(Tail(s)) = Len(s) - 1
      /\ \A i \in 1..Len(Tail(s)) : Tail(s)[i] = s[i + 1]
  BY HeadTailProperties
<1>2. /\ DOMAIN s = 1..Len(s) /\ DOMAIN Tail(s) = 1..(Len(s) - 1)
      /\ Len(s) \in Nat \ {0} /\ Head(s) = s[1]
  BY <1>1, LenProperties, EmptySeq
<1>3. Range(s) \subseteq {Head(s)} \cup Range(Tail(s))
  <2>1. ASSUME NEW i \in 1..Len(s), i # 1 PROVE s[i] \in Range(Tail(s))
    <3>1. i - 1 \in 1..(Len(s) - 1) /\ Tail(s)[i - 1] = s[i]
      BY <2>1, <1>1, <1>2
    <3> QED BY <3>1, <1>2 DEF Range
  <2> QED BY <2>1, <1>2 DEF Range
<1>4. {Head(s)} \cup Range(Tail(s)) \subseteq Range(s)
  <2>1. ASSUME NEW i \in 1..(Len(s) - 1) PROVE Tail(s)[i] \in Range(s)
    <3>1. i + 1 \in 1..Len(s) /\ Tail(s)[i] = s[i + 1]
      BY <1>1, <1>2
    <3> QED BY <3>1, <1>2 DEF Range
  <2> QED BY <2>1, <1>2 DEF Range
<1> QED BY <1>1, <1>3, <1>4

\* In a sequence of distinct elements the head is not in the tail.
LEMMA HeadTailDistinct ==
  ASSUME NEW S, NEW s \in Seq(S), s # <<>>, IsInjective(s)
  PROVE  IsInjective(Tail(s)) /\ Head(s) \notin Range(Tail(s))
<1>1. /\ Len(Tail(s)) = Len(s) - 1
      /\ \A i \in 1..Len(Tail(s)) : Tail(s)[i] = s[i + 1]
  BY HeadTailProperties
<1>2. /\ DOMAIN s = 1..Len(s) /\ DOMAIN Tail(s) = 1..(Len(s) - 1)
      /\ Len(s) \in Nat \ {0} /\ Head(s) = s[1]
  BY <1>1, LenProperties, EmptySeq, HeadTailProperties
<1>3. IsInjective(Tail(s))
  BY <1>1, <1>2 DEF IsInjective
<1>4. ASSUME NEW i \in 1..(Len(s) - 1) PROVE Tail(s)[i] # Head(s)
  <2>1. i + 1 \in 1..Len(s) /\ 1 \in 1..Len(s) /\ i + 1 # 1 /\ Tail(s)[i] = s[i + 1]
    BY <1>1, <1>2
  <2> QED BY <2>1, <1>2 DEF IsInjective
<1> QED BY <1>2, <1>3, <1>4 DEF Range

\* Cutting the i-th of distinct elements leaves all the others, distinct.
LEMMA CutAtRange ==
  ASSUME NEW S, NEW seq \in Seq(S), IsInjective(seq), NEW i \in DOMAIN seq
  PROVE  /\ CutAt(seq, i) \in Seq(S)
         /\ IsInjective(CutAt(seq, i))
         /\ Range(CutAt(seq, i)) = Range(seq) \ {seq[i]}
<1> DEFINE n == Len(seq)
           a == SubSeq(seq, 1, i - 1)
           b == SubSeq(seq, i + 1, n)
           c == CutAt(seq, i)
<1>1. n \in Nat /\ DOMAIN seq = 1..n /\ i \in 1..n /\ \A j \in 1..n : seq[j] \in S
  BY LenProperties, ElementOfSeq
<1>2. /\ a \in Seq(S) /\ Len(a) = i - 1
      /\ \A j \in 1..(i - 1) : a[j] = seq[j]
  <2>1. \A j \in 1..(i - 1) : seq[j] \in S BY <1>1
  <2>2. /\ a \in Seq(S) /\ Len(a) = IF 1 <= i - 1 THEN i - 1 - 1 + 1 ELSE 0
        /\ \A j \in 1..(i - 1 - 1 + 1) : a[j] = seq[1 + j - 1]
    BY <2>1, <1>1, SubSeqProperties
  <2> QED BY <2>2, <1>1
<1>3. /\ b \in Seq(S) /\ Len(b) = n - i
      /\ \A j \in 1..(n - i) : b[j] = seq[i + j]
  <2>1. \A j \in (i + 1)..n : seq[j] \in S BY <1>1
  <2>2. /\ b \in Seq(S) /\ Len(b) = IF i + 1 <= n THEN n - (i + 1) + 1 ELSE 0
        /\ \A j \in 1..(n - (i + 1) + 1) : b[j] = seq[i + 1 + j - 1]
    BY <2>1, <1>1, SubSeqProperties
  <2> QED BY <2>2, <1>1
<1>4. /\ c \in Seq(S) /\ Len(c) = n - 1
      /\ \A j \in 1..(n - 1) : c[j] = IF j <= i - 1 THEN seq[j] ELSE seq[j + 1]
  <2>1. c = a \o b BY DEF CutAt
  <2>2. /\ a \o b \in Seq(S) /\ Len(a \o b) = Len(a) + Len(b)
        /\ \A j \in 1..(Len(a) + Len(b)) :
             (a \o b)[j] = IF j <= Len(a) THEN a[j] ELSE b[j - Len(a)]
    BY <1>2, <1>3, ConcatProperties
  <2> HIDE DEF a, b, c
  <2>3. ASSUME NEW j \in 1..(n - 1)
        PROVE  c[j] = IF j <= i - 1 THEN seq[j] ELSE seq[j + 1]
    <3>1. j \in 1..(Len(a) + Len(b)) /\ Len(a) = i - 1
      BY <1>1, <1>2, <1>3
    <3>2. c[j] = IF j <= i - 1 THEN a[j] ELSE b[j - (i - 1)]
      BY <3>1, <2>1, <2>2
    <3>3. CASE j <= i - 1
      BY <3>2, <3>3, <1>1, <1>2
    <3>4. CASE ~(j <= i - 1)
      <4>1. j - (i - 1) \in 1..(n - i) /\ i + (j - (i - 1)) = j + 1
        BY <3>4, <1>1
      <4>2. b[j - (i - 1)] = seq[i + (j - (i - 1))]
        BY <4>1, <1>3
      <4> QED BY <4>1, <4>2, <3>2, <3>4
    <3> QED BY <3>3, <3>4
  <2>4. c \in Seq(S) /\ Len(c) = n - 1
    <3>1. i - 1 + (n - i) = n - 1 BY <1>1
    <3> QED BY <3>1, <2>1, <2>2, <1>2, <1>3
  <2> QED BY <2>3, <2>4
<1>5. DOMAIN c = 1..(n - 1)
  BY <1>4, LenProperties
<1> HIDE DEF c, n
<1>6. IsInjective(c)
  <2>1. ASSUME NEW j \in 1..(n - 1), NEW k \in 1..(n - 1), c[j] = c[k]
        PROVE  j = k
    <3> DEFINE J == IF j <= i - 1 THEN j ELSE j + 1
               K == IF k <= i - 1 THEN k ELSE k + 1
    <3>1. J \in 1..n /\ K \in 1..n /\ c[j] = seq[J] /\ c[k] = seq[K]
      BY <1>1, <1>4
    <3>2. J = K
      BY <3>1, <2>1, <1>1 DEF IsInjective
    <3> QED BY <3>2, <1>1
  <2> QED BY <2>1, <1>5 DEF IsInjective
<1>7. Range(c) \subseteq Range(seq) \ {seq[i]}
  BY <1>1, <1>4, <1>5 DEF Range, IsInjective
<1>8. ASSUME NEW j \in 1..n, j # i PROVE seq[j] \in Range(c)
  <2>1. CASE j < i
    <3>1. j \in 1..(n - 1) /\ c[j] = seq[j] BY <2>1, <1>1, <1>4
    <3> QED BY <3>1, <1>5 DEF Range
  <2>2. CASE j > i
    <3>1. j - 1 \in 1..(n - 1) /\ c[j - 1] = seq[j] BY <2>2, <1>1, <1>4
    <3> QED BY <3>1, <1>5 DEF Range
  <2> QED BY <2>1, <2>2, <1>8, <1>1
<1>9. Range(seq) \ {seq[i]} \subseteq Range(c)
  BY <1>8, <1>1 DEF Range
<1> QED BY <1>4, <1>6, <1>7, <1>9 DEF c
-----------------------------------------------------------------------------
\* The invariant holds at the start.
LEMMA HubInitInv == HubInit => HubInv
<1> SUFFICES ASSUME HubInit PROVE HubInv
  OBVIOUS
<1> USE DEF HubInit
<1>1. \A S : <<>> \in Seq(S)
  OBVIOUS
<1>2. HubTypeOK
  BY <1>1 DEF HubTypeOK
<1>3. Registered /\ RoomIsolation
  BY EmptyRange DEF Registered, RoomIsolation
<1>4. ClosedEmpty /\ TakenBehind
  BY DEF ClosedEmpty, TakenBehind
<1>5. ListInv /\ Served /\ BegunInv
  BY EmptyRange DEF ListInv, Served, BegunInv
<1>6. StreamOrder
  BY DEF StreamOrder
<1> QED BY <1>2, <1>3, <1>4, <1>5, <1>6 DEF HubInv

\* A step that leaves the hub alone keeps it.
LEMMA HubStutterInv == HubInv /\ UNCHANGED hubVars => HubInv'
BY DEF HubInv, hubVars, HubTypeOK, Registered, ClosedEmpty, TakenBehind, ListInv,
       Served, BegunInv, RoomIsolation, StreamOrder, Held

\* Subscribe adds a channel that no copy holds.
LEMMA SubscribeInv ==
  ASSUME HubInv, NEW s \in Slugs, NEW ch \in Chans, Subscribe(s, ch)
  PROVE  HubInv'
<1> USE DEF HubInv
<1>1. /\ ch \notin open /\ open' = open \cup {ch}
      /\ \A m \in Msgs : ch \notin Range(list[m])
      /\ subs' = [subs EXCEPT ![s] = Append(@, ch)]
      /\ stream' = stream /\ taken' = taken /\ publish' = publish /\ list' = list
      /\ audience' = audience /\ dropped' = dropped /\ pred' = pred
  BY DEF Subscribe, Fresh
<1>2. /\ subs[s] \in Seq(Chans) /\ ch \notin Range(subs[s]) /\ IsInjective(subs[s])
      /\ \A t \in Slugs : ch \notin Range(subs[t])
  BY <1>1 DEF HubTypeOK, Registered
<1>3. /\ subs'[s] \in Seq(Chans) /\ IsInjective(subs'[s])
      /\ Range(subs'[s]) = Range(subs[s]) \cup {ch}
      /\ \A t \in Slugs : t # s => subs'[t] = subs[t]
  BY <1>1, <1>2, AppendRange, AppendDistinct DEF HubTypeOK
<1>4. HubTypeOK'
  BY <1>1, <1>3 DEF HubTypeOK
<1>5. Registered'
  <2>1. \A t \in Slugs : Range(subs'[t]) \subseteq open' /\ IsInjective(subs'[t])
    BY <1>1, <1>3 DEF Registered
  <2>2. ASSUME NEW c \in open' PROVE \E t \in Slugs : c \in Range(subs'[t])
    <3>1. CASE c = ch BY <3>1, <1>3
    <3>2. CASE c # ch
      <4>1. PICK t \in Slugs : c \in Range(subs[t]) BY <3>2, <1>1 DEF Registered
      <4> QED BY <4>1, <1>3
    <3> QED BY <3>1, <3>2
  <2>3. ASSUME NEW t \in Slugs, NEW u \in Slugs, t # u
        PROVE  Range(subs'[t]) \cap Range(subs'[u]) = {}
    <3>1. Range(subs[t]) \cap Range(subs[u]) = {}
      BY <2>3 DEF Registered
    <3>2. CASE t # s /\ u # s BY <3>1, <3>2, <1>3
    <3>3. CASE t = s \/ u = s BY <3>1, <3>3, <2>3, <1>2, <1>3
    <3> QED BY <3>2, <3>3
  <2> QED BY <2>1, <2>2, <2>3 DEF Registered
<1>6. ClosedEmpty' /\ TakenBehind'
  BY <1>1 DEF ClosedEmpty, TakenBehind
<1>7. ListInv'
  <2>1. \A m \in Msgs : Range(subs[Room[m]]) \subseteq Range(subs'[Room[m]])
    BY <1>3, HubAssumption
  <2> QED BY <1>1, <2>1 DEF ListInv
<1>8. Served' /\ BegunInv'
  BY <1>1 DEF Served, BegunInv
<1>9. RoomIsolation'
  <2>1. Range(stream[ch]) = {}
    BY <1>1, EmptyRange DEF ClosedEmpty
  <2> QED BY <1>1, <1>3, <2>1 DEF RoomIsolation
<1>10. StreamOrder'
  BY <1>1 DEF StreamOrder
<1> QED BY <1>4, <1>5, <1>6, <1>7, <1>8, <1>9, <1>10

\* What Unsubscribe does to the rooms and to the other channels.
LEMMA UnsubscribeEffect ==
  ASSUME HubInv, NEW s \in Slugs, NEW ch \in Chans, Unsubscribe(s, ch)
  PROVE  /\ \A t \in Slugs : Range(subs'[t]) = Range(subs[t]) \ {ch}
         /\ \A c \in Chans : c # ch => stream'[c] = stream[c] /\ taken'[c] = taken[c]
<1>1. PICK i \in DOMAIN subs[s] :
        subs[s][i] = ch /\ subs' = [subs EXCEPT ![s] = CutAt(@, i)]
  BY DEF Unsubscribe
<1>2. /\ Range(subs'[s]) = Range(subs[s]) \ {ch}
      /\ \A t \in Slugs : t # s => subs'[t] = subs[t]
  <2>1. subs[s] \in Seq(Chans) /\ IsInjective(subs[s])
    BY DEF HubInv, HubTypeOK, Registered
  <2>2. subs'[s] = CutAt(subs[s], i) /\ \A t \in Slugs : t # s => subs'[t] = subs[t]
    BY <1>1 DEF HubInv, HubTypeOK
  <2> QED BY <2>1, <2>2, <1>1, CutAtRange
<1>3. \A t \in Slugs : t # s => ch \notin Range(subs[t])
  <2>1. ch \in Range(subs[s])
    BY <1>1 DEF Range
  <2> QED BY <2>1 DEF HubInv, Registered
<1> QED BY <1>2, <1>3 DEF Unsubscribe, HubInv, HubTypeOK

\* Unsubscribe removes a channel and what it held, from everywhere but the
\* copies of publishers.
LEMMA UnsubscribeInv ==
  ASSUME HubInv, NEW s \in Slugs, NEW ch \in Chans, Unsubscribe(s, ch)
  PROVE  HubInv'
<1> USE DEF HubInv
<1>1. /\ open' = open \ {ch}
      /\ stream' = [stream EXCEPT ![ch] = <<>>]
      /\ taken' = [taken EXCEPT ![ch] = 0]
      /\ audience' = [m \in Msgs |-> audience[m] \ {ch}]
      /\ dropped' = {d \in dropped : d[1] # ch}
      /\ publish' = publish /\ list' = list /\ pred' = pred
  BY DEF Unsubscribe
<1>2. PICK i \in DOMAIN subs[s] :
        subs[s][i] = ch /\ subs' = [subs EXCEPT ![s] = CutAt(@, i)]
  BY DEF Unsubscribe
<1>3. /\ subs'[s] \in Seq(Chans) /\ IsInjective(subs'[s])
      /\ Range(subs'[s]) = Range(subs[s]) \ {ch}
      /\ \A t \in Slugs : t # s => subs'[t] = subs[t]
  <2>1. subs[s] \in Seq(Chans) /\ IsInjective(subs[s])
    BY DEF HubTypeOK, Registered
  <2>2. subs'[s] = CutAt(subs[s], i) /\ \A t \in Slugs : t # s => subs'[t] = subs[t]
    BY <1>2 DEF HubTypeOK
  <2> QED BY <2>1, <2>2, <1>2, CutAtRange
<1>4. ch \in Range(subs[s]) /\ \A t \in Slugs : t # s => ch \notin Range(subs[t])
  <2>1. ch \in Range(subs[s])
    BY <1>2 DEF Range
  <2> QED BY <2>1 DEF Registered
<1>5. /\ stream'[ch] = <<>> /\ taken'[ch] = 0
      /\ \A c \in Chans : c # ch => stream'[c] = stream[c] /\ taken'[c] = taken[c]
  BY <1>1 DEF HubTypeOK
<1>6. HubTypeOK'
  <2>1. subs' \in [Slugs -> Seq(Chans)]
    BY <1>2, <1>3 DEF HubTypeOK
  <2>2. <<>> \in Seq(Msgs) /\ 0 \in Nat
    OBVIOUS
  <2> QED BY <2>1, <2>2, <1>1 DEF HubTypeOK
<1>7. Registered'
  <2>1. \A t \in Slugs : /\ Range(subs'[t]) = Range(subs[t]) \ {ch}
                         /\ IsInjective(subs'[t])
    BY <1>3, <1>4 DEF Registered
  <2> QED BY <2>1, <1>1 DEF Registered
<1>8. ClosedEmpty' /\ TakenBehind'
  BY <1>1, <1>5 DEF ClosedEmpty, TakenBehind, HubTypeOK
<1>9. ListInv'
  <2>1. ASSUME NEW m \in Msgs, NEW c \in Range(list[m]), c \in open'
        PROVE  c \in Range(subs'[Room[m]]) /\ m \notin Range(stream'[c])
    <3>1. c \in open /\ c # ch /\ c \in Range(subs[Room[m]]) /\ m \notin Range(stream[c])
      BY <2>1, <1>1 DEF ListInv
    <3>2. c \in Chans /\ Room[m] \in Slugs
      BY <3>1, HubAssumption DEF HubTypeOK
    <3> QED BY <3>1, <3>2, <1>3, <1>5
  <2> QED BY <2>1, <1>1 DEF ListInv
<1>10. Served'
  <2>1. ASSUME NEW m \in Msgs, publish[m] \in {"ranging", "returned"},
               NEW c \in audience'[m]
        PROVE  c \in Range(list[m]) \/ m \in Range(stream'[c]) \/ <<c, m>> \in dropped'
    <3>1. c \in audience[m] /\ c # ch /\ c \in Chans
      BY <1>1 DEF HubTypeOK
    <3> QED BY <2>1, <3>1, <1>1, <1>5 DEF Served
  <2> QED BY <2>1, <1>1 DEF Served
<1>11. BegunInv'
  <2>1. \A c \in Chans : Range(stream'[c]) \subseteq Range(stream[c])
    BY <1>5, EmptyRange
  <2> QED BY <2>1, <1>1 DEF BegunInv
<1>12. RoomIsolation'
  <2>1. \A t \in Slugs : Range(subs'[t]) = Range(subs[t]) \ {ch}
    BY <1>3, <1>4
  <2>2. \A t \in Slugs : Range(subs[t]) \subseteq Chans
    BY DEF Registered, HubTypeOK
  <2> QED BY <2>1, <2>2, <1>5 DEF RoomIsolation
<1>13. StreamOrder'
  BY <1>1, <1>5 DEF StreamOrder
<1> QED BY <1>6, <1>7, <1>8, <1>9, <1>10, <1>11, <1>12, <1>13

\* A reader that takes a message it has not taken yet stays behind.
LEMMA ReceiveInv ==
  ASSUME HubInv, NEW ch \in Chans, Receive(ch)
  PROVE  HubInv'
<1> USE DEF HubInv
<1>1. /\ ch \in open /\ taken[ch] < Len(stream[ch])
      /\ taken' = [taken EXCEPT ![ch] = @ + 1]
      /\ subs' = subs /\ open' = open /\ stream' = stream /\ publish' = publish
      /\ list' = list /\ audience' = audience /\ dropped' = dropped /\ pred' = pred
  BY DEF Receive
<1>2. HubTypeOK'
  BY <1>1 DEF HubTypeOK
<1>3. ClosedEmpty' /\ TakenBehind'
  <2>1. Len(stream[ch]) \in Nat /\ taken[ch] \in Nat
    BY LenProperties DEF HubTypeOK
  <2> QED BY <2>1, <1>1 DEF HubTypeOK, ClosedEmpty, TakenBehind
<1>4. Registered' /\ RoomIsolation' /\ StreamOrder'
  BY <1>1 DEF Registered, RoomIsolation, StreamOrder
<1>5. ListInv' /\ Served' /\ BegunInv'
  BY <1>1 DEF ListInv, Served, BegunInv
<1> QED BY <1>2, <1>3, <1>4, <1>5

\* The copy is of open channels of the message's room, none of which has the
\* message: its Publish had not begun.
LEMMA PublishCopyInv ==
  ASSUME HubInv, NEW m \in Msgs, PublishCopy(m)
  PROVE  HubInv'
<1> USE DEF HubInv
<1>1. /\ publish[m] = "none"
      /\ publish' = [publish EXCEPT ![m] = "ranging"]
      /\ list' = [list EXCEPT ![m] = subs[Room[m]]]
      /\ audience' = [audience EXCEPT ![m] = Range(subs[Room[m]])]
      /\ pred' = [pred EXCEPT ![m] = {k \in Msgs : publish[k] = "returned"}]
      /\ subs' = subs /\ open' = open /\ stream' = stream /\ taken' = taken
      /\ dropped' = dropped
  BY DEF PublishCopy
<1>2. /\ Room[m] \in Slugs /\ subs[Room[m]] \in Seq(Chans)
      /\ IsInjective(subs[Room[m]]) /\ Range(subs[Room[m]]) \subseteq open
  BY HubAssumption DEF HubTypeOK, Registered
<1>3. \A c \in Chans : m \notin Range(stream[c])
  BY <1>1 DEF BegunInv
<1>4. HubTypeOK'
  BY <1>1, <1>2 DEF HubTypeOK
<1>5. ListInv'
  <2>1. open \subseteq Chans
    BY DEF HubTypeOK
  <2> QED BY <2>1, <1>1, <1>2, <1>3 DEF ListInv, HubTypeOK
<1>6. Served' /\ BegunInv'
  <2>1. Served'
    BY <1>1 DEF Served, HubTypeOK
  <2>2. BegunInv'
    BY <1>1, <1>2 DEF BegunInv, HubTypeOK
  <2> QED BY <2>1, <2>2
<1>7. StreamOrder'
  <2>1. ASSUME NEW c \in Chans, NEW i \in DOMAIN stream[c], NEW j \in DOMAIN stream[c], i < j
        PROVE  stream[c][i] # stream[c][j] /\ stream[c][j] \notin pred'[stream[c][i]]
    <3>1. stream[c][i] # m /\ stream[c][i] \in Msgs
      <4>1. stream[c][i] \in Range(stream[c]) BY DEF Range
      <4>2. Range(stream[c]) \subseteq Msgs BY RangeOfSeq DEF HubTypeOK
      <4> QED BY <4>1, <4>2, <1>3
    <3>2. pred'[stream[c][i]] = pred[stream[c][i]]
      BY <3>1, <1>1 DEF HubTypeOK
    <3> QED BY <2>1, <3>2 DEF StreamOrder
  <2> QED BY <2>1, <1>1 DEF StreamOrder
<1>8. ClosedEmpty' /\ TakenBehind' /\ Registered' /\ RoomIsolation'
  BY <1>1 DEF ClosedEmpty, TakenBehind, Registered, RoomIsolation
<1> QED BY <1>4, <1>5, <1>6, <1>7, <1>8

\* The next channel of the copy is open, so it is subscribed to the message's
\* room and has not been sent it.
LEMMA PublishSendInv ==
  ASSUME HubInv, NEW m \in Msgs, PublishSend(m)
  PROVE  HubInv'
<1> USE DEF HubInv
<1> DEFINE ch == Head(list[m])
<1>1. /\ list[m] # <<>> /\ ch \in open
      /\ stream' = [stream EXCEPT ![ch] = Append(@, m)]
      /\ list' = [list EXCEPT ![m] = Tail(@)]
      /\ subs' = subs /\ open' = open /\ taken' = taken /\ publish' = publish
      /\ audience' = audience /\ dropped' = dropped /\ pred' = pred
  BY DEF PublishSend
<1>2. /\ list[m] \in Seq(Chans) /\ IsInjective(list[m]) /\ publish[m] = "ranging"
      /\ ch \in Chans /\ Tail(list[m]) \in Seq(Chans)
      /\ Range(list[m]) = {ch} \cup Range(Tail(list[m]))
      /\ IsInjective(Tail(list[m])) /\ ch \notin Range(Tail(list[m]))
  <2>1. list[m] \in Seq(Chans) /\ IsInjective(list[m]) /\ publish[m] = "ranging"
    BY <1>1 DEF HubTypeOK, ListInv
  <2> QED BY <2>1, <1>1, HeadTailRange, HeadTailDistinct
<1>3. ch \in Range(subs[Room[m]]) /\ m \notin Range(stream[ch])
  BY <1>1, <1>2 DEF ListInv
<1> HIDE DEF ch
<1>4. /\ stream[ch] \in Seq(Msgs) /\ stream'[ch] = Append(stream[ch], m)
      /\ stream'[ch] \in Seq(Msgs)
      /\ DOMAIN stream'[ch] = 1..(Len(stream[ch]) + 1)
      /\ Range(stream'[ch]) = Range(stream[ch]) \cup {m}
      /\ \A c \in Chans : c # ch => stream'[c] = stream[c]
  <2>1. stream[ch] \in Seq(Msgs) BY <1>2 DEF HubTypeOK
  <2>2. stream'[ch] = Append(stream[ch], m) /\ \A c \in Chans : c # ch => stream'[c] = stream[c]
    BY <1>1, <1>2 DEF HubTypeOK
  <2> QED BY <2>1, <2>2, AppendRange
<1>5. HubTypeOK'
  BY <1>1, <1>2, <1>4 DEF HubTypeOK
<1>6. ClosedEmpty' /\ TakenBehind'
  <2>1. Len(stream'[ch]) = Len(stream[ch]) + 1 /\ Len(stream[ch]) \in Nat
    BY <1>4, AppendProperties, LenProperties
  <2> QED BY <2>1, <1>1, <1>2, <1>4 DEF ClosedEmpty, TakenBehind, HubTypeOK
<1>7. ListInv'
  <2>1. ASSUME NEW k \in Msgs
        PROVE  /\ publish[k] # "ranging" => list'[k] = <<>>
               /\ IsInjective(list'[k])
               /\ \A c \in Range(list'[k]) :
                    c \in open => c \in Range(subs[Room[k]]) /\ k \notin Range(stream'[c])
    <3>1. CASE k = m
      <4>1. list'[k] = Tail(list[m]) BY <3>1, <1>1 DEF HubTypeOK
      <4>2. \A c \in Range(Tail(list[m])) : c # ch /\ c \in Range(list[m]) BY <1>2
      <4>3. open \subseteq Chans BY DEF HubTypeOK
      <4> QED BY <4>1, <4>2, <4>3, <3>1, <1>2, <1>4 DEF ListInv
    <3>2. CASE k # m
      <4>1. list'[k] = list[k] BY <3>2, <1>1 DEF HubTypeOK
      <4>2. open \subseteq Chans BY DEF HubTypeOK
      <4> QED BY <4>1, <4>2, <3>2, <1>4 DEF ListInv
    <3> QED BY <3>1, <3>2
  <2> QED BY <2>1, <1>1 DEF ListInv
<1>8. Served'
  <2>1. ASSUME NEW k \in Msgs, publish[k] \in {"ranging", "returned"}, NEW c \in audience[k]
        PROVE  c \in Range(list'[k]) \/ k \in Range(stream'[c]) \/ <<c, k>> \in dropped
    <3>1. c \in Chans BY DEF HubTypeOK
    <3>2. c \in Range(list[k]) \/ k \in Range(stream[c]) \/ <<c, k>> \in dropped
      BY <2>1 DEF Served
    <3>3. Range(stream[c]) \subseteq Range(stream'[c])
      BY <3>1, <1>4
    <3>4. CASE k = m
      <4>1. list'[k] = Tail(list[m]) BY <3>4, <1>1 DEF HubTypeOK
      <4> QED BY <4>1, <3>2, <3>3, <3>4, <1>2, <1>4
    <3>5. CASE k # m
      <4>1. list'[k] = list[k] BY <3>5, <1>1 DEF HubTypeOK
      <4> QED BY <4>1, <3>2, <3>3
    <3> QED BY <3>4, <3>5
  <2> QED BY <2>1, <1>1 DEF Served
<1>9. BegunInv'
  <2>1. \A c \in Chans : Range(stream'[c]) \subseteq Range(stream[c]) \cup {m}
    BY <1>4
  <2> QED BY <2>1, <1>1, <1>2 DEF BegunInv
<1>10. Registered'
  BY <1>1 DEF Registered
<1>11. RoomIsolation'
  <2>1. ASSUME NEW s \in Slugs, NEW c \in Range(subs[s]), NEW k \in Range(stream'[c])
        PROVE  Room[k] = s
    <3>1. c \in Chans BY DEF Registered, HubTypeOK
    <3>2. CASE k \in Range(stream[c]) BY <3>2 DEF RoomIsolation
    <3>3. CASE k \notin Range(stream[c])
      <4>1. c = ch /\ k = m BY <3>1, <3>3, <1>4
      <4>2. Room[m] \in Slugs BY HubAssumption
      <4> QED BY <4>1, <4>2, <1>3 DEF Registered
    <3> QED BY <3>2, <3>3
  <2> QED BY <2>1, <1>1 DEF RoomIsolation
<1>12. StreamOrder'
  <2>1. ASSUME NEW c \in Chans, NEW i \in DOMAIN stream'[c], NEW j \in DOMAIN stream'[c], i < j
        PROVE  stream'[c][i] # stream'[c][j] /\ stream'[c][j] \notin pred[stream'[c][i]]
    <3>1. CASE c # ch BY <3>1, <2>1, <1>4 DEF StreamOrder
    <3>2. CASE c = ch
      <4>1. /\ Len(stream[ch]) \in Nat /\ DOMAIN stream[ch] = 1..Len(stream[ch])
            /\ \A x \in 1..Len(stream[ch]) : stream'[ch][x] = stream[ch][x]
            /\ stream'[ch][Len(stream[ch]) + 1] = m
        BY <1>4, AppendProperties, LenProperties
      <4>2. i \in DOMAIN stream[ch] /\ stream'[ch][i] = stream[ch][i]
        BY <4>1, <3>2, <2>1, <1>4
      <4>3. CASE j \in DOMAIN stream[ch]
        BY <4>1, <4>2, <4>3, <3>2, <2>1, <1>2 DEF StreamOrder
      <4>4. CASE j \notin DOMAIN stream[ch]
        <5>1. stream'[ch][j] = m BY <4>1, <4>4, <3>2, <1>4
        <5>2. stream[ch][i] \in Range(stream[ch]) /\ Range(stream[ch]) \subseteq Msgs
          BY <4>2, <1>4, RangeOfSeq DEF Range
        <5>3. m \notin pred[stream[ch][i]]
          BY <5>2, <1>2 DEF BegunInv
        <5> QED BY <5>1, <5>2, <5>3, <4>2, <3>2, <1>3
      <4> QED BY <4>3, <4>4
    <3> QED BY <3>1, <3>2
  <2> QED BY <2>1, <1>1 DEF StreamOrder
<1> QED BY <1>5, <1>6, <1>7, <1>8, <1>9, <1>10, <1>11, <1>12

\* A message that meets a full buffer is recorded as dropped.
LEMMA PublishDropInv ==
  ASSUME HubInv, NEW m \in Msgs, PublishDrop(m)
  PROVE  HubInv'
<1> USE DEF HubInv
<1> DEFINE ch == Head(list[m])
<1>1. /\ list[m] # <<>> /\ dropped' = dropped \cup {<<ch, m>>}
      /\ list' = [list EXCEPT ![m] = Tail(@)]
      /\ subs' = subs /\ open' = open /\ stream' = stream /\ taken' = taken
      /\ publish' = publish /\ audience' = audience /\ pred' = pred
  BY DEF PublishDrop
<1>2. /\ list[m] \in Seq(Chans) /\ publish[m] = "ranging"
      /\ ch \in Chans /\ Tail(list[m]) \in Seq(Chans)
      /\ Range(list[m]) = {ch} \cup Range(Tail(list[m])) /\ IsInjective(Tail(list[m]))
  <2>1. list[m] \in Seq(Chans) /\ IsInjective(list[m]) /\ publish[m] = "ranging"
    BY <1>1 DEF HubTypeOK, ListInv
  <2> QED BY <2>1, <1>1, HeadTailRange, HeadTailDistinct
<1> HIDE DEF ch
<1>3. HubTypeOK'
  BY <1>1, <1>2 DEF HubTypeOK
<1>4. /\ list'[m] = Tail(list[m])
      /\ \A k \in Msgs : k # m => list'[k] = list[k]
  BY <1>1 DEF HubTypeOK
<1>5. ListInv'
  <2>1. ASSUME NEW k \in Msgs
        PROVE  /\ publish[k] # "ranging" => list'[k] = <<>>
               /\ IsInjective(list'[k])
               /\ Range(list'[k]) \subseteq Range(list[k])
    BY <1>2, <1>4 DEF ListInv
  <2> QED BY <2>1, <1>1 DEF ListInv
<1>6. Served'
  <2>1. ASSUME NEW k \in Msgs, publish[k] \in {"ranging", "returned"}, NEW c \in audience[k]
        PROVE  c \in Range(list'[k]) \/ k \in Range(stream[c]) \/ <<c, k>> \in dropped'
    <3>1. c \in Range(list[k]) \/ k \in Range(stream[c]) \/ <<c, k>> \in dropped
      BY <2>1 DEF Served
    <3>2. CASE k = m BY <3>1, <3>2, <1>1, <1>2, <1>4
    <3>3. CASE k # m BY <3>1, <3>3, <1>1, <1>4
    <3> QED BY <3>2, <3>3
  <2> QED BY <2>1, <1>1 DEF Served
<1>7. ClosedEmpty' /\ TakenBehind' /\ BegunInv'
  BY <1>1 DEF ClosedEmpty, TakenBehind, BegunInv
<1>8. Registered' /\ RoomIsolation'
  BY <1>1 DEF Registered, RoomIsolation
<1>9. StreamOrder'
  BY <1>1 DEF StreamOrder
<1> QED BY <1>3, <1>5, <1>6, <1>7, <1>8, <1>9

\* A Publish that panics or returns is no longer running; no call counted as
\* returned before another was running.
LEMMA PublishEndInv ==
  ASSUME HubInv, NEW m \in Msgs, PublishPanic(m) \/ PublishReturn(m)
  PROVE  HubInv'
<1> USE DEF HubInv
<1>1. /\ publish[m] = "ranging" /\ list' = [list EXCEPT ![m] = <<>>]
      /\ \/ publish' = [publish EXCEPT ![m] = "panicked"]
         \/ publish' = [publish EXCEPT ![m] = "returned"] /\ list[m] = <<>>
      /\ subs' = subs /\ open' = open /\ stream' = stream /\ taken' = taken
      /\ audience' = audience /\ dropped' = dropped /\ pred' = pred
  <2>1. CASE PublishPanic(m)
    BY <2>1 DEF PublishPanic, ListInv
  <2>2. CASE PublishReturn(m)
    <3>1. list = [list EXCEPT ![m] = <<>>]
      BY <2>2 DEF PublishReturn, HubTypeOK
    <3> QED BY <2>2, <3>1 DEF PublishReturn
  <2> QED BY <2>1, <2>2
<1>2. /\ list'[m] = <<>> /\ \A k \in Msgs : k # m => list'[k] = list[k]
      /\ publish'[m] \in {"panicked", "returned"}
      /\ publish'[m] = "returned" => list[m] = <<>>
      /\ \A k \in Msgs : k # m => publish'[k] = publish[k]
  BY <1>1 DEF HubTypeOK
<1>3. HubTypeOK'
  <2>1. <<>> \in Seq(Chans) OBVIOUS
  <2> QED BY <2>1, <1>1 DEF HubTypeOK
<1>4. ListInv'
  BY <1>1, <1>2, EmptyRange DEF ListInv
<1>5. Served'
  <2>1. \A k \in Msgs : publish'[k] \in {"ranging", "returned"} =>
                          list'[k] = list[k] /\ publish[k] \in {"ranging", "returned"}
    BY <1>1, <1>2
  <2> QED BY <2>1, <1>1 DEF Served
<1>6. BegunInv'
  <2>1. \A k \in Msgs : /\ publish[k] = "returned" => publish'[k] = "returned"
                        /\ publish[k] # "none" => publish'[k] # "none"
    BY <1>1, <1>2
  <2>2. \A c \in Chans : Range(stream[c]) \subseteq Msgs
    BY RangeOfSeq DEF HubTypeOK
  <2> QED BY <2>1, <2>2, <1>1 DEF BegunInv, HubTypeOK
<1>7. ClosedEmpty' /\ TakenBehind'
  BY <1>1 DEF ClosedEmpty, TakenBehind
<1>8. Registered' /\ RoomIsolation' /\ StreamOrder'
  BY <1>1 DEF Registered, RoomIsolation, StreamOrder
<1> QED BY <1>3, <1>4, <1>5, <1>6, <1>7, <1>8

\* A new process begins with an empty hub; ended calls stay as they ended.
LEMMA ProcessExitInv ==
  ASSUME HubInv, ProcessExit
  PROVE  HubInv'
<1> USE DEF HubInv
<1>1. /\ subs' = [s \in Slugs |-> <<>>] /\ open' = {}
      /\ stream' = [ch \in Chans |-> <<>>] /\ taken' = [ch \in Chans |-> 0]
      /\ publish' = [m \in Msgs |-> IF publish[m] = "ranging" THEN "lost" ELSE publish[m]]
      /\ list' = [m \in Msgs |-> <<>>] /\ audience' = [m \in Msgs |-> {}]
      /\ dropped' = {} /\ pred' = pred
  BY DEF ProcessExit
<1>2. HubTypeOK'
  <2>1. \A S : <<>> \in Seq(S) OBVIOUS
  <2> QED BY <2>1, <1>1 DEF HubTypeOK
<1>3. ClosedEmpty' /\ TakenBehind'
  BY <1>1 DEF ClosedEmpty, TakenBehind
<1>4. Registered' /\ RoomIsolation'
  BY <1>1, EmptyRange DEF Registered, RoomIsolation
<1>5. StreamOrder'
  BY <1>1 DEF StreamOrder
<1>6. ListInv' /\ Served'
  BY <1>1, EmptyRange DEF ListInv, Served
<1>7. BegunInv'
  BY <1>1, EmptyRange DEF BegunInv, HubTypeOK
<1> QED BY <1>2, <1>3, <1>4, <1>5, <1>6, <1>7
-----------------------------------------------------------------------------
\* Every step of the hub keeps the invariant.
LEMMA HubNextInv == HubInv /\ [HubNext]_hubVars => HubInv'
<1> SUFFICES ASSUME HubInv, [HubNext]_hubVars PROVE HubInv'
  OBVIOUS
<1>1. CASE UNCHANGED hubVars
  BY <1>1, HubStutterInv
<1>2. ASSUME NEW s \in Slugs, NEW ch \in Chans, Subscribe(s, ch) \/ Unsubscribe(s, ch)
      PROVE  HubInv'
  BY <1>2, SubscribeInv, UnsubscribeInv
<1>3. ASSUME NEW ch \in Chans, Receive(ch) PROVE HubInv'
  BY <1>3, ReceiveInv
<1>4. ASSUME NEW m \in Msgs, PublishCopy(m) \/ PublishStep(m) PROVE HubInv'
  BY <1>4, PublishCopyInv, PublishSendInv, PublishDropInv, PublishEndInv DEF PublishStep
<1>5. CASE ProcessExit
  BY <1>5, ProcessExitInv
<1> QED BY <1>1, <1>2, <1>3, <1>4, <1>5 DEF HubNext

\* The inductive invariant of the hub.
THEOREM HubInvariant == HubSpec => []HubInv
<1>1. HubInit => HubInv BY HubInitInv
<1>2. HubInv /\ [HubNext]_hubVars => HubInv' BY HubNextInv
<1> QED BY <1>1, <1>2, PTL DEF HubSpec

\* The hub's state is always of its type.
THEOREM HubTypes == HubSpec => []HubTypeOK
<1>1. HubInv => HubTypeOK BY DEF HubInv
<1> QED BY <1>1, HubInvariant, PTL

\* No channel is ever closed twice, lost from the hub or left in it closed.
THEOREM HubRegisters == HubSpec => []Registered
<1>1. HubInv => Registered BY DEF HubInv
<1> QED BY <1>1, HubInvariant, PTL

\* Nobody is handed a message of another room.
THEOREM HubIsolatesRooms == HubSpec => []RoomIsolation
<1>1. HubInv => RoomIsolation BY DEF HubInv
<1> QED BY <1>1, HubInvariant, PTL

\* Nobody is handed a message twice, or messages in an order that contradicts
\* the order of their Publish calls.
THEOREM HubKeepsOrder == HubSpec => []StreamOrder
<1>1. HubInv => StreamOrder BY DEF HubInv
<1> QED BY <1>1, HubInvariant, PTL

\* A Publish call that returned has served everyone it copied who is left.
THEOREM HubServes == HubSpec => []ReturnedServed
<1>1. HubInv => ReturnedServed
  <2>1. ASSUME HubInv, NEW m \in Msgs, publish[m] = "returned"
        PROVE  Range(list[m]) = {}
    BY <2>1, EmptyRange DEF HubInv, ListInv
  <2> QED BY <2>1 DEF HubInv, Served, ReturnedServed
<1> QED BY <1>1, HubInvariant, PTL

-----------------------------------------------------------------------------
(* The hub implements Delivery.                                            *)

\* What the copy of a running call says of those it has not come to: who of them is
\* still open was there when the call was made, and has not been passed over.  A
\* message is dropped only by its own call.
Undecided ==
  /\ \A m \in Msgs : \A ch \in Range(list[m]) :
       /\ ch \in open => ch \in audience[m]
       /\ <<ch, m>> \notin dropped
  /\ \A d \in dropped : publish[d[2]] # "none"

LEMMA UndecidedInit == HubInit => Undecided
BY EmptyRange DEF HubInit, Undecided

\* The head of a running copy: the call is running, and the tail is what is left.
LEMMA HeadOfCopy ==
  ASSUME HubInv, NEW m \in Msgs, list[m] # <<>>
  PROVE  /\ publish[m] = "ranging" /\ list[m] \in Seq(Chans)
         /\ Head(list[m]) \in Chans /\ Head(list[m]) \in Range(list[m])
         /\ Range(Tail(list[m])) \subseteq Range(list[m])
         /\ Head(list[m]) \notin Range(Tail(list[m]))
<1>1. list[m] \in Seq(Chans) /\ IsInjective(list[m]) /\ publish[m] = "ranging"
  BY DEF HubInv, HubTypeOK, ListInv
<1>2. QED BY <1>1, HeadTailRange, HeadTailDistinct

LEMMA UndecidedStep == HubInv /\ Undecided /\ [HubNext]_hubVars => Undecided'
<1> SUFFICES ASSUME HubInv, Undecided, [HubNext]_hubVars PROVE Undecided'
  OBVIOUS
<1> USE DEF Undecided
<1>1. /\ list \in [Msgs -> Seq(Chans)] /\ publish \in [Msgs -> {"none", "ranging", "returned", "panicked", "lost"}]
      /\ audience \in [Msgs -> SUBSET Chans] /\ dropped \subseteq Chans \X Msgs
  BY DEF HubInv, HubTypeOK
<1>2. CASE UNCHANGED hubVars
  BY <1>2 DEF hubVars
<1>3. ASSUME NEW s \in Slugs, NEW ch \in Chans, Subscribe(s, ch) PROVE Undecided'
  BY <1>3 DEF Subscribe, Fresh
<1>4. ASSUME NEW s \in Slugs, NEW ch \in Chans, Unsubscribe(s, ch) PROVE Undecided'
  BY <1>4 DEF Unsubscribe
<1>5. ASSUME NEW ch \in Chans, Receive(ch) PROVE Undecided'
  BY <1>5 DEF Receive
<1>6. ASSUME NEW m \in Msgs, PublishCopy(m) PROVE Undecided'
  <2>1. /\ list' = [list EXCEPT ![m] = subs[Room[m]]] /\ audience' = [audience EXCEPT ![m] = Range(subs[Room[m]])]
        /\ publish' = [publish EXCEPT ![m] = "ranging"] /\ open' = open /\ dropped' = dropped
        /\ publish[m] = "none"
    BY <1>6 DEF PublishCopy
  <2>2. \A c \in Chans : <<c, m>> \notin dropped
    BY <2>1
  <2>3. subs[Room[m]] \in Seq(Chans)
    BY HubAssumption DEF HubInv, HubTypeOK
  <2>4. Range(subs[Room[m]]) \subseteq Chans
    BY <2>3, RangeOfSeq
  <2>5. ASSUME NEW k \in Msgs, NEW c \in Range(list'[k])
        PROVE  (c \in open => c \in audience'[k]) /\ <<c, k>> \notin dropped
    BY <2>1, <2>2, <2>4, <1>1
  <2>6. \A d \in dropped : publish'[d[2]] # "none"
    BY <2>1, <1>1
  <2>7. QED BY <2>1, <2>5, <2>6
<1>7. ASSUME NEW m \in Msgs, PublishSend(m) \/ PublishDrop(m) PROVE Undecided'
  <2>1. /\ list[m] # <<>> /\ list' = [list EXCEPT ![m] = Tail(@)] /\ open' = open
        /\ audience' = audience /\ publish' = publish
        /\ dropped' = dropped \/ dropped' = dropped \cup {<<Head(list[m]), m>>}
    BY <1>7 DEF PublishSend, PublishDrop
  <2>2. ASSUME NEW k \in Msgs, NEW c \in Range(list'[k])
        PROVE  c \in Range(list[k]) /\ <<c, k>> \notin dropped'
    <3>1. CASE k = m BY <2>1, <3>1, HeadOfCopy, <1>1
    <3>2. CASE k # m BY <2>1, <3>2, <1>1
    <3>3. QED BY <3>1, <3>2
  <2>3. \A d \in dropped' : publish[d[2]] # "none"
    BY <2>1, HeadOfCopy
  <2>4. QED BY <2>1, <2>2, <2>3
<1>8. ASSUME NEW m \in Msgs, PublishPanic(m) \/ PublishReturn(m) PROVE Undecided'
  <2>1. /\ list' = [list EXCEPT ![m] = <<>>] /\ open' = open /\ audience' = audience
        /\ dropped' = dropped /\ \E r \in {"panicked", "returned"} : publish' = [publish EXCEPT ![m] = r]
    <3>1. CASE PublishPanic(m) BY <3>1 DEF PublishPanic
    <3>2. CASE PublishReturn(m)
      <4>1. list' = list /\ list[m] = <<>> BY <3>2 DEF PublishReturn
      <4>2. list' = [list EXCEPT ![m] = <<>>] BY <4>1, <1>1
      <4>3. QED BY <4>2, <3>2 DEF PublishReturn
    <3>3. QED BY <1>8, <3>1, <3>2
  <2>2. \A k \in Msgs : Range(list'[k]) \subseteq Range(list[k])
    BY <2>1, <1>1, EmptyRange
  <2>3. QED BY <2>1, <2>2, <1>1
<1>9. CASE ProcessExit
  BY <1>9, EmptyRange DEF ProcessExit
<1>10. QED
  BY <1>2, <1>3, <1>4, <1>5, <1>6, <1>7, <1>8, <1>9 DEF HubNext, PublishStep

\* A call as its caller sees it, case by case.
LEMMA Outcomes ==
  ASSUME NEW m \in Msgs
  PROVE  /\ publish[m] = "none" => Outcome(m) = "none"
         /\ publish[m] = "ranging" => Outcome(m) = "running"
         /\ publish[m] = "returned" => Outcome(m) = "returned"
         /\ publish[m] \in {"panicked", "lost"} => Outcome(m) = "broken"
BY DEF Outcome

\* One call goes from one state to another: so does what its caller sees.
LEMMA OutcomeMoves ==
  ASSUME HubInv, NEW m \in Msgs, NEW r \in {"ranging", "returned", "panicked"},
         publish' = [publish EXCEPT ![m] = r]
  PROVE  [k \in Msgs |-> Outcome(k)'] =
           [[k \in Msgs |-> Outcome(k)] EXCEPT ![m] =
              IF r = "ranging" THEN "running" ELSE IF r = "returned" THEN "returned" ELSE "broken"]
<1>1. publish'[m] = r /\ \A k \in Msgs : k # m => publish'[k] = publish[k]
  BY DEF HubInv, HubTypeOK
<1>2. \A k \in Msgs : k # m => Outcome(k)' = Outcome(k)
  BY <1>1 DEF Outcome
<1>3. Outcome(m)' = IF r = "ranging" THEN "running" ELSE IF r = "returned" THEN "returned" ELSE "broken"
  BY <1>1 DEF Outcome
<1>4. QED BY <1>2, <1>3

LEMMA SubscribeMaps ==
  ASSUME HubInv, NEW s \in Slugs, NEW ch \in Chans, Subscribe(s, ch)
  PROVE  Service!Join(s, ch)
<1>1. subs[s] \in Seq(Chans) /\ subs' = [subs EXCEPT ![s] = Append(@, ch)] /\ ch \notin open
  BY DEF Subscribe, Fresh, HubInv, HubTypeOK
<1>2. \A t \in Slugs : ch \notin Range(subs[t])
  BY <1>1 DEF HubInv, Registered
<1>3. Range(Append(subs[s], ch)) = Range(subs[s]) \cup {ch}
  BY <1>1, AppendRange
<1>4. [t \in Slugs |-> Range(subs'[t])] = [[t \in Slugs |-> Range(subs[t])] EXCEPT ![s] = @ \cup {ch}]
  BY <1>1, <1>3 DEF HubInv, HubTypeOK
<1>5. [k \in Msgs |-> Outcome(k)'] = [k \in Msgs |-> Outcome(k)]
  BY DEF Subscribe, Outcome
<1>6. QED BY <1>2, <1>4, <1>5 DEF Service!Join, Subscribe

LEMMA UnsubscribeMaps ==
  ASSUME HubInv, NEW s \in Slugs, NEW ch \in Chans, Unsubscribe(s, ch)
  PROVE  Service!Leave(s, ch)
<1>1. ch \in Range(subs[s])
  BY DEF Unsubscribe, Range
<1>2. \A t \in Slugs : Range(subs'[t]) = Range(subs[t]) \ {ch}
  BY UnsubscribeEffect
<1>3. \A t \in Slugs : t # s => ch \notin Range(subs[t])
  BY <1>1 DEF HubInv, Registered
<1>4. [t \in Slugs |-> Range(subs'[t])] = [[t \in Slugs |-> Range(subs[t])] EXCEPT ![s] = @ \ {ch}]
  BY <1>2, <1>3
<1>5. [k \in Msgs |-> Outcome(k)'] = [k \in Msgs |-> Outcome(k)]
  BY DEF Unsubscribe, Outcome
<1>6. QED BY <1>1, <1>4, <1>5 DEF Service!Leave, Unsubscribe

LEMMA PublishCopyMaps ==
  ASSUME HubInv, NEW m \in Msgs, PublishCopy(m)
  PROVE  Service!Call(m)
<1>1. Outcome(m) = "none" /\ Room[m] \in Slugs
  BY Outcomes, HubAssumption DEF PublishCopy
<1>2. [k \in Msgs |-> Outcome(k)'] = [[k \in Msgs |-> Outcome(k)] EXCEPT ![m] = "running"]
  BY OutcomeMoves DEF PublishCopy
<1>3. QED BY <1>1, <1>2 DEF Service!Call, PublishCopy

\* The channel that the loop has come to: its call owes it the message.
LEMMA HeadIsOpen ==
  ASSUME HubInv, Undecided, NEW m \in Msgs, list[m] # <<>>, Head(list[m]) \in open
  PROVE  Service!Open(m, Head(list[m]))
<1>1. publish[m] = "ranging" /\ Head(list[m]) \in Range(list[m])
  BY HeadOfCopy
<1>2. m \notin Range(stream[Head(list[m])])
  BY <1>1 DEF HubInv, ListInv
<1>3. Outcome(m) = "running"
  BY <1>1, Outcomes
<1>4. QED BY <1>1, <1>2, <1>3 DEF Service!Open, Service!Range, Range, Undecided

LEMMA PublishSendMaps ==
  ASSUME HubInv, Undecided, NEW m \in Msgs, PublishSend(m)
  PROVE  Service!Hand(m, Head(list[m]))
<1>1. Service!Open(m, Head(list[m]))
  BY HeadIsOpen DEF PublishSend
<1>2. [k \in Msgs |-> Outcome(k)'] = [k \in Msgs |-> Outcome(k)]
  BY DEF PublishSend, Outcome
<1>3. QED BY <1>1, <1>2 DEF Service!Hand, PublishSend

LEMMA PublishDropMaps ==
  ASSUME HubInv, Undecided, NEW m \in Msgs, PublishDrop(m)
  PROVE  Service!Miss(m, Head(list[m]))
<1>1. Service!Open(m, Head(list[m]))
  BY HeadIsOpen DEF PublishDrop
<1>2. [k \in Msgs |-> Outcome(k)'] = [k \in Msgs |-> Outcome(k)]
  BY DEF PublishDrop, Outcome
<1>3. QED BY <1>1, <1>2 DEF Service!Miss, PublishDrop

LEMMA PublishEndMaps ==
  ASSUME HubInv, NEW m \in Msgs
  PROVE  /\ PublishReturn(m) => Service!Return(m)
         /\ PublishPanic(m) => Service!Break(m)
<1>1. ASSUME PublishReturn(m) PROVE Service!Return(m)
  <2>1. Range(list[m]) = {} /\ publish[m] = "ranging" /\ Outcome(m) = "running"
    BY <1>1, EmptyRange, Outcomes DEF PublishReturn
  <2>2. \A ch \in audience[m] : m \in Range(stream[ch]) \/ <<ch, m>> \in dropped
    BY <2>1 DEF HubInv, Served
  <2>3. [k \in Msgs |-> Outcome(k)'] = [[k \in Msgs |-> Outcome(k)] EXCEPT ![m] = "returned"]
    BY <1>1, OutcomeMoves DEF PublishReturn
  <2>4. \A ch \in audience[m] : ~Service!Open(m, ch)
    BY <2>2 DEF Service!Open, Service!Range, Range
  <2>5. QED BY <1>1, <2>1, <2>3, <2>4 DEF Service!Return, PublishReturn
<1>2. ASSUME PublishPanic(m) PROVE Service!Break(m)
  <2>1. Outcome(m) = "running"
    BY <1>2, HeadOfCopy, Outcomes DEF PublishPanic
  <2>2. [k \in Msgs |-> Outcome(k)'] = [[k \in Msgs |-> Outcome(k)] EXCEPT ![m] = "broken"]
    BY <1>2, OutcomeMoves DEF PublishPanic
  <2>3. QED BY <1>2, <2>1, <2>2 DEF Service!Break, PublishPanic
<1>3. QED BY <1>1, <1>2

LEMMA ProcessExitMaps ==
  ASSUME HubInv, ProcessExit
  PROVE  Service!Restart
<1>1. [s \in Slugs |-> Range(subs'[s])] = [s \in Slugs |-> {}]
  BY EmptyRange DEF ProcessExit
<1>2. ASSUME NEW m \in Msgs
      PROVE  Outcome(m)' = IF Outcome(m) = "running" THEN "broken" ELSE Outcome(m)
  <2>1. publish'[m] = IF publish[m] = "ranging" THEN "lost" ELSE publish[m]
    BY DEF ProcessExit
  <2>2. publish[m] \in {"none", "ranging", "returned", "panicked", "lost"}
    BY DEF HubInv, HubTypeOK
  <2>3. QED BY <2>1, <2>2 DEF Outcome
<1>3. QED BY <1>1, <1>2 DEF Service!Restart, ProcessExit

\* Every behaviour of the hub, with private copies that go stale, channels that are
\* closed and made again, full buffers and the end of the process, is one of Delivery.
THEOREM HubImplementsDelivery == HubSpec => Delivers
<1>1. HubInit => Service!Init
  <2> SUFFICES ASSUME HubInit PROVE Service!Init
    OBVIOUS
  <2>1. \A m \in Msgs : Outcome(m) = "none"
    BY Outcomes DEF HubInit
  <2>2. QED BY <2>1, EmptyRange DEF Service!Init, HubInit
<1>2. HubInv /\ Undecided /\ [HubNext]_hubVars => [Service!Next]_Service!vars
  <2> SUFFICES ASSUME HubInv, Undecided, [HubNext]_hubVars PROVE [Service!Next]_Service!vars
    OBVIOUS
  <2>1. ASSUME NEW s \in Slugs, NEW ch \in Chans, Subscribe(s, ch) \/ Unsubscribe(s, ch)
        PROVE  Service!Next
    BY <2>1, SubscribeMaps, UnsubscribeMaps DEF Service!Next
  <2>2. ASSUME NEW ch \in Chans, Receive(ch) PROVE UNCHANGED Service!vars
    BY <2>2 DEF Receive, Service!vars, Outcome
  <2>3. ASSUME NEW m \in Msgs, PublishCopy(m) PROVE Service!Next
    BY <2>3, PublishCopyMaps DEF Service!Next
  <2>4. ASSUME NEW m \in Msgs, PublishSend(m) \/ PublishDrop(m) PROVE Service!Next
    <3>1. Head(list[m]) \in Chans
      BY <2>4, HeadOfCopy DEF PublishSend, PublishDrop
    <3>2. QED BY <2>4, <3>1, PublishSendMaps, PublishDropMaps DEF Service!Next
  <2>5. ASSUME NEW m \in Msgs, PublishPanic(m) \/ PublishReturn(m) PROVE Service!Next
    BY <2>5, PublishEndMaps DEF Service!Next
  <2>6. CASE ProcessExit
    BY <2>6, ProcessExitMaps DEF Service!Next
  <2>7. CASE UNCHANGED hubVars
    BY <2>7 DEF hubVars, Service!vars, Outcome
  <2>8. QED
    BY <2>1, <2>2, <2>3, <2>4, <2>5, <2>6, <2>7 DEF HubNext, PublishStep
<1>3. QED
  BY <1>1, <1>2, UndecidedInit, UndecidedStep, HubInvariant, PTL
  DEF Delivers, Service!Spec, HubSpec

-----------------------------------------------------------------------------
(* When the fan-out is complete, and why it ends.                          *)

\* Who leaves is in no copy that a Publish call still goes through.
NobodyCaught ==
  \A s \in Slugs, ch \in Chans :
    Unsubscribe(s, ch) => \A m \in Msgs : ch \notin Range(list[m])

\* Then all that is left of a copy is open, and no call panics.
CopiesOpen ==
  \A m \in Msgs : Range(list[m]) \subseteq open /\ publish[m] # "panicked"

LEMMA CopiesOpenStep ==
  ASSUME HubInv, CopiesOpen, [HubNext]_hubVars, [NobodyCaught]_hubVars
  PROVE  CopiesOpen'
<1> USE DEF CopiesOpen
<1>1. /\ list \in [Msgs -> Seq(Chans)]
      /\ publish \in [Msgs -> {"none", "ranging", "returned", "panicked", "lost"}]
  BY DEF HubInv, HubTypeOK
<1>2. CASE UNCHANGED hubVars
  BY <1>2 DEF hubVars
<1>3. ASSUME NEW s \in Slugs, NEW ch \in Chans, Subscribe(s, ch) PROVE CopiesOpen'
  BY <1>3 DEF Subscribe
<1>4. ASSUME NEW s \in Slugs, NEW ch \in Chans, Unsubscribe(s, ch) PROVE CopiesOpen'
  <2>1. open' = open \ {ch} /\ list' = list /\ publish' = publish
    BY <1>4 DEF Unsubscribe
  <2>2. ch \in open
    BY <1>4 DEF Unsubscribe, Range, HubInv, Registered
  <2>3. \A m \in Msgs : ch \notin Range(list[m])
    BY <1>4, <2>1, <2>2 DEF NobodyCaught, hubVars
  <2>4. QED BY <2>1, <2>3
<1>5. ASSUME NEW ch \in Chans, Receive(ch) PROVE CopiesOpen'
  BY <1>5 DEF Receive
<1>6. ASSUME NEW m \in Msgs, PublishCopy(m) PROVE CopiesOpen'
  <2>1. Range(subs[Room[m]]) \subseteq open
    BY HubAssumption DEF HubInv, Registered
  <2>2. QED BY <1>1, <1>6, <2>1 DEF PublishCopy
<1>7. ASSUME NEW m \in Msgs, PublishSend(m) \/ PublishDrop(m) PROVE CopiesOpen'
  <2>1. list[m] # <<>> /\ list' = [list EXCEPT ![m] = Tail(@)] /\ open' = open /\ publish' = publish
    BY <1>7 DEF PublishSend, PublishDrop
  <2>2. Range(Tail(list[m])) \subseteq open
    BY <2>1, HeadOfCopy
  <2>3. QED BY <1>1, <2>1, <2>2
<1>8. ASSUME NEW m \in Msgs, PublishPanic(m) PROVE CopiesOpen'
  BY <1>8, HeadOfCopy DEF PublishPanic
<1>9. ASSUME NEW m \in Msgs, PublishReturn(m) PROVE CopiesOpen'
  BY <1>1, <1>9 DEF PublishReturn
<1>10. CASE ProcessExit
  BY <1>10, EmptyRange DEF ProcessExit
<1>11. QED
  BY <1>2, <1>3, <1>4, <1>5, <1>6, <1>7, <1>8, <1>9, <1>10 DEF HubNext, PublishStep

\* The comment above Publish is right as long as nobody leaves whom a Publish call has
\* still to come to: that race is the only reason for which FanOut fails.
THEOREM HubFansOut == HubSpec /\ [][NobodyCaught]_hubVars => []FanOut
<1>1. HubInit => CopiesOpen
  BY EmptyRange DEF HubInit, CopiesOpen
<1>2. HubInv /\ CopiesOpen /\ [HubNext]_hubVars /\ [NobodyCaught]_hubVars => CopiesOpen'
  BY CopiesOpenStep
<1>3. ReturnedServed /\ CopiesOpen => FanOut
  BY DEF CopiesOpen, FanOut, ReturnedServed
<1>4. QED BY <1>1, <1>2, <1>3, HubInvariant, HubServes, PTL DEF HubSpec

\* What m's Publish call has still to go through.
ToGo(m) == Len(list[m])

\* Nothing makes a running call longer: neither who subscribes or leaves meanwhile nor
\* another call; and each step of its own ends it or takes one channel off its copy.
NoDetour ==
  \A m \in Msgs : publish[m] = "ranging" =>
    \/ publish'[m] # "ranging"
    \/ ToGo(m)' = ToGo(m) /\ ~PublishStep(m)
    \/ ToGo(m)' = ToGo(m) - 1 /\ PublishStep(m)

\* A Publish call takes as many steps as there were subscribers, and one to end,
\* whatever the readers do: the half of PublishEnds that is not about fairness.
THEOREM HubTakesNoDetour == HubSpec => [][NoDetour]_hubVars
<1>1. ASSUME HubInv, [HubNext]_hubVars PROVE [NoDetour]_hubVars
  <2> SUFFICES ASSUME HubNext, NEW m \in Msgs, publish[m] = "ranging", publish'[m] = "ranging"
               PROVE  \/ ToGo(m)' = ToGo(m) /\ ~PublishStep(m)
                      \/ ToGo(m)' = ToGo(m) - 1 /\ PublishStep(m)
    BY <1>1 DEF NoDetour
  <2>1. /\ list \in [Msgs -> Seq(Chans)]
        /\ publish \in [Msgs -> {"none", "ranging", "returned", "panicked", "lost"}]
    BY <1>1 DEF HubInv, HubTypeOK
  <2>2. CASE PublishStep(m)
    <3>1. PublishSend(m) \/ PublishDrop(m)
      BY <2>1, <2>2 DEF PublishStep, PublishPanic, PublishReturn
    <3>2. list[m] # <<>> /\ list'[m] = Tail(list[m])
      BY <2>1, <3>1 DEF PublishSend, PublishDrop
    <3>3. ToGo(m)' = ToGo(m) - 1
      BY <2>1, <3>2, HeadTailProperties DEF ToGo
    <3>4. QED BY <2>2, <3>3
  <2>3. CASE ~PublishStep(m)
    <3>1. list'[m] = list[m]
      <4>1. ASSUME NEW s \in Slugs, NEW ch \in Chans, Subscribe(s, ch) \/ Unsubscribe(s, ch)
            PROVE  list'[m] = list[m]
        BY <4>1 DEF Subscribe, Unsubscribe
      <4>2. ASSUME NEW ch \in Chans, Receive(ch) PROVE list'[m] = list[m]
        BY <4>2 DEF Receive
      <4>3. ASSUME NEW k \in Msgs, PublishCopy(k) PROVE list'[m] = list[m]
        BY <2>1, <4>3 DEF PublishCopy
      <4>4. ASSUME NEW k \in Msgs, PublishStep(k) PROVE list'[m] = list[m]
        BY <2>1, <2>3, <4>4 DEF PublishStep, PublishSend, PublishDrop, PublishPanic, PublishReturn
      <4>5. ~ProcessExit
        BY DEF ProcessExit
      <4>6. QED BY <4>1, <4>2, <4>3, <4>4, <4>5 DEF HubNext
    <3>2. QED BY <2>3, <3>1 DEF ToGo
  <2>4. QED BY <2>2, <2>3
<1>2. QED BY <1>1, HubInvariant, PTL DEF HubSpec
=============================================================================
