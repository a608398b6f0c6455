--------------------------- MODULE EventStreamProofs ---------------------------
(***************************************************************************)
(* For any events, capacities and number of connects: the client gets an   *)
(* event at most twice, and none but progress events is lost in silence.   *)
(***************************************************************************)
EXTENDS EventStream, SequenceTheorems, TLAPS

\* An event enters the history once, and is broadcast once.
PublishedOnce ==
    /\ IsInjective(history) /\ ToSet(history) \subseteq 1 .. next - 1
    /\ ToSet(history) \cap unpushed = {}
    /\ IsInjective(sent) /\ ToSet(sent) \subseteq 1 .. next - 1

\* What the history task has left to send it has not sent.
Replaying ==
    /\ IsInjective(replay)
    /\ \A item \in ToSet(Stream) : item.from = "history" => item.event \notin ToSet(replay)

\* What the live task has sent or holds came from the channel before pos.
Received ==
    /\ held # 0 => \E k \in 1 .. pos - 1 : sent[k] = held
    /\ \A item \in ToSet(Stream) :
          item.from = "live" => item.event # held /\ \E k \in 1 .. pos - 1 : sent[k] = item.event

IInv == TypeOK /\ PublishedOnce /\ Replaying /\ Received /\ AtMostTwice /\ NoSilentLoss

-----------------------------------------------------------------------------
(* Sequences. *)

LEMMA Appended ==
    ASSUME NEW S, NEW s \in Seq(S), NEW e \in S
    PROVE  /\ Append(s, e) \in Seq(S) /\ Len(Append(s, e)) = Len(s) + 1
           /\ ToSet(Append(s, e)) = ToSet(s) \cup {e}
           /\ IsInjective(s) /\ e \notin ToSet(s) => IsInjective(Append(s, e))
           /\ \A i \in 1 .. Len(s) : Append(s, e)[i] = s[i]
<1> DEFINE t == Append(s, e)
<1>1. /\ t \in Seq(S) /\ Len(t) = Len(s) + 1 /\ Len(s) \in Nat
      /\ \A i \in 1 .. Len(s) : t[i] = s[i]
      /\ t[Len(s) + 1] = e
  BY AppendProperties, LenProperties
<1>2. DOMAIN s = 1 .. Len(s) /\ DOMAIN t = 1 .. Len(s) + 1
  BY <1>1, LenProperties
<1> HIDE DEF t
<1>3. DOMAIN t = DOMAIN s \cup {Len(s) + 1} /\ \A i \in DOMAIN s : t[i] = s[i]
  BY <1>1, <1>2
<1>4. ToSet(t) = ToSet(s) \cup {e}
  BY <1>1, <1>3 DEF ToSet
<1>5. IsInjective(s) /\ e \notin ToSet(s) => IsInjective(t)
  BY <1>1, <1>3 DEF ToSet, IsInjective
<1> QED BY <1>1, <1>4, <1>5 DEF t

LEMMA Shortened ==
    ASSUME NEW S, NEW s \in Seq(S), s # <<>>
    PROVE  /\ Head(s) \in S /\ Tail(s) \in Seq(S) /\ Len(Tail(s)) = Len(s) - 1
           /\ ToSet(s) = ToSet(Tail(s)) \cup {Head(s)}
           /\ IsInjective(s) => IsInjective(Tail(s)) /\ Head(s) \notin ToSet(Tail(s))
<1> DEFINE t == Tail(s)
<1>1. /\ Head(s) \in S /\ t \in Seq(S) /\ Len(t) = Len(s) - 1 /\ Len(s) \in Nat \ {0}
      /\ \A i \in 1 .. Len(t) : t[i] = s[i + 1]
      /\ Head(s) = s[1]
  BY HeadTailProperties, EmptySeq
<1>2. DOMAIN s = 1 .. Len(s) /\ DOMAIN t = 1 .. Len(s) - 1
  BY <1>1, LenProperties
<1> HIDE DEF t
<1>3. \A i \in DOMAIN t : i + 1 \in DOMAIN s /\ i + 1 # 1 /\ t[i] = s[i + 1]
  BY <1>1, <1>2
<1>4. \A i \in DOMAIN s : i = 1 \/ (i - 1 \in DOMAIN t /\ t[i - 1] = s[i])
  BY <1>1, <1>2
<1>5. ToSet(s) = ToSet(t) \cup {Head(s)}
  <2>1. ToSet(s) \subseteq ToSet(t) \cup {Head(s)}
    BY <1>1, <1>4 DEF ToSet
  <2>2. ToSet(t) \subseteq ToSet(s)
    BY <1>3 DEF ToSet
  <2>3. Head(s) \in ToSet(s)
    BY <1>1, <1>2 DEF ToSet
  <2> QED BY <2>1, <2>2, <2>3
<1>6. IsInjective(s) => IsInjective(t)
  BY <1>2, <1>3 DEF IsInjective
<1>7. IsInjective(s) => Head(s) \notin ToSet(t)
  BY <1>1, <1>2, <1>3 DEF IsInjective, ToSet
<1> QED BY <1>1, <1>5, <1>6, <1>7 DEF t

LEMMA Kept ==
    ASSUME NEW S, NEW s \in Seq(S), NEW n \in Nat \ {0}
    PROVE  /\ LastOf(s, n) \in Seq(S) /\ Len(LastOf(s, n)) <= n
           /\ ToSet(LastOf(s, n)) \subseteq ToSet(s)
           /\ IsInjective(s) => IsInjective(LastOf(s, n))
<1>1. Len(s) \in Nat /\ DOMAIN s = 1 .. Len(s)
  BY LenProperties
<1>2. CASE Len(s) <= n
  BY <1>2 DEF LastOf
<1>3. CASE ~(Len(s) <= n)
  <2> DEFINE t == LastOf(s, n)
             m == Len(s) - n + 1
  <2>1. m \in Int /\ Len(s) \in Int /\ m \in 1 .. Len(s) /\ Len(s) - m + 1 = n
    BY <1>1, <1>3
  <2>2. \A i \in m .. Len(s) : s[i] \in S
    BY <2>1, <1>1, ElementOfSeq
  <2>3. t = SubSeq(s, m, Len(s))
    BY <1>3 DEF LastOf
  <2>4. t \in Seq(S) /\ Len(t) = n /\ \A i \in 1 .. n : t[i] = s[m + i - 1]
    BY <2>1, <2>2, <2>3, SubSeqProperties
  <2>5. DOMAIN t = 1 .. n
    BY <2>4, LenProperties
  <2> HIDE DEF t, m
  <2>6. \A i \in DOMAIN t : m + i - 1 \in DOMAIN s /\ t[i] = s[m + i - 1]
    <3>1. \A i \in 1 .. n : m + i - 1 \in 1 .. Len(s)
      BY <2>1
    <3> QED BY <1>1, <2>4, <2>5, <3>1
  <2>7. ToSet(t) \subseteq ToSet(s)
    BY <2>6 DEF ToSet
  <2>8. ASSUME IsInjective(s), NEW i \in DOMAIN t, NEW j \in DOMAIN t, t[i] = t[j]
        PROVE  i = j
    <3>1. m + i - 1 \in DOMAIN s /\ m + j - 1 \in DOMAIN s /\ s[m + i - 1] = s[m + j - 1]
      BY <2>6, <2>8
    <3>2. m + i - 1 = m + j - 1
      BY <2>8, <3>1 DEF IsInjective
    <3>3. m \in Int /\ i \in Int /\ j \in Int
      BY <2>1, <2>5
    <3> QED BY ONLY <3>2, <3>3
  <2> QED BY <2>4, <2>7, <2>8 DEF t, IsInjective
<1> QED BY <1>2, <1>3

\* Appending to the buffer appends to the stream, reading from it leaves it alone.
LEMMA StreamGrows ==
    ASSUME NEW S, NEW d \in Seq(S), NEW b \in Seq(S), NEW x \in S
    PROVE  d \o Append(b, x) = Append(d \o b, x)
<1>1. <<x>> \in Seq(S) /\ d \o b \in Seq(S)
  BY ConcatProperties
<1> QED BY <1>1, AppendIsConcat, ConcatAssociative

LEMMA StreamMoves ==
    ASSUME NEW S, NEW d \in Seq(S), NEW b \in Seq(S), b # <<>>
    PROVE  Append(d, Head(b)) \o Tail(b) = d \o b
<1>1. Head(b) \in S /\ Tail(b) \in Seq(S) /\ <<Head(b)>> \in Seq(S)
  BY HeadTailProperties
<1>2. b = <<Head(b)>> \o Tail(b)
  BY <1>1
<1>3. (d \o <<Head(b)>>) \o Tail(b) = d \o (<<Head(b)>> \o Tail(b))
  BY <1>1, ConcatAssociative
<1> QED BY <1>1, <1>2, <1>3, AppendIsConcat

-----------------------------------------------------------------------------
(* Publishing. *)

LEMMA Capacities ==
    /\ MaxEvents \in Nat /\ MaxStreams \in Nat /\ Events = 1 .. MaxEvents
    /\ HistoryCap \in Nat \ {0} /\ ChannelCap \in Nat \ {0} /\ BufferCap \in Nat \ {0}
BY StreamAssumption DEF Events

LEMMA InitIInv == Init => IInv
<1> SUFFICES ASSUME Init PROVE IInv
  OBVIOUS
<1>1. \A S : <<>> \in Seq(S) /\ Len(<<>>) = 0
  BY EmptySeq
<1>2. ToSet(<<>>) = {} /\ IsInjective(<<>>)
  BY DEF ToSet, IsInjective
<1>3. Stream = <<>>
  BY <1>1, ConcatEmptySeq DEF Init, Stream
<1>4. TypeOK
  <2>1. /\ 1 \in 1 .. MaxEvents + 1 /\ 0 \in 0 .. 0 + 1 /\ 0 \in 0 .. 0 /\ MaxStreams \in 0 .. MaxStreams
        /\ 0 <= HistoryCap /\ 0 <= BufferCap
    BY Capacities
  <2> QED BY <1>1, <1>2, <2>1 DEF Init, TypeOK
<1>5. PublishedOnce /\ Replaying /\ Received /\ AtMostTwice /\ NoSilentLoss
  BY <1>2, <1>3 DEF Init, PublishedOnce, Replaying, Received, AtMostTwice, NoSilentLoss
<1> QED BY <1>4, <1>5 DEF IInv

\* The tasks of the stream see only that more has been broadcast.
LEMMA PublishKeeps ==
    ASSUME IInv, TypeOK', PublishedOnce', UNCHANGED <<tasks, open, buffer, delivered, streams>>,
           \A i \in 1 .. Len(sent) : sent'[i] = sent[i]
    PROVE  IInv'
<1>1. /\ pos \in 0 .. Len(sent) + 1 /\ since \in 0 .. Len(sent) /\ Len(sent) \in Nat
  BY LenProperties DEF IInv, TypeOK
<1>2. /\ UNCHANGED <<Stream, replay, held, pos, since, lagged, open, emitted>>
      /\ \A i \in 1 .. pos - 1 : sent'[i] = sent[i]
      /\ \A i \in since + 1 .. pos - 1 : sent'[i] = sent[i]
  BY <1>1 DEF tasks, Stream
<1>3. Replaying' /\ AtMostTwice'
  BY <1>2 DEF IInv, Replaying, AtMostTwice
<1>4. Received'
  BY <1>2 DEF IInv, Received
<1>5. NoSilentLoss'
  BY <1>2 DEF IInv, NoSilentLoss, Reaches
<1> QED BY <1>3, <1>4, <1>5 DEF IInv

LEMMA CreateInv == IInv /\ Create => IInv'
<1> SUFFICES ASSUME IInv, Create PROVE IInv'
  OBVIOUS
<1>1. /\ UNCHANGED <<unsent, history, sent, tasks, open, buffer, delivered, streams>>
      /\ next \in Events /\ next' = next + 1 /\ unpushed' = unpushed \cup {next}
      /\ TypeOK /\ PublishedOnce
  BY DEF Create, IInv
<1>2. /\ next' \in 1 .. MaxEvents + 1 /\ 1 .. next - 1 \subseteq 1 .. next' - 1
      /\ next \in 1 .. next' - 1 /\ next \notin 1 .. next - 1
  BY <1>1, Capacities
<1>3. TypeOK'
  BY <1>1, <1>2 DEF TypeOK, PublishedOnce, tasks
<1>4. PublishedOnce'
  BY <1>1, <1>2 DEF PublishedOnce
<1> QED BY <1>1, <1>3, <1>4, PublishKeeps

LEMMA PushInv == ASSUME NEW e \in Events, IInv, Push(e) PROVE IInv'
<1> DEFINE h == Append(history, e)
<1>1. /\ UNCHANGED <<next, sent, tasks, open, buffer, delivered, streams>>
      /\ e \in unpushed /\ history' = LastOf(h, HistoryCap)
      /\ unpushed' = unpushed \ {e} /\ unsent' = unsent \cup {e}
      /\ TypeOK /\ PublishedOnce
  BY DEF Push, IInv
<1>2. history \in Seq(Events) /\ e \notin ToSet(history) /\ IsInjective(history)
  BY <1>1 DEF TypeOK, PublishedOnce
<1>3. h \in Seq(Events) /\ ToSet(h) = ToSet(history) \cup {e} /\ IsInjective(h)
  BY <1>2, Appended
<1> HIDE DEF h
<1>4. /\ history' \in Seq(Events) /\ Len(history') <= HistoryCap /\ IsInjective(history')
      /\ ToSet(history') \subseteq ToSet(history) \cup {e}
  BY <1>1, <1>3, Kept, Capacities
<1>5. TypeOK'
  BY <1>1, <1>4 DEF TypeOK, PublishedOnce, tasks
<1>6. PublishedOnce'
  BY <1>1, <1>4 DEF PublishedOnce, TypeOK
<1> QED BY <1>1, <1>5, <1>6, PublishKeeps

LEMMA BroadcastInv == ASSUME NEW e \in Events, IInv, Broadcast(e) PROVE IInv'
<1>1. /\ UNCHANGED <<next, unpushed, history, tasks, open, buffer, delivered, streams>>
      /\ e \in unsent /\ sent' = Append(sent, e) /\ unsent' = unsent \ {e}
      /\ TypeOK /\ PublishedOnce
  BY DEF Broadcast, IInv
<1>2. sent \in Seq(Events) /\ e \notin ToSet(sent) /\ e \notin unpushed /\ IsInjective(sent) /\ e \in 1 .. next - 1
  BY <1>1 DEF TypeOK, PublishedOnce
<1>3. /\ sent' \in Seq(Events) /\ Len(sent') = Len(sent) + 1 /\ ToSet(sent') = ToSet(sent) \cup {e}
      /\ IsInjective(sent') /\ \A i \in 1 .. Len(sent) : sent'[i] = sent[i]
  BY <1>1, <1>2, Appended
<1>4. pos \in 0 .. Len(sent') + 1 /\ since \in 0 .. Len(sent')
  BY <1>1, <1>3, LenProperties DEF TypeOK
<1>5. TypeOK'
  BY <1>1, <1>2, <1>3, <1>4 DEF TypeOK, tasks
<1>6. PublishedOnce'
  BY <1>1, <1>2, <1>3 DEF PublishedOnce
<1> QED BY <1>1, <1>3, <1>5, <1>6, PublishKeeps

-----------------------------------------------------------------------------
(* The stream. *)

\* The client connects, or is gone.
LEMMA ConnectInv == IInv /\ (Open \/ Disconnect) => IInv'
<1> SUFFICES ASSUME IInv, Open \/ Disconnect PROVE IInv'
  OBVIOUS
<1>1. /\ UNCHANGED bus /\ open' \in BOOLEAN /\ replay' \in {history, <<>>}
      /\ pos' = 0 /\ held' = 0 /\ emitted' = FALSE /\ lagged' = FALSE /\ since' = 0
      /\ buffer' = <<>> /\ delivered' = <<>> /\ streams' \in {streams, streams - 1} /\ (streams > 0 \/ streams' = streams)
      /\ TypeOK /\ PublishedOnce
  BY DEF Open, Disconnect, IInv
<1>2. \A S : <<>> \in Seq(S) /\ Len(<<>>) = 0
  BY EmptySeq
<1>3. ToSet(<<>>) = {} /\ IsInjective(<<>>)
  BY DEF ToSet, IsInjective
<1>4. Stream' = <<>>
  BY <1>1, <1>2, ConcatEmptySeq DEF Stream
<1>5. TypeOK'
  <2>1. streams' \in 0 .. MaxStreams
    BY <1>1, Capacities DEF TypeOK
  <2>2. Len(sent) \in Nat
    BY <1>1, LenProperties DEF TypeOK
  <2>3. /\ replay' \in Seq(Events) /\ Len(replay') <= HistoryCap
        /\ buffer' \in Seq(Item) /\ Len(buffer') <= BufferCap /\ delivered' \in Seq(Item)
    <3>1. 0 <= HistoryCap /\ 0 <= BufferCap
      BY Capacities
    <3>2. history \in Seq(Events) /\ Len(history) <= HistoryCap
      BY <1>1 DEF TypeOK
    <3> QED BY <1>1, <1>2, <3>1, <3>2
  <2>4. UNCHANGED <<next, unpushed, unsent, history, sent>>
    BY <1>1 DEF bus
  <2>5. pos' \in 0 .. Len(sent) + 1 /\ since' \in 0 .. Len(sent) /\ held' \in {0} \cup Events
    BY <1>1, <2>2
  <2> QED BY <1>1, <2>1, <2>3, <2>4, <2>5 DEF TypeOK
<1>6. PublishedOnce'
  BY <1>1 DEF PublishedOnce, bus
<1>7. Replaying'
  BY <1>1, <1>3, <1>4 DEF Replaying, PublishedOnce
<1>8. Received' /\ AtMostTwice' /\ NoSilentLoss'
  BY <1>1, <1>3, <1>4 DEF Received, AtMostTwice, NoSilentLoss
<1> QED BY <1>5, <1>6, <1>7, <1>8 DEF IInv

LEMMA ReadInv == IInv /\ Read => IInv'
<1> SUFFICES ASSUME IInv, Read PROVE IInv'
  OBVIOUS
<1>1. /\ UNCHANGED <<bus, tasks, open, streams>> /\ buffer # <<>>
      /\ delivered' = Append(delivered, Head(buffer)) /\ buffer' = Tail(buffer)
      /\ TypeOK /\ delivered \in Seq(Item) /\ buffer \in Seq(Item) /\ Len(buffer) <= BufferCap
  BY DEF Read, IInv, TypeOK
<1>2. Head(buffer) \in Item /\ buffer' \in Seq(Item) /\ Len(buffer') <= BufferCap
  BY <1>1, Shortened, LenProperties, Capacities
<1>3. delivered' \in Seq(Item)
  BY <1>1, <1>2, Appended
<1>4. Stream' = Stream
  BY <1>1, StreamMoves DEF Stream
<1>5. TypeOK'
  BY <1>1, <1>2, <1>3 DEF TypeOK, bus, tasks
<1>6. PublishedOnce' /\ Replaying' /\ Received' /\ AtMostTwice' /\ NoSilentLoss'
  BY <1>1, <1>4 DEF IInv, PublishedOnce, Replaying, Received, AtMostTwice, NoSilentLoss, Reaches, bus, tasks
<1> QED BY <1>5, <1>6 DEF IInv

LEMMA SubscribeInv == IInv /\ Subscribe => IInv'
<1> SUFFICES ASSUME IInv, Subscribe PROVE IInv'
  OBVIOUS
<1>1. /\ UNCHANGED <<bus, replay, held, emitted, lagged, open, buffer, delivered, streams>>
      /\ pos = 0 /\ pos' = Len(sent) + 1 /\ since' = Len(sent) /\ TypeOK
  BY DEF Subscribe, IInv
<1>2. Stream' = Stream /\ Len(sent) \in Nat
  BY <1>1, LenProperties DEF Stream, TypeOK
<1>3. TypeOK'
  BY <1>1, <1>2 DEF TypeOK, bus
<1>4. PublishedOnce' /\ Replaying' /\ AtMostTwice'
  BY <1>1, <1>2 DEF IInv, PublishedOnce, Replaying, AtMostTwice, bus
<1>5. Received'
  BY <1>1, <1>2 DEF IInv, Received, bus
<1>6. NoSilentLoss'
  BY <1>1, <1>2 DEF NoSilentLoss, bus
<1> QED BY <1>3, <1>4, <1>5, <1>6 DEF IInv

LEMMA LagInv == IInv /\ Lag => IInv'
<1> SUFFICES ASSUME IInv, Lag PROVE IInv'
  OBVIOUS
<1>1. /\ UNCHANGED <<bus, replay, held, emitted, since, open, buffer, delivered, streams>>
      /\ pos < Oldest /\ pos' = Oldest /\ lagged' = TRUE /\ TypeOK
  BY DEF Lag, IInv
<1>2. Stream' = Stream /\ Len(sent) \in Nat
  BY <1>1, LenProperties DEF Stream, TypeOK
<1>3. pos \in 0 .. Len(sent) + 1 /\ pos' \in 0 .. Len(sent) + 1 /\ 1 .. pos - 1 \subseteq 1 .. pos' - 1
  <2>1. pos \in 0 .. Len(sent) + 1
    BY <1>1 DEF TypeOK
  <2>2. Oldest \in 1 .. Len(sent) + 1
    BY <1>2, Capacities DEF Oldest
  <2> QED BY <1>1, <1>2, <2>1, <2>2
<1>4. TypeOK'
  BY <1>1, <1>3 DEF TypeOK, bus
<1>5. PublishedOnce' /\ Replaying' /\ AtMostTwice'
  BY <1>1, <1>2 DEF IInv, PublishedOnce, Replaying, AtMostTwice, bus
<1>6. Received'
  BY <1>1, <1>2, <1>3 DEF IInv, Received, bus
<1>7. NoSilentLoss'
  BY <1>1 DEF NoSilentLoss
<1> QED BY <1>4, <1>5, <1>6, <1>7 DEF IInv

\* A new event: it is neither held nor in the stream, and is now held, or may be dropped.
LEMMA ReceiveInv == IInv /\ Receive => IInv'
<1> SUFFICES ASSUME IInv, Receive PROVE IInv'
  OBVIOUS
<1>1. /\ UNCHANGED <<bus, replay, lagged, since, open, buffer, delivered, streams>>
      /\ held = 0 /\ pos \in 1 .. Len(sent) /\ pos' = pos + 1
      /\ \/ /\ held' = sent[pos] /\ emitted' = (emitted \/ sent[pos] \in ProgressEvents)
         \/ sent[pos] \in ProgressEvents /\ emitted /\ UNCHANGED <<held, emitted>>
      /\ TypeOK /\ PublishedOnce /\ Received
  BY DEF Receive, Receiving, Throttled, IInv
<1>2. Stream' = Stream /\ Len(sent) \in Nat /\ sent[pos] \in Events /\ DOMAIN sent = 1 .. Len(sent) /\ 0 \notin Events
  BY <1>1, LenProperties, ElementOfSeq, Capacities DEF Stream, TypeOK
<1>3. /\ pos' \in 0 .. Len(sent) + 1 /\ 1 .. pos' - 1 = (1 .. pos - 1) \cup {pos}
      /\ pos - 1 \in Nat /\ \A k \in 1 .. pos - 1 : k # pos /\ k \in DOMAIN sent
  BY <1>1, <1>2
<1>4. TypeOK'
  <2>1. held' \in {0} \cup Events /\ emitted' \in BOOLEAN
    BY <1>1, <1>2 DEF TypeOK
  <2> QED BY <1>1, <1>3, <2>1 DEF TypeOK, bus
<1>5. PublishedOnce' /\ Replaying' /\ AtMostTwice'
  BY <1>1, <1>2 DEF IInv, PublishedOnce, Replaying, AtMostTwice, bus
<1>6. \A k \in 1 .. pos - 1 : sent[k] # sent[pos]
  BY <1>1, <1>2, <1>3 DEF PublishedOnce, IsInjective
<1>7. Received'
  <2>1. UNCHANGED sent
    BY <1>1 DEF bus
  <2>2. held' # 0 => \E k \in 1 .. pos' - 1 : sent[k] = held'
    BY <1>1, <1>3
  <2>3. ASSUME NEW item \in ToSet(Stream), item.from = "live"
        PROVE  item.event # held' /\ \E k \in 1 .. pos' - 1 : sent[k] = item.event
    <3>1. item.event # 0 /\ \E k \in 1 .. pos - 1 : sent[k] = item.event
      BY <1>1, <2>3 DEF Received
    <3>2. item.event # sent[pos]
      BY <1>6, <3>1
    <3> QED BY <1>1, <1>3, <3>1, <3>2
  <2> QED BY <1>2, <2>1, <2>2, <2>3 DEF Received
<1>8. NoSilentLoss'
  <2>1. emitted => emitted'
    BY <1>1, Zenon
  <2>2. ASSUME open, ~lagged, NEW i \in since + 1 .. pos' - 1
        PROVE  Reaches(sent[i])' \/ (sent[i] \in ProgressEvents /\ emitted')
    <3>0. since \in Nat /\ i \in Nat /\ (i = pos \/ i \in since + 1 .. pos - 1) /\ i \in 1 .. Len(sent)
      BY <1>1, <1>2, <2>2 DEF TypeOK
    <3>1. CASE i = pos
      BY <1>1, <3>1 DEF Reaches, bus
    <3>2. CASE i \in since + 1 .. pos - 1
      <4>1. Reaches(sent[i]) \/ (sent[i] \in ProgressEvents /\ emitted)
        BY <2>2, <3>2 DEF IInv, NoSilentLoss
      <4>2. sent[i] # 0
        BY <1>1, <1>2, <3>0, ElementOfSeq DEF TypeOK
      <4>3. UNCHANGED <<sent, replay, Stream>>
        BY <1>1, <1>2 DEF bus
      <4>4. Reaches(sent[i]) => Reaches(sent[i])'
        BY <1>1, <4>2, <4>3 DEF Reaches
      <4> QED BY <2>1, <4>1, <4>3, <4>4
    <3> QED BY <3>0, <3>1, <3>2
  <2>3. UNCHANGED <<sent, open, lagged, since>>
    BY <1>1 DEF bus
  <2> QED BY <2>2, <2>3 DEF NoSilentLoss
<1> QED BY <1>4, <1>5, <1>7, <1>8 DEF IInv

LEMMA SendReplayInv == IInv /\ SendReplay => IInv'
<1> SUFFICES ASSUME IInv, SendReplay PROVE IInv'
  OBVIOUS
<1> DEFINE e == Head(replay)
           item == [event |-> e, from |-> "history"]
<1>1. /\ UNCHANGED <<bus, pos, held, emitted, lagged, since, open, delivered, streams>>
      /\ replay # <<>> /\ replay' = Tail(replay)
      /\ Len(buffer) < BufferCap /\ buffer' = Append(buffer, item)
      /\ TypeOK /\ replay \in Seq(Events) /\ Len(replay) <= HistoryCap
      /\ buffer \in Seq(Item) /\ delivered \in Seq(Item)
  BY DEF SendReplay, Enqueue, IInv, TypeOK
<1>2. /\ e \in Events /\ replay' \in Seq(Events) /\ Len(replay') <= HistoryCap
      /\ ToSet(replay) = ToSet(replay') \cup {e}
      /\ IsInjective(replay') /\ e \notin ToSet(replay')
  BY <1>1, Shortened, LenProperties, Capacities DEF IInv, Replaying
<1>3. item \in Item /\ item.event = e /\ item.from = "history"
  BY <1>2 DEF Item
<1> HIDE DEF item, e
<1>4. /\ buffer' \in Seq(Item) /\ Len(buffer') <= BufferCap
  BY <1>1, <1>3, Appended, LenProperties, Capacities
<1>5. Stream \in Seq(Item) /\ Stream' = Append(Stream, item)
  BY <1>1, <1>3, StreamGrows, ConcatProperties DEF Stream
<1>6. item \notin ToSet(Stream)
  BY <1>2, <1>3 DEF IInv, Replaying
<1>7. ToSet(Stream') = ToSet(Stream) \cup {item} /\ (IsInjective(Stream) => IsInjective(Stream'))
  BY <1>3, <1>5, <1>6, Appended
<1>8. TypeOK'
  BY <1>1, <1>2, <1>4 DEF TypeOK, bus
<1>9. PublishedOnce' /\ AtMostTwice'
  BY <1>1, <1>7 DEF IInv, PublishedOnce, AtMostTwice, bus
<1>10. Replaying'
  BY <1>2, <1>3, <1>7 DEF IInv, Replaying
<1>11. Received'
  BY <1>1, <1>3, <1>7 DEF IInv, Received, bus
<1>12. NoSilentLoss'
  BY <1>1, <1>2, <1>3, <1>7 DEF IInv, NoSilentLoss, Reaches, bus
<1> QED BY <1>8, <1>9, <1>10, <1>11, <1>12 DEF IInv

LEMMA SendLiveInv == IInv /\ SendLive => IInv'
<1> SUFFICES ASSUME IInv, SendLive PROVE IInv'
  OBVIOUS
<1> DEFINE item == [event |-> held, from |-> "live"]
<1>1. /\ UNCHANGED <<bus, replay, pos, emitted, lagged, since, open, delivered, streams>>
      /\ held # 0 /\ held' = 0 /\ held \in Events
      /\ Len(buffer) < BufferCap /\ buffer' = Append(buffer, item)
      /\ TypeOK /\ buffer \in Seq(Item) /\ delivered \in Seq(Item)
  BY DEF SendLive, Enqueue, IInv, TypeOK
<1>2. item \in Item /\ item.event = held /\ item.from = "live"
  BY <1>1 DEF Item
<1> HIDE DEF item
<1>3. /\ buffer' \in Seq(Item) /\ Len(buffer') <= BufferCap
  BY <1>1, <1>2, Appended, LenProperties, Capacities
<1>4. Stream \in Seq(Item) /\ Stream' = Append(Stream, item)
  BY <1>1, <1>2, StreamGrows, ConcatProperties DEF Stream
<1>5. item \notin ToSet(Stream)
  BY <1>2 DEF IInv, Received
<1>6. ToSet(Stream') = ToSet(Stream) \cup {item} /\ (IsInjective(Stream) => IsInjective(Stream'))
  BY <1>2, <1>4, <1>5, Appended
<1>7. TypeOK'
  BY <1>1, <1>3 DEF TypeOK, bus
<1>8. PublishedOnce' /\ Replaying' /\ AtMostTwice'
  BY <1>1, <1>2, <1>6 DEF IInv, PublishedOnce, Replaying, AtMostTwice, bus
<1>9. Received'
  <2>1. \A it \in ToSet(Stream) : it.from = "live" => \E k \in 1 .. pos - 1 : sent[k] = it.event
    BY DEF IInv, Received
  <2>2. \E k \in 1 .. pos - 1 : sent[k] = held
    BY <1>1 DEF IInv, Received
  <2>3. 0 \notin Events
    BY Capacities
  <2>4. \A k \in 1 .. pos - 1 : sent[k] \in Events
    <3>1. pos \in 0 .. Len(sent) + 1 /\ sent \in Seq(Events) /\ Len(sent) \in Nat
      BY <1>1, LenProperties DEF TypeOK
    <3>2. \A k \in 1 .. pos - 1 : k \in 1 .. Len(sent)
      BY <3>1
    <3> QED BY <3>1, <3>2, ElementOfSeq
  <2>5. UNCHANGED <<sent, pos>>
    BY <1>1 DEF bus
  <2>6. \A it \in ToSet(Stream') : it \in ToSet(Stream) \/ it = item
    BY <1>6
  <2> QED BY <1>1, <1>2, <2>1, <2>2, <2>3, <2>4, <2>5, <2>6 DEF Received
<1>10. NoSilentLoss'
  <2>1. \A i \in 1 .. pos - 1 : sent[i] \in Events
    BY <1>1, ElementOfSeq, LenProperties DEF TypeOK
  <2> QED BY <1>1, <1>2, <1>6, <2>1 DEF IInv, NoSilentLoss, Reaches, bus
<1> QED BY <1>7, <1>8, <1>9, <1>10 DEF IInv

-----------------------------------------------------------------------------

LEMMA NextIInv == IInv /\ [Next]_vars => IInv'
<1> SUFFICES ASSUME IInv, [Next]_vars PROVE IInv'
  OBVIOUS
<1>1. CASE Publish
  BY <1>1, CreateInv, PushInv, BroadcastInv DEF Publish
<1>2. CASE Open \/ Disconnect \/ Read
  BY <1>2, ConnectInv, ReadInv
<1>3. CASE SendReplay \/ Live
  BY <1>3, SendReplayInv, SubscribeInv, LagInv, ReceiveInv, SendLiveInv DEF Live
<1>4. CASE UNCHANGED vars
  BY <1>4 DEF vars, bus, tasks, IInv, TypeOK, PublishedOnce, Replaying, Received, AtMostTwice, NoSilentLoss,
              Reaches, Stream
<1> QED BY <1>1, <1>2, <1>3, <1>4 DEF Next

\* The history and the buffer keep to their capacities, and an event that is still to
\* be recorded or sent is in one stage of its publication: event.rs, sse.rs 25-86.
THEOREM TypeCorrect == Spec => []TypeOK
<1>1. IInv => TypeOK
  BY DEF IInv
<1> QED BY <1>1, InitIInv, NextIInv, PTL DEF Spec

\* The client sees an event at most twice, once from the history and once live,
\* whatever lags or waits: sse.rs 25-86.
THEOREM TwiceAtMost == Spec => []AtMostTwice
<1>1. IInv => AtMostTwice
  BY DEF IInv
<1> QED BY <1>1, InitIInv, NextIInv, PTL DEF Spec

\* From the subscription on only progress events are dropped, and never the first
\* of them, unless the receiver was told it lagged: sse.rs 42-66.
THEOREM NothingLost == Spec => []NoSilentLoss
<1>1. IInv => NoSilentLoss
  BY DEF IInv
<1> QED BY <1>1, InitIInv, NextIInv, PTL DEF Spec
=============================================================================
