------------------------------ MODULE EventStream ------------------------------
(***************************************************************************)
(* The event bus (core/event.rs) and one SSE subscriber (api/sse.rs).      *)
(*                                                                         *)
(* publish appends to a bounded history under its lock and then, as a      *)
(* second step, sends to the broadcast channel.  A stream copies the       *)
(* history and starts two tasks that feed one bounded mpsc channel: one    *)
(* sends the copy, the other subscribes and forwards live events, dropping *)
(* progress events that follow one another too fast.                       *)
(*                                                                         *)
(* Events are numbered in the order they are created; whether a second has *)
(* passed since the last progress event is a free choice.                  *)
(***************************************************************************)
EXTENDS Naturals, SequencesExt

CONSTANTS
    MaxEvents,      \* bound: events published
    ProgressEvents, \* those of the kind transfer.progress
    HistoryCap,     \* HISTORY_CAPACITY
    ChannelCap,     \* CHANNEL_CAPACITY
    BufferCap,      \* capacity of the stream's mpsc channel
    MaxStreams      \* bound: times the client connects

Events == 1 .. MaxEvents

ASSUME StreamAssumption ==
    /\ MaxEvents \in Nat /\ MaxStreams \in Nat
    /\ ProgressEvents \subseteq Events
    /\ {HistoryCap, ChannelCap, BufferCap} \subseteq Nat \ {0}

VARIABLES
    next,       \* the next event to create
    unpushed,   \* events created and not yet in the history
    unsent,     \* events in the history and not yet broadcast
    history,    \* EventBus::history
    sent,       \* everything broadcast so far; the channel keeps the last ChannelCap
    open,       \* a client is connected
    replay,     \* what the history task has left to send
    pos,        \* index in sent of the receiver's next event, 0 before subscribe
    held,       \* the live event waiting for room in the buffer, or 0
    emitted,    \* a progress event has been forwarded (last_emit)
    buffer,     \* the stream's mpsc channel
    delivered,  \* what the client has read
    since,      \* and when its live task subscribed
    lagged,     \* the receiver was told it lagged
    streams     \* connects left

bus == <<next, unpushed, unsent, history, sent>>
tasks == <<replay, pos, held, emitted, lagged, since>>
vars == <<bus, tasks, open, buffer, delivered, streams>>

Init ==
    /\ next = 1 /\ unpushed = {} /\ unsent = {} /\ history = <<>> /\ sent = <<>>
    /\ open = FALSE /\ replay = <<>> /\ pos = 0 /\ held = 0 /\ emitted = FALSE
    /\ buffer = <<>> /\ delivered = <<>> /\ lagged = FALSE /\ since = 0
    /\ streams = MaxStreams

-----------------------------------------------------------------------------
(* EventBus::publish, by any number of tasks. *)

Create ==
    /\ next \in Events
    /\ next' = next + 1 /\ unpushed' = unpushed \cup {next}
    /\ UNCHANGED <<unsent, history, sent, tasks, open, buffer, delivered, streams>>

\* The last n elements of a sequence.
LastOf(seq, n) == IF Len(seq) <= n THEN seq ELSE SubSeq(seq, Len(seq) - n + 1, Len(seq))

Push(e) ==
    /\ e \in unpushed
    /\ history' = LastOf(Append(history, e), HistoryCap)
    /\ unpushed' = unpushed \ {e} /\ unsent' = unsent \cup {e}
    /\ UNCHANGED <<next, sent, tasks, open, buffer, delivered, streams>>

Broadcast(e) ==
    /\ e \in unsent
    /\ sent' = Append(sent, e)
    /\ unsent' = unsent \ {e}
    /\ UNCHANGED <<next, unpushed, history, tasks, open, buffer, delivered, streams>>

-----------------------------------------------------------------------------
(* event_stream. *)

\* bus.recent(), then both tasks are spawned.
Open ==
    /\ ~open /\ streams > 0
    /\ open' = TRUE /\ streams' = streams - 1
    /\ replay' = history
    /\ pos' = 0 /\ held' = 0 /\ emitted' = FALSE /\ lagged' = FALSE /\ since' = 0
    /\ buffer' = <<>> /\ delivered' = <<>>
    /\ UNCHANGED bus

\* tx.send: an item waits until the buffer has room.
Enqueue(e, source) ==
    /\ Len(buffer) < BufferCap
    /\ buffer' = Append(buffer, [event |-> e, from |-> source])

SendReplay ==
    /\ open /\ replay # <<>>
    /\ Enqueue(Head(replay), "history")
    /\ replay' = Tail(replay)
    /\ UNCHANGED <<bus, pos, held, emitted, lagged, since, open, delivered, streams>>

Subscribe ==
    /\ open /\ pos = 0
    /\ pos' = Len(sent) + 1 /\ since' = Len(sent)
    /\ UNCHANGED <<bus, replay, held, emitted, lagged, open, buffer, delivered, streams>>

\* The oldest event the broadcast channel still holds.
Oldest == IF Len(sent) > ChannelCap THEN Len(sent) - ChannelCap + 1 ELSE 1

Receiving == open /\ pos \in 1 .. Len(sent) /\ held = 0

\* Mutant: after a lag the history is sent once more.
LagReplays ==
    /\ Receiving /\ pos < Oldest
    /\ pos' = Oldest /\ lagged' = TRUE /\ replay' = history
    /\ UNCHANGED <<bus, held, emitted, since, open, buffer, delivered, streams>>

\* RecvError::Lagged: the receiver goes on with the oldest event there is.
Lag ==
    /\ Receiving /\ pos < Oldest
    /\ pos' = Oldest /\ lagged' = TRUE
    /\ UNCHANGED <<bus, replay, held, emitted, since, open, buffer, delivered, streams>>

\* Mutant: every kind is throttled.
ThrottledAny(e) == emitted

\* Only a progress event after the first may be dropped.
Throttled(e) == e \in ProgressEvents /\ emitted

Receive ==
    /\ Receiving /\ pos >= Oldest
    /\ pos' = pos + 1
    /\ \/ /\ held' = sent[pos]
          /\ emitted' = (emitted \/ sent[pos] \in ProgressEvents)
       \/ Throttled(sent[pos]) /\ UNCHANGED <<held, emitted>>
    /\ UNCHANGED <<bus, replay, lagged, since, open, buffer, delivered, streams>>

SendLive ==
    /\ open /\ held # 0
    /\ Enqueue(held, "live")
    /\ held' = 0
    /\ UNCHANGED <<bus, replay, pos, emitted, lagged, since, open, delivered, streams>>

-----------------------------------------------------------------------------
(* The client. *)

Read ==
    /\ open /\ buffer # <<>>
    /\ delivered' = Append(delivered, Head(buffer)) /\ buffer' = Tail(buffer)
    /\ UNCHANGED <<bus, tasks, open, streams>>

\* Both tasks end at their next send.
Disconnect ==
    /\ open /\ open' = FALSE
    /\ replay' = <<>> /\ pos' = 0 /\ held' = 0 /\ emitted' = FALSE /\ lagged' = FALSE /\ since' = 0
    /\ buffer' = <<>> /\ delivered' = <<>>
    /\ UNCHANGED <<bus, streams>>

Live == Subscribe \/ Lag \/ Receive \/ SendLive

Publish == Create \/ \E e \in Events : Push(e) \/ Broadcast(e)

Next == Publish \/ Open \/ SendReplay \/ Live \/ Read \/ Disconnect

Spec == Init /\ [][Next]_vars

\* A publish under way ends, tokio runs both tasks of the stream (the mpsc
\* channel queues its senders, so neither starves), and the client keeps
\* reading.  The client need not stay connected.
FairSpec ==
    /\ Spec
    /\ WF_vars(\E e \in Events : Push(e) \/ Broadcast(e))
    /\ SF_vars(SendReplay) /\ WF_vars(Subscribe \/ Lag \/ Receive) /\ SF_vars(SendLive)
    /\ WF_vars(Read)

-----------------------------------------------------------------------------
(* Properties. *)

Item == [event : Events, from : {"history", "live"}]

\* Type invariant.  The history and the buffer keep to their capacities, and
\* an event is in one stage of its publication.
TypeOK ==
    /\ next \in 1 .. MaxEvents + 1
    /\ unpushed \subseteq 1 .. next - 1 /\ unsent \subseteq 1 .. next - 1
    /\ unpushed \cap unsent = {}
    /\ history \in Seq(Events) /\ Len(history) <= HistoryCap
    /\ sent \in Seq(Events) /\ ToSet(sent) \cap (unsent \cup unpushed) = {}
    /\ open \in BOOLEAN /\ emitted \in BOOLEAN /\ lagged \in BOOLEAN
    /\ replay \in Seq(Events) /\ Len(replay) <= HistoryCap
    /\ pos \in 0 .. Len(sent) + 1 /\ held \in {0} \cup Events
    /\ buffer \in Seq(Item) /\ Len(buffer) <= BufferCap
    /\ delivered \in Seq(Item)
    /\ since \in 0 .. Len(sent) /\ streams \in 0 .. MaxStreams

\* What the client has been or will be given, in order.
Stream == delivered \o buffer

Pending == ToSet(replay) \cup {held}

\* The client sees an event at most twice, once from the history and once
\* live: nothing is sent again when the receiver lags or the buffer is full.
AtMostTwice == IsInjective(Stream)

\* The event has reached the client, or is on its way.
Reaches(e) == e \in ToSet(replay) \cup {held} \/ \E item \in ToSet(Stream) : item.event = e

\* From the subscription on only progress events are dropped, and never the
\* first of them, unless the receiver was told it lagged (sse.rs 42-66).
NoSilentLoss ==
    open /\ ~lagged =>
        \A i \in since + 1 .. pos - 1 : Reaches(sent[i]) \/ (sent[i] \in ProgressEvents /\ emitted)

\* A connected client that reads gets every broadcast event that is not a
\* progress event and that its stream has subscribed to, or the stream lags.
EventuallyDelivered ==
    \A e \in Events \ ProgressEvents :
        (open /\ pos > 0 /\ e \in unsent) ~>
            (~open \/ lagged \/ \E item \in ToSet(delivered) : item.event = e)
=============================================================================
