-------------------------------- MODULE Mux --------------------------------
(***************************************************************************)
(* Streams over one authenticated session between two endpoints (dsoftbus, *)
(* userspace/dsoftbus/src/mux_v2.rs: MuxHostEndpoint and MuxSessionState), *)
(* and the scheduler that picks the next stream to serve.                  *)
(*                                                                         *)
(* What an endpoint puts into its outbound queue reaches the other in      *)
(* order.  A frame that is rejected changes nothing.  Streams and their    *)
(* names are never removed, and what is buffered is never taken out.  No   *)
(* call of an endpoint sends a window update; whoever uses the endpoint    *)
(* may put one on the wire.                                                *)
(***************************************************************************)
EXTENDS Integers, Sequences, FiniteSets, FiniteSetsExt

CONSTANTS
    StreamId, StreamName,
    Opens,            \* endpoint -> the ids it opens streams with
    Length,           \* payload lengths
    InitialCredit,    \* DEFAULT_INITIAL_STREAM_CREDIT
    Credits,          \* credits that open_stream is called with
    Deltas,           \* deltas of window updates
    MaxCredit,        \* u32::MAX
    MaxBuffered,      \* MAX_BUFFERED_BYTES_PER_STREAM
    MaxStreams,       \* MAX_STREAM_COUNT
    MaxInFlight,      \* bound on frames on their way to an endpoint
    Classes,          \* priority classes but the highest: 1..Classes
    BurstLimit,       \* HIGH_PRIORITY_BURST_LIMIT
    MaxPicks          \* bound on the streams queued in a class

End == {1, 2}
Peer(e) == 3 - e

(* A stream is opened by one end. *)
ASSUME MuxAssumption ==
    /\ Opens \in [End -> SUBSET StreamId] /\ Opens[1] \cap Opens[2] = {}
    /\ Length \subseteq Nat /\ MaxBuffered \in Nat
    /\ MaxCredit \in Nat /\ InitialCredit \in 0..MaxCredit /\ Credits \subseteq 0..MaxCredit
    /\ Deltas \subseteq Int

Nobody == [state |-> "none"]

VARIABLES
    mxStream,   \* endpoint -> id -> StreamContext and name; history: credit granted in all
    mxWire,     \* endpoint -> frames on their way to it
    mxQueue,    \* PriorityScheduler: class -> streams queued
    mxBurst,    \* consecutive_high_priority
    mxCursor    \* lower_priority_cursor

mxEnds == <<mxStream, mxWire>>
mxSched == <<mxQueue, mxBurst, mxCursor>>
mxVars == <<mxStream, mxWire, mxQueue, mxBurst, mxCursor>>

MxInit ==
    /\ mxStream = [e \in End |-> [i \in StreamId |-> Nobody]]
    /\ mxWire = [e \in End |-> <<>>]
    /\ mxQueue = [c \in 0..Classes |-> 0] /\ mxBurst = 0 /\ mxCursor = 1

-----------------------------------------------------------------------------
(* Streams *)

Known(e) == {i \in StreamId : mxStream[e][i] # Nobody}

Stream(name, credit) == [state |-> "Open", acked |-> FALSE, credit |-> credit,
                         granted |-> credit, buffered |-> 0, name |-> name]

(* open_stream's checks, here and for an Open frame. *)
CanOpen(e, i, name) ==
    /\ \A j \in Known(e) : mxStream[e][j].name # name
    /\ Cardinality(Known(e)) < MaxStreams
    /\ i \notin Known(e)

Transition_Fault(state, event) ==
    CASE state = "Open" /\ event = "SendClose" -> "HalfClosedLocal"
      [] state = "Open" /\ event = "ReceiveClose" -> "HalfClosedRemote"
      [] state = "HalfClosedLocal" /\ event = "ReceiveClose" -> "Closed"
      [] state = "HalfClosedRemote" /\ event = "SendClose" -> "HalfClosedLocal"
      [] event = "Reset" /\ state # "Closed" -> "Reset"
      [] OTHER -> "rejected"

(* apply_stream_transition *)
Transition(state, event) ==
    CASE state = "Open" /\ event = "SendClose" -> "HalfClosedLocal"
      [] state = "Open" /\ event = "ReceiveClose" -> "HalfClosedRemote"
      [] state = "HalfClosedLocal" /\ event = "ReceiveClose" -> "Closed"
      [] state = "HalfClosedRemote" /\ event = "SendClose" -> "Closed"
      [] event = "Reset" /\ state # "Closed" -> "Reset"
      [] OTHER -> "rejected"

Send(e, frame) ==
    /\ Len(mxWire[Peer(e)]) < MaxInFlight
    /\ mxWire' = [mxWire EXCEPT ![Peer(e)] = Append(@, frame)]

(* open_stream; the credit is for this end, the frame does not carry it. *)
OpenStream(e, i, name, credit) ==
    /\ i \in Opens[e] /\ CanOpen(e, i, name)
    /\ mxStream' = [mxStream EXCEPT ![e][i] = Stream(name, credit)]
    /\ Send(e, [kind |-> "Open", id |-> i, name |-> name])
    /\ UNCHANGED mxSched

Spent_Fault(s, n) == [s EXCEPT !.buffered = @ + n]
Spent(s, n) == [s EXCEPT !.credit = @ - n, !.buffered = @ + n]

(* send_data; without credit or room it would block, and nothing changes. *)
SendData(e, i, n) ==
    /\ i \in Known(e)
    /\ LET s == mxStream[e][i]
       IN  /\ s.state \in {"Open", "HalfClosedRemote"}
           /\ n <= s.credit /\ s.buffered + n <= MaxBuffered
           /\ mxStream' = [mxStream EXCEPT ![e][i] = Spent(s, n)]
    /\ Send(e, [kind |-> "Data", id |-> i, len |-> n])
    /\ UNCHANGED mxSched

(* close_stream and reset_stream *)
EndStream(e, i, event) ==
    /\ i \in Known(e) /\ event \in {"SendClose", "Reset"}
    /\ LET next == Transition(mxStream[e][i].state, event)
       IN  /\ next # "rejected"
           /\ mxStream' = [mxStream EXCEPT ![e][i].state = next]
    /\ Send(e, [kind |-> IF event = "Reset" THEN "Rst" ELSE "Close", id |-> i])
    /\ UNCHANGED mxSched

(* A window update for the other end. *)
SendWindowUpdate(e, i, d) ==
    /\ i \in Known(e)
    /\ Send(e, [kind |-> "WindowUpdate", id |-> i, delta |-> d])
    /\ UNCHANGED <<mxStream, mxSched>>

Accepts(s, n) ==
    /\ s.state \in {"Open", "HalfClosedLocal"}
    /\ s.buffered + n <= MaxBuffered

(* ingest, of an Open. *)
IngestOpen(e, f) ==
    /\ f.kind = "Open"
    /\ IF CanOpen(e, f.id, f.name)
       THEN /\ mxStream' = [mxStream EXCEPT ![e][f.id] = Stream(f.name, InitialCredit)]
            /\ Len(mxWire[Peer(e)]) < MaxInFlight
            /\ mxWire' = [mxWire EXCEPT ![e] = Tail(@), ![Peer(e)] =
                             Append(@, [kind |-> "OpenAck", id |-> f.id])]
       ELSE /\ mxWire' = [mxWire EXCEPT ![e] = Tail(@)]
            /\ UNCHANGED mxStream

(* apply_window_delta: the delta is cast to u32, and a credit that is none   *)
(* is rejected.                                                              *)
WindowDelta(credit, d) ==
    LET n == (IF d >= 0 THEN d ELSE -d) % (MaxCredit + 1)
        next == IF d >= 0 THEN credit + n ELSE credit - n
    IN  IF next \in 0..MaxCredit THEN next ELSE credit

(* What another frame makes of the stream it is for; itself if rejected. *)
Applied(s, f) ==
    LET moved == Transition(s.state, IF f.kind = "Rst" THEN "Reset" ELSE "ReceiveClose")
    IN  CASE f.kind = "OpenAck" /\ ~s.acked /\ s.state = "Open" -> [s EXCEPT !.acked = TRUE]
          [] f.kind = "Data" /\ Accepts(s, f.len) -> [s EXCEPT !.buffered = @ + f.len]
          [] f.kind = "WindowUpdate" ->
               LET next == WindowDelta(s.credit, f.delta)
               IN  [s EXCEPT !.credit = next, !.granted = @ + next - s.credit]
          [] f.kind \in {"Rst", "Close"} /\ moved # "rejected" -> [s EXCEPT !.state = moved]
          [] OTHER -> s

IngestOther(e, f) ==
    /\ f.kind # "Open"
    /\ mxStream' = IF f.id \in Known(e)
                   THEN [mxStream EXCEPT ![e][f.id] = Applied(@, f)] ELSE mxStream
    /\ mxWire' = [mxWire EXCEPT ![e] = Tail(@)]

Ingest(e) ==
    /\ mxWire[e] # <<>>
    /\ IngestOpen(e, Head(mxWire[e])) \/ IngestOther(e, Head(mxWire[e]))
    /\ UNCHANGED mxSched

EndsNext ==
    \E e \in End :
        \/ Ingest(e)
        \/ \E i \in StreamId :
             \/ \E name \in StreamName, credit \in Credits : OpenStream(e, i, name, credit)
             \/ \E d \in Deltas : SendWindowUpdate(e, i, d)
             \/ \E n \in Length : SendData(e, i, n)
             \/ \E event \in {"SendClose", "Reset"} : EndStream(e, i, event)

-----------------------------------------------------------------------------
(* PriorityScheduler: the streams queued in a class are served in order, so  *)
(* that their number is all that matters here.                               *)

Enqueue(c) ==
    /\ mxQueue[c] < MaxPicks
    /\ mxQueue' = [mxQueue EXCEPT ![c] = @ + 1]
    /\ UNCHANGED <<mxEnds, mxBurst, mxCursor>>

Lower == {c \in 1..Classes : mxQueue[c] > 0}

(* How far behind the cursor a class is. *)
Turn(c) == (c + Classes - mxCursor) % Classes

DequeueLower_Fault ==
    LET c == Min(Lower)
    IN  /\ mxQueue' = [mxQueue EXCEPT ![c] = @ - 1]
        /\ mxCursor' = 1
        /\ mxBurst' = 0

(* dequeue_from_lower_priorities: from the cursor on, round robin. *)
DequeueLower ==
    LET c == CHOOSE d \in Lower : \A o \in Lower : Turn(d) <= Turn(o)
    IN  /\ mxQueue' = [mxQueue EXCEPT ![c] = @ - 1]
        /\ mxCursor' = IF c = Classes THEN 1 ELSE c + 1
        /\ mxBurst' = 0

(* dequeue_next; with nothing queued it only forgets the burst. *)
DequeueNext ==
    /\ CASE Lower # {} /\ (mxQueue[0] = 0 \/ mxBurst >= BurstLimit) -> DequeueLower
         [] mxQueue[0] > 0 /\ (Lower = {} \/ mxBurst < BurstLimit) ->
                /\ mxQueue' = [mxQueue EXCEPT ![0] = @ - 1]
                /\ mxBurst' = IF mxBurst < BurstLimit THEN mxBurst + 1 ELSE mxBurst
                /\ UNCHANGED mxCursor
         [] OTHER -> mxBurst' = 0 /\ UNCHANGED <<mxQueue, mxCursor>>
    /\ UNCHANGED mxEnds

SchedNext == DequeueNext \/ \E c \in 0..Classes : Enqueue(c)

(* The endpoints and the scheduler, beside each other. *)
MuxSpec == MxInit /\ [][EndsNext \/ SchedNext]_mxVars

-----------------------------------------------------------------------------
(* Data that an endpoint was allowed to send is accepted: unless the other   *)
(* end refused or reset the stream, the next Data frame finds it open for    *)
(* receiving, with room for the payload, although one counter holds what was *)
(* sent and what was received, and closes and window updates cross on the    *)
(* way.  That is as long as the credit both ends were given, at opening and  *)
(* by window updates, fits into the buffer: open_stream takes any credit,    *)
(* and with more the receiver rejects what the sender was allowed to send.   *)
MxDataAccepted ==
    \A e \in End : mxWire[e] # <<>> =>
        LET f == Head(mxWire[e])
            r == mxStream[e][f.id]
            s == mxStream[Peer(e)][f.id]
        IN  f.kind = "Data" /\ f.id \in Known(e) /\ r.state # "Reset"
              => (r.granted + s.granted <= MaxBuffered => Accepts(r, f.len))

Mirror(state) == CASE state = "HalfClosedLocal" -> "HalfClosedRemote"
                   [] state = "HalfClosedRemote" -> "HalfClosedLocal"
                   [] OTHER -> state

(* Whenever nothing is on its way, the ends agree on every stream both know: *)
(* its name, and which directions are open, or for both it is over           *)
(* (apply_stream_transition under crossing Close and Rst frames).            *)
MxEndsAgree ==
    mxWire = [e \in End |-> <<>>] =>
        \A i \in Known(1) \cap Known(2) :
            LET a == mxStream[1][i]
                b == mxStream[2][i]
            IN  /\ a.name = b.name
                /\ \/ b.state = Mirror(a.state)
                   \/ {a.state, b.state} \subseteq {"Closed", "Reset"}

(* No class starves: one that always has streams queued is served again and  *)
(* again, whatever is queued in the others (RFC-0060: "strict-priority       *)
(* selection with deterministic starvation budget").                         *)
MxClassServed ==
    \A c \in 1..Classes :
        <>[](mxQueue[c] > 0) => []<><<DequeueNext /\ mxQueue'[c] < mxQueue[c]>>_mxVars
=============================================================================
