----------------------------- MODULE EventStream -----------------------------
(***************************************************************************)
(* The event bus of crates/am-core/src/bus.rs and the task of handle_conn  *)
(* (crates/am-daemon/src/server.rs) that forwards its events to one client *)
(* of the daemon.                                                          *)
(*                                                                         *)
(* An event is its sequence number.  Numbers are gap-free, so the replay   *)
(* ring is the interval oldest..nextSeq, and the broadcast channel holds   *)
(* the last BroadcastCap events.  Publishers run at any point of the       *)
(* forwarding task, which waits for the socket in every send.              *)
(***************************************************************************)
EXTENDS Naturals, Sequences

CONSTANTS
    RingCap,       \* RING_CAPACITY
    BroadcastCap,  \* capacity of the broadcast channel
    OutCap,        \* capacity of the mpsc channel to the writer task
    MaxSeq         \* bound: events published

ASSUME CapAssumption ==
    /\ {RingCap, BroadcastCap, OutCap} \subseteq Nat \ {0}
    /\ MaxSeq \in Nat

VARIABLES
    nextSeq,   \* RingState.next_seq: the last number given out
    oldest,    \* RingState.ring is oldest..nextSeq
    pc,        \* where handle_conn and its forwarding task are
    v2,        \* events_v2: the client announced the capability
    rx,        \* the next number the broadcast receiver returns
    lastSent,  \* last_sent_seq
    replay,    \* the EventReplay in hand: its first and last event
    out,       \* the channel to the writer task
    broken,    \* the writer task ended because a write failed
    seen       \* the last number the client was told of, 0 before any

bus == <<nextSeq, oldest>>
streamVars == <<bus, pc, v2, rx, lastSent, replay, out, broken, seen>>

(* EventV2 (or Event) and EventGap frames: what the client is told about. *)
Frame == [kind : {"event", "gap"}, from : Nat, to : Nat]
Event(s) == [kind |-> "event", from |-> s, to |-> s]
Gap(a, b) == [kind |-> "gap", from |-> a, to |-> b]

Pc == {"handshake", "subscribed", "recv", "lagged", "replay", "closed"}

(* Numbers, frames and locals have their types and the channel its bound. *)
StreamTypeOK ==
    /\ nextSeq \in Nat /\ oldest \in Nat \ {0}
    /\ pc \in Pc
    /\ v2 \in BOOLEAN /\ broken \in BOOLEAN
    /\ rx \in Nat /\ lastSent \in Nat /\ seen \in Nat
    /\ replay \in [from : Nat, to : Nat]
    /\ out \in Seq(Frame) /\ Len(out) <= OutCap

StreamInit ==
    /\ nextSeq = 0 /\ oldest = 1
    /\ pc = "handshake"
    /\ v2 = FALSE /\ broken = FALSE
    /\ rx = 1 /\ lastSent = 0 /\ seen = 0
    /\ replay = [from |-> 1, to |-> 0]
    /\ out = << >>

------------------------------------------------------------------------------
(* EventBus::publish: number, ring and broadcast are one critical section. *)
Publish ==
    /\ nextSeq < MaxSeq
    /\ nextSeq' = nextSeq + 1
    /\ oldest' = IF (nextSeq + 1) - oldest >= RingCap THEN oldest + 1 ELSE oldest
    /\ UNCHANGED <<pc, v2, rx, lastSent, replay, out, broken, seen>>

(* broadcast::Receiver::recv has lost events it had not returned yet. *)
Lagging == rx + BroadcastCap <= nextSeq

(* The handshake is read and acknowledged and the receiver is created; a wrong
   token ends the connection. *)
Handshake(ok, cap) ==
    /\ pc = "handshake"
    /\ v2' = cap
    /\ pc' = IF ok THEN "subscribed" ELSE "closed"
    /\ rx' = nextSeq + 1
    /\ UNCHANGED <<bus, lastSent, replay, out, broken, seen>>

(* The forwarding task starts by reading latest_seq. *)
Start ==
    /\ pc = "subscribed"
    /\ lastSent' = nextSeq
    /\ pc' = "recv"
    /\ UNCHANGED <<bus, v2, rx, replay, out, broken, seen>>

(* Seeded fault: a send to a dead writer waits like one to a slow writer. *)
SendWaits(frame, next) ==
    ~broken /\ Len(out) < OutCap /\ out' = Append(out, frame) /\ pc' = next

(* event_tx.send(frame).await: waits for room in the channel, and ends the
   task when the writer is gone. *)
Send(frame, next) ==
    IF broken
    THEN pc' = "closed" /\ UNCHANGED out
    ELSE Len(out) < OutCap /\ out' = Append(out, frame) /\ pc' = next

(* recv returned an event. *)
Forward ==
    /\ pc = "recv" /\ rx <= nextSeq /\ ~Lagging
    /\ lastSent' = rx
    /\ rx' = rx + 1
    /\ Send(Event(rx), "recv")
    /\ UNCHANGED <<bus, v2, replay, broken, seen>>

(* EventBus::replay_since: events after since that the ring retains. *)
ReplaySince(since) ==
    [from |-> IF since + 1 < oldest THEN oldest ELSE since + 1, to |-> nextSeq]

(* recv returned Lagged: the replay is taken in one critical section. *)
Lagged ==
    /\ pc = "recv" /\ Lagging
    /\ replay' = ReplaySince(lastSent)
    /\ pc' = IF v2 /\ oldest > lastSent + 1 THEN "lagged" ELSE "replay"
    /\ UNCHANGED <<bus, v2, rx, lastSent, out, broken, seen>>

(* Seeded fault: missed_to is the first replayed event. *)
SendGapTooFar ==
    /\ pc = "lagged"
    /\ Send(Gap(lastSent + 1, replay.from), "replay")
    /\ UNCHANGED <<bus, v2, rx, lastSent, replay, broken, seen>>

(* The replay is incomplete: tell the client what it missed. *)
SendGap ==
    /\ pc = "lagged"
    /\ Send(Gap(lastSent + 1, replay.from - 1), "replay")
    /\ UNCHANGED <<bus, v2, rx, lastSent, replay, broken, seen>>

(* Seeded fault: last_sent_seq is only kept up to date by the live branch. *)
SendReplayedForgets ==
    /\ pc = "replay" /\ replay.from <= replay.to
    /\ replay' = [replay EXCEPT !.from = @ + 1]
    /\ Send(Event(replay.from), "replay")
    /\ UNCHANGED <<bus, v2, rx, lastSent, broken, seen>>

SendReplayed ==
    /\ pc = "replay" /\ replay.from <= replay.to
    /\ lastSent' = replay.from
    /\ replay' = [replay EXCEPT !.from = @ + 1]
    /\ Send(Event(replay.from), "replay")
    /\ UNCHANGED <<bus, v2, rx, broken, seen>>

(* Receiver::resubscribe: the new receiver starts after the newest event. *)
Resubscribe ==
    /\ pc = "replay" /\ replay.from > replay.to
    /\ rx' = nextSeq + 1
    /\ pc' = "recv"
    /\ UNCHANGED <<bus, v2, lastSent, replay, out, broken, seen>>

(* The writer task writes the oldest frame, and the client reads it; also
   after the forwarding task was aborted, until the channel is empty. *)
Write ==
    /\ out # << >> /\ ~broken
    /\ seen' = Head(out).to
    /\ out' = Tail(out)
    /\ UNCHANGED <<bus, pc, v2, rx, lastSent, replay, broken>>

(* A write fails: the writer task ends and drops the channel. *)
WriteFails ==
    /\ out # << >> /\ ~broken
    /\ broken' = TRUE
    /\ out' = << >>
    /\ UNCHANGED <<bus, pc, v2, rx, lastSent, replay, seen>>

(* The client closes the connection: read_line returns 0 and the forwarding
   task is aborted. *)
Disconnect ==
    /\ pc # "closed"
    /\ pc' = "closed"
    /\ UNCHANGED <<bus, v2, rx, lastSent, replay, out, broken, seen>>

Task == Start \/ Forward \/ Lagged \/ SendGap \/ SendReplayed \/ Resubscribe

StreamNext ==
    \/ Publish
    \/ \E ok \in BOOLEAN, cap \in BOOLEAN : Handshake(ok, cap)
    \/ Task
    \/ Write \/ WriteFails \/ Disconnect

StreamSpec == StreamInit /\ [][StreamNext]_streamVars
StreamLiveSpec == StreamSpec /\ WF_streamVars(Task) /\ WF_streamVars(Write)

------------------------------------------------------------------------------
(* The client gets events in the order they were published and none twice,
   live or replayed, and a gap never names an event it also gets. *)
InOrder == [][Write => seen < Head(out).from]_streamVars

(* An EventGap is only sent for events the ring has lost: the client refetches
   no state that could have been replayed. *)
GapsAreReal ==
    \A i \in 1..Len(out) : out[i].kind = "gap" =>
        out[i].from <= out[i].to /\ out[i].to < oldest

(* Once publishers pause, the forwarding task returns to waiting for the next
   event: neither a full channel nor a dead writer leaves it in a send. *)
ReturnsToLive == pc # "handshake" ~> (pc = "closed" \/ (pc = "recv" /\ rx > nextSeq))
==============================================================================
