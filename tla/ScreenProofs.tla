---------------------------- MODULE ScreenProofs ----------------------------
(***************************************************************************)
(* What reaches the user: the events a client is sent (EventStream) and    *)
(* what the workbench shows of the daemon (Workbench). The two parts are   *)
(* independent of each other.                                              *)
(***************************************************************************)
EXTENDS EventStream, Workbench, TLAPS

(***************************************************************************)
(* A client gets its events in order and none twice. The forwarding task   *)
(* changes its source of events twice per lag, from the receiver to the    *)
(* replay and back; the invariant bounds what was told so far by the next  *)
(* event of whichever source is in use.                                    *)
(***************************************************************************)

(* Everything the client was or will be told is below n. *)
Below(n) == seen < n /\ \A i \in 1..Len(out) : out[i].to < n

(* The frames on their way are in order and beyond what the client has seen. *)
Ordered ==
    /\ \A i \in 1..Len(out) : seen < out[i].from /\ out[i].from <= out[i].to
    /\ \A i, j \in 1..Len(out) : i < j => out[i].to < out[j].from

(* The ring holds the newest event, and no gap names an event in it. *)
RingInv ==
    /\ oldest <= nextSeq + 1
    /\ nextSeq > 0 => oldest <= nextSeq
    /\ \A i \in 1..Len(out) : out[i].kind = "gap" => out[i].to < oldest

(* Where the next frame comes from, per position of the forwarding task. *)
SourceInv ==
    /\ pc = "handshake" => out = << >> /\ seen = 0
    /\ pc = "subscribed" => out = << >> /\ seen < rx /\ rx <= nextSeq + 1
    /\ pc = "recv" =>
         /\ Below(rx) /\ Below(lastSent + 1)
         /\ rx <= nextSeq + 1 /\ lastSent <= nextSeq
    /\ pc \in {"lagged", "replay"} =>
         replay.from <= nextSeq + 1 /\ replay.to <= nextSeq
    /\ pc = "lagged" =>
         /\ Below(lastSent + 1)
         /\ lastSent + 1 < replay.from
         /\ replay.from <= oldest
         /\ replay.from <= replay.to
    /\ pc = "replay" =>
         /\ Below(replay.from)
         /\ lastSent <= nextSeq
         /\ Below(lastSent + 1) \/ replay.from <= replay.to

IInv == StreamTypeOK /\ Ordered /\ RingInv /\ SourceInv

(* Appending a frame beyond everything told so far keeps the order. *)
LEMMA AppendFrame ==
    ASSUME IInv, NEW f \in Frame, Below(f.from), f.from <= f.to,
           f.kind = "gap" => f.to < oldest,
           Len(out) < OutCap,
           out' = Append(out, f), seen' = seen, oldest' = oldest,
           nextSeq' = nextSeq
    PROVE  /\ out' \in Seq(Frame) /\ Len(out') <= OutCap
           /\ Ordered' /\ RingInv'
           /\ \A n \in Nat : f.to < n => Below(n)'
  <1>1. /\ out \in Seq(Frame) /\ seen \in Nat /\ oldest \in Nat /\ nextSeq \in Nat
        /\ OutCap \in Nat
    BY CapAssumption DEF IInv, StreamTypeOK
  <1>2. /\ out' \in Seq(Frame) /\ Len(out') = Len(out) + 1
        /\ \A i \in 1..Len(out) : out'[i] = out[i] /\ out[i] \in Frame
        /\ out'[Len(out) + 1] = f
    BY <1>1
  <1>3. /\ f.from \in Nat /\ f.to \in Nat /\ Len(out) \in Nat
        /\ \A i \in 1..Len(out) : out[i].from \in Nat /\ out[i].to \in Nat
    BY <1>1, <1>2 DEF Frame
  <1>4. \A i \in 1..Len(out') : i \in 1..Len(out) \/ i = Len(out) + 1
    BY <1>2, <1>3
  <1>5. Ordered'
    BY <1>1, <1>2, <1>3, <1>4 DEF IInv, Ordered, Below
  <1>6. RingInv'
    BY <1>1, <1>2, <1>3, <1>4 DEF IInv, RingInv
  <1>7. \A n \in Nat : f.to < n => Below(n)'
    <2> SUFFICES ASSUME NEW n \in Nat, f.to < n PROVE Below(n)'
      OBVIOUS
    <2>1. seen < n
      BY <1>1, <1>3 DEF Below
    <2>2. \A i \in 1..Len(out) : out[i].to < n
      BY <1>3 DEF Below
    <2> QED  BY <2>1, <2>2, <1>2, <1>4 DEF Below
  <1> QED  BY <1>1, <1>2, <1>3, <1>5, <1>6, <1>7

(* A client's order is the inductive invariant's consequence: the initial
   state and every step of the bus, the task and the socket keep it. *)
LEMMA Inductive ==
    /\ StreamInit => IInv
    /\ IInv /\ [StreamNext]_streamVars => IInv'
  <1>1. StreamInit => IInv
    <2> SUFFICES ASSUME StreamInit PROVE IInv
      OBVIOUS
    <2>1. out = << >> /\ Len(out) = 0 /\ out \in Seq(Frame) /\ OutCap \in Nat
      BY CapAssumption DEF StreamInit
    <2>2. StreamTypeOK
      <3>1. Len(out) <= OutCap /\ replay \in [from : Nat, to : Nat]
        BY <2>1 DEF StreamInit
      <3>2. /\ nextSeq \in Nat /\ oldest \in Nat \ {0} /\ pc \in Pc
            /\ rx \in Nat /\ lastSent \in Nat /\ seen \in Nat
        BY DEF StreamInit, Pc
      <3>3. v2 \in BOOLEAN /\ broken \in BOOLEAN
        BY DEF StreamInit
      <3> QED  BY <2>1, <3>1, <3>2, <3>3 DEF StreamTypeOK
    <2>3. Ordered /\ RingInv
      BY <2>1 DEF StreamInit, Ordered, RingInv
    <2>4. SourceInv
      BY DEF StreamInit, SourceInv
    <2> QED  BY <2>2, <2>3, <2>4 DEF IInv
  <1>2. ASSUME IInv, [StreamNext]_streamVars PROVE IInv'
    <2> USE <1>2, CapAssumption
    <2>0. /\ nextSeq \in Nat /\ oldest \in Nat \ {0} /\ rx \in Nat /\ lastSent \in Nat
          /\ seen \in Nat /\ out \in Seq(Frame) /\ replay \in [from : Nat, to : Nat]
          /\ RingCap \in Nat \ {0} /\ BroadcastCap \in Nat \ {0} /\ OutCap \in Nat \ {0}
      BY DEF IInv, StreamTypeOK
    <2>a. /\ replay.from \in Nat /\ replay.to \in Nat /\ Len(out) \in Nat
          /\ \A i \in 1..Len(out) : /\ out[i] \in Frame
                                   /\ out[i].from \in Nat /\ out[i].to \in Nat
      <3>1. \A i \in 1..Len(out) : out[i] \in Frame
        BY <2>0
      <3>2. \A f \in Frame : f.from \in Nat /\ f.to \in Nat
        BY DEF Frame
      <3> QED  BY <2>0, <3>1, <3>2
    <2>1. CASE Publish
      <3>1. /\ nextSeq' \in Nat /\ oldest' \in Nat \ {0} /\ nextSeq < nextSeq'
            /\ oldest <= oldest' /\ oldest' <= nextSeq'
        BY <2>0, <2>1 DEF Publish, IInv, RingInv
      <3>2. StreamTypeOK' BY <3>1, <2>1 DEF Publish, IInv, StreamTypeOK
      <3>3. Ordered' BY <2>1 DEF Publish, IInv, Ordered
      <3>4. RingInv' BY <3>1, <2>0, <2>a, <2>1 DEF Publish, IInv, RingInv
      <3>5. SourceInv'
        BY <3>1, <2>0, <2>a, <2>1 DEF Publish, IInv, SourceInv, Below
      <3> QED  BY <3>2, <3>3, <3>4, <3>5 DEF IInv
    <2>2. CASE \E ok \in BOOLEAN, cap \in BOOLEAN : Handshake(ok, cap)
      BY <2>0, <2>2 DEF Handshake, bus, IInv, StreamTypeOK, Pc, Ordered, RingInv, SourceInv, Below
    <2>3. CASE Start
      BY <2>0, <2>3 DEF Start, bus, IInv, StreamTypeOK, Pc, Ordered, RingInv, SourceInv, Below
    <2>4. CASE Forward
      <3>1. CASE broken
        BY <3>1, <2>0, <2>4 DEF Forward, Send, bus, IInv, StreamTypeOK, Pc, Ordered, RingInv, SourceInv
      <3>2. CASE ~broken
        <4> DEFINE f == Event(rx)
        <4>1. f \in Frame /\ f.from = rx /\ f.to = rx /\ f.kind = "event"
          BY <2>0 DEF Event, Frame
        <4>2. /\ Len(out) < OutCap /\ out' = Append(out, f) /\ pc' = "recv" /\ pc = "recv"
              /\ rx <= nextSeq /\ rx' = rx + 1 /\ lastSent' = rx
              /\ UNCHANGED <<nextSeq, oldest, v2, replay, broken, seen>>
          BY <3>2, <2>4 DEF Forward, Send, bus
        <4>3. Below(f.from) /\ f.from <= f.to
          BY <2>0, <4>1, <4>2 DEF IInv, SourceInv
        <4> HIDE DEF f
        <4>4. /\ out' \in Seq(Frame) /\ Len(out') <= OutCap /\ Ordered' /\ RingInv'
              /\ \A n \in Nat : f.to < n => Below(n)'
          BY <4>1, <4>2, <4>3, AppendFrame
        <4>5. StreamTypeOK' BY <2>0, <4>2, <4>4 DEF IInv, StreamTypeOK, Pc
        <4>6. seen' < rx + 1 /\ \A i \in 1..Len(out') : out'[i].to < rx + 1
          <5>1. f.to < rx + 1 /\ rx + 1 \in Nat BY <2>0, <4>1
          <5>2. ASSUME NEW n \in Nat, f.to < n
                PROVE  seen' < n /\ \A i \in 1..Len(out') : out'[i].to < n
            BY <4>4, <5>2 DEF Below
          <5> QED  BY <5>1, <5>2
        <4>7. SourceInv' BY <2>0, <4>2, <4>6 DEF SourceInv, Below
        <4> QED  BY <4>4, <4>5, <4>7 DEF IInv
      <3> QED  BY <3>1, <3>2
    <2>5. CASE Lagged
      <3>1. /\ pc = "recv" /\ Lagging /\ replay' = ReplaySince(lastSent)
            /\ pc' = IF v2 /\ oldest > lastSent + 1 THEN "lagged" ELSE "replay"
            /\ UNCHANGED <<nextSeq, oldest, v2, rx, lastSent, out, broken, seen>>
        BY <2>5 DEF Lagged, bus
      <3>2. /\ Below(lastSent + 1) /\ lastSent <= nextSeq /\ oldest <= nextSeq
        BY <2>0, <3>1 DEF IInv, SourceInv, RingInv, Lagging
      <3>3. /\ replay' \in [from : Nat, to : Nat]
            /\ replay'.to = nextSeq
            /\ replay'.from = IF lastSent + 1 < oldest THEN oldest ELSE lastSent + 1
        BY <2>0, <3>1 DEF ReplaySince
      <3>4. Below(replay'.from)
        BY <2>0, <2>a, <3>2, <3>3 DEF Below
      <3>5. StreamTypeOK' BY <3>1, <3>3 DEF IInv, StreamTypeOK, Pc
      <3>6. Ordered' /\ RingInv' BY <3>1 DEF IInv, Ordered, RingInv
      <3>7. SourceInv' BY <2>0, <3>1, <3>2, <3>3, <3>4 DEF SourceInv, Below
      <3> QED  BY <3>5, <3>6, <3>7 DEF IInv
    <2>6. CASE SendGap
      <3>1. CASE broken
        BY <3>1, <2>0, <2>6 DEF SendGap, Send, bus, IInv, StreamTypeOK, Pc, Ordered, RingInv, SourceInv
      <3>2. CASE ~broken
        <4> DEFINE f == Gap(lastSent + 1, replay.from - 1)
        <4>1. /\ Len(out) < OutCap /\ out' = Append(out, f) /\ pc' = "replay" /\ pc = "lagged"
              /\ UNCHANGED <<nextSeq, oldest, v2, rx, lastSent, replay, broken, seen>>
          BY <3>2, <2>6 DEF SendGap, Send, bus
        <4>2. /\ Below(lastSent + 1) /\ lastSent + 1 < replay.from
              /\ replay.from <= oldest /\ replay.from <= replay.to
              /\ replay.from <= nextSeq + 1 /\ replay.to <= nextSeq
          BY <4>1 DEF IInv, SourceInv
        <4>3. /\ f \in Frame /\ f.from = lastSent + 1 /\ f.to = replay.from - 1
              /\ f.from <= f.to /\ f.to < oldest /\ f.to < replay.from
          BY <2>0, <2>a, <4>2 DEF Gap, Frame
        <4> HIDE DEF f
        <4>4. /\ out' \in Seq(Frame) /\ Len(out') <= OutCap /\ Ordered' /\ RingInv'
              /\ \A n \in Nat : f.to < n => Below(n)'
          BY <4>1, <4>2, <4>3, AppendFrame
        <4>5. StreamTypeOK' BY <4>1, <4>4 DEF IInv, StreamTypeOK, Pc
        <4>6. Below(replay.from)'
          BY <2>a, <4>1, <4>3, <4>4
        <4>7. SourceInv' BY <2>0, <2>a, <4>1, <4>2, <4>6 DEF SourceInv
        <4> QED  BY <4>4, <4>5, <4>7 DEF IInv
      <3> QED  BY <3>1, <3>2
    <2>7. CASE SendReplayed
      <3>0. /\ pc = "replay" /\ replay.from <= replay.to /\ lastSent' = replay.from
            /\ replay' = [from |-> replay.from + 1, to |-> replay.to]
            /\ UNCHANGED <<nextSeq, oldest, v2, rx, broken, seen>>
        BY <2>0, <2>7 DEF SendReplayed, bus
      <3>1. CASE broken
        BY <3>0, <3>1, <2>0, <2>a, <2>7
        DEF SendReplayed, Send, bus, IInv, StreamTypeOK, Pc, Ordered, RingInv, SourceInv
      <3>2. CASE ~broken
        <4> DEFINE f == Event(replay.from)
        <4>1. /\ Len(out) < OutCap /\ out' = Append(out, f) /\ pc' = "replay"
          BY <3>2, <2>7 DEF SendReplayed, Send
        <4>2. /\ f \in Frame /\ f.from = replay.from /\ f.to = replay.from /\ f.kind = "event"
          BY <2>a DEF Event, Frame
        <4>3. Below(f.from) /\ f.from <= f.to /\ replay.to <= nextSeq
          BY <2>a, <3>0, <4>2 DEF IInv, SourceInv
        <4> HIDE DEF f
        <4>4. /\ out' \in Seq(Frame) /\ Len(out') <= OutCap /\ Ordered' /\ RingInv'
              /\ \A n \in Nat : f.to < n => Below(n)'
          BY <3>0, <4>1, <4>2, <4>3, AppendFrame
        <4>5. StreamTypeOK' BY <2>a, <3>0, <4>1, <4>4 DEF IInv, StreamTypeOK, Pc
        <4>6. seen' < replay.from + 1 /\ \A i \in 1..Len(out') : out'[i].to < replay.from + 1
          <5>1. replay.from \in Nat BY <2>a
          <5>2. replay.from + 1 \in Nat /\ replay.from < replay.from + 1 BY <5>1
          <5>3. ASSUME NEW n \in Nat, f.to < n
                PROVE  seen' < n /\ \A i \in 1..Len(out') : out'[i].to < n
            BY <4>4, <5>3 DEF Below
          <5> QED  BY <4>2, <5>2, <5>3
        <4>7. SourceInv' BY <2>0, <2>a, <3>0, <4>1, <4>3, <4>6 DEF SourceInv, Below
        <4> QED  BY <4>4, <4>5, <4>7 DEF IInv
      <3> QED  BY <3>1, <3>2
    <2>8. CASE Resubscribe
      <3>1. /\ pc = "replay" /\ replay.from > replay.to /\ rx' = nextSeq + 1 /\ pc' = "recv"
            /\ UNCHANGED <<nextSeq, oldest, v2, lastSent, replay, out, broken, seen>>
        BY <2>8 DEF Resubscribe, bus
      <3>2. /\ Below(replay.from) /\ replay.from <= nextSeq + 1 /\ lastSent <= nextSeq
            /\ Below(lastSent + 1)
        BY <2>0, <2>a, <3>1 DEF IInv, SourceInv
      <3>3. Below(nextSeq + 1)
        BY <2>0, <2>a, <3>2 DEF Below
      <3>4. StreamTypeOK' BY <2>0, <3>1 DEF IInv, StreamTypeOK, Pc
      <3>5. Ordered' /\ RingInv' BY <3>1 DEF IInv, Ordered, RingInv
      <3>6. SourceInv' BY <2>0, <3>1, <3>2, <3>3 DEF SourceInv, Below
      <3> QED  BY <3>4, <3>5, <3>6 DEF IInv
    <2>9. CASE Write
      <3>1. /\ out # << >> /\ seen' = out[1].to /\ out' = Tail(out)
            /\ UNCHANGED <<nextSeq, oldest, pc, v2, rx, lastSent, replay, broken>>
        BY <2>0, <2>9 DEF Write, bus
      <3>2. /\ Len(out) >= 1 /\ out' \in Seq(Frame) /\ Len(out') = Len(out) - 1
            /\ \A i \in 1..Len(out') : i + 1 \in 1..Len(out) /\ out'[i] = out[i + 1]
        BY <2>0, <3>1
      <3>3. out[1].to \in Nat /\ 1 \in 1..Len(out)
        BY <2>a, <3>2
      <3>4. Ordered'
        BY <2>0, <2>a, <3>1, <3>2, <3>3 DEF IInv, Ordered
      <3>5. RingInv'
        BY <3>1, <3>2 DEF IInv, RingInv
      <3>6. StreamTypeOK'
        BY <2>0, <2>a, <3>1, <3>2, <3>3 DEF IInv, StreamTypeOK
      <3>7. \A n \in Nat : Below(n) => (seen' < n /\ \A i \in 1..Len(out') : out'[i].to < n)
        BY <3>1, <3>2, <3>3 DEF Below
      <3>8. SourceInv'
        BY <2>0, <2>a, <3>1, <3>2, <3>7 DEF IInv, SourceInv, Below
      <3> QED  BY <3>4, <3>5, <3>6, <3>8 DEF IInv
    <2>10. CASE WriteFails
      BY <2>0, <2>10 DEF WriteFails, bus, IInv, StreamTypeOK, Ordered, RingInv, SourceInv, Below
    <2>11. CASE Disconnect
      BY <2>11 DEF Disconnect, bus, IInv, StreamTypeOK, Pc, Ordered, RingInv, SourceInv
    <2>12. CASE UNCHANGED streamVars
      BY <2>12 DEF streamVars, bus, IInv, StreamTypeOK, Ordered, RingInv, SourceInv, Below
    <2> QED
      BY <2>1, <2>2, <2>3, <2>4, <2>5, <2>6, <2>7, <2>8, <2>9, <2>10, <2>11, <2>12
      DEF StreamNext, Task
  <1> QED  BY <1>1, <1>2

(* For every capacity of the ring, the broadcast channel and the socket
   channel, the client gets events in order and none twice. *)
THEOREM DeliveredInOrder == StreamSpec => InOrder
  <1>1. IInv /\ [StreamNext]_streamVars => [Write => seen < Head(out).from]_streamVars
    BY DEF IInv, StreamTypeOK, Ordered, Write
  <1> QED  BY <1>1, Inductive, PTL DEF StreamSpec, InOrder

(* For every capacity, an EventGap names events the ring has lost. *)
THEOREM GapsAreLost == StreamSpec => []GapsAreReal
  <1>1. IInv => GapsAreReal
    BY DEF IInv, Ordered, RingInv, GapsAreReal
  <1> QED  BY <1>1, Inductive, PTL DEF StreamSpec

(***************************************************************************)
(* Proofs about Workbench for every set of messages and events and every   *)
(* interleaving of the handler, the refresh loop, the detection, the       *)
(* readers of accounts, the sign-in watch and the load of the diff.        *)
(*                                                                         *)
(* What is shown is never behind because what is held in flight is not: a  *)
(* probe whose revisions are current has read no earlier than the last     *)
(* invalidation and than the beginning of every reader that is current, a  *)
(* diff that is read and not asked for again is as new as the last         *)
(* request, and the round a handler waits for reads after the handler's    *)
(* own change. The folders are connected once because a run of a caller    *)
(* has that caller waiting for it, and nobody else starts one until it has *)
(* ended.                                                                  *)
(***************************************************************************)

(* What is cached of accounts and models is not behind what was asked for; nor is
   what a probe or a reader holds as long as its revision is current. *)
Detection(c, d, ac, h, r) ==
    /\ c \in CacheState /\ d \in DetState /\ ac \in [Readers -> AccState]
    /\ h.floor # None => c.acct >= h.floor
    /\ c.at = "fresh" /\ ~c.err => c.models >= h.since
    /\ h.since <= r.models /\ h.floor <= r.acct
    /\ d.shown => d.acct # None
    /\ d.on /\ d.dCur /\ d.acct # None /\ ~d.err => d.models >= h.since
    /\ d.on /\ d.aCur /\ d.acct # None => d.acct >= h.floor
    /\ \A a \in Readers :
         /\ ac[a].start <= r.acct
         /\ ac[a].pc = "got" => ac[a].val >= ac[a].start
         /\ d.on /\ d.aCur /\ d.acct # None /\ ac[a].pc # "idle" /\ ac[a].cur => d.acct >= ac[a].start

(* Who connects the folders: the caller whose run it is waits for it, and unless
   the folders changed under it, it is alone and the folder is not there yet. *)
Alone(ru, re, m, r) ==
    /\ r.repos <= 1
    /\ \A s \in Callers : ru[s] \in {"check", "insert"} => r.repos = 0
    /\ ~(ru["rf"] # "none" /\ ru["msg"] # "none")
    /\ ru["msg"] # "none" => re = "msg"
    /\ ru["rf"] # "none" => re = "rf" \/ (re = "none" /\ m.pc = "wait")

(* What a caller is about to push is a value of the settings. *)
Pushes(p) == \A s \in Callers : p[s].pc = "push" => p[s].set \in {0, 1}

(* Callers, runs, the loop and the handler fit together. *)
Connects(p, ru, re, f, m, r, h) ==
    /\ Pushes(p)
    /\ p \in [Callers -> PreState]
    /\ ru \in [Callers -> {"none", "list", "check", "insert"}]
    /\ re \in Callers \cup {"none", "done"} /\ (re \in Callers => ru[re] # "none")
    /\ f \in LoopState
    /\ \A s \in Callers : ru[s] # "none" <=> p[s].pc = "wait" /\ p[s].on = s
    /\ p["rf"].pc # "idle" <=> f.pc = "pre"
    /\ p["msg"].pc # "idle" <=> m.pc = "submit"
    /\ h.overlap \/ Alone(ru, re, m, r)

(* A diff that is read and not asked for again is new enough. *)
Reviewed(d, h, r) ==
    /\ d \in DiffState
    /\ h.wanted <= r.files
    /\ d.pc \in {"idle", "show", "shown"} /\ ~(d.pc # "idle" /\ d.pending) => d.read >= h.wanted

(* A handler that awaits the loop after a change of its own awaits a round that
   reads after the change. *)
Awaits(m, f, r) ==
    /\ m \in MsgState
    /\ m.made <= r.rows
    /\ m.kind = "forward" /\ m.pc = "wait" =>
         f.pc # "idle" /\ (f.more \/ f.pc = "pre" \/ f.rows >= m.made)

(* What is left of the types. *)
Others ==
    /\ real \in RealState /\ hist \in HistState
    /\ config \in {0, 1} /\ applied \in {0, 1} /\ synced \in {None, 0, 1}
    /\ shown \in ShownState
    /\ queued \in BOOLEAN /\ note \in Read
    /\ auth \in AuthState
    /\ turn \in {"none", "asked", "sending", "sent", "told"}
    /\ events \in 0..MaxEvents
    /\ acc["msg"].pc # "idle" <=> msg.pc = "accounts"

(* The inductive invariant. *)
Inv ==
    /\ Others
    /\ Detection(cache, det, acc, hist, real)
    /\ Connects(pre, run, ready, rf, msg, real, hist)
    /\ Reviewed(diff, hist, real)
    /\ Awaits(msg, rf, real)

-----------------------------------------------------------------------------
(* Detection *)

(* The daemon's versions only grow. *)
Later(q, r) == q.rows >= r.rows /\ q.acct >= r.acct /\ q.models >= r.models /\ q.files >= r.files

(* Other fields of the history do not matter, and later versions do no harm. *)
LEMMA DetectionLater ==
    ASSUME NEW c, NEW d, NEW ac, NEW h \in HistState, NEW r \in RealState, Detection(c, d, ac, h, r),
           NEW g \in HistState, g.floor = h.floor, g.since = h.since,
           NEW q \in RealState, Later(q, r)
    PROVE Detection(c, d, ac, g, q)
<1>1. /\ r.acct \in Int /\ q.acct \in Int /\ r.models \in Int /\ q.models \in Int
      /\ h.floor \in Int /\ h.since \in Int
      /\ \A a \in Readers : ac[a].start \in Int
  BY DEF Detection, RealState, HistState, AccState, Read, Version, None
<1> QED BY <1>1 DEF Detection, Later

(* invalidateDetection *)
LEMMA DetectionInvalidated ==
    ASSUME NEW c, NEW d, NEW ac, NEW h \in HistState, real \in RealState, Detection(c, d, ac, h, real)
    PROVE /\ Since(h) \in HistState
          /\ Detection(Stale(c), Outdated(d), ac, Since(h), real)
          /\ Since(h).wanted = h.wanted /\ Since(h).overlap = h.overlap
<1>1. Since(h) \in HistState /\ Since(h).since = real.models /\ Since(h).floor = h.floor
      /\ Since(h).wanted = h.wanted /\ Since(h).overlap = h.overlap
  BY DEF Since, HistState, RealState
<1>2. real.models \in Int BY DEF RealState, Version
<1>3. Stale(c) \in CacheState /\ Stale(c).at # "fresh" /\ Stale(c).acct = c.acct
  BY DEF Detection, Stale, CacheState
<1>4. /\ Outdated(d) \in DetState /\ ~Outdated(d).dCur
      /\ Outdated(d).shown = d.shown /\ Outdated(d).acct = d.acct /\ Outdated(d).on = d.on /\ Outdated(d).aCur = d.aCur
  BY DEF Detection, Outdated, DetState
<1> QED BY <1>1, <1>2, <1>3, <1>4 DEF Detection

(* detect: a probe that begins holds nothing. *)
LEMMA DetectionDetected ==
    ASSUME NEW c, NEW d, NEW ac, NEW h, NEW r, Detection(c, d, ac, h, r),
           NEW b \in CacheState
    PROVE Detection(c, Detected(b, d), ac, h, r)
<1>1. NewDet \in DetState /\ NewDet.acct = None /\ NewDet.shown = FALSE
  BY DEF NewDet, NoDet, DetState, Read, None
<1> QED BY <1>1 DEF Detection, Detected

(* A reader begins and outdates the others and the accounts of the probe. *)
LEMMA DetectionBegan ==
    ASSUME NEW c, NEW d, NEW ac, NEW h, real \in RealState, Detection(c, d, ac, h, real), NEW a \in Readers
    PROVE /\ Detection(c, Superseded(d), Began(ac, a), h, real)
          /\ \A b \in Readers : Began(ac, a)[b].pc = IF b = a THEN "ask" ELSE ac[b].pc
<1>1. /\ Superseded(d) \in DetState /\ Superseded(d).aCur = FALSE
      /\ Superseded(d).shown = d.shown /\ Superseded(d).acct = d.acct /\ Superseded(d).on = d.on
      /\ Superseded(d).dCur = d.dCur /\ Superseded(d).err = d.err /\ Superseded(d).models = d.models
  BY DEF Detection, Superseded, DetState
<1>2. ASSUME NEW b \in Readers
      PROVE /\ Began(ac, a)[b] \in AccState
            /\ Began(ac, a)[b].pc = IF b = a THEN "ask" ELSE ac[b].pc
            /\ b # a => Began(ac, a)[b].val = ac[b].val /\ Began(ac, a)[b].start = ac[b].start
            /\ b = a => Began(ac, a)[b].start = real.acct
  <2>1. CASE b = a BY <2>1 DEF Began, AccState, NoAcc, Read, Version, None, RealState
  <2>2. CASE b # a BY <2>2 DEF Began, AccState, Detection
  <2> QED BY <2>1, <2>2
<1>3. Began(ac, a) \in [Readers -> AccState] BY <1>2 DEF Began
<1>4. real.acct \in Int BY DEF RealState, Version
<1> QED BY <1>1, <1>2, <1>3, <1>4 DEF Detection

(* A reader ends. *)
LEMMA DetectionReleased ==
    ASSUME NEW c, NEW d, NEW ac, NEW h, NEW r \in RealState, Detection(c, d, ac, h, r), NEW a \in Readers
    PROVE Detection(c, d, [ac EXCEPT ![a] = NoAcc], h, r)
<1>1. NoAcc \in AccState /\ NoAcc.pc = "idle" /\ NoAcc.start = -1 BY DEF NoAcc, AccState, Read, None
<1>2. r.acct \in Nat BY DEF RealState, Version
<1>3. -1 <= r.acct BY <1>2
<1> QED BY <1>1, <1>3 DEF Detection

(* The answer of a reader goes to the cache, if it is still current. *)
LEMMA DetectionApplied ==
    ASSUME Detection(cache, det, acc, hist, real), hist \in HistState, NEW a \in Readers, acc[a].pc = "got"
    PROVE /\ Floor(a) \in HistState
          /\ Detection(WithAccounts(a), det, acc, Floor(a), real)
          /\ WithAccounts(a).at = cache.at
          /\ Floor(a).wanted = hist.wanted /\ Floor(a).overlap = hist.overlap
<1>1. CASE Used(a)
  <2>1. /\ WithAccounts(a) \in CacheState /\ WithAccounts(a).acct = acc[a].val /\ WithAccounts(a).at = cache.at
        /\ WithAccounts(a).err = cache.err /\ WithAccounts(a).models = cache.models
    BY <1>1 DEF Detection, WithAccounts, CacheState, AccState
  <2>2. /\ Floor(a) \in HistState /\ Floor(a).floor = acc[a].start /\ Floor(a).since = hist.since
        /\ Floor(a).wanted = hist.wanted /\ Floor(a).overlap = hist.overlap
    BY <1>1 DEF Detection, Floor, HistState, AccState
  <2>3. acc[a].cur BY <1>1 DEF Used
  <2> QED BY <2>1, <2>2, <2>3 DEF Detection
<1>2. CASE ~Used(a) BY <1>2 DEF WithAccounts, Floor
<1> QED BY <1>1, <1>2

(* detect after the answer was applied *)
LEMMA DetectionReprobed ==
    ASSUME NEW c, NEW ac, NEW h, NEW r, Detection(c, det, ac, h, r), cache \in CacheState
    PROVE Detection(c, Reprobed, ac, h, r)
<1>1. Detection(c, Detected(cache, det), ac, h, r) BY DetectionDetected
<1> QED BY <1>1 DEF Reprobed

-----------------------------------------------------------------------------
(* Connects *)

(* Nobody starts or ends a run, nobody begins or ends a round. *)
LEMMA ConnectsKept ==
    ASSUME Connects(pre, run, ready, rf, msg, real, hist),
           UNCHANGED <<pre, run, ready, rf>>,
           msg.pc = "wait" => msg'.pc = "wait", msg'.pc = "submit" <=> msg.pc = "submit",
           real'.repos = real.repos, hist'.overlap = hist.overlap
    PROVE Connects(pre', run', ready', rf', msg', real', hist')
BY DEF Connects, Alone

(* refresh *)
LEMMA Refreshed ==
    ASSUME Connects(pre, run, ready, rf, msg, real, hist), Refresh
    PROVE /\ rf' \in LoopState /\ pre' \in [Callers -> PreState]
          /\ pre'["msg"] = pre["msg"]
          /\ Pushes(pre')
          /\ rf'.pc = "pre" <=> rf.pc # "show"
          /\ pre'["rf"].pc # "idle" <=> rf'.pc = "pre"
          /\ pre'["rf"].pc = "wait" <=> pre["rf"].pc = "wait"
          /\ pre'["rf"].on = pre["rf"].on
          /\ rf'.pc # "idle"
          /\ rf'.more \/ rf'.pc = "pre"
<1>1. CASE rf.pc = "idle"
  <2>1. rf' = [Idle EXCEPT !.pc = "pre"] /\ pre' = [pre EXCEPT !["rf"].pc = "sync"] BY <1>1 DEF Refresh
  <2>2. rf' \in LoopState /\ rf'.pc = "pre" BY <2>1 DEF Idle, LoopState, Version
  <2>3. "rf" \in Callers /\ "msg" \in Callers BY DEF Callers
  <2>4. pre \in [Callers -> PreState] /\ pre["rf"] \in PreState /\ pre["rf"].pc = "idle"
    BY <1>1, <2>3 DEF Connects
  <2>5. [pre["rf"] EXCEPT !.pc = "sync"] \in PreState BY <2>4 DEF PreState
  <2>6. pre' \in [Callers -> PreState] /\ pre'["rf"] = [pre["rf"] EXCEPT !.pc = "sync"] /\ pre'["msg"] = pre["msg"]
    BY <2>1, <2>3, <2>4, <2>5
  <2>7. pre'["rf"].pc = "sync" /\ pre'["rf"].on = pre["rf"].on BY <2>4, <2>6 DEF PreState
  <2>8. Pushes(pre') BY <2>6, <2>7 DEF Connects, Pushes, Callers
  <2> QED BY <1>1, <2>2, <2>4, <2>6, <2>7, <2>8
<1>2. CASE rf.pc # "idle"
  <2>1. rf' = [rf EXCEPT !.more = TRUE] /\ pre' = pre BY <1>2 DEF Refresh
  <2>2. rf \in LoopState /\ pre \in [Callers -> PreState] BY DEF Connects
  <2>3. rf' \in LoopState /\ rf'.pc = rf.pc /\ rf'.more = TRUE BY <2>1, <2>2 DEF LoopState
  <2>4. rf.pc \in {"pre", "show"} BY <1>2, <2>2 DEF LoopState
  <2> QED BY <1>2, <2>1, <2>2, <2>3, <2>4 DEF Connects
<1> QED BY <1>1, <1>2

LEMMA ConnectsRefreshed ==
    ASSUME Connects(pre, run, ready, rf, msg, real, hist), Refresh, UNCHANGED <<run, ready>>,
           msg.pc = "wait" => msg'.pc = "wait", msg'.pc = "submit" <=> msg.pc = "submit",
           real'.repos = real.repos, hist'.overlap = hist.overlap
    PROVE Connects(pre', run', ready', rf', msg', real', hist')
<1>1. /\ rf' \in LoopState /\ pre' \in [Callers -> PreState] /\ pre'["msg"] = pre["msg"] /\ Pushes(pre')
      /\ pre'["rf"].pc # "idle" <=> rf'.pc = "pre"
      /\ pre'["rf"].pc = "wait" <=> pre["rf"].pc = "wait"
      /\ pre'["rf"].on = pre["rf"].on
  BY Refreshed
<1>2. \A s \in Callers : run[s] # "none" <=> pre'[s].pc = "wait" /\ pre'[s].on = s
  BY <1>1 DEF Connects, Callers
<1>3. hist'.overlap \/ Alone(run', ready', msg', real') BY DEF Connects, Alone
<1>4. pre'["msg"].pc # "idle" <=> msg'.pc = "submit" BY <1>1 DEF Connects
<1> QED BY <1>1, <1>2, <1>3, <1>4 DEF Connects

-----------------------------------------------------------------------------
(* Awaits *)

LEMMA AwaitsKept ==
    ASSUME Awaits(msg, rf, real), real \in RealState, UNCHANGED rf,
           msg' = msg \/ (msg' \in MsgState /\ msg'.made \in {0, msg.made} /\ msg'.pc # "wait"),
           real' \in RealState, Later(real', real)
    PROVE Awaits(msg', rf', real')
<1>1. real.rows \in Nat /\ real'.rows \in Nat /\ msg.made \in Nat BY DEF RealState, Version, Awaits, MsgState
<1>2. real'.rows >= real.rows BY DEF Later
<1>3. msg'.made <= real'.rows BY <1>1, <1>2 DEF Awaits
<1> QED BY <1>3 DEF Awaits

LEMMA AwaitsRefreshed ==
    ASSUME Awaits(msg, rf, real), Connects(pre, run, ready, rf, msg, real, hist), Refresh, real \in RealState,
           msg' \in MsgState, msg'.made \in {0, msg.made}, real' \in RealState, Later(real', real)
    PROVE Awaits(msg', rf', real')
<1>1. real.rows \in Nat /\ real'.rows \in Nat /\ msg.made \in Nat BY DEF RealState, Version, Awaits, MsgState
<1>2. real'.rows >= real.rows BY DEF Later
<1>3. msg'.made <= real'.rows BY <1>1, <1>2 DEF Awaits
<1>4. rf'.pc # "idle" /\ (rf'.more \/ rf'.pc = "pre") BY Refreshed
<1> QED BY <1>3, <1>4 DEF Awaits

(* Reviewed *)
LEMMA ReviewedKept ==
    ASSUME Reviewed(diff, hist, real), real \in RealState, hist \in HistState, UNCHANGED diff,
           hist'.wanted = hist.wanted, real' \in RealState, Later(real', real)
    PROVE Reviewed(diff', hist', real')
<1>1. real.files \in Nat /\ real'.files \in Nat /\ hist.wanted \in Nat BY DEF RealState, HistState, Version
<1>2. real'.files >= real.files BY DEF Later
<1>3. hist'.wanted <= real'.files BY <1>1, <1>2 DEF Reviewed
<1> QED BY <1>3 DEF Reviewed

LEMMA LaterSame == ASSUME NEW r \in RealState PROVE Later(r, r)
BY DEF Later, RealState, Version
LEMMA Counted == ASSUME events \in 0..MaxEvents, Count PROVE events' \in 0..MaxEvents
BY EventsAssumption DEF Count

-----------------------------------------------------------------------------
(* The readiness timer and the detection *)
LEMMA ReadinessKeeps ==
    ASSUME Inv, Readiness PROVE Inv'
<1>1. /\ Others /\ real \in RealState /\ hist \in HistState
      /\ Detection(cache, det, acc, hist, real) /\ Connects(pre, run, ready, rf, msg, real, hist)
      /\ Reviewed(diff, hist, real) /\ Awaits(msg, rf, real)
  BY DEF Inv, Others
<1>2. UNCHANGED <<real, config, applied, synced, run, ready, shown, msg, cache, det, acc,
                  queued, note, auth, diff, turn, hist, events>>
  BY DEF Readiness, daemon, settings, preamble, loop, detection, accounts, rest
<1>3. real' \in RealState /\ Later(real', real) /\ real'.repos = real.repos BY <1>1, <1>2, LaterSame
<1>4. /\ hist' \in HistState /\ hist'.wanted = hist.wanted /\ hist'.overlap = hist.overlap
      /\ hist'.floor = hist.floor /\ hist'.since = hist.since
  BY <1>1, <1>2
<1>5. msg' \in MsgState /\ msg' = msg BY <1>1, <1>2 DEF Awaits
<1>6. Detection(cache', det', acc', hist', real') BY <1>1, <1>2, <1>3, <1>4, DetectionLater
<1>10. Refresh BY DEF Readiness
<1>7. Connects(pre', run', ready', rf', msg', real', hist')
  BY <1>1, <1>2, <1>3, <1>4, <1>5, <1>10, ConnectsRefreshed
<1>8. Reviewed(diff', hist', real') BY <1>1, <1>2, <1>3, <1>4, ReviewedKept
<1>9. Awaits(msg', rf', real') BY <1>1, <1>2, <1>3, <1>5, <1>10, AwaitsRefreshed
<1>12. Others' BY <1>1, <1>2, <1>3, <1>4, <1>5 DEF Others
<1> QED BY <1>6, <1>7, <1>8, <1>9, <1>12 DEF Inv

LEMMA TtlPassesKeeps ==
    ASSUME Inv, TtlPasses PROVE Inv'
<1>1. /\ Others /\ real \in RealState /\ hist \in HistState
      /\ Detection(cache, det, acc, hist, real) /\ Connects(pre, run, ready, rf, msg, real, hist)
      /\ Reviewed(diff, hist, real) /\ Awaits(msg, rf, real)
  BY DEF Inv, Others
<1>2. UNCHANGED <<real, config, applied, synced, pre, run, ready, rf, shown, msg, det, acc,
                  queued, note, auth, diff, turn, hist, events>>
  BY DEF TtlPasses, daemon, settings, preamble, loop, detection, accounts, rest
<1>3. real' \in RealState /\ Later(real', real) /\ real'.repos = real.repos BY <1>1, <1>2, LaterSame
<1>4. /\ hist' \in HistState /\ hist'.wanted = hist.wanted /\ hist'.overlap = hist.overlap
      /\ hist'.floor = hist.floor /\ hist'.since = hist.since
  BY <1>1, <1>2
<1>5. msg' \in MsgState /\ msg' = msg BY <1>1, <1>2 DEF Awaits
<1>6. Detection(cache', det', acc', hist', real')
  <2>1. cache' \in CacheState /\ cache'.at = "old" /\ cache'.acct = cache.acct
    BY <1>1 DEF Detection, TtlPasses, CacheState
  <2> QED BY <1>1, <1>2, <2>1 DEF Detection
<1>7. Connects(pre', run', ready', rf', msg', real', hist')
  BY <1>1, <1>2, <1>3, <1>4, <1>5, ConnectsKept
<1>8. Reviewed(diff', hist', real') BY <1>1, <1>2, <1>3, <1>4, ReviewedKept
<1>9. Awaits(msg', rf', real') BY <1>1, <1>2, <1>3, <1>5, AwaitsKept
<1>12. Others' BY <1>1, <1>2, <1>3, <1>4, <1>5 DEF Others
<1> QED BY <1>6, <1>7, <1>8, <1>9, <1>12 DEF Inv

LEMMA ProbeKeeps ==
    ASSUME Inv, Probe PROVE Inv'
<1>1. /\ Others /\ real \in RealState /\ hist \in HistState
      /\ Detection(cache, det, acc, hist, real) /\ Connects(pre, run, ready, rf, msg, real, hist)
      /\ Reviewed(diff, hist, real) /\ Awaits(msg, rf, real)
  BY DEF Inv, Others
<1>2. UNCHANGED <<real, config, applied, synced, pre, run, ready, rf, shown, msg, cache, acc,
                  queued, note, auth, diff, turn, hist, events>>
  BY DEF Probe, daemon, settings, preamble, loop, detection, accounts, rest
<1>3. real' \in RealState /\ Later(real', real) /\ real'.repos = real.repos BY <1>1, <1>2, LaterSame
<1>4. /\ hist' \in HistState /\ hist'.wanted = hist.wanted /\ hist'.overlap = hist.overlap
      /\ hist'.floor = hist.floor /\ hist'.since = hist.since
  BY <1>1, <1>2
<1>5. msg' \in MsgState /\ msg' = msg BY <1>1, <1>2 DEF Awaits
<1>6. Detection(cache', det', acc', hist', real')
  <2>1. det' = [det EXCEPT !.models = real.models, !.acct = real.acct] /\ det.acct = None BY DEF Probe
  <2>2. det \in DetState BY <1>1 DEF Detection
  <2>3. /\ det' \in DetState /\ det'.models = real.models /\ det'.acct = real.acct /\ det'.shown = det.shown
        /\ det'.dCur = det.dCur /\ det'.aCur = det.aCur /\ det'.err = det.err /\ det'.on = det.on
    BY <1>1, <2>1, <2>2 DEF DetState, Read, RealState
  <2>4. ~det.shown BY <1>1, <2>1 DEF Detection
  <2> QED BY <1>1, <1>2, <2>3, <2>4 DEF Detection
<1>7. Connects(pre', run', ready', rf', msg', real', hist')
  BY <1>1, <1>2, <1>3, <1>4, <1>5, ConnectsKept
<1>8. Reviewed(diff', hist', real') BY <1>1, <1>2, <1>3, <1>4, ReviewedKept
<1>9. Awaits(msg', rf', real') BY <1>1, <1>2, <1>3, <1>5, AwaitsKept
<1>12. Others' BY <1>1, <1>2, <1>3, <1>4, <1>5 DEF Others
<1> QED BY <1>6, <1>7, <1>8, <1>9, <1>12 DEF Inv

LEMMA ProbeFailsKeeps ==
    ASSUME Inv, ProbeFails PROVE Inv'
<1>1. /\ Others /\ real \in RealState /\ hist \in HistState
      /\ Detection(cache, det, acc, hist, real) /\ Connects(pre, run, ready, rf, msg, real, hist)
      /\ Reviewed(diff, hist, real) /\ Awaits(msg, rf, real)
  BY DEF Inv, Others
<1>2. UNCHANGED <<real, config, applied, synced, pre, run, ready, rf, shown, msg, cache, acc,
                  queued, note, auth, diff, turn, hist>>
  BY DEF ProbeFails, daemon, settings, preamble, loop, detection, accounts, rest
<1>3. real' \in RealState /\ Later(real', real) /\ real'.repos = real.repos BY <1>1, <1>2, LaterSame
<1>4. /\ hist' \in HistState /\ hist'.wanted = hist.wanted /\ hist'.overlap = hist.overlap
      /\ hist'.floor = hist.floor /\ hist'.since = hist.since
  BY <1>1, <1>2
<1>5. msg' \in MsgState /\ msg' = msg BY <1>1, <1>2 DEF Awaits
<1>6. Detection(cache', det', acc', hist', real')
  <2>1. det' = [det EXCEPT !.models = cache.models, !.acct = real.acct, !.err = TRUE] /\ det.acct = None
    BY DEF ProbeFails
  <2>2. det \in DetState /\ cache \in CacheState BY <1>1 DEF Detection
  <2>3. /\ det' \in DetState /\ det'.acct = real.acct /\ det'.shown = det.shown
        /\ det'.aCur = det.aCur /\ det'.err = TRUE /\ det'.on = det.on
    BY <1>1, <2>1, <2>2 DEF DetState, CacheState, Read, RealState
  <2>4. ~det.shown BY <1>1, <2>1 DEF Detection
  <2> QED BY <1>1, <1>2, <2>3, <2>4 DEF Detection
<1>7. Connects(pre', run', ready', rf', msg', real', hist')
  BY <1>1, <1>2, <1>3, <1>4, <1>5, ConnectsKept
<1>8. Reviewed(diff', hist', real') BY <1>1, <1>2, <1>3, <1>4, ReviewedKept
<1>9. Awaits(msg', rf', real') BY <1>1, <1>2, <1>3, <1>5, AwaitsKept
<1>11. events' \in 0..MaxEvents
  <2>1. events \in 0..MaxEvents /\ Count BY <1>1 DEF Others, ProbeFails
  <2> QED BY <2>1, Counted
<1>12. Others' BY <1>1, <1>2, <1>3, <1>4, <1>5, <1>11 DEF Others
<1> QED BY <1>6, <1>7, <1>8, <1>9, <1>12 DEF Inv

LEMMA PublishAccountsKeeps ==
    ASSUME Inv, PublishAccounts PROVE Inv'
<1>1. /\ Others /\ real \in RealState /\ hist \in HistState
      /\ Detection(cache, det, acc, hist, real) /\ Connects(pre, run, ready, rf, msg, real, hist)
      /\ Reviewed(diff, hist, real) /\ Awaits(msg, rf, real)
  BY DEF Inv, Others
<1>2. UNCHANGED <<real, config, applied, synced, pre, run, ready, rf, shown, msg, acc, queued,
                  note, auth, diff, turn, hist, events>>
  BY DEF PublishAccounts, daemon, settings, preamble, loop, detection, accounts, rest
<1>3. real' \in RealState /\ Later(real', real) /\ real'.repos = real.repos BY <1>1, <1>2, LaterSame
<1>4. /\ hist' \in HistState /\ hist'.wanted = hist.wanted /\ hist'.overlap = hist.overlap
      /\ hist'.floor = hist.floor /\ hist'.since = hist.since
  BY <1>1, <1>2
<1>5. msg' \in MsgState /\ msg' = msg BY <1>1, <1>2 DEF Awaits
<1>6. Detection(cache', det', acc', hist', real')
  <2>1. det' = [det EXCEPT !.shown = TRUE] /\ det.on /\ det.acct # None BY DEF PublishAccounts
  <2>2. det \in DetState /\ cache \in CacheState BY <1>1 DEF Detection
  <2>3. /\ det' \in DetState /\ det'.acct = det.acct /\ det'.shown = TRUE /\ det'.models = det.models
        /\ det'.aCur = det.aCur /\ det'.dCur = det.dCur /\ det'.err = det.err /\ det'.on = det.on
    BY <2>1, <2>2 DEF DetState
  <2>4. Detection(cache, det', acc, hist, real) BY <1>1, <2>1, <2>3 DEF Detection
  <2>5. CASE det.aCur /\ det.dCur
    <3>1. cache' = [cache EXCEPT !.acct = det.acct] BY <2>5 DEF PublishAccounts
    <3>2. /\ cache' \in CacheState /\ cache'.acct = det.acct /\ cache'.at = cache.at /\ cache'.err = cache.err
          /\ cache'.models = cache.models
      BY <2>2, <3>1 DEF CacheState, DetState
    <3>3. det.acct >= hist.floor BY <1>1, <2>1, <2>5 DEF Detection
    <3> QED BY <1>2, <2>4, <3>2, <3>3 DEF Detection
  <2>6. CASE ~(det.aCur /\ det.dCur)
    <3>1. cache' = cache BY <2>6 DEF PublishAccounts
    <3> QED BY <1>2, <2>4, <3>1
  <2> QED BY <2>5, <2>6
<1>7. Connects(pre', run', ready', rf', msg', real', hist')
  BY <1>1, <1>2, <1>3, <1>4, <1>5, ConnectsKept
<1>8. Reviewed(diff', hist', real') BY <1>1, <1>2, <1>3, <1>4, ReviewedKept
<1>9. Awaits(msg', rf', real') BY <1>1, <1>2, <1>3, <1>5, AwaitsKept
<1>12. Others' BY <1>1, <1>2, <1>3, <1>4, <1>5 DEF Others
<1> QED BY <1>6, <1>7, <1>8, <1>9, <1>12 DEF Inv

LEMMA DetectionEndsKeeps ==
    ASSUME Inv, DetectionEnds PROVE Inv'
<1>1. /\ Others /\ real \in RealState /\ hist \in HistState
      /\ Detection(cache, det, acc, hist, real) /\ Connects(pre, run, ready, rf, msg, real, hist)
      /\ Reviewed(diff, hist, real) /\ Awaits(msg, rf, real)
  BY DEF Inv, Others
<1>2. UNCHANGED <<real, config, applied, synced, pre, run, ready, rf, shown, msg, acc, queued,
                  note, auth, diff, turn, hist, events>>
  BY DEF DetectionEnds, daemon, settings, preamble, loop, detection, accounts, rest
<1>3. real' \in RealState /\ Later(real', real) /\ real'.repos = real.repos BY <1>1, <1>2, LaterSame
<1>4. /\ hist' \in HistState /\ hist'.wanted = hist.wanted /\ hist'.overlap = hist.overlap
      /\ hist'.floor = hist.floor /\ hist'.since = hist.since
  BY <1>1, <1>2
<1>5. msg' \in MsgState /\ msg' = msg BY <1>1, <1>2 DEF Awaits
<1>6. Detection(cache', det', acc', hist', real')
  <2>1. det.on /\ det.shown /\ cache' = Ended /\ det' = (IF Ended.at = "zero" THEN NewDet ELSE NoDet)
    BY DEF DetectionEnds
  <2>2. det \in DetState /\ cache \in CacheState /\ det.acct # None BY <1>1, <2>1 DEF Detection
  <2>3. /\ NewDet \in DetState /\ NewDet.acct = None /\ NewDet.shown = FALSE
        /\ NoDet \in DetState /\ NoDet.acct = None /\ NoDet.shown = FALSE
    BY DEF NewDet, NoDet, DetState, Read, None
  <2>4. det' \in DetState /\ det'.acct = None /\ det'.shown = FALSE BY <2>1, <2>3
  <2>5. /\ cache' \in CacheState
        /\ hist.floor # None => cache'.acct >= hist.floor
        /\ cache'.at = "fresh" /\ ~cache'.err => cache'.models >= hist.since
    <3>1. CASE det.dCur
      <4>1. cache' = [acct |-> IF det.aCur THEN det.acct ELSE cache.acct, models |-> det.models, at |-> "fresh", err |-> det.err]
        BY <2>1, <3>1 DEF Ended, Probed
      <4>2. /\ cache' \in CacheState /\ cache'.acct = (IF det.aCur THEN det.acct ELSE cache.acct)
            /\ cache'.models = det.models /\ cache'.err = det.err
        BY <2>2, <4>1 DEF CacheState, DetState
      <4>3. hist.floor # None => cache'.acct >= hist.floor BY <1>1, <2>1, <2>2, <4>2 DEF Detection
      <4>4. ~det.err => det.models >= hist.since BY <1>1, <2>1, <2>2, <3>1 DEF Detection
      <4> QED BY <4>2, <4>3, <4>4
    <3>2. CASE ~det.dCur
      <4>1. cache' = [cache EXCEPT !.at = "zero"] BY <2>1, <3>2 DEF Ended
      <4>2. cache' \in CacheState /\ cache'.acct = cache.acct /\ cache'.at = "zero"
        BY <2>2, <4>1 DEF CacheState
      <4> QED BY <1>1, <4>2 DEF Detection
    <3> QED BY <3>1, <3>2
  <2> QED BY <1>1, <1>2, <2>4, <2>5 DEF Detection
<1>7. Connects(pre', run', ready', rf', msg', real', hist')
  BY <1>1, <1>2, <1>3, <1>4, <1>5, ConnectsKept
<1>8. Reviewed(diff', hist', real') BY <1>1, <1>2, <1>3, <1>4, ReviewedKept
<1>9. Awaits(msg', rf', real') BY <1>1, <1>2, <1>3, <1>5, AwaitsKept
<1>12. Others' BY <1>1, <1>2, <1>3, <1>4, <1>5 DEF Others
<1> QED BY <1>6, <1>7, <1>8, <1>9, <1>12 DEF Inv

-----------------------------------------------------------------------------
(* The readers of accounts *)
LEMMA AccountsReadKeeps ==
    ASSUME Inv, NEW a \in Readers, AccountsRead(a) PROVE Inv'
<1>1. /\ Others /\ real \in RealState /\ hist \in HistState
      /\ Detection(cache, det, acc, hist, real) /\ Connects(pre, run, ready, rf, msg, real, hist)
      /\ Reviewed(diff, hist, real) /\ Awaits(msg, rf, real)
  BY DEF Inv, Others
<1>2. UNCHANGED <<real, config, applied, synced, pre, run, ready, rf, shown, msg, cache, det,
                  queued, note, auth, diff, turn, hist, events>>
  BY DEF AccountsRead, daemon, settings, preamble, loop, detection, accounts, rest
<1>3. real' \in RealState /\ Later(real', real) /\ real'.repos = real.repos BY <1>1, <1>2, LaterSame
<1>4. /\ hist' \in HistState /\ hist'.wanted = hist.wanted /\ hist'.overlap = hist.overlap
      /\ hist'.floor = hist.floor /\ hist'.since = hist.since
  BY <1>1, <1>2
<1>5. msg' \in MsgState /\ msg' = msg BY <1>1, <1>2 DEF Awaits
<1>6. Detection(cache', det', acc', hist', real')
  <2>1. acc \in [Readers -> AccState] /\ acc[a] \in AccState /\ acc[a].pc = "ask"
    BY <1>1 DEF Detection, AccountsRead
  <2> DEFINE w == [acc[a] EXCEPT !.pc = "got", !.val = real.acct, !.signed = real.signed, !.exists = real.exists]
  <2>2. /\ w \in AccState /\ w.pc = "got" /\ w.val = real.acct /\ w.start = acc[a].start /\ w.cur = acc[a].cur
    BY <1>1, <2>1 DEF AccState, RealState, Read
  <2>3. acc' = [acc EXCEPT ![a] = w] BY DEF AccountsRead
  <2> HIDE DEF w
  <2>4. acc' \in [Readers -> AccState] /\ acc'[a] = w /\ \A b \in Readers \ {a} : acc'[b] = acc[b]
    BY <2>1, <2>2, <2>3
  <2>5. acc[a].start <= real.acct /\ real.acct \in Int /\ acc[a].start \in Int
    BY <1>1, <2>1 DEF Detection, RealState, Version, AccState, Read, None
  <2>6. ASSUME NEW b \in Readers
        PROVE /\ acc'[b].start <= real.acct
              /\ acc'[b].pc = "got" => acc'[b].val >= acc'[b].start
              /\ det.on /\ det.aCur /\ det.acct # None /\ acc'[b].pc # "idle" /\ acc'[b].cur => det.acct >= acc'[b].start
    <3>1. CASE b = a BY <1>1, <2>1, <2>2, <2>4, <2>5, <3>1 DEF Detection
    <3>2. CASE b # a BY <1>1, <2>4, <3>2 DEF Detection
    <3> QED BY <3>1, <3>2
  <2> QED BY <1>1, <1>2, <2>4, <2>6 DEF Detection
<1>7. Connects(pre', run', ready', rf', msg', real', hist')
  BY <1>1, <1>2, <1>3, <1>4, <1>5, ConnectsKept
<1>8. Reviewed(diff', hist', real') BY <1>1, <1>2, <1>3, <1>4, ReviewedKept
<1>9. Awaits(msg', rf', real') BY <1>1, <1>2, <1>3, <1>5, AwaitsKept
<1>12. Others'
  <2>1. "msg" \in Readers BY DEF Readers
  <2>2. acc \in [Readers -> AccState] /\ acc[a] \in AccState /\ acc[a].pc = "ask"
    BY <1>1 DEF Detection, AccountsRead
  <2>3. acc'["msg"].pc # "idle" <=> acc["msg"].pc # "idle" BY <2>1, <2>2 DEF AccountsRead, AccState
  <2> QED BY <1>1, <1>2, <1>3, <1>4, <1>5, <2>3 DEF Others
<1> QED BY <1>6, <1>7, <1>8, <1>9, <1>12 DEF Inv

LEMMA EventGoneOn ==
    ASSUME NEW c, NEW d, NEW h, real \in RealState, Detection(c, d, acc, h, real), EventGoesOn(d), queued \in BOOLEAN
    PROVE /\ Detection(c, det', acc', h, real)
          /\ queued' \in BOOLEAN
          /\ acc'["msg"].pc # "idle" <=> acc["msg"].pc # "idle"
<1>1. "event" \in Readers /\ "msg" \in Readers /\ "msg" # "event" BY DEF Readers
<1>2. CASE queued
  <2>1. acc' = Began(acc, "event") /\ queued' = FALSE /\ det' = Superseded(d) BY <1>2 DEF EventGoesOn
  <2>2. /\ Detection(c, Superseded(d), Began(acc, "event"), h, real)
        /\ \A b \in Readers : Began(acc, "event")[b].pc = IF b = "event" THEN "ask" ELSE acc[b].pc
    BY <1>1, DetectionBegan
  <2>3. Began(acc, "event")["msg"].pc = acc["msg"].pc BY <1>1, <2>2
  <2> QED BY <2>1, <2>2, <2>3
<1>3. CASE ~queued
  <2>1. acc' = [acc EXCEPT !["event"] = NoAcc] /\ queued' = queued /\ det' = d BY <1>3 DEF EventGoesOn
  <2>2. Detection(c, d, [acc EXCEPT !["event"] = NoAcc], h, real) BY <1>1, DetectionReleased
  <2>3. acc'["msg"] = acc["msg"] BY <1>1, <2>1 DEF Detection
  <2> QED BY <2>1, <2>2, <2>3
<1> QED BY <1>2, <1>3

LEMMA EventRefreshedKeeps ==
    ASSUME Inv, EventRefreshed PROVE Inv'
<1>1. /\ Others /\ real \in RealState /\ hist \in HistState
      /\ Detection(cache, det, acc, hist, real) /\ Connects(pre, run, ready, rf, msg, real, hist)
      /\ Reviewed(diff, hist, real) /\ Awaits(msg, rf, real)
  BY DEF Inv, Others
<1>2. UNCHANGED <<real, config, applied, synced, pre, run, ready, rf, shown, msg, note, auth,
                  diff, turn, events>>
  BY DEF EventRefreshed, daemon, settings, preamble, loop, detection, accounts, rest
<1>13. acc["event"].pc = "got" /\ "event" \in Readers /\ cache \in CacheState
  BY <1>1 DEF EventRefreshed, Readers, Detection
<1>14. /\ Floor("event") \in HistState
       /\ Detection(WithAccounts("event"), det, acc, Floor("event"), real)
       /\ Floor("event").wanted = hist.wanted /\ Floor("event").overlap = hist.overlap
  BY <1>1, <1>13, DetectionApplied
<1>15. Detection(WithAccounts("event"), Reprobed, acc, Floor("event"), real)
  BY <1>13, <1>14, DetectionReprobed
<1>16. cache' = WithAccounts("event") /\ hist' = Floor("event") /\ EventGoesOn(Reprobed)
  BY DEF EventRefreshed
<1>17. /\ Detection(cache', det', acc', hist', real) /\ queued' \in BOOLEAN
       /\ acc'["msg"].pc # "idle" <=> acc["msg"].pc # "idle"
  BY <1>1, <1>15, <1>16, EventGoneOn DEF Others
<1>3. real' \in RealState /\ Later(real', real) /\ real'.repos = real.repos BY <1>1, <1>2, LaterSame
<1>4. hist' \in HistState /\ hist'.wanted = hist.wanted /\ hist'.overlap = hist.overlap BY <1>14, <1>16
<1>5. msg' \in MsgState /\ msg' = msg BY <1>1, <1>2 DEF Awaits
<1>6. Detection(cache', det', acc', hist', real')
  BY <1>2, <1>17
<1>7. Connects(pre', run', ready', rf', msg', real', hist')
  BY <1>1, <1>2, <1>3, <1>4, <1>5, ConnectsKept
<1>8. Reviewed(diff', hist', real') BY <1>1, <1>2, <1>3, <1>4, ReviewedKept
<1>9. Awaits(msg', rf', real') BY <1>1, <1>2, <1>3, <1>5, AwaitsKept
<1>12. Others'
  BY <1>1, <1>2, <1>3, <1>4, <1>17 DEF Others
<1> QED BY <1>6, <1>7, <1>8, <1>9, <1>12 DEF Inv

LEMMA EventFailsKeeps ==
    ASSUME Inv, EventFails PROVE Inv'
<1>1. /\ Others /\ real \in RealState /\ hist \in HistState
      /\ Detection(cache, det, acc, hist, real) /\ Connects(pre, run, ready, rf, msg, real, hist)
      /\ Reviewed(diff, hist, real) /\ Awaits(msg, rf, real)
  BY DEF Inv, Others
<1>2. UNCHANGED <<real, config, applied, synced, pre, run, ready, rf, shown, msg, cache, note,
                  auth, diff, turn, hist>>
  BY DEF EventFails, daemon, settings, preamble, loop, detection, accounts, rest
<1>17. /\ Detection(cache, det', acc', hist, real) /\ queued' \in BOOLEAN
       /\ acc'["msg"].pc # "idle" <=> acc["msg"].pc # "idle"
  BY <1>1, EventGoneOn DEF Others, EventFails
<1>3. real' \in RealState /\ Later(real', real) /\ real'.repos = real.repos BY <1>1, <1>2, LaterSame
<1>4. /\ hist' \in HistState /\ hist'.wanted = hist.wanted /\ hist'.overlap = hist.overlap
      /\ hist'.floor = hist.floor /\ hist'.since = hist.since
  BY <1>1, <1>2
<1>5. msg' \in MsgState /\ msg' = msg BY <1>1, <1>2 DEF Awaits
<1>6. Detection(cache', det', acc', hist', real')
  BY <1>2, <1>17
<1>7. Connects(pre', run', ready', rf', msg', real', hist')
  BY <1>1, <1>2, <1>3, <1>4, <1>5, ConnectsKept
<1>8. Reviewed(diff', hist', real') BY <1>1, <1>2, <1>3, <1>4, ReviewedKept
<1>9. Awaits(msg', rf', real') BY <1>1, <1>2, <1>3, <1>5, AwaitsKept
<1>11. events' \in 0..MaxEvents
  <2>1. events \in 0..MaxEvents /\ Count BY <1>1 DEF Others, EventFails
  <2> QED BY <2>1, Counted
<1>12. Others'
  BY <1>1, <1>2, <1>3, <1>4, <1>11, <1>17 DEF Others
<1> QED BY <1>6, <1>7, <1>8, <1>9, <1>12 DEF Inv

LEMMA MessageRefreshedKeeps ==
    ASSUME Inv, MessageRefreshed PROVE Inv'
<1>1. /\ Others /\ real \in RealState /\ hist \in HistState
      /\ Detection(cache, det, acc, hist, real) /\ Connects(pre, run, ready, rf, msg, real, hist)
      /\ Reviewed(diff, hist, real) /\ Awaits(msg, rf, real)
  BY DEF Inv, Others
<1>2. UNCHANGED <<real, config, applied, synced, pre, run, ready, rf, shown, queued, note,
                  auth, diff, turn, events>>
  BY DEF MessageRefreshed, daemon, settings, preamble, loop, detection, accounts, rest
<1>13. acc["msg"].pc = "got" /\ "msg" \in Readers /\ cache \in CacheState
  BY <1>1 DEF MessageRefreshed, Readers, Detection
<1>14. /\ Floor("msg") \in HistState
       /\ Detection(WithAccounts("msg"), det, acc, Floor("msg"), real)
       /\ Floor("msg").wanted = hist.wanted /\ Floor("msg").overlap = hist.overlap
  BY <1>1, <1>13, DetectionApplied
<1>15. Detection(WithAccounts("msg"), Reprobed, acc, Floor("msg"), real) BY <1>13, <1>14, DetectionReprobed
<1>16. /\ cache' = WithAccounts("msg") /\ hist' = Floor("msg") /\ det' = Reprobed
       /\ acc' = [acc EXCEPT !["msg"] = NoAcc] /\ msg' = NoMsg
  BY DEF MessageRefreshed
<1>17. Detection(cache', det', acc', hist', real) BY <1>1, <1>13, <1>15, <1>16, DetectionReleased
<1>18. msg.pc = "accounts" BY <1>1, <1>13 DEF Others
<1>3. real' \in RealState /\ Later(real', real) /\ real'.repos = real.repos BY <1>1, <1>2, LaterSame
<1>4. hist' \in HistState /\ hist'.wanted = hist.wanted /\ hist'.overlap = hist.overlap BY <1>14, <1>16
<1>5. msg' \in MsgState /\ msg'.made = 0 /\ msg'.pc = "none" /\ msg.pc # "wait" /\ msg.pc # "submit"
  BY <1>16, <1>18 DEF NoMsg, MsgState, Version
<1>6. Detection(cache', det', acc', hist', real')
  BY <1>2, <1>17
<1>7. Connects(pre', run', ready', rf', msg', real', hist')
  BY <1>1, <1>2, <1>3, <1>4, <1>5, ConnectsKept
<1>8. Reviewed(diff', hist', real') BY <1>1, <1>2, <1>3, <1>4, ReviewedKept
<1>9. Awaits(msg', rf', real') BY <1>1, <1>2, <1>3, <1>5, AwaitsKept
<1>12. Others'
  <2>1. acc'["msg"].pc = "idle" BY <1>1, <1>13, <1>16 DEF Detection, NoAcc
  <2> QED BY <1>1, <1>2, <1>3, <1>4, <1>5, <2>1 DEF Others
<1> QED BY <1>6, <1>7, <1>8, <1>9, <1>12 DEF Inv

LEMMA MessageAccountsFailKeeps ==
    ASSUME Inv, MessageAccountsFail PROVE Inv'
<1>1. /\ Others /\ real \in RealState /\ hist \in HistState
      /\ Detection(cache, det, acc, hist, real) /\ Connects(pre, run, ready, rf, msg, real, hist)
      /\ Reviewed(diff, hist, real) /\ Awaits(msg, rf, real)
  BY DEF Inv, Others
<1>2. UNCHANGED <<real, config, applied, synced, pre, run, ready, rf, shown, cache, det,
                  queued, note, auth, diff, turn, hist>>
  BY DEF MessageAccountsFail, daemon, settings, preamble, loop, detection, accounts, rest
<1>13. acc["msg"].pc = "ask" /\ "msg" \in Readers /\ acc' = [acc EXCEPT !["msg"] = NoAcc]
  BY DEF MessageAccountsFail, Readers
<1>18. msg.pc = "accounts" BY <1>1, <1>13 DEF Others
<1>3. real' \in RealState /\ Later(real', real) /\ real'.repos = real.repos BY <1>1, <1>2, LaterSame
<1>4. /\ hist' \in HistState /\ hist'.wanted = hist.wanted /\ hist'.overlap = hist.overlap
      /\ hist'.floor = hist.floor /\ hist'.since = hist.since
  BY <1>1, <1>2
<1>5. msg' \in MsgState /\ msg'.made = msg.made /\ msg'.pc = "refresh" /\ msg.pc # "wait" /\ msg.pc # "submit"
  BY <1>1, <1>18 DEF MessageAccountsFail, MsgState, Awaits
<1>6. Detection(cache', det', acc', hist', real')
  <2>1. Detection(cache, det, acc', hist, real) BY <1>1, <1>13, DetectionReleased
  <2> QED BY <1>2, <2>1
<1>7. Connects(pre', run', ready', rf', msg', real', hist')
  BY <1>1, <1>2, <1>3, <1>4, <1>5, ConnectsKept
<1>8. Reviewed(diff', hist', real') BY <1>1, <1>2, <1>3, <1>4, ReviewedKept
<1>9. Awaits(msg', rf', real') BY <1>1, <1>2, <1>3, <1>5, AwaitsKept
<1>11. events' \in 0..MaxEvents
  <2>1. events \in 0..MaxEvents /\ Count BY <1>1 DEF Others, MessageAccountsFail
  <2> QED BY <2>1, Counted
<1>12. Others'
  <2>1. acc'["msg"].pc = "idle" BY <1>1, <1>13 DEF Detection, NoAcc
  <2> QED BY <1>1, <1>2, <1>3, <1>4, <1>5, <1>11, <2>1 DEF Others
<1> QED BY <1>6, <1>7, <1>8, <1>9, <1>12 DEF Inv

LEMMA StoppedOK ==
    ASSUME auth \in AuthState
    PROVE Stopped(auth) \in AuthState
<1>1. auth.timers \in Nat BY DEF AuthState
<1>2. Unarmed(auth.timers) \in Nat BY <1>1 DEF Unarmed
<1>3. Stopped(auth) = [auth EXCEPT !.pending = FALSE, !.timers = Unarmed(auth.timers)]
  BY DEF Stopped, AuthState
<1> QED BY <1>2, <1>3 DEF AuthState

-----------------------------------------------------------------------------
(* The sign-in watch *)
LEMMA WatchFiresKeeps ==
    ASSUME Inv, WatchFires PROVE Inv'
<1>1. /\ Others /\ real \in RealState /\ hist \in HistState
      /\ Detection(cache, det, acc, hist, real) /\ Connects(pre, run, ready, rf, msg, real, hist)
      /\ Reviewed(diff, hist, real) /\ Awaits(msg, rf, real)
  BY DEF Inv, Others
<1>2. UNCHANGED <<real, config, applied, synced, pre, run, ready, rf, shown, msg, cache,
                  queued, note, diff, turn, hist, events>>
  BY DEF WatchFires, daemon, settings, preamble, loop, detection, accounts, rest
<1>13. "watch" \in Readers /\ "msg" \in Readers /\ "msg" # "watch" BY DEF Readers
<1>16. Detection(cache, det', acc', hist, real) /\ acc'["msg"].pc = acc["msg"].pc
  <2>1. CASE auth.pending
    <3>1. acc' = Began(acc, "watch") /\ det' = Superseded(det) BY <2>1 DEF WatchFires
    <3>2. /\ Detection(cache, det', acc', hist, real)
          /\ \A b \in Readers : acc'[b].pc = IF b = "watch" THEN "ask" ELSE acc[b].pc
      BY <1>1, <1>13, <3>1, DetectionBegan
    <3>3. acc'["msg"].pc = acc["msg"].pc BY <1>13, <3>2
    <3> QED BY <3>2, <3>3
  <2>2. CASE ~auth.pending
    <3>1. acc' = acc /\ det' = det BY <2>2 DEF WatchFires
    <3> QED BY <1>1, <3>1
  <2> QED BY <2>1, <2>2
<1>3. real' \in RealState /\ Later(real', real) /\ real'.repos = real.repos BY <1>1, <1>2, LaterSame
<1>4. /\ hist' \in HistState /\ hist'.wanted = hist.wanted /\ hist'.overlap = hist.overlap
      /\ hist'.floor = hist.floor /\ hist'.since = hist.since
  BY <1>1, <1>2
<1>5. msg' \in MsgState /\ msg' = msg BY <1>1, <1>2 DEF Awaits
<1>6. Detection(cache', det', acc', hist', real')
  BY <1>2, <1>16
<1>7. Connects(pre', run', ready', rf', msg', real', hist')
  BY <1>1, <1>2, <1>3, <1>4, <1>5, ConnectsKept
<1>8. Reviewed(diff', hist', real') BY <1>1, <1>2, <1>3, <1>4, ReviewedKept
<1>9. Awaits(msg', rf', real') BY <1>1, <1>2, <1>3, <1>5, AwaitsKept
<1>12. Others'
  <2>1. auth \in AuthState /\ auth.timers > 0 /\ auth' = [auth EXCEPT !.timers = @ - 1]
    BY <1>1 DEF Others, WatchFires
  <2>2. auth.timers \in Nat BY <2>1 DEF AuthState
  <2>3. auth.timers - 1 \in Nat BY <2>1, <2>2
  <2>4. auth' \in AuthState BY <2>1, <2>3 DEF AuthState
  <2> QED BY <1>1, <1>2, <1>3, <1>4, <1>5, <1>16, <2>4 DEF Others
<1> QED BY <1>6, <1>7, <1>8, <1>9, <1>12 DEF Inv

LEMMA NextChecked ==
    ASSUME auth \in AuthState, NextCheck
    PROVE auth' \in AuthState /\ (Refresh \/ UNCHANGED <<rf, pre>>)
<1>1. CASE auth.late BY <1>1, StoppedOK DEF NextCheck
<1>2. CASE ~auth.late
  <2>1. auth' = [auth EXCEPT !.timers = auth.timers + 1] /\ UNCHANGED <<rf, pre>>
    BY <1>2 DEF NextCheck, AuthState
  <2>2. auth.timers \in Nat BY DEF AuthState
  <2>3. auth.timers + 1 \in Nat BY <2>2
  <2> QED BY <2>1, <2>3 DEF AuthState
<1> QED BY <1>1, <1>2

LEMMA WatchFailsKeeps ==
    ASSUME Inv, WatchFails PROVE Inv'
<1>1. /\ Others /\ real \in RealState /\ hist \in HistState
      /\ Detection(cache, det, acc, hist, real) /\ Connects(pre, run, ready, rf, msg, real, hist)
      /\ Reviewed(diff, hist, real) /\ Awaits(msg, rf, real)
  BY DEF Inv, Others
<1>2. UNCHANGED <<real, config, applied, synced, run, ready, shown, msg, cache, det, queued,
                  note, diff, turn, hist>>
  BY DEF WatchFails, daemon, settings, preamble, loop, detection, accounts, rest
<1>13. "watch" \in Readers /\ "msg" \in Readers /\ "msg" # "watch" /\ acc' = [acc EXCEPT !["watch"] = NoAcc]
  BY DEF Readers, WatchFails
<1>14. acc'["msg"] = acc["msg"] BY <1>1, <1>13 DEF Detection

<1>15. auth' \in AuthState /\ (Refresh \/ UNCHANGED <<rf, pre>>) BY <1>1, NextChecked DEF Others, WatchFails
<1>3. real' \in RealState /\ Later(real', real) /\ real'.repos = real.repos BY <1>1, <1>2, LaterSame
<1>4. /\ hist' \in HistState /\ hist'.wanted = hist.wanted /\ hist'.overlap = hist.overlap
      /\ hist'.floor = hist.floor /\ hist'.since = hist.since
  BY <1>1, <1>2
<1>5. msg' \in MsgState /\ msg' = msg BY <1>1, <1>2 DEF Awaits
<1>6. Detection(cache', det', acc', hist', real')
  <2>1. Detection(cache, det, acc', hist, real) BY <1>1, <1>13, DetectionReleased
  <2> QED BY <1>2, <2>1
<1>7. Connects(pre', run', ready', rf', msg', real', hist')
  <2>1. CASE Refresh BY <1>1, <1>2, <1>3, <1>4, <1>5, <2>1, ConnectsRefreshed
  <2>2. CASE UNCHANGED <<rf, pre>> BY <1>1, <1>2, <1>3, <1>4, <1>5, <2>2, ConnectsKept
  <2> QED BY <1>15, <2>1, <2>2
<1>8. Reviewed(diff', hist', real') BY <1>1, <1>2, <1>3, <1>4, ReviewedKept
<1>9. Awaits(msg', rf', real')
  <2>1. CASE Refresh BY <1>1, <1>2, <1>3, <1>5, <2>1, AwaitsRefreshed
  <2>2. CASE UNCHANGED <<rf, pre>> BY <1>1, <1>2, <1>3, <1>5, <2>2, AwaitsKept
  <2> QED BY <1>15, <2>1, <2>2
<1>11. events' \in 0..MaxEvents
  <2>1. events \in 0..MaxEvents /\ Count BY <1>1 DEF Others, WatchFails
  <2> QED BY <2>1, Counted
<1>12. Others'
  BY <1>1, <1>2, <1>3, <1>4, <1>5, <1>11, <1>14, <1>15 DEF Others
<1> QED BY <1>6, <1>7, <1>8, <1>9, <1>12 DEF Inv

LEMMA WatchChecksKeeps ==
    ASSUME Inv, WatchChecks PROVE Inv'
<1>1. /\ Others /\ real \in RealState /\ hist \in HistState
      /\ Detection(cache, det, acc, hist, real) /\ Connects(pre, run, ready, rf, msg, real, hist)
      /\ Reviewed(diff, hist, real) /\ Awaits(msg, rf, real)
  BY DEF Inv, Others
<1>2. UNCHANGED <<real, config, applied, synced, run, ready, shown, msg, queued, note, diff,
                  turn, events>>
  BY DEF WatchChecks, daemon, settings, preamble, loop, detection, accounts, rest
<1>13. "watch" \in Readers /\ "msg" \in Readers /\ "msg" # "watch" /\ acc' = [acc EXCEPT !["watch"] = NoAcc]
  BY DEF Readers, WatchChecks
<1>14. acc'["msg"] = acc["msg"] BY <1>1, <1>13 DEF Detection

<1>16. acc["watch"].pc = "got" /\ cache \in CacheState /\ acc["watch"].exists \in BOOLEAN /\ acc["watch"].signed \in BOOLEAN
  BY <1>1, <1>13 DEF WatchChecks, Detection, AccState
<1>17. /\ Floor("watch") \in HistState
       /\ Detection(WithAccounts("watch"), det, acc, Floor("watch"), real)
       /\ Floor("watch").wanted = hist.wanted /\ Floor("watch").overlap = hist.overlap
  BY <1>1, <1>13, <1>16, DetectionApplied
<1>18. Detection(WithAccounts("watch"), Reprobed, acc, Floor("watch"), real)
  BY <1>16, <1>17, DetectionReprobed
<1>19. Detection(WithAccounts("watch"), Reprobed, acc', Floor("watch"), real)
  BY <1>1, <1>13, <1>18, DetectionReleased
<1>20. /\ auth' \in AuthState /\ (Refresh \/ UNCHANGED <<rf, pre>>)
       /\ hist' \in HistState /\ hist'.wanted = hist.wanted /\ hist'.overlap = hist.overlap
       /\ Detection(cache', det', acc', hist', real)
  <2>0. auth \in AuthState BY <1>1 DEF Others
  <2>1. CASE ~acc["watch"].exists
    <3>1. /\ auth' = Stopped(auth) /\ cache' = WithAccounts("watch") /\ hist' = Floor("watch") /\ det' = Reprobed
          /\ UNCHANGED <<rf, pre>>
      BY <1>16, <2>1 DEF WatchChecks
    <3> QED BY <1>17, <1>19, <2>0, <3>1, StoppedOK
  <2>2. CASE acc["watch"].exists /\ acc["watch"].signed
    <3>1. /\ auth' = Stopped(auth) /\ cache' = Stale(WithAccounts("watch")) /\ hist' = Since(Floor("watch"))
          /\ det' = Outdated(Reprobed) /\ Refresh
      BY <1>16, <2>2 DEF WatchChecks
    <3>2. /\ Since(Floor("watch")) \in HistState
          /\ Detection(Stale(WithAccounts("watch")), Outdated(Reprobed), acc', Since(Floor("watch")), real)
          /\ Since(Floor("watch")).wanted = Floor("watch").wanted /\ Since(Floor("watch")).overlap = Floor("watch").overlap
      BY <1>1, <1>17, <1>19, DetectionInvalidated
    <3> QED BY <1>17, <2>0, <3>1, <3>2, StoppedOK
  <2>3. CASE acc["watch"].exists /\ ~acc["watch"].signed
    <3>1. /\ cache' = WithAccounts("watch") /\ hist' = Floor("watch") /\ det' = Reprobed /\ NextCheck
      BY <1>16, <2>3 DEF WatchChecks
    <3> QED BY <1>17, <1>19, <2>0, <3>1, NextChecked
  <2> QED BY <1>16, <2>1, <2>2, <2>3
<1>3. real' \in RealState /\ Later(real', real) /\ real'.repos = real.repos BY <1>1, <1>2, LaterSame
<1>4. hist' \in HistState /\ hist'.wanted = hist.wanted /\ hist'.overlap = hist.overlap BY <1>20
<1>5. msg' \in MsgState /\ msg' = msg BY <1>1, <1>2 DEF Awaits
<1>6. Detection(cache', det', acc', hist', real')
  BY <1>2, <1>20
<1>7. Connects(pre', run', ready', rf', msg', real', hist')
  <2>1. CASE Refresh BY <1>1, <1>2, <1>3, <1>4, <1>5, <2>1, ConnectsRefreshed
  <2>2. CASE UNCHANGED <<rf, pre>> BY <1>1, <1>2, <1>3, <1>4, <1>5, <2>2, ConnectsKept
  <2> QED BY <1>20, <2>1, <2>2
<1>8. Reviewed(diff', hist', real') BY <1>1, <1>2, <1>3, <1>4, ReviewedKept
<1>9. Awaits(msg', rf', real')
  <2>1. CASE Refresh BY <1>1, <1>2, <1>3, <1>5, <2>1, AwaitsRefreshed
  <2>2. CASE UNCHANGED <<rf, pre>> BY <1>1, <1>2, <1>3, <1>5, <2>2, AwaitsKept
  <2> QED BY <1>20, <2>1, <2>2
<1>12. Others'
  BY <1>1, <1>2, <1>3, <1>4, <1>5, <1>14, <1>20 DEF Others
<1> QED BY <1>6, <1>7, <1>8, <1>9, <1>12 DEF Inv

LEMMA TenMinutesKeeps ==
    ASSUME Inv, TenMinutes PROVE Inv'
<1>1. /\ Others /\ real \in RealState /\ hist \in HistState
      /\ Detection(cache, det, acc, hist, real) /\ Connects(pre, run, ready, rf, msg, real, hist)
      /\ Reviewed(diff, hist, real) /\ Awaits(msg, rf, real)
  BY DEF Inv, Others
<1>2. UNCHANGED <<real, config, applied, synced, pre, run, ready, rf, shown, msg, cache, det,
                  acc, queued, note, diff, turn, hist, events>>
  BY DEF TenMinutes, daemon, settings, preamble, loop, detection, accounts, rest
<1>3. real' \in RealState /\ Later(real', real) /\ real'.repos = real.repos BY <1>1, <1>2, LaterSame
<1>4. /\ hist' \in HistState /\ hist'.wanted = hist.wanted /\ hist'.overlap = hist.overlap
      /\ hist'.floor = hist.floor /\ hist'.since = hist.since
  BY <1>1, <1>2
<1>5. msg' \in MsgState /\ msg' = msg BY <1>1, <1>2 DEF Awaits
<1>6. Detection(cache', det', acc', hist', real') BY <1>1, <1>2, <1>3, <1>4, DetectionLater
<1>7. Connects(pre', run', ready', rf', msg', real', hist')
  BY <1>1, <1>2, <1>3, <1>4, <1>5, ConnectsKept
<1>8. Reviewed(diff', hist', real') BY <1>1, <1>2, <1>3, <1>4, ReviewedKept
<1>9. Awaits(msg', rf', real') BY <1>1, <1>2, <1>3, <1>5, AwaitsKept
<1>12. Others'
  <2>1. auth' \in AuthState BY <1>1 DEF Others, TenMinutes, AuthState
  <2> QED BY <1>1, <1>2, <1>3, <1>4, <1>5, <2>1 DEF Others
<1> QED BY <1>6, <1>7, <1>8, <1>9, <1>12 DEF Inv

LEMMA Loaded ==
    ASSUME Reviewed(diff, hist, real), real \in RealState, hist \in HistState, Load, UNCHANGED real
    PROVE /\ hist' \in HistState /\ hist'.overlap = hist.overlap /\ hist'.floor = hist.floor /\ hist'.since = hist.since
          /\ Reviewed(diff', hist', real')
          /\ Refresh \/ UNCHANGED <<rf, pre>>
<1>1. hist' = [hist EXCEPT !.wanted = real.files] BY DEF Load
<1>2. /\ hist' \in HistState /\ hist'.overlap = hist.overlap /\ hist'.floor = hist.floor /\ hist'.since = hist.since
      /\ hist'.wanted = real.files
  BY <1>1 DEF HistState, RealState
<1>3. real.files \in Nat BY DEF RealState, Version
<1>4. hist'.wanted <= real'.files BY <1>2, <1>3
<1>5. CASE diff.pc = "idle"
  <2>1. diff' = [diff EXCEPT !.pc = "wait", !.git = FALSE] /\ Refresh BY <1>5 DEF Load
  <2>2. diff' \in DiffState /\ diff'.pc = "wait" BY <2>1 DEF Reviewed, DiffState
  <2> QED BY <1>2, <1>4, <2>1, <2>2 DEF Reviewed
<1>6. CASE diff.pc # "idle"
  <2>1. diff' = [diff EXCEPT !.pending = TRUE, !.git = FALSE] /\ UNCHANGED <<rf, pre>> BY <1>6 DEF Load
  <2>2. diff' \in DiffState /\ diff'.pc = diff.pc /\ diff'.pending = TRUE BY <2>1 DEF Reviewed, DiffState
  <2> QED BY <1>2, <1>4, <1>6, <2>1, <2>2 DEF Reviewed
<1> QED BY <1>5, <1>6

-----------------------------------------------------------------------------
(* The diff *)
LEMMA GitTimerKeeps ==
    ASSUME Inv, GitTimer PROVE Inv'
<1>1. /\ Others /\ real \in RealState /\ hist \in HistState
      /\ Detection(cache, det, acc, hist, real) /\ Connects(pre, run, ready, rf, msg, real, hist)
      /\ Reviewed(diff, hist, real) /\ Awaits(msg, rf, real)
  BY DEF Inv, Others
<1>2. UNCHANGED <<real, config, applied, synced, run, ready, shown, msg, cache, det, acc,
                  queued, note, auth, turn, events>>
  BY DEF GitTimer, daemon, settings, preamble, loop, detection, accounts, rest
<1>13. /\ hist' \in HistState /\ hist'.overlap = hist.overlap /\ hist'.floor = hist.floor /\ hist'.since = hist.since
       /\ Reviewed(diff', hist', real')
       /\ Refresh \/ UNCHANGED <<rf, pre>>
  BY <1>1, <1>2, Loaded DEF GitTimer
<1>3. real' \in RealState /\ Later(real', real) /\ real'.repos = real.repos BY <1>1, <1>2, LaterSame
<1>4. hist' \in HistState /\ hist'.overlap = hist.overlap /\ hist'.floor = hist.floor /\ hist'.since = hist.since
  BY <1>13
<1>5. msg' \in MsgState /\ msg' = msg BY <1>1, <1>2 DEF Awaits
<1>6. Detection(cache', det', acc', hist', real') BY <1>1, <1>2, <1>3, <1>4, DetectionLater
<1>7. Connects(pre', run', ready', rf', msg', real', hist')
  <2>1. CASE Refresh BY <1>1, <1>2, <1>3, <1>4, <1>5, <2>1, ConnectsRefreshed
  <2>2. CASE UNCHANGED <<rf, pre>> BY <1>1, <1>2, <1>3, <1>4, <1>5, <2>2, ConnectsKept
  <2> QED BY <1>13, <2>1, <2>2
<1>8. Reviewed(diff', hist', real')
  BY <1>13
<1>9. Awaits(msg', rf', real')
  <2>1. CASE Refresh BY <1>1, <1>2, <1>3, <1>5, <2>1, AwaitsRefreshed
  <2>2. CASE UNCHANGED <<rf, pre>> BY <1>1, <1>2, <1>3, <1>5, <2>2, AwaitsKept
  <2> QED BY <1>13, <2>1, <2>2
<1>12. Others' BY <1>1, <1>2, <1>3, <1>4, <1>5 DEF Others
<1> QED BY <1>6, <1>7, <1>8, <1>9, <1>12 DEF Inv

LEMMA DiffReadKeeps ==
    ASSUME Inv, DiffRead PROVE Inv'
<1>1. /\ Others /\ real \in RealState /\ hist \in HistState
      /\ Detection(cache, det, acc, hist, real) /\ Connects(pre, run, ready, rf, msg, real, hist)
      /\ Reviewed(diff, hist, real) /\ Awaits(msg, rf, real)
  BY DEF Inv, Others
<1>2. UNCHANGED <<real, config, applied, synced, run, ready, shown, msg, cache, det, acc,
                  queued, note, auth, turn, hist, events>>
  BY DEF DiffRead, daemon, settings, preamble, loop, detection, accounts, rest
<1>3. real' \in RealState /\ Later(real', real) /\ real'.repos = real.repos BY <1>1, <1>2, LaterSame
<1>4. /\ hist' \in HistState /\ hist'.wanted = hist.wanted /\ hist'.overlap = hist.overlap
      /\ hist'.floor = hist.floor /\ hist'.since = hist.since
  BY <1>1, <1>2
<1>5. msg' \in MsgState /\ msg' = msg BY <1>1, <1>2 DEF Awaits
<1>6. Detection(cache', det', acc', hist', real') BY <1>1, <1>2, <1>3, <1>4, DetectionLater
<1>10. Refresh BY DEF DiffRead
<1>7. Connects(pre', run', ready', rf', msg', real', hist')
  BY <1>1, <1>2, <1>3, <1>4, <1>5, <1>10, ConnectsRefreshed
<1>8. Reviewed(diff', hist', real')
  <2>1. diff' = [diff EXCEPT !.pc = "show", !.read = real.files] BY DEF DiffRead
  <2>2. diff' \in DiffState /\ diff'.pc = "show" /\ diff'.read = real.files
    BY <1>1, <2>1 DEF Reviewed, DiffState, RealState
  <2>3. hist.wanted \in Int /\ real.files \in Int BY <1>1 DEF HistState, RealState, Version
  <2> QED BY <1>1, <1>2, <2>2, <2>3 DEF Reviewed
<1>9. Awaits(msg', rf', real') BY <1>1, <1>2, <1>3, <1>5, <1>10, AwaitsRefreshed
<1>12. Others' BY <1>1, <1>2, <1>3, <1>4, <1>5 DEF Others
<1> QED BY <1>6, <1>7, <1>8, <1>9, <1>12 DEF Inv

LEMMA DiffShownKeeps ==
    ASSUME Inv, DiffShown PROVE Inv'
<1>1. /\ Others /\ real \in RealState /\ hist \in HistState
      /\ Detection(cache, det, acc, hist, real) /\ Connects(pre, run, ready, rf, msg, real, hist)
      /\ Reviewed(diff, hist, real) /\ Awaits(msg, rf, real)
  BY DEF Inv, Others
<1>2. UNCHANGED <<real, config, applied, synced, run, ready, shown, cache, det, acc, queued,
                  note, auth, turn, hist, events>>
  BY DEF DiffShown, daemon, settings, preamble, loop, detection, accounts, rest
<1>13. diff.pc = "shown" /\ diff \in DiffState BY <1>1 DEF DiffShown, Reviewed
<1>16. Reviewed(diff', hist', real') /\ (Refresh \/ UNCHANGED <<rf, pre>>) /\ (msg' = msg \/ (msg.pc = "diff" /\ msg' = NoMsg))
  <2>1. CASE diff.pending
    <3>1. diff' = [diff EXCEPT !.pc = "wait", !.pending = FALSE] /\ Refresh /\ msg' = msg
      BY <2>1 DEF DiffShown
    <3>2. diff' \in DiffState /\ diff'.pc = "wait" BY <1>13, <3>1 DEF DiffState
    <3> QED BY <1>1, <1>2, <3>1, <3>2 DEF Reviewed
  <2>2. CASE ~diff.pending
    <3>1. diff' = [diff EXCEPT !.pc = "idle"] /\ UNCHANGED <<rf, pre>> /\ msg' = (IF msg.pc = "diff" THEN NoMsg ELSE msg)
      BY <2>2 DEF DiffShown
    <3>2. diff' \in DiffState /\ diff'.pc = "idle" /\ diff'.read = diff.read BY <1>13, <3>1 DEF DiffState
    <3> QED BY <1>1, <1>2, <1>13, <2>2, <3>1, <3>2 DEF Reviewed
  <2> QED BY <2>1, <2>2
<1>3. real' \in RealState /\ Later(real', real) /\ real'.repos = real.repos BY <1>1, <1>2, LaterSame
<1>4. /\ hist' \in HistState /\ hist'.wanted = hist.wanted /\ hist'.overlap = hist.overlap
      /\ hist'.floor = hist.floor /\ hist'.since = hist.since
  BY <1>1, <1>2
<1>5. /\ msg' \in MsgState /\ msg'.made \in {0, msg.made} /\ (msg' = msg \/ msg'.pc # "wait")
      /\ msg.pc = "wait" => msg'.pc = "wait"
      /\ msg'.pc = "submit" <=> msg.pc = "submit"
      /\ msg.pc = "accounts" <=> msg'.pc = "accounts"
  BY <1>1, <1>16 DEF NoMsg, MsgState, Version, Awaits
<1>6. Detection(cache', det', acc', hist', real') BY <1>1, <1>2, <1>3, <1>4, DetectionLater
<1>7. Connects(pre', run', ready', rf', msg', real', hist')
  <2>1. CASE Refresh BY <1>1, <1>2, <1>3, <1>4, <1>5, <2>1, ConnectsRefreshed
  <2>2. CASE UNCHANGED <<rf, pre>> BY <1>1, <1>2, <1>3, <1>4, <1>5, <2>2, ConnectsKept
  <2> QED BY <1>16, <2>1, <2>2
<1>8. Reviewed(diff', hist', real')
  BY <1>16
<1>9. Awaits(msg', rf', real')
  <2>1. CASE Refresh BY <1>1, <1>2, <1>3, <1>5, <2>1, AwaitsRefreshed
  <2>2. CASE UNCHANGED <<rf, pre>> BY <1>1, <1>2, <1>3, <1>5, <2>2, AwaitsKept
  <2> QED BY <1>16, <2>1, <2>2
<1>12. Others' BY <1>1, <1>2, <1>3, <1>4, <1>5 DEF Others
<1> QED BY <1>6, <1>7, <1>8, <1>9, <1>12 DEF Inv

-----------------------------------------------------------------------------
(* The handler of messages *)
LEMMA ReceiveKeeps ==
    ASSUME Inv, NEW k \in Messages, Receive(k) PROVE Inv'
<1>1. /\ Others /\ real \in RealState /\ hist \in HistState
      /\ Detection(cache, det, acc, hist, real) /\ Connects(pre, run, ready, rf, msg, real, hist)
      /\ Reviewed(diff, hist, real) /\ Awaits(msg, rf, real)
  BY DEF Inv, Others
<1>2. UNCHANGED <<real, config, applied, synced, pre, run, ready, rf, shown, cache, det, acc,
                  queued, note, diff, turn, hist>>
  BY DEF Receive, daemon, settings, preamble, loop, detection, accounts, rest
<1>3. real' \in RealState /\ Later(real', real) /\ real'.repos = real.repos BY <1>1, <1>2, LaterSame
<1>4. /\ hist' \in HistState /\ hist'.wanted = hist.wanted /\ hist'.overlap = hist.overlap
      /\ hist'.floor = hist.floor /\ hist'.since = hist.since
  BY <1>1, <1>2
<1>5. /\ msg' \in MsgState /\ msg'.made \in {0, msg.made} /\ msg'.pc = "call" /\ msg.pc = "none"
  BY <1>1 DEF Receive, Free, Received, NoMsg, MsgState, Version, Awaits
<1>6. Detection(cache', det', acc', hist', real') BY <1>1, <1>2, <1>3, <1>4, DetectionLater
<1>7. Connects(pre', run', ready', rf', msg', real', hist')
  BY <1>1, <1>2, <1>3, <1>4, <1>5, ConnectsKept
<1>8. Reviewed(diff', hist', real') BY <1>1, <1>2, <1>3, <1>4, ReviewedKept
<1>9. Awaits(msg', rf', real') BY <1>1, <1>2, <1>3, <1>5, AwaitsKept
<1>11. events' \in 0..MaxEvents
  <2>1. events \in 0..MaxEvents /\ Count BY <1>1 DEF Others, Receive, Free
  <2> QED BY <2>1, Counted
<1>12. Others'
  <2>1. auth' \in AuthState BY <1>1, StoppedOK DEF Others, Receive
  <2> QED BY <1>1, <1>2, <1>3, <1>4, <1>5, <1>11, <2>1 DEF Others
<1> QED BY <1>6, <1>7, <1>8, <1>9, <1>12 DEF Inv

LEMMA ReceiveRefreshKeeps ==
    ASSUME Inv, ReceiveRefresh PROVE Inv'
<1>1. /\ Others /\ real \in RealState /\ hist \in HistState
      /\ Detection(cache, det, acc, hist, real) /\ Connects(pre, run, ready, rf, msg, real, hist)
      /\ Reviewed(diff, hist, real) /\ Awaits(msg, rf, real)
  BY DEF Inv, Others
<1>2. UNCHANGED <<real, config, applied, synced, run, shown, acc, queued, note, auth, diff, turn>>
  BY DEF ReceiveRefresh, daemon, settings, preamble, loop, detection, accounts, rest
<1>13. /\ cache' = Stale(cache) /\ det' = Outdated(det) /\ hist' = Since(hist) BY DEF ReceiveRefresh
<1>14. /\ hist' \in HistState /\ Detection(cache', det', acc, hist', real)
       /\ hist'.wanted = hist.wanted /\ hist'.overlap = hist.overlap
  BY <1>1, <1>13, DetectionInvalidated
<1>3. real' \in RealState /\ Later(real', real) /\ real'.repos = real.repos BY <1>1, <1>2, LaterSame
<1>4. hist' \in HistState /\ hist'.wanted = hist.wanted /\ hist'.overlap = hist.overlap BY <1>14
<1>5. /\ msg' \in MsgState /\ msg'.made \in {0, msg.made} /\ msg'.pc = "wait" /\ msg.pc = "none"
  BY <1>1 DEF ReceiveRefresh, Free, Received, NoMsg, MsgState, Version, Awaits
<1>15. msg'.kind = "refresh" BY DEF ReceiveRefresh, Received, NoMsg
<1>6. Detection(cache', det', acc', hist', real')
  BY <1>2, <1>14
<1>10. Refresh BY DEF ReceiveRefresh
<1>7. Connects(pre', run', ready', rf', msg', real', hist')
  <2>1. /\ rf' \in LoopState /\ pre' \in [Callers -> PreState] /\ pre'["msg"] = pre["msg"] /\ Pushes(pre')
        /\ pre'["rf"].pc # "idle" <=> rf'.pc = "pre"
        /\ pre'["rf"].pc = "wait" <=> pre["rf"].pc = "wait"
        /\ pre'["rf"].on = pre["rf"].on
    BY <1>1, <1>10, Refreshed
  <2>2. \A s \in Callers : run[s] # "none" <=> pre'[s].pc = "wait" /\ pre'[s].on = s
    BY <1>1, <2>1 DEF Connects, Callers
  <2>3. ready' = "none" BY DEF ReceiveRefresh

  <2>4. run["msg"] = "none"
    <3>1. "msg" \in Callers BY DEF Callers
    <3> QED BY <1>1, <1>5, <3>1 DEF Connects
  <2>5. hist'.overlap \/ Alone(run', ready', msg', real')
    BY <1>1, <1>2, <1>4, <1>5, <2>3, <2>4 DEF Connects, Alone
  <2>6. pre'["msg"].pc # "idle" <=> msg'.pc = "submit" BY <1>1, <1>5, <2>1 DEF Connects
  <2> QED BY <1>1, <1>2, <2>1, <2>2, <2>3, <2>5, <2>6 DEF Connects, Callers
<1>8. Reviewed(diff', hist', real') BY <1>1, <1>2, <1>3, <1>4, ReviewedKept
<1>9. Awaits(msg', rf', real') BY <1>1, <1>2, <1>3, <1>5, <1>10, AwaitsRefreshed
<1>11. events' \in 0..MaxEvents
  <2>1. events \in 0..MaxEvents /\ Count BY <1>1 DEF Others, ReceiveRefresh, Free
  <2> QED BY <2>1, Counted
<1>12. Others' BY <1>1, <1>2, <1>3, <1>4, <1>5, <1>11 DEF Others
<1> QED BY <1>6, <1>7, <1>8, <1>9, <1>12 DEF Inv

LEMMA ReceiveDiffKeeps ==
    ASSUME Inv, ReceiveDiff PROVE Inv'
<1>1. /\ Others /\ real \in RealState /\ hist \in HistState
      /\ Detection(cache, det, acc, hist, real) /\ Connects(pre, run, ready, rf, msg, real, hist)
      /\ Reviewed(diff, hist, real) /\ Awaits(msg, rf, real)
  BY DEF Inv, Others
<1>2. UNCHANGED <<real, config, applied, synced, run, ready, shown, cache, det, acc, queued,
                  note, auth, turn>>
  BY DEF ReceiveDiff, daemon, settings, preamble, loop, detection, accounts, rest
<1>13. /\ hist' \in HistState /\ hist'.overlap = hist.overlap /\ hist'.floor = hist.floor /\ hist'.since = hist.since
       /\ Reviewed(diff', hist', real')
       /\ Refresh \/ UNCHANGED <<rf, pre>>
  BY <1>1, <1>2, Loaded DEF ReceiveDiff
<1>3. real' \in RealState /\ Later(real', real) /\ real'.repos = real.repos BY <1>1, <1>2, LaterSame
<1>4. hist' \in HistState /\ hist'.overlap = hist.overlap /\ hist'.floor = hist.floor /\ hist'.since = hist.since
  BY <1>13
<1>5. /\ msg' \in MsgState /\ msg'.made \in {0, msg.made} /\ msg'.pc = "diff" /\ msg.pc = "none"
  BY <1>1 DEF ReceiveDiff, Free, Received, NoMsg, MsgState, Version, Awaits
<1>6. Detection(cache', det', acc', hist', real') BY <1>1, <1>2, <1>3, <1>4, DetectionLater
<1>7. Connects(pre', run', ready', rf', msg', real', hist')
  <2>1. CASE Refresh BY <1>1, <1>2, <1>3, <1>4, <1>5, <2>1, ConnectsRefreshed
  <2>2. CASE UNCHANGED <<rf, pre>> BY <1>1, <1>2, <1>3, <1>4, <1>5, <2>2, ConnectsKept
  <2> QED BY <1>13, <2>1, <2>2
<1>8. Reviewed(diff', hist', real')
  BY <1>13
<1>9. Awaits(msg', rf', real')
  <2>1. CASE Refresh BY <1>1, <1>2, <1>3, <1>5, <2>1, AwaitsRefreshed
  <2>2. CASE UNCHANGED <<rf, pre>> BY <1>1, <1>2, <1>3, <1>5, <2>2, AwaitsKept
  <2> QED BY <1>13, <2>1, <2>2
<1>11. events' \in 0..MaxEvents
  <2>1. events \in 0..MaxEvents /\ Count BY <1>1 DEF Others, ReceiveDiff, Free
  <2> QED BY <2>1, Counted
<1>12. Others' BY <1>1, <1>2, <1>3, <1>4, <1>5, <1>11 DEF Others
<1> QED BY <1>6, <1>7, <1>8, <1>9, <1>12 DEF Inv

LEMMA ReceiveSubmitKeeps ==
    ASSUME Inv, ReceiveSubmit PROVE Inv'
<1>1. /\ Others /\ real \in RealState /\ hist \in HistState
      /\ Detection(cache, det, acc, hist, real) /\ Connects(pre, run, ready, rf, msg, real, hist)
      /\ Reviewed(diff, hist, real) /\ Awaits(msg, rf, real)
  BY DEF Inv, Others
<1>2. UNCHANGED <<real, config, applied, synced, run, ready, rf, shown, cache, det, acc,
                  queued, note, auth, diff, hist>>
  BY DEF ReceiveSubmit, daemon, settings, preamble, loop, detection, accounts, rest
<1>3. real' \in RealState /\ Later(real', real) /\ real'.repos = real.repos BY <1>1, <1>2, LaterSame
<1>4. /\ hist' \in HistState /\ hist'.wanted = hist.wanted /\ hist'.overlap = hist.overlap
      /\ hist'.floor = hist.floor /\ hist'.since = hist.since
  BY <1>1, <1>2
<1>5. /\ msg' \in MsgState /\ msg'.made \in {0, msg.made} /\ msg'.pc = "submit" /\ msg.pc = "none"
  BY <1>1 DEF ReceiveSubmit, Free, Received, NoMsg, MsgState, Version, Awaits
<1>6. Detection(cache', det', acc', hist', real') BY <1>1, <1>2, <1>3, <1>4, DetectionLater
<1>7. Connects(pre', run', ready', rf', msg', real', hist')
  <2>1. pre' = [pre EXCEPT !["msg"] = [NoPre EXCEPT !.pc = "sync"]] /\ "msg" \in Callers /\ "rf" \in Callers
    BY DEF ReceiveSubmit, Callers
  <2>2. [NoPre EXCEPT !.pc = "sync"] \in PreState /\ [NoPre EXCEPT !.pc = "sync"].pc = "sync"
    BY DEF NoPre, PreState, None
  <2>3. pre' \in [Callers -> PreState] /\ pre'["msg"].pc = "sync" /\ pre'["rf"] = pre["rf"]
    BY <1>1, <2>1, <2>2 DEF Connects
  <2>4. pre["msg"].pc # "wait" BY <1>1, <1>5 DEF Connects
  <2>7. \A c \in Callers : run[c] # "none" <=> pre'[c].pc = "wait" /\ pre'[c].on = c
    BY <1>1, <2>3, <2>4 DEF Connects, Callers
  <2>8. hist'.overlap \/ Alone(run', ready', msg', real')
    BY <1>1, <1>2, <1>3, <1>4, <1>5 DEF Connects, Alone
  <2>9. Pushes(pre') BY <1>1, <2>3, <2>4 DEF Connects, Pushes, Callers
  <2> QED BY <1>1, <1>2, <1>5, <2>3, <2>4, <2>7, <2>8, <2>9 DEF Connects, Callers
<1>8. Reviewed(diff', hist', real') BY <1>1, <1>2, <1>3, <1>4, ReviewedKept
<1>9. Awaits(msg', rf', real') BY <1>1, <1>2, <1>3, <1>5, AwaitsKept
<1>11. events' \in 0..MaxEvents
  <2>1. events \in 0..MaxEvents /\ Count BY <1>1 DEF Others, ReceiveSubmit, Free
  <2> QED BY <2>1, Counted
<1>12. Others' BY <1>1, <1>2, <1>3, <1>4, <1>5, <1>11 DEF Others, ReceiveSubmit
<1> QED BY <1>6, <1>7, <1>8, <1>9, <1>12 DEF Inv

LEMMA SubmittedKeeps ==
    ASSUME Inv, Submitted PROVE Inv'
<1>1. /\ Others /\ real \in RealState /\ hist \in HistState
      /\ Detection(cache, det, acc, hist, real) /\ Connects(pre, run, ready, rf, msg, real, hist)
      /\ Reviewed(diff, hist, real) /\ Awaits(msg, rf, real)
  BY DEF Inv, Others
<1>2. UNCHANGED <<config, applied, synced, run, ready, rf, shown, cache, det, acc, queued,
                  note, auth, diff, hist, events>>
  BY DEF Submitted, daemon, settings, preamble, loop, detection, accounts, rest
<1>3. real' \in RealState /\ Later(real', real)
  <2>1. real' = [real EXCEPT !.rows = real.rows + 1] BY <1>1 DEF Submitted, RealState
  <2>2. real.rows \in Nat BY <1>1 DEF RealState, Version
  <2>3. real.rows + 1 \in Nat /\ real.rows + 1 >= real.rows BY <2>2
  <2>4. /\ real' \in RealState /\ real'.rows = real.rows + 1 /\ real'.acct = real.acct /\ real'.models = real.models
        /\ real'.files = real.files /\ real'.repos = real.repos
    BY <1>1, <2>1, <2>3 DEF RealState, Version
  <2> QED BY <1>1, <2>3, <2>4, LaterSame DEF Later
<1>4. /\ hist' \in HistState /\ hist'.wanted = hist.wanted /\ hist'.overlap = hist.overlap
      /\ hist'.floor = hist.floor /\ hist'.since = hist.since
  BY <1>1, <1>2
<1>5. /\ msg' \in MsgState /\ msg'.made \in {0, msg.made} /\ msg'.pc = "refresh" /\ msg.pc = "submit"
  BY <1>1 DEF Submitted, NoMsg, MsgState, Version, Awaits
<1>6. Detection(cache', det', acc', hist', real') BY <1>1, <1>2, <1>3, <1>4, DetectionLater
<1>7. Connects(pre', run', ready', rf', msg', real', hist')
  <2>0. real'.repos = real.repos BY <1>1 DEF Submitted, RealState
  <2>1. pre' = [pre EXCEPT !["msg"] = NoPre] /\ "msg" \in Callers /\ "rf" \in Callers /\ pre["msg"].pc # "wait"
    BY DEF Submitted, Callers
  <2>2. NoPre \in PreState /\ NoPre.pc = "idle" BY DEF NoPre, PreState, None
  <2>3. pre' \in [Callers -> PreState] /\ pre'["msg"].pc = "idle" /\ pre'["rf"] = pre["rf"]
    BY <1>1, <2>1, <2>2 DEF Connects
  <2>7. \A c \in Callers : run[c] # "none" <=> pre'[c].pc = "wait" /\ pre'[c].on = c
    BY <1>1, <2>1, <2>3 DEF Connects, Callers
  <2>8. hist'.overlap \/ Alone(run', ready', msg', real')
    BY <1>1, <1>2, <1>4, <1>5, <2>0 DEF Connects, Alone
  <2>9. Pushes(pre') BY <1>1, <2>1, <2>3 DEF Connects, Pushes, Callers
  <2> QED BY <1>1, <1>2, <1>5, <2>1, <2>3, <2>7, <2>8, <2>9 DEF Connects, Callers
<1>8. Reviewed(diff', hist', real') BY <1>1, <1>2, <1>3, <1>4, ReviewedKept
<1>9. Awaits(msg', rf', real') BY <1>1, <1>2, <1>3, <1>5, AwaitsKept
<1>12. Others' BY <1>1, <1>2, <1>3, <1>4, <1>5 DEF Others, Submitted
<1> QED BY <1>6, <1>7, <1>8, <1>9, <1>12 DEF Inv

LEMMA SubmitFailsKeeps ==
    ASSUME Inv, SubmitFails PROVE Inv'
<1>1. /\ Others /\ real \in RealState /\ hist \in HistState
      /\ Detection(cache, det, acc, hist, real) /\ Connects(pre, run, ready, rf, msg, real, hist)
      /\ Reviewed(diff, hist, real) /\ Awaits(msg, rf, real)
  BY DEF Inv, Others
<1>2. UNCHANGED <<real, config, applied, synced, run, ready, rf, shown, cache, det, acc,
                  queued, note, auth, diff, hist>>
  BY DEF SubmitFails, daemon, settings, preamble, loop, detection, accounts, rest
<1>3. real' \in RealState /\ Later(real', real) /\ real'.repos = real.repos BY <1>1, <1>2, LaterSame
<1>4. /\ hist' \in HistState /\ hist'.wanted = hist.wanted /\ hist'.overlap = hist.overlap
      /\ hist'.floor = hist.floor /\ hist'.since = hist.since
  BY <1>1, <1>2
<1>5. /\ msg' \in MsgState /\ msg'.made \in {0, msg.made} /\ msg'.pc = "refresh" /\ msg.pc = "submit"
  BY <1>1 DEF SubmitFails, NoMsg, MsgState, Version, Awaits
<1>6. Detection(cache', det', acc', hist', real') BY <1>1, <1>2, <1>3, <1>4, DetectionLater
<1>7. Connects(pre', run', ready', rf', msg', real', hist')
  <2>1. pre' = [pre EXCEPT !["msg"] = NoPre] /\ "msg" \in Callers /\ "rf" \in Callers /\ pre["msg"].pc # "wait"
    BY DEF SubmitFails, Callers
  <2>2. NoPre \in PreState /\ NoPre.pc = "idle" BY DEF NoPre, PreState, None
  <2>3. pre' \in [Callers -> PreState] /\ pre'["msg"].pc = "idle" /\ pre'["rf"] = pre["rf"]
    BY <1>1, <2>1, <2>2 DEF Connects
  <2>7. \A c \in Callers : run[c] # "none" <=> pre'[c].pc = "wait" /\ pre'[c].on = c
    BY <1>1, <2>1, <2>3 DEF Connects, Callers
  <2>8. hist'.overlap \/ Alone(run', ready', msg', real')
    BY <1>1, <1>2, <1>3, <1>4, <1>5 DEF Connects, Alone
  <2>9. Pushes(pre') BY <1>1, <2>1, <2>3 DEF Connects, Pushes, Callers
  <2> QED BY <1>1, <1>2, <1>5, <2>1, <2>3, <2>7, <2>8, <2>9 DEF Connects, Callers
<1>8. Reviewed(diff', hist', real') BY <1>1, <1>2, <1>3, <1>4, ReviewedKept
<1>9. Awaits(msg', rf', real') BY <1>1, <1>2, <1>3, <1>5, AwaitsKept
<1>11. events' \in 0..MaxEvents
  <2>1. events \in 0..MaxEvents /\ Count BY <1>1 DEF Others, SubmitFails
  <2> QED BY <2>1, Counted
<1>12. Others' BY <1>1, <1>2, <1>3, <1>4, <1>5, <1>11 DEF Others, SubmitFails
<1> QED BY <1>6, <1>7, <1>8, <1>9, <1>12 DEF Inv

LEMMA TurnSentKeeps ==
    ASSUME Inv, TurnSent PROVE Inv'
<1>1. /\ Others /\ real \in RealState /\ hist \in HistState
      /\ Detection(cache, det, acc, hist, real) /\ Connects(pre, run, ready, rf, msg, real, hist)
      /\ Reviewed(diff, hist, real) /\ Awaits(msg, rf, real)
  BY DEF Inv, Others
<1>2. UNCHANGED <<config, applied, synced, run, ready, shown, msg, cache, det, acc, queued,
                  note, auth, diff, hist, events>>
  BY DEF TurnSent, daemon, settings, preamble, loop, detection, accounts, rest
<1>3. real' \in RealState /\ Later(real', real) /\ real'.repos = real.repos
  <2>1. real' = [real EXCEPT !.rows = real.rows + 1] BY <1>1 DEF TurnSent, RealState
  <2>2. real.rows \in Nat BY <1>1 DEF RealState, Version
  <2>3. real.rows + 1 \in Nat /\ real.rows + 1 >= real.rows BY <2>2
  <2>4. /\ real' \in RealState /\ real'.rows = real.rows + 1 /\ real'.acct = real.acct /\ real'.models = real.models
        /\ real'.files = real.files /\ real'.repos = real.repos
    BY <1>1, <2>1, <2>3 DEF RealState, Version
  <2> QED BY <1>1, <2>3, <2>4, LaterSame DEF Later
<1>4. /\ hist' \in HistState /\ hist'.wanted = hist.wanted /\ hist'.overlap = hist.overlap
      /\ hist'.floor = hist.floor /\ hist'.since = hist.since
  BY <1>1, <1>2
<1>5. msg' \in MsgState /\ msg' = msg BY <1>1, <1>2 DEF Awaits
<1>6. Detection(cache', det', acc', hist', real') BY <1>1, <1>2, <1>3, <1>4, DetectionLater
<1>10. Refresh BY DEF TurnSent
<1>7. Connects(pre', run', ready', rf', msg', real', hist')
  BY <1>1, <1>2, <1>3, <1>4, <1>5, <1>10, ConnectsRefreshed
<1>8. Reviewed(diff', hist', real') BY <1>1, <1>2, <1>3, <1>4, ReviewedKept
<1>9. Awaits(msg', rf', real') BY <1>1, <1>2, <1>3, <1>5, <1>10, AwaitsRefreshed
<1>12. Others' BY <1>1, <1>2, <1>3, <1>4, <1>5 DEF Others, TurnSent
<1> QED BY <1>6, <1>7, <1>8, <1>9, <1>12 DEF Inv

LEMMA TurnFailsKeeps ==
    ASSUME Inv, TurnFails PROVE Inv'
<1>1. /\ Others /\ real \in RealState /\ hist \in HistState
      /\ Detection(cache, det, acc, hist, real) /\ Connects(pre, run, ready, rf, msg, real, hist)
      /\ Reviewed(diff, hist, real) /\ Awaits(msg, rf, real)
  BY DEF Inv, Others
<1>2. UNCHANGED <<real, config, applied, synced, run, ready, shown, msg, cache, det, acc,
                  queued, note, auth, diff, hist>>
  BY DEF TurnFails, daemon, settings, preamble, loop, detection, accounts, rest
<1>3. real' \in RealState /\ Later(real', real) /\ real'.repos = real.repos BY <1>1, <1>2, LaterSame
<1>4. /\ hist' \in HistState /\ hist'.wanted = hist.wanted /\ hist'.overlap = hist.overlap
      /\ hist'.floor = hist.floor /\ hist'.since = hist.since
  BY <1>1, <1>2
<1>5. msg' \in MsgState /\ msg' = msg BY <1>1, <1>2 DEF Awaits
<1>6. Detection(cache', det', acc', hist', real') BY <1>1, <1>2, <1>3, <1>4, DetectionLater
<1>10. Refresh BY DEF TurnFails
<1>7. Connects(pre', run', ready', rf', msg', real', hist')
  BY <1>1, <1>2, <1>3, <1>4, <1>5, <1>10, ConnectsRefreshed
<1>8. Reviewed(diff', hist', real') BY <1>1, <1>2, <1>3, <1>4, ReviewedKept
<1>9. Awaits(msg', rf', real') BY <1>1, <1>2, <1>3, <1>5, <1>10, AwaitsRefreshed
<1>11. events' \in 0..MaxEvents
  <2>1. events \in 0..MaxEvents /\ Count BY <1>1 DEF Others, TurnFails
  <2> QED BY <2>1, Counted
<1>12. Others' BY <1>1, <1>2, <1>3, <1>4, <1>5, <1>11 DEF Others, TurnFails
<1> QED BY <1>6, <1>7, <1>8, <1>9, <1>12 DEF Inv

LEMMA CallFailsKeeps ==
    ASSUME Inv, CallFails PROVE Inv'
<1>1. /\ Others /\ real \in RealState /\ hist \in HistState
      /\ Detection(cache, det, acc, hist, real) /\ Connects(pre, run, ready, rf, msg, real, hist)
      /\ Reviewed(diff, hist, real) /\ Awaits(msg, rf, real)
  BY DEF Inv, Others
<1>2. UNCHANGED <<real, config, applied, synced, pre, run, ready, rf, shown, cache, det, acc,
                  queued, note, auth, diff, turn, hist>>
  BY DEF CallFails, daemon, settings, preamble, loop, detection, accounts, rest
<1>3. real' \in RealState /\ Later(real', real) /\ real'.repos = real.repos BY <1>1, <1>2, LaterSame
<1>4. /\ hist' \in HistState /\ hist'.wanted = hist.wanted /\ hist'.overlap = hist.overlap
      /\ hist'.floor = hist.floor /\ hist'.since = hist.since
  BY <1>1, <1>2
<1>5. /\ msg' \in MsgState /\ msg'.made \in {0, msg.made} /\ msg'.pc = "refresh" /\ msg.pc = "call"
  BY <1>1 DEF CallFails, NoMsg, MsgState, Version, Awaits
<1>6. Detection(cache', det', acc', hist', real') BY <1>1, <1>2, <1>3, <1>4, DetectionLater
<1>7. Connects(pre', run', ready', rf', msg', real', hist')
  BY <1>1, <1>2, <1>3, <1>4, <1>5, ConnectsKept
<1>8. Reviewed(diff', hist', real') BY <1>1, <1>2, <1>3, <1>4, ReviewedKept
<1>9. Awaits(msg', rf', real') BY <1>1, <1>2, <1>3, <1>5, AwaitsKept
<1>12. Others'
  <2>1. events \in 0..MaxEvents BY <1>1 DEF Others
  <2>2. events' \in 0..MaxEvents BY <2>1, Counted DEF CallFails
  <2> QED BY <1>1, <1>2, <1>3, <1>4, <1>5, <2>2 DEF Others
<1> QED BY <1>6, <1>7, <1>8, <1>9, <1>12 DEF Inv

LEMMA ForwardEndsKeeps ==
    ASSUME Inv, ForwardEnds PROVE Inv'
<1>1. /\ Others /\ real \in RealState /\ hist \in HistState
      /\ Detection(cache, det, acc, hist, real) /\ Connects(pre, run, ready, rf, msg, real, hist)
      /\ Reviewed(diff, hist, real) /\ Awaits(msg, rf, real)
  BY DEF Inv, Others
<1>2. UNCHANGED <<real, config, applied, synced, run, ready, shown, cache, det, acc, queued,
                  note, auth, diff, turn, hist, events>>
  BY DEF ForwardEnds, daemon, settings, preamble, loop, detection, accounts, rest
<1>3. real' \in RealState /\ Later(real', real) /\ real'.repos = real.repos BY <1>1, <1>2, LaterSame
<1>4. /\ hist' \in HistState /\ hist'.wanted = hist.wanted /\ hist'.overlap = hist.overlap
      /\ hist'.floor = hist.floor /\ hist'.since = hist.since
  BY <1>1, <1>2
<1>5. /\ msg' \in MsgState /\ msg'.made \in {0, msg.made} /\ msg'.pc = "wait" /\ msg.pc = "reply"
  BY <1>1 DEF ForwardEnds, NoMsg, MsgState, Version, Awaits
<1>6. Detection(cache', det', acc', hist', real') BY <1>1, <1>2, <1>3, <1>4, DetectionLater
<1>10. Refresh BY DEF ForwardEnds
<1>7. Connects(pre', run', ready', rf', msg', real', hist')
  BY <1>1, <1>2, <1>3, <1>4, <1>5, <1>10, ConnectsRefreshed
<1>8. Reviewed(diff', hist', real') BY <1>1, <1>2, <1>3, <1>4, ReviewedKept
<1>9. Awaits(msg', rf', real') BY <1>1, <1>2, <1>3, <1>5, <1>10, AwaitsRefreshed
<1>12. Others' BY <1>1, <1>2, <1>3, <1>4, <1>5 DEF Others
<1> QED BY <1>6, <1>7, <1>8, <1>9, <1>12 DEF Inv

LEMMA RefreshesLastKeeps ==
    ASSUME Inv, RefreshesLast PROVE Inv'
<1>1. /\ Others /\ real \in RealState /\ hist \in HistState
      /\ Detection(cache, det, acc, hist, real) /\ Connects(pre, run, ready, rf, msg, real, hist)
      /\ Reviewed(diff, hist, real) /\ Awaits(msg, rf, real)
  BY DEF Inv, Others
<1>2. UNCHANGED <<real, config, applied, synced, run, ready, shown, cache, det, acc, queued,
                  note, auth, diff, turn, hist, events>>
  BY DEF RefreshesLast, daemon, settings, preamble, loop, detection, accounts, rest
<1>3. real' \in RealState /\ Later(real', real) /\ real'.repos = real.repos BY <1>1, <1>2, LaterSame
<1>4. /\ hist' \in HistState /\ hist'.wanted = hist.wanted /\ hist'.overlap = hist.overlap
      /\ hist'.floor = hist.floor /\ hist'.since = hist.since
  BY <1>1, <1>2
<1>5. /\ msg' \in MsgState /\ msg'.made \in {0, msg.made} /\ msg'.pc = "wait" /\ msg.pc = "refresh"
  BY <1>1 DEF RefreshesLast, NoMsg, MsgState, Version, Awaits
<1>6. Detection(cache', det', acc', hist', real') BY <1>1, <1>2, <1>3, <1>4, DetectionLater
<1>10. Refresh BY DEF RefreshesLast
<1>7. Connects(pre', run', ready', rf', msg', real', hist')
  BY <1>1, <1>2, <1>3, <1>4, <1>5, <1>10, ConnectsRefreshed
<1>8. Reviewed(diff', hist', real') BY <1>1, <1>2, <1>3, <1>4, ReviewedKept
<1>9. Awaits(msg', rf', real') BY <1>1, <1>2, <1>3, <1>5, <1>10, AwaitsRefreshed
<1>12. Others' BY <1>1, <1>2, <1>3, <1>4, <1>5 DEF Others
<1> QED BY <1>6, <1>7, <1>8, <1>9, <1>12 DEF Inv

LEMMA SignInShownKeeps ==
    ASSUME Inv, SignInShown PROVE Inv'
<1>1. /\ Others /\ real \in RealState /\ hist \in HistState
      /\ Detection(cache, det, acc, hist, real) /\ Connects(pre, run, ready, rf, msg, real, hist)
      /\ Reviewed(diff, hist, real) /\ Awaits(msg, rf, real)
  BY DEF Inv, Others
<1>2. UNCHANGED <<real, config, applied, synced, run, ready, shown, cache, det, acc, queued,
                  note, diff, turn, hist, events>>
  BY DEF SignInShown, daemon, settings, preamble, loop, detection, accounts, rest
<1>3. real' \in RealState /\ Later(real', real) /\ real'.repos = real.repos BY <1>1, <1>2, LaterSame
<1>4. /\ hist' \in HistState /\ hist'.wanted = hist.wanted /\ hist'.overlap = hist.overlap
      /\ hist'.floor = hist.floor /\ hist'.since = hist.since
  BY <1>1, <1>2
<1>5. /\ msg' \in MsgState /\ msg'.made \in {0, msg.made} /\ msg'.pc = "wait" /\ msg.pc = "reply"
  BY <1>1 DEF SignInShown, NoMsg, MsgState, Version, Awaits
<1>6. Detection(cache', det', acc', hist', real') BY <1>1, <1>2, <1>3, <1>4, DetectionLater
<1>10. Refresh BY DEF SignInShown
<1>7. Connects(pre', run', ready', rf', msg', real', hist')
  BY <1>1, <1>2, <1>3, <1>4, <1>5, <1>10, ConnectsRefreshed
<1>8. Reviewed(diff', hist', real') BY <1>1, <1>2, <1>3, <1>4, ReviewedKept
<1>9. Awaits(msg', rf', real') BY <1>1, <1>2, <1>3, <1>5, <1>10, AwaitsRefreshed
<1>12. Others'
  <2>1. auth' \in AuthState BY <1>1 DEF Others, SignInShown, AuthState
  <2> QED BY <1>1, <1>2, <1>3, <1>4, <1>5, <2>1 DEF Others
<1> QED BY <1>6, <1>7, <1>8, <1>9, <1>12 DEF Inv

LEMMA SignInWatchedKeeps ==
    ASSUME Inv, SignInWatched PROVE Inv'
<1>1. /\ Others /\ real \in RealState /\ hist \in HistState
      /\ Detection(cache, det, acc, hist, real) /\ Connects(pre, run, ready, rf, msg, real, hist)
      /\ Reviewed(diff, hist, real) /\ Awaits(msg, rf, real)
  BY DEF Inv, Others
<1>2. UNCHANGED <<real, config, applied, synced, pre, run, ready, rf, shown, cache, det, acc,
                  queued, note, diff, turn, hist, events>>
  BY DEF SignInWatched, daemon, settings, preamble, loop, detection, accounts, rest
<1>3. real' \in RealState /\ Later(real', real) /\ real'.repos = real.repos BY <1>1, <1>2, LaterSame
<1>4. /\ hist' \in HistState /\ hist'.wanted = hist.wanted /\ hist'.overlap = hist.overlap
      /\ hist'.floor = hist.floor /\ hist'.since = hist.since
  BY <1>1, <1>2
<1>5. /\ msg' \in MsgState /\ msg'.made \in {0, msg.made} /\ msg'.pc = "none" /\ msg.pc = "arm"
  BY <1>1 DEF SignInWatched, NoMsg, MsgState, Version, Awaits
<1>6. Detection(cache', det', acc', hist', real') BY <1>1, <1>2, <1>3, <1>4, DetectionLater
<1>7. Connects(pre', run', ready', rf', msg', real', hist')
  BY <1>1, <1>2, <1>3, <1>4, <1>5, ConnectsKept
<1>8. Reviewed(diff', hist', real') BY <1>1, <1>2, <1>3, <1>4, ReviewedKept
<1>9. Awaits(msg', rf', real') BY <1>1, <1>2, <1>3, <1>5, AwaitsKept
<1>12. Others'
  <2>1. auth.timers \in Nat BY <1>1 DEF Others, AuthState
  <2>2. Unarmed(auth.timers) + 1 \in Nat BY <2>1 DEF Unarmed
  <2>3. auth' \in AuthState BY <2>2 DEF SignInWatched, AuthState
  <2> QED BY <1>1, <1>2, <1>3, <1>4, <1>5, <2>3 DEF Others
<1> QED BY <1>6, <1>7, <1>8, <1>9, <1>12 DEF Inv

LEMMA DoneOK ==
    ASSUME real \in RealState, config \in {0, 1}, NEW k
    PROVE Done(k) \in RealState /\ Later(Done(k), real) /\ Done(k).repos = real.repos
<1>1. real.rows \in Nat /\ real.acct \in Nat /\ real.models \in Nat /\ real.files \in Nat
  BY DEF RealState, Version
<1>2. /\ real.rows + 1 \in Nat /\ real.acct + 1 \in Nat /\ real.models + 1 \in Nat
      /\ real.rows + 1 >= real.rows /\ real.acct + 1 >= real.acct /\ real.models + 1 >= real.models
  BY <1>1
<1>3. 1 - config \in {0, 1} OBVIOUS
<1>4. Later(real, real) BY LaterSame
<1>5. CASE k = "forward"
  <2>1. Done(k) = [real EXCEPT !.rows = real.rows + 1] BY <1>5 DEF Done, RealState
  <2> QED BY <1>2, <1>4, <2>1 DEF RealState, Version, Later
<1>6. CASE k = "policy"
  <2>1. Done(k) = [real EXCEPT !.pol = 1 - config] BY <1>6 DEF Done, RealState
  <2> QED BY <1>3, <1>4, <2>1 DEF RealState, Version, Later
<1>7. CASE k = "activate"
  <2>1. Done(k) = [real EXCEPT !.acct = real.acct + 1, !.models = real.models + 1]
    BY <1>7 DEF Done, RealState
  <2> QED BY <1>2, <1>4, <2>1 DEF RealState, Version, Later
<1>8. CASE k = "delete"
  <2>1. Done(k) = [real EXCEPT !.acct = real.acct + 1, !.exists = FALSE] BY <1>8 DEF Done, RealState
  <2> QED BY <1>2, <1>4, <2>1 DEF RealState, Version, Later
<1>9. CASE k \notin {"forward", "policy", "activate", "delete"}
  <2>1. Done(k) = real BY <1>9 DEF Done
  <2> QED BY <1>4, <2>1
<1> QED BY <1>5, <1>6, <1>7, <1>8, <1>9

-----------------------------------------------------------------------------
(* What the daemon does, settings and events *)
LEMMA DaemonDoesKeeps ==
    ASSUME Inv, DaemonDoes PROVE Inv'
<1>1. /\ Others /\ real \in RealState /\ hist \in HistState
      /\ Detection(cache, det, acc, hist, real) /\ Connects(pre, run, ready, rf, msg, real, hist)
      /\ Reviewed(diff, hist, real) /\ Awaits(msg, rf, real)
  BY DEF Inv, Others
<1>2. UNCHANGED <<config, synced, pre, run, ready, rf, shown, cache, det, acc, queued, note,
                  auth, diff, turn, hist, events>>
  BY DEF DaemonDoes, daemon, settings, preamble, loop, detection, accounts, rest
<1>3. real' \in RealState /\ Later(real', real) /\ real'.repos = real.repos
  BY <1>1, DoneOK DEF Others, DaemonDoes
<1>4. /\ hist' \in HistState /\ hist'.wanted = hist.wanted /\ hist'.overlap = hist.overlap
      /\ hist'.floor = hist.floor /\ hist'.since = hist.since
  BY <1>1, <1>2
<1>5. /\ msg' \in MsgState /\ msg'.made = real'.rows /\ msg'.pc = "reply" /\ msg.pc = "call"
  BY <1>1, <1>3 DEF DaemonDoes, MsgState, Awaits, RealState
<1>6. Detection(cache', det', acc', hist', real') BY <1>1, <1>2, <1>3, <1>4, DetectionLater
<1>7. Connects(pre', run', ready', rf', msg', real', hist')
  BY <1>1, <1>2, <1>3, <1>4, <1>5, ConnectsKept
<1>8. Reviewed(diff', hist', real') BY <1>1, <1>2, <1>3, <1>4, ReviewedKept
<1>9. Awaits(msg', rf', real')
  <2>1. real'.rows \in Nat BY <1>3 DEF RealState, Version
  <2> QED BY <1>5, <2>1 DEF Awaits
<1>12. Others'
  <2>1. 1 - config \in {0, 1} BY <1>1 DEF Others
  <2>2. applied' \in {0, 1} BY <1>1, <2>1 DEF Others, DaemonDoes
  <2> QED BY <1>1, <1>2, <1>3, <1>4, <1>5, <2>2 DEF Others
<1> QED BY <1>6, <1>7, <1>8, <1>9, <1>12 DEF Inv

LEMMA MirrorKeeps ==
    ASSUME Inv, Mirror PROVE Inv'
<1>1. /\ Others /\ real \in RealState /\ hist \in HistState
      /\ Detection(cache, det, acc, hist, real) /\ Connects(pre, run, ready, rf, msg, real, hist)
      /\ Reviewed(diff, hist, real) /\ Awaits(msg, rf, real)
  BY DEF Inv, Others
<1>2. UNCHANGED <<real, applied, run, ready, shown, acc, queued, note, auth, diff, turn, events>>
  BY DEF Mirror, daemon, settings, preamble, loop, detection, accounts, rest
<1>13. /\ cache' = Stale(cache) /\ det' = Outdated(det) /\ hist' = Since(hist) BY DEF Mirror, ConfigBecomes
<1>14. /\ hist' \in HistState /\ Detection(cache', det', acc, hist', real)
       /\ hist'.wanted = hist.wanted /\ hist'.overlap = hist.overlap
  BY <1>1, <1>13, DetectionInvalidated
<1>3. real' \in RealState /\ Later(real', real) /\ real'.repos = real.repos BY <1>1, <1>2, LaterSame
<1>4. hist' \in HistState /\ hist'.wanted = hist.wanted /\ hist'.overlap = hist.overlap BY <1>14
<1>5. /\ msg' \in MsgState /\ msg'.made \in {0, msg.made} /\ msg'.pc = "read" /\ msg.pc = "reply"
  BY <1>1 DEF Mirror, NoMsg, MsgState, Version, Awaits
<1>6. Detection(cache', det', acc', hist', real')
  BY <1>2, <1>14
<1>10. Refresh BY DEF Mirror, ConfigBecomes
<1>7. Connects(pre', run', ready', rf', msg', real', hist')
  BY <1>1, <1>2, <1>3, <1>4, <1>5, <1>10, ConnectsRefreshed
<1>8. Reviewed(diff', hist', real') BY <1>1, <1>2, <1>3, <1>4, ReviewedKept
<1>9. Awaits(msg', rf', real') BY <1>1, <1>2, <1>3, <1>5, <1>10, AwaitsRefreshed
<1>12. Others' BY <1>1, <1>2, <1>3, <1>4, <1>5 DEF Others, Mirror, ConfigBecomes
<1> QED BY <1>6, <1>7, <1>8, <1>9, <1>12 DEF Inv

LEMMA ConfigEditedKeeps ==
    ASSUME Inv, ConfigEdited PROVE Inv'
<1>1. /\ Others /\ real \in RealState /\ hist \in HistState
      /\ Detection(cache, det, acc, hist, real) /\ Connects(pre, run, ready, rf, msg, real, hist)
      /\ Reviewed(diff, hist, real) /\ Awaits(msg, rf, real)
  BY DEF Inv, Others
<1>2. UNCHANGED <<real, run, ready, shown, msg, acc, queued, note, auth, diff, turn>>
  BY DEF ConfigEdited, daemon, settings, preamble, loop, detection, accounts, rest
<1>13. /\ cache' = Stale(cache) /\ det' = Outdated(det) /\ hist' = Since(hist)
  BY DEF ConfigEdited, ConfigBecomes
<1>14. /\ hist' \in HistState /\ Detection(cache', det', acc, hist', real)
       /\ hist'.wanted = hist.wanted /\ hist'.overlap = hist.overlap
  BY <1>1, <1>13, DetectionInvalidated
<1>3. real' \in RealState /\ Later(real', real) /\ real'.repos = real.repos BY <1>1, <1>2, LaterSame
<1>4. hist' \in HistState /\ hist'.wanted = hist.wanted /\ hist'.overlap = hist.overlap BY <1>14
<1>5. msg' \in MsgState /\ msg' = msg BY <1>1, <1>2 DEF Awaits
<1>6. Detection(cache', det', acc', hist', real')
  BY <1>2, <1>14
<1>10. Refresh BY DEF ConfigEdited, ConfigBecomes
<1>7. Connects(pre', run', ready', rf', msg', real', hist')
  BY <1>1, <1>2, <1>3, <1>4, <1>5, <1>10, ConnectsRefreshed
<1>8. Reviewed(diff', hist', real') BY <1>1, <1>2, <1>3, <1>4, ReviewedKept
<1>9. Awaits(msg', rf', real') BY <1>1, <1>2, <1>3, <1>5, <1>10, AwaitsRefreshed
<1>11. events' \in 0..MaxEvents
  <2>1. events \in 0..MaxEvents /\ Count BY <1>1 DEF Others, ConfigEdited
  <2> QED BY <2>1, Counted
<1>12. Others'
  <2>1. 1 - config \in {0, 1} BY <1>1 DEF Others
  <2>2. config' = 1 - config /\ synced' = None /\ applied' \in {applied, config'}
    BY DEF ConfigEdited, ConfigBecomes
  <2> QED BY <1>1, <1>2, <1>3, <1>4, <1>5, <1>11, <2>1, <2>2 DEF Others
<1> QED BY <1>6, <1>7, <1>8, <1>9, <1>12 DEF Inv

LEMMA ReadsLastKeeps ==
    ASSUME Inv, ReadsLast PROVE Inv'
<1>1. /\ Others /\ real \in RealState /\ hist \in HistState
      /\ Detection(cache, det, acc, hist, real) /\ Connects(pre, run, ready, rf, msg, real, hist)
      /\ Reviewed(diff, hist, real) /\ Awaits(msg, rf, real)
  BY DEF Inv, Others
<1>2. UNCHANGED <<real, config, applied, synced, pre, run, ready, rf, shown, queued, note,
                  auth, diff, turn, events>>
  BY DEF ReadsLast, daemon, settings, preamble, loop, detection, accounts, rest
<1>13. /\ acc' = Began(acc, "msg") /\ "msg" \in Readers BY DEF ReadsLast, Readers
<1>14. /\ Detection(cache', det', acc', hist', real) /\ hist' \in HistState /\ hist'.wanted = hist.wanted /\ hist'.overlap = hist.overlap
       /\ acc'["msg"].pc = "ask"
  <2>1. CASE msg.kind = "activate"
    <3>1. cache' = Stale(cache) /\ hist' = Since(hist) /\ det' = Superseded(Outdated(det))
      BY <2>1 DEF ReadsLast
    <3>2. /\ hist' \in HistState /\ Detection(cache', Outdated(det), acc, hist', real)
          /\ hist'.wanted = hist.wanted /\ hist'.overlap = hist.overlap
      BY <1>1, <3>1, DetectionInvalidated
    <3>3. /\ Detection(cache', Superseded(Outdated(det)), Began(acc, "msg"), hist', real)
          /\ Began(acc, "msg")["msg"].pc = "ask"
      BY <1>1, <1>13, <3>2, DetectionBegan
    <3> QED BY <1>13, <3>1, <3>2, <3>3
  <2>2. CASE msg.kind # "activate"
    <3>1. cache' = cache /\ hist' = hist /\ det' = Superseded(det) BY <2>2 DEF ReadsLast
    <3>2. /\ Detection(cache, Superseded(det), Began(acc, "msg"), hist, real)
          /\ Began(acc, "msg")["msg"].pc = "ask"
      BY <1>1, <1>13, DetectionBegan
    <3> QED BY <1>1, <1>13, <3>1, <3>2
  <2> QED BY <2>1, <2>2
<1>3. real' \in RealState /\ Later(real', real) /\ real'.repos = real.repos BY <1>1, <1>2, LaterSame
<1>4. hist' \in HistState /\ hist'.wanted = hist.wanted /\ hist'.overlap = hist.overlap BY <1>14
<1>5. /\ msg' \in MsgState /\ msg'.made = msg.made /\ msg'.pc = "accounts" /\ msg.pc \in {"read", "reply"}
  BY <1>1 DEF ReadsLast, MsgState, Awaits
<1>6. Detection(cache', det', acc', hist', real')
  BY <1>2, <1>14
<1>7. Connects(pre', run', ready', rf', msg', real', hist')
  BY <1>1, <1>2, <1>3, <1>4, <1>5, ConnectsKept
<1>8. Reviewed(diff', hist', real') BY <1>1, <1>2, <1>3, <1>4, ReviewedKept
<1>9. Awaits(msg', rf', real') BY <1>1, <1>2, <1>3, <1>5, AwaitsKept
<1>12. Others'
  BY <1>1, <1>2, <1>3, <1>4, <1>5, <1>14 DEF Others
<1> QED BY <1>6, <1>7, <1>8, <1>9, <1>12 DEF Inv

LEMMA FoldersChangeKeeps ==
    ASSUME Inv, FoldersChange PROVE Inv'
<1>1. /\ Others /\ real \in RealState /\ hist \in HistState
      /\ Detection(cache, det, acc, hist, real) /\ Connects(pre, run, ready, rf, msg, real, hist)
      /\ Reviewed(diff, hist, real) /\ Awaits(msg, rf, real)
  BY DEF Inv, Others
<1>2. UNCHANGED <<real, config, applied, synced, run, shown, msg, cache, det, acc, queued,
                  note, auth, diff, turn>>
  BY DEF FoldersChange, daemon, settings, preamble, loop, detection, accounts, rest
<1>3. real' \in RealState /\ Later(real', real) /\ real'.repos = real.repos BY <1>1, <1>2, LaterSame
<1>13. hist' = [hist EXCEPT !.overlap = hist.overlap \/ \E s \in Callers : run[s] # "none"]
  BY <1>1 DEF FoldersChange, HistState
<1>14. hist' \in HistState /\ hist'.overlap = (hist.overlap \/ \E s \in Callers : run[s] # "none")
  BY <1>1, <1>13 DEF HistState
<1>4. hist' \in HistState /\ hist'.wanted = hist.wanted /\ hist'.floor = hist.floor /\ hist'.since = hist.since
  BY <1>1, <1>13, <1>14 DEF HistState
<1>5. msg' \in MsgState /\ msg' = msg BY <1>1, <1>2 DEF Awaits
<1>6. Detection(cache', det', acc', hist', real') BY <1>1, <1>2, <1>3, <1>4, DetectionLater
<1>10. Refresh BY DEF FoldersChange
<1>7. Connects(pre', run', ready', rf', msg', real', hist')
  <2>1. /\ rf' \in LoopState /\ pre' \in [Callers -> PreState] /\ pre'["msg"] = pre["msg"] /\ Pushes(pre')
        /\ pre'["rf"].pc # "idle" <=> rf'.pc = "pre"
        /\ pre'["rf"].pc = "wait" <=> pre["rf"].pc = "wait"
        /\ pre'["rf"].on = pre["rf"].on
    BY <1>1, <1>10, Refreshed
  <2>2. \A s \in Callers : run[s] # "none" <=> pre'[s].pc = "wait" /\ pre'[s].on = s
    BY <1>1, <2>1 DEF Connects, Callers
  <2>3. ready' = "none" BY DEF FoldersChange

  <2>4. hist'.overlap \/ Alone(run', ready', msg', real')
    <3>1. CASE \E s \in Callers : run[s] # "none" BY <1>14, <3>1
    <3>2. CASE \A s \in Callers : run[s] = "none" BY <1>1, <1>2, <1>14, <3>2 DEF Connects, Alone, Callers
    <3> QED BY <3>1, <3>2
  <2>6. pre'["msg"].pc # "idle" <=> msg'.pc = "submit" BY <1>1, <1>5, <2>1 DEF Connects
  <2> QED BY <1>1, <1>2, <2>1, <2>2, <2>3, <2>4, <2>6 DEF Connects, Callers
<1>8. Reviewed(diff', hist', real') BY <1>1, <1>2, <1>3, <1>4, ReviewedKept
<1>9. Awaits(msg', rf', real') BY <1>1, <1>2, <1>3, <1>5, <1>10, AwaitsRefreshed
<1>11. events' \in 0..MaxEvents
  <2>1. events \in 0..MaxEvents /\ Count BY <1>1 DEF Others, FoldersChange
  <2> QED BY <2>1, Counted
<1>12. Others' BY <1>1, <1>2, <1>3, <1>4, <1>5, <1>11 DEF Others
<1> QED BY <1>6, <1>7, <1>8, <1>9, <1>12 DEF Inv

LEMMA LimitReachedKeeps ==
    ASSUME Inv, LimitReached PROVE Inv'
<1>1. /\ Others /\ real \in RealState /\ hist \in HistState
      /\ Detection(cache, det, acc, hist, real) /\ Connects(pre, run, ready, rf, msg, real, hist)
      /\ Reviewed(diff, hist, real) /\ Awaits(msg, rf, real)
  BY DEF Inv, Others
<1>2. UNCHANGED <<config, applied, synced, pre, run, ready, rf, shown, msg, cache, det, acc,
                  queued, auth, diff, turn, hist>>
  BY DEF LimitReached, daemon, settings, preamble, loop, detection, accounts, rest
<1>3. real' \in RealState /\ Later(real', real) /\ real'.repos = real.repos
  <2>1. real' = [real EXCEPT !.acct = real.acct + 1, !.rows = real.rows + 1]
    BY <1>1 DEF LimitReached, RealState
  <2>2. real.rows \in Nat /\ real.acct \in Nat BY <1>1 DEF RealState, Version
  <2>3. real.rows + 1 \in Nat /\ real.rows + 1 >= real.rows /\ real.acct + 1 \in Nat /\ real.acct + 1 >= real.acct
    BY <2>2
  <2>4. Later(real, real) BY <1>1, LaterSame
  <2> QED BY <1>1, <2>1, <2>3, <2>4 DEF Later, RealState, Version
<1>4. /\ hist' \in HistState /\ hist'.wanted = hist.wanted /\ hist'.overlap = hist.overlap
      /\ hist'.floor = hist.floor /\ hist'.since = hist.since
  BY <1>1, <1>2
<1>5. msg' \in MsgState /\ msg' = msg BY <1>1, <1>2 DEF Awaits
<1>6. Detection(cache', det', acc', hist', real') BY <1>1, <1>2, <1>3, <1>4, DetectionLater
<1>7. Connects(pre', run', ready', rf', msg', real', hist')
  BY <1>1, <1>2, <1>3, <1>4, <1>5, ConnectsKept
<1>8. Reviewed(diff', hist', real') BY <1>1, <1>2, <1>3, <1>4, ReviewedKept
<1>9. Awaits(msg', rf', real') BY <1>1, <1>2, <1>3, <1>5, AwaitsKept
<1>11. events' \in 0..MaxEvents
  <2>1. events \in 0..MaxEvents /\ Count BY <1>1 DEF Others, LimitReached
  <2> QED BY <2>1, Counted
<1>12. Others' BY <1>1, <1>2, <1>3, <1>4, <1>5, <1>11 DEF Others, LimitReached, Read, RealState
<1> QED BY <1>6, <1>7, <1>8, <1>9, <1>12 DEF Inv

LEMMA DaemonEventKeeps ==
    ASSUME Inv, DaemonEvent PROVE Inv'
<1>1. /\ Others /\ real \in RealState /\ hist \in HistState
      /\ Detection(cache, det, acc, hist, real) /\ Connects(pre, run, ready, rf, msg, real, hist)
      /\ Reviewed(diff, hist, real) /\ Awaits(msg, rf, real)
  BY DEF Inv, Others
<1>2. UNCHANGED <<real, config, applied, synced, run, ready, shown, msg, cache, auth, diff,
                  turn, hist, events>>
  BY DEF DaemonEvent, daemon, settings, preamble, loop, detection, accounts, rest
<1>13. "event" \in Readers /\ "msg" \in Readers /\ "msg" # "event" BY DEF Readers
<1>14. /\ Detection(cache, det', acc', hist, real) /\ queued' \in BOOLEAN
       /\ acc'["msg"].pc = acc["msg"].pc
  <2>1. CASE UNCHANGED <<acc, det>>
    <3>1. queued' \in BOOLEAN BY <1>1 DEF Others, DaemonEvent
    <3> QED BY <1>1, <2>1, <3>1
  <2>2. CASE acc' = Began(acc, "event") /\ queued' = queued /\ det' = Superseded(det)
    <3>1. /\ Detection(cache, det', acc', hist, real)
          /\ \A b \in Readers : acc'[b].pc = IF b = "event" THEN "ask" ELSE acc[b].pc
      BY <1>1, <1>13, <2>2, DetectionBegan
    <3> QED BY <1>1, <1>13, <2>2, <3>1 DEF Others
  <2> QED BY <2>1, <2>2 DEF DaemonEvent
<1>3. real' \in RealState /\ Later(real', real) /\ real'.repos = real.repos BY <1>1, <1>2, LaterSame
<1>4. /\ hist' \in HistState /\ hist'.wanted = hist.wanted /\ hist'.overlap = hist.overlap
      /\ hist'.floor = hist.floor /\ hist'.since = hist.since
  BY <1>1, <1>2
<1>5. msg' \in MsgState /\ msg' = msg BY <1>1, <1>2 DEF Awaits
<1>6. Detection(cache', det', acc', hist', real')
  BY <1>2, <1>14
<1>10. Refresh BY DEF DaemonEvent
<1>7. Connects(pre', run', ready', rf', msg', real', hist')
  BY <1>1, <1>2, <1>3, <1>4, <1>5, <1>10, ConnectsRefreshed
<1>8. Reviewed(diff', hist', real') BY <1>1, <1>2, <1>3, <1>4, ReviewedKept
<1>9. Awaits(msg', rf', real') BY <1>1, <1>2, <1>3, <1>5, <1>10, AwaitsRefreshed
<1>12. Others'
  <2>1. note' = None BY DEF DaemonEvent
  <2> QED BY <1>1, <1>2, <1>3, <1>4, <1>5, <1>14, <2>1 DEF Others, Read
<1> QED BY <1>6, <1>7, <1>8, <1>9, <1>12 DEF Inv

LEMMA UserSignsInKeeps ==
    ASSUME Inv, UserSignsIn PROVE Inv'
<1>1. /\ Others /\ real \in RealState /\ hist \in HistState
      /\ Detection(cache, det, acc, hist, real) /\ Connects(pre, run, ready, rf, msg, real, hist)
      /\ Reviewed(diff, hist, real) /\ Awaits(msg, rf, real)
  BY DEF Inv, Others
<1>2. UNCHANGED <<config, applied, synced, pre, run, ready, rf, shown, msg, cache, det, acc,
                  queued, note, auth, diff, turn, hist>>
  BY DEF UserSignsIn, daemon, settings, preamble, loop, detection, accounts, rest
<1>3. real' \in RealState /\ Later(real', real) /\ real'.repos = real.repos
  <2>1. real' = [real EXCEPT !.signed = TRUE, !.acct = real.acct + 1] BY <1>1 DEF UserSignsIn, RealState
  <2>2. real.acct \in Nat BY <1>1 DEF RealState, Version
  <2>3. real.acct + 1 \in Nat /\ real.acct + 1 >= real.acct BY <2>2
  <2>4. Later(real, real) BY <1>1, LaterSame
  <2> QED BY <1>1, <2>1, <2>3, <2>4 DEF Later, RealState, Version
<1>4. /\ hist' \in HistState /\ hist'.wanted = hist.wanted /\ hist'.overlap = hist.overlap
      /\ hist'.floor = hist.floor /\ hist'.since = hist.since
  BY <1>1, <1>2
<1>5. msg' \in MsgState /\ msg' = msg BY <1>1, <1>2 DEF Awaits
<1>6. Detection(cache', det', acc', hist', real') BY <1>1, <1>2, <1>3, <1>4, DetectionLater
<1>7. Connects(pre', run', ready', rf', msg', real', hist')
  BY <1>1, <1>2, <1>3, <1>4, <1>5, ConnectsKept
<1>8. Reviewed(diff', hist', real') BY <1>1, <1>2, <1>3, <1>4, ReviewedKept
<1>9. Awaits(msg', rf', real') BY <1>1, <1>2, <1>3, <1>5, AwaitsKept
<1>11. events' \in 0..MaxEvents
  <2>1. events \in 0..MaxEvents /\ Count BY <1>1 DEF Others, UserSignsIn
  <2> QED BY <2>1, Counted
<1>12. Others' BY <1>1, <1>2, <1>3, <1>4, <1>5, <1>11 DEF Others
<1> QED BY <1>6, <1>7, <1>8, <1>9, <1>12 DEF Inv

LEMMA FilesChangeKeeps ==
    ASSUME Inv, FilesChange PROVE Inv'
<1>1. /\ Others /\ real \in RealState /\ hist \in HistState
      /\ Detection(cache, det, acc, hist, real) /\ Connects(pre, run, ready, rf, msg, real, hist)
      /\ Reviewed(diff, hist, real) /\ Awaits(msg, rf, real)
  BY DEF Inv, Others
<1>2. UNCHANGED <<config, applied, synced, pre, run, ready, rf, shown, msg, cache, det, acc,
                  queued, note, auth, turn, hist>>
  BY DEF FilesChange, daemon, settings, preamble, loop, detection, accounts, rest
<1>3. real' \in RealState /\ Later(real', real) /\ real'.repos = real.repos
  <2>1. real' = [real EXCEPT !.files = real.files + 1] BY <1>1 DEF FilesChange, RealState
  <2>2. real.files \in Nat BY <1>1 DEF RealState, Version
  <2>3. real.files + 1 \in Nat /\ real.files + 1 >= real.files BY <2>2
  <2>4. Later(real, real) BY <1>1, LaterSame
  <2> QED BY <1>1, <2>1, <2>3, <2>4 DEF Later, RealState, Version
<1>4. /\ hist' \in HistState /\ hist'.wanted = hist.wanted /\ hist'.overlap = hist.overlap
      /\ hist'.floor = hist.floor /\ hist'.since = hist.since
  BY <1>1, <1>2
<1>5. msg' \in MsgState /\ msg' = msg BY <1>1, <1>2 DEF Awaits
<1>6. Detection(cache', det', acc', hist', real') BY <1>1, <1>2, <1>3, <1>4, DetectionLater
<1>7. Connects(pre', run', ready', rf', msg', real', hist')
  BY <1>1, <1>2, <1>3, <1>4, <1>5, ConnectsKept
<1>8. Reviewed(diff', hist', real')
  <2>1. diff' \in DiffState /\ diff'.pc = diff.pc /\ diff'.pending = diff.pending /\ diff'.read = diff.read
    BY <1>1 DEF FilesChange, Reviewed, DiffState
  <2>2. hist.wanted \in Nat /\ real.files \in Nat /\ real'.files \in Nat
    BY <1>1, <1>3 DEF HistState, RealState, Version
  <2>3. hist.wanted <= real'.files BY <1>1, <1>3, <2>2 DEF Reviewed, Later
  <2> QED BY <1>1, <1>2, <2>1, <2>3 DEF Reviewed
<1>9. Awaits(msg', rf', real') BY <1>1, <1>2, <1>3, <1>5, AwaitsKept
<1>11. events' \in 0..MaxEvents
  <2>1. events \in 0..MaxEvents /\ Count BY <1>1 DEF Others, FilesChange
  <2> QED BY <2>1, Counted
<1>12. Others' BY <1>1, <1>2, <1>3, <1>4, <1>5, <1>11 DEF Others
<1> QED BY <1>6, <1>7, <1>8, <1>9, <1>12 DEF Inv

(* A caller moves on in its preamble without a run of its own before or after. *)
LEMMA ConnectsStep ==
    ASSUME Connects(pre, run, ready, rf, msg, real, hist), NEW s \in Callers, NEW w \in PreState,
           pre' = [pre EXCEPT ![s] = w], pre[s].pc # "idle", w.pc # "idle",
           run[s] = "none", ~(w.pc = "wait" /\ w.on = s), w.pc = "push" => w.set \in {0, 1},
           UNCHANGED <<run, ready, rf, msg, hist>>, real'.repos = real.repos
    PROVE Connects(pre', run', ready', rf', msg', real', hist')
<1>1. pre' \in [Callers -> PreState] /\ pre'[s] = w /\ \A c \in Callers \ {s} : pre'[c] = pre[c]
  BY DEF Connects
<1>2. "rf" \in Callers /\ "msg" \in Callers BY DEF Callers
<1>3. \A c \in Callers : run[c] # "none" <=> pre'[c].pc = "wait" /\ pre'[c].on = c BY <1>1 DEF Connects
<1>4. pre'["rf"].pc # "idle" <=> rf'.pc = "pre" BY <1>1, <1>2 DEF Connects
<1>5. pre'["msg"].pc # "idle" <=> msg'.pc = "submit" BY <1>1, <1>2 DEF Connects
<1>6. hist'.overlap \/ Alone(run', ready', msg', real') BY DEF Connects, Alone
<1>7. Pushes(pre') BY <1>1 DEF Connects, Pushes
<1> QED BY <1>1, <1>3, <1>4, <1>5, <1>6, <1>7 DEF Connects

-----------------------------------------------------------------------------
(* The preamble of a snapshot and of a submit *)
LEMMA SyncBeginKeeps ==
    ASSUME Inv, NEW s \in Callers, SyncBegin(s) PROVE Inv'
<1>1. /\ Others /\ real \in RealState /\ hist \in HistState
      /\ Detection(cache, det, acc, hist, real) /\ Connects(pre, run, ready, rf, msg, real, hist)
      /\ Reviewed(diff, hist, real) /\ Awaits(msg, rf, real)
  BY DEF Inv, Others
<1>2. UNCHANGED <<real, config, applied, synced, run, ready, rf, shown, msg, cache, det, acc,
                  queued, note, auth, diff, turn, hist, events>>
  BY DEF SyncBegin, daemon, settings, preamble, loop, detection, accounts, rest
<1>3. real' \in RealState /\ Later(real', real) /\ real'.repos = real.repos BY <1>1, <1>2, LaterSame
<1>4. /\ hist' \in HistState /\ hist'.wanted = hist.wanted /\ hist'.overlap = hist.overlap
      /\ hist'.floor = hist.floor /\ hist'.since = hist.since
  BY <1>1, <1>2
<1>5. msg' \in MsgState /\ msg' = msg BY <1>1, <1>2 DEF Awaits
<1>6. Detection(cache', det', acc', hist', real') BY <1>1, <1>2, <1>3, <1>4, DetectionLater
<1>7. Connects(pre', run', ready', rf', msg', real', hist')
  <2>1. pre \in [Callers -> PreState] /\ pre[s].pc = "sync" /\ run[s] = "none"
    BY <1>1 DEF Connects, SyncBegin
  <2> DEFINE w == IF config # synced THEN [NoPre EXCEPT !.pc = "push", !.set = config]
                  ELSE IF ready = "done" THEN [NoPre EXCEPT !.pc = "done"]
                  ELSE [NoPre EXCEPT !.pc = "repos"]
  <2>2. w \in PreState /\ w.pc \in {"push", "done", "repos"} /\ (w.pc = "push" => w.set \in {0, 1})
    <3>1. CASE config # synced BY <1>1, <3>1 DEF NoPre, PreState, None, Others
    <3>2. CASE config = synced /\ ready = "done" BY <3>2 DEF NoPre, PreState, None
    <3>3. CASE config = synced /\ ready # "done" BY <3>3 DEF NoPre, PreState, None
    <3> QED BY <3>1, <3>2, <3>3
  <2>3. pre' = [pre EXCEPT ![s] = w] BY DEF SyncBegin
  <2> HIDE DEF w
  <2> QED BY <1>1, <1>2, <1>3, <2>1, <2>2, <2>3, ConnectsStep
<1>8. Reviewed(diff', hist', real') BY <1>1, <1>2, <1>3, <1>4, ReviewedKept
<1>9. Awaits(msg', rf', real') BY <1>1, <1>2, <1>3, <1>5, AwaitsKept
<1>12. Others' BY <1>1, <1>2, <1>3, <1>4, <1>5 DEF Others
<1> QED BY <1>6, <1>7, <1>8, <1>9, <1>12 DEF Inv

LEMMA SyncPushKeeps ==
    ASSUME Inv, NEW s \in Callers, SyncPush(s) PROVE Inv'
<1>1. /\ Others /\ real \in RealState /\ hist \in HistState
      /\ Detection(cache, det, acc, hist, real) /\ Connects(pre, run, ready, rf, msg, real, hist)
      /\ Reviewed(diff, hist, real) /\ Awaits(msg, rf, real)
  BY DEF Inv, Others
<1>2. UNCHANGED <<config, applied, run, ready, rf, shown, msg, cache, det, acc, queued, note,
                  auth, diff, turn, hist, events>>
  BY DEF SyncPush, daemon, settings, preamble, loop, detection, accounts, rest
<1>13. pre[s] \in PreState /\ pre[s].pc = "push" /\ run[s] = "none" /\ pre[s].set \in {0, 1}
  BY <1>1 DEF Connects, Pushes, SyncPush
<1>14. synced' = pre[s].set /\ real' = [real EXCEPT !.pol = pre[s].set] BY DEF SyncPush
<1>3. real' \in RealState /\ Later(real', real)
  <2>1. Later(real, real) BY <1>1, LaterSame
  <2> QED BY <1>1, <1>13, <1>14, <2>1 DEF Later, RealState
<1>4. /\ hist' \in HistState /\ hist'.wanted = hist.wanted /\ hist'.overlap = hist.overlap
      /\ hist'.floor = hist.floor /\ hist'.since = hist.since
  BY <1>1, <1>2
<1>5. msg' \in MsgState /\ msg' = msg BY <1>1, <1>2 DEF Awaits
<1>6. Detection(cache', det', acc', hist', real') BY <1>1, <1>2, <1>3, <1>4, DetectionLater
<1>7. Connects(pre', run', ready', rf', msg', real', hist')
  <2>1. pre' = [pre EXCEPT ![s] = [NoPre EXCEPT !.pc = "repos"]] BY DEF SyncPush
  <2>2. [NoPre EXCEPT !.pc = "repos"] \in PreState /\ [NoPre EXCEPT !.pc = "repos"].pc = "repos"
    BY DEF NoPre, PreState, None
  <2>3. real'.repos = real.repos BY <1>1 DEF SyncPush, RealState
  <2> QED BY <1>1, <1>2, <1>13, <2>1, <2>2, <2>3, ConnectsStep
<1>8. Reviewed(diff', hist', real') BY <1>1, <1>2, <1>3, <1>4, ReviewedKept
<1>9. Awaits(msg', rf', real') BY <1>1, <1>2, <1>3, <1>5, AwaitsKept
<1>12. Others'
  BY <1>1, <1>2, <1>3, <1>4, <1>5, <1>13, <1>14 DEF Others
<1> QED BY <1>6, <1>7, <1>8, <1>9, <1>12 DEF Inv

(* A run goes on to its next step; the folder is not there. *)
LEMMA ConnectsMove ==
    ASSUME Connects(pre, run, ready, rf, msg, real, hist), NEW s \in Callers, run[s] # "none",
           NEW v \in {"check", "insert"}, run' = [run EXCEPT ![s] = v],
           UNCHANGED <<pre, ready, rf, msg, real, hist>>, real.repos = 0
    PROVE Connects(pre', run', ready', rf', msg', real', hist')
<1>1. /\ run' \in [Callers -> {"none", "list", "check", "insert"}] /\ run'[s] = v /\ v # "none"
      /\ \A c \in Callers \ {s} : run'[c] = run[c]
  BY DEF Connects
<1>2. \A c \in Callers : run'[c] # "none" <=> run[c] # "none" BY <1>1
<1>3. "rf" \in Callers /\ "msg" \in Callers BY DEF Callers
<1>4. \A c \in Callers : run'[c] # "none" <=> pre'[c].pc = "wait" /\ pre'[c].on = c BY <1>2 DEF Connects
<1>5. ready' \in Callers => run'[ready'] # "none" BY <1>2 DEF Connects
<1>6. hist'.overlap \/ Alone(run', ready', msg', real') BY <1>2, <1>3 DEF Connects, Alone
<1> QED BY <1>1, <1>4, <1>5, <1>6 DEF Connects

(* A run ends and its waiters go on. *)
LEMMA ConnectsEnd ==
    ASSUME Connects(pre, run, ready, rf, msg, real, hist), NEW s \in Callers, run[s] # "none", RunEnds(s),
           UNCHANGED <<rf, msg, hist>>, hist.overlap \/ real'.repos <= 1
    PROVE Connects(pre', run', ready', rf', msg', real', hist')
<1>1. "rf" \in Callers /\ "msg" \in Callers /\ \A c \in Callers : c = "rf" \/ c = "msg" BY DEF Callers
<1>2. /\ run' = [run EXCEPT ![s] = "none"] /\ ready' = (IF ready = s THEN "done" ELSE ready)
      /\ pre' = [c \in Callers |-> IF pre[c].pc = "wait" /\ pre[c].on = s THEN [NoPre EXCEPT !.pc = "done"] ELSE pre[c]]
  BY DEF RunEnds
<1>3. /\ run' \in [Callers -> {"none", "list", "check", "insert"}] /\ run'[s] = "none"
      /\ \A c \in Callers \ {s} : run'[c] = run[c]
  BY <1>2 DEF Connects
<1>4. [NoPre EXCEPT !.pc = "done"] \in PreState /\ [NoPre EXCEPT !.pc = "done"].pc = "done"
  BY DEF NoPre, PreState, None
<1>5. pre' \in [Callers -> PreState] BY <1>2, <1>4 DEF Connects
<1>6. \A c \in Callers : IF pre[c].pc = "wait" /\ pre[c].on = s THEN pre'[c].pc = "done" ELSE pre'[c] = pre[c]
  BY <1>2, <1>4
<1>7. \A c \in Callers : pre'[c].pc # "idle" <=> pre[c].pc # "idle" BY <1>6
<1>8. Pushes(pre') BY <1>6 DEF Connects, Pushes
<1>9. \A c \in Callers : run'[c] # "none" <=> pre'[c].pc = "wait" /\ pre'[c].on = c
  BY <1>3, <1>6 DEF Connects
<1>10. ready' \in Callers \cup {"none", "done"} /\ (ready' \in Callers => run'[ready'] # "none")
  <2>1. CASE ready = s
    <3>1. ready' = "done" /\ "done" \notin Callers BY <1>2, <2>1 DEF Callers
    <3> QED BY <3>1
  <2>2. CASE ready # s
    <3>1. ready' = ready BY <1>2, <2>2
    <3> QED BY <1>3, <2>2, <3>1 DEF Connects
  <2> QED BY <2>1, <2>2
<1>11. hist'.overlap \/ Alone(run', ready', msg', real')
  <2>1. CASE hist.overlap BY <2>1
  <2>2. CASE ~hist.overlap
    <3>1. ~(run["rf"] # "none" /\ run["msg"] # "none") BY <2>2 DEF Connects, Alone
    <3>2. \A c \in Callers : run'[c] = "none" BY <1>1, <1>3, <3>1
    <3> QED BY <1>1, <2>2, <3>2 DEF Alone
  <2> QED BY <2>1, <2>2
<1> QED BY <1>1, <1>3, <1>5, <1>7, <1>8, <1>9, <1>10, <1>11 DEF Connects

(* The loop begins or ends its preamble. *)
LEMMA ConnectsRound ==
    ASSUME Connects(pre, run, ready, rf, msg, real, hist), pre["rf"].pc # "wait", NEW w \in PreState, w.pc \in {"idle", "sync"},
           pre' = [pre EXCEPT !["rf"] = w], rf' \in LoopState, rf'.pc = "pre" <=> w.pc = "sync",
           UNCHANGED <<run, ready, hist>>, real'.repos = real.repos, msg'.pc = "submit" <=> msg.pc = "submit"
    PROVE Connects(pre', run', ready', rf', msg', real', hist')
<1>1. "rf" \in Callers /\ "msg" \in Callers /\ "msg" # "rf" BY DEF Callers
<1>2. pre' \in [Callers -> PreState] /\ pre'["rf"] = w /\ \A c \in Callers \ {"rf"} : pre'[c] = pre[c]
  BY <1>1 DEF Connects
<1>3. run["rf"] = "none" BY <1>1 DEF Connects
<1>4. \A c \in Callers : run'[c] # "none" <=> pre'[c].pc = "wait" /\ pre'[c].on = c
  BY <1>2, <1>3 DEF Connects
<1>5. Pushes(pre') BY <1>2 DEF Connects, Pushes
<1>6. hist'.overlap \/ Alone(run', ready', msg', real') BY <1>3 DEF Connects, Alone
<1>7. pre'["rf"].pc # "idle" <=> rf'.pc = "pre" BY <1>2
<1>8. pre'["msg"].pc # "idle" <=> msg'.pc = "submit" BY <1>1, <1>2 DEF Connects
<1> QED BY <1>2, <1>4, <1>5, <1>6, <1>7, <1>8 DEF Connects


-----------------------------------------------------------------------------
(* The folders *)
LEMMA EnsureKeeps ==
    ASSUME Inv, NEW s \in Callers, Ensure(s) PROVE Inv'
<1>1. /\ Others /\ real \in RealState /\ hist \in HistState
      /\ Detection(cache, det, acc, hist, real) /\ Connects(pre, run, ready, rf, msg, real, hist)
      /\ Reviewed(diff, hist, real) /\ Awaits(msg, rf, real)
  BY DEF Inv, Others
<1>2. UNCHANGED <<real, config, applied, synced, rf, shown, msg, cache, det, acc, queued, note,
                  auth, diff, turn, hist, events>>
  BY DEF Ensure, daemon, settings, preamble, loop, detection, accounts, rest
<1>3. real' \in RealState /\ Later(real', real) /\ real'.repos = real.repos BY <1>1, <1>2, LaterSame
<1>4. /\ hist' \in HistState /\ hist'.wanted = hist.wanted /\ hist'.overlap = hist.overlap
      /\ hist'.floor = hist.floor /\ hist'.since = hist.since
  BY <1>1, <1>2
<1>5. msg' \in MsgState /\ msg' = msg BY <1>1, <1>2 DEF Awaits
<1>6. Detection(cache', det', acc', hist', real') BY <1>1, <1>2, <1>3, <1>4, DetectionLater
<1>7. Connects(pre', run', ready', rf', msg', real', hist')
  <2>1. pre \in [Callers -> PreState] /\ pre[s] \in PreState /\ pre[s].pc = "repos" /\ run[s] = "none"
    BY <1>1 DEF Connects, Ensure
  <2>2. "rf" \in Callers /\ "msg" \in Callers /\ (s = "rf" \/ s = "msg") /\ "done" \notin Callers /\ "none" \notin Callers
    BY DEF Callers
  <2>3. CASE ready = "done"
    <3> DEFINE w == [pre[s] EXCEPT !.pc = "done"]
    <3>1. w \in PreState /\ w.pc = "done" BY <2>1 DEF PreState
    <3>2. pre' = [pre EXCEPT ![s] = w] /\ UNCHANGED <<run, ready>> BY <2>1, <2>2, <2>3 DEF Ensure
    <3> HIDE DEF w
    <3> QED BY <1>1, <1>2, <1>3, <2>1, <3>1, <3>2, ConnectsStep
  <2>4. CASE ready \in Callers
    <3> DEFINE w == [pre[s] EXCEPT !.pc = "wait", !.on = ready]
    <3>1. w \in PreState /\ w.pc = "wait" /\ w.on = ready BY <2>1, <2>4 DEF PreState
    <3>2. pre' = [pre EXCEPT ![s] = w] /\ UNCHANGED <<run, ready>> BY <2>2, <2>4 DEF Ensure
    <3>3. ready # s BY <1>1, <2>1, <2>4 DEF Connects
    <3> HIDE DEF w
    <3> QED BY <1>1, <1>2, <1>3, <2>1, <3>1, <3>2, <3>3, ConnectsStep
  <2>5. CASE ready = "none"
    <3> DEFINE w == [pre[s] EXCEPT !.pc = "wait", !.on = s]
    <3>1. w \in PreState /\ w.pc = "wait" /\ w.on = s BY <2>1 DEF PreState
    <3>2. pre' = [pre EXCEPT ![s] = w] /\ run' = [run EXCEPT ![s] = "list"] /\ ready' = s
      BY <2>1, <2>2, <2>5 DEF Ensure
    <3> HIDE DEF w
    <3>3. pre' \in [Callers -> PreState] /\ pre'[s] = w /\ \A c \in Callers \ {s} : pre'[c] = pre[c]
      BY <2>1, <3>1, <3>2
    <3>4. /\ run' \in [Callers -> {"none", "list", "check", "insert"}] /\ run'[s] = "list"
          /\ \A c \in Callers \ {s} : run'[c] = run[c]
      BY <1>1, <3>2 DEF Connects
    <3>5. \A c \in Callers : run'[c] # "none" <=> pre'[c].pc = "wait" /\ pre'[c].on = c
      BY <1>1, <3>1, <3>3, <3>4 DEF Connects
    <3>6. Pushes(pre') BY <1>1, <3>1, <3>3 DEF Connects, Pushes
    <3>7. \A c \in Callers : pre'[c].pc # "idle" <=> pre[c].pc # "idle" BY <2>1, <3>1, <3>3
    <3>8. hist'.overlap \/ Alone(run', ready', msg', real')
      <4>1. CASE hist.overlap BY <1>2, <4>1
      <4>2. CASE ~hist.overlap
        <5>1. Alone(run, ready, msg, real) BY <1>1, <4>2 DEF Connects
        <5>2. s = "msg" => msg.pc = "submit" BY <1>1, <2>1 DEF Connects
        <5>3. \A c \in Callers \ {s} : run[c] = "none" BY <2>2, <2>5, <5>1, <5>2 DEF Alone, Callers
        <5> QED BY <1>2, <2>2, <3>2, <3>4, <5>1, <5>3 DEF Alone
      <4> QED BY <4>1, <4>2
    <3> QED BY <1>1, <1>2, <2>2, <3>2, <3>3, <3>4, <3>5, <3>6, <3>7, <3>8 DEF Connects
  <2> QED BY <1>1, <2>3, <2>4, <2>5 DEF Connects
<1>8. Reviewed(diff', hist', real') BY <1>1, <1>2, <1>3, <1>4, ReviewedKept
<1>9. Awaits(msg', rf', real') BY <1>1, <1>2, <1>3, <1>5, AwaitsKept
<1>12. Others' BY <1>1, <1>2, <1>3, <1>4, <1>5 DEF Others
<1> QED BY <1>6, <1>7, <1>8, <1>9, <1>12 DEF Inv

LEMMA ConnectListKeeps ==
    ASSUME Inv, NEW s \in Callers, ConnectList(s) PROVE Inv'
<1>1. /\ Others /\ real \in RealState /\ hist \in HistState
      /\ Detection(cache, det, acc, hist, real) /\ Connects(pre, run, ready, rf, msg, real, hist)
      /\ Reviewed(diff, hist, real) /\ Awaits(msg, rf, real)
  BY DEF Inv, Others
<1>2. UNCHANGED <<real, config, applied, synced, rf, shown, msg, cache, det, acc, queued, note,
                  auth, diff, turn, hist, events>>
  BY DEF ConnectList, daemon, settings, preamble, loop, detection, accounts, rest
<1>3. real' \in RealState /\ Later(real', real) /\ real'.repos = real.repos BY <1>1, <1>2, LaterSame
<1>4. /\ hist' \in HistState /\ hist'.wanted = hist.wanted /\ hist'.overlap = hist.overlap
      /\ hist'.floor = hist.floor /\ hist'.since = hist.since
  BY <1>1, <1>2
<1>5. msg' \in MsgState /\ msg' = msg BY <1>1, <1>2 DEF Awaits
<1>6. Detection(cache', det', acc', hist', real') BY <1>1, <1>2, <1>3, <1>4, DetectionLater
<1>7. Connects(pre', run', ready', rf', msg', real', hist')
  <2>1. run[s] # "none" BY DEF ConnectList
  <2>2. real.repos \in Nat BY <1>1 DEF RealState
  <2>3. CASE real.repos > 0
    <3>1. RunEnds(s) BY <2>3 DEF ConnectList
    <3>2. hist.overlap \/ real'.repos <= 1 BY <1>1, <1>2 DEF Connects, Alone
    <3> QED BY <1>1, <1>2, <2>1, <3>1, <3>2, ConnectsEnd
  <2>4. CASE ~(real.repos > 0)
    <3>1. run' = [run EXCEPT ![s] = "check"] /\ UNCHANGED <<ready, pre>> BY <2>4 DEF ConnectList
    <3>2. real.repos = 0 BY <2>2, <2>4
    <3> QED BY <1>1, <1>2, <2>1, <3>1, <3>2, ConnectsMove
  <2> QED BY <2>3, <2>4
<1>8. Reviewed(diff', hist', real') BY <1>1, <1>2, <1>3, <1>4, ReviewedKept
<1>9. Awaits(msg', rf', real') BY <1>1, <1>2, <1>3, <1>5, AwaitsKept
<1>12. Others' BY <1>1, <1>2, <1>3, <1>4, <1>5 DEF Others
<1> QED BY <1>6, <1>7, <1>8, <1>9, <1>12 DEF Inv

LEMMA ConnectCheckKeeps ==
    ASSUME Inv, NEW s \in Callers, ConnectCheck(s) PROVE Inv'
<1>1. /\ Others /\ real \in RealState /\ hist \in HistState
      /\ Detection(cache, det, acc, hist, real) /\ Connects(pre, run, ready, rf, msg, real, hist)
      /\ Reviewed(diff, hist, real) /\ Awaits(msg, rf, real)
  BY DEF Inv, Others
<1>2. UNCHANGED <<real, config, applied, synced, rf, shown, msg, cache, det, acc, queued, note,
                  auth, diff, turn, hist, events>>
  BY DEF ConnectCheck, daemon, settings, preamble, loop, detection, accounts, rest
<1>3. real' \in RealState /\ Later(real', real) /\ real'.repos = real.repos BY <1>1, <1>2, LaterSame
<1>4. /\ hist' \in HistState /\ hist'.wanted = hist.wanted /\ hist'.overlap = hist.overlap
      /\ hist'.floor = hist.floor /\ hist'.since = hist.since
  BY <1>1, <1>2
<1>5. msg' \in MsgState /\ msg' = msg BY <1>1, <1>2 DEF Awaits
<1>6. Detection(cache', det', acc', hist', real') BY <1>1, <1>2, <1>3, <1>4, DetectionLater
<1>7. Connects(pre', run', ready', rf', msg', real', hist')
  <2>1. run[s] # "none" BY DEF ConnectCheck
  <2>2. real.repos \in Nat BY <1>1 DEF RealState
  <2>3. CASE real.repos > 0
    <3>1. RunEnds(s) BY <2>3 DEF ConnectCheck
    <3>2. hist.overlap \/ real'.repos <= 1 BY <1>1, <1>2 DEF Connects, Alone
    <3> QED BY <1>1, <1>2, <2>1, <3>1, <3>2, ConnectsEnd
  <2>4. CASE ~(real.repos > 0)
    <3>1. run' = [run EXCEPT ![s] = "insert"] /\ UNCHANGED <<ready, pre>> BY <2>4 DEF ConnectCheck
    <3>2. real.repos = 0 BY <2>2, <2>4
    <3> QED BY <1>1, <1>2, <2>1, <3>1, <3>2, ConnectsMove
  <2> QED BY <2>3, <2>4
<1>8. Reviewed(diff', hist', real') BY <1>1, <1>2, <1>3, <1>4, ReviewedKept
<1>9. Awaits(msg', rf', real') BY <1>1, <1>2, <1>3, <1>5, AwaitsKept
<1>12. Others' BY <1>1, <1>2, <1>3, <1>4, <1>5 DEF Others
<1> QED BY <1>6, <1>7, <1>8, <1>9, <1>12 DEF Inv

LEMMA ConnectInsertKeeps ==
    ASSUME Inv, NEW s \in Callers, ConnectInsert(s) PROVE Inv'
<1>1. /\ Others /\ real \in RealState /\ hist \in HistState
      /\ Detection(cache, det, acc, hist, real) /\ Connects(pre, run, ready, rf, msg, real, hist)
      /\ Reviewed(diff, hist, real) /\ Awaits(msg, rf, real)
  BY DEF Inv, Others
<1>2. UNCHANGED <<config, applied, synced, rf, shown, msg, cache, det, acc, queued, note, auth,
                  diff, turn, hist, events>>
  BY DEF ConnectInsert, daemon, settings, preamble, loop, detection, accounts, rest
<1>13. real' = [real EXCEPT !.repos = real.repos + 1, !.rows = real.rows + 1]
  BY <1>1 DEF ConnectInsert, RealState
<1>14. real.rows \in Nat /\ real.repos \in Nat BY <1>1 DEF RealState, Version
<1>15. real.rows + 1 \in Nat /\ real.rows + 1 >= real.rows /\ real.repos + 1 \in Nat BY <1>14
<1>16. real' \in RealState /\ real'.repos = real.repos + 1 BY <1>1, <1>13, <1>15 DEF RealState, Version
<1>3. real' \in RealState /\ Later(real', real)
  <2>1. Later(real, real) BY <1>1, LaterSame
  <2> QED BY <1>1, <1>13, <1>15, <1>16, <2>1 DEF Later, RealState
<1>4. /\ hist' \in HistState /\ hist'.wanted = hist.wanted /\ hist'.overlap = hist.overlap
      /\ hist'.floor = hist.floor /\ hist'.since = hist.since
  BY <1>1, <1>2
<1>5. msg' \in MsgState /\ msg' = msg BY <1>1, <1>2 DEF Awaits
<1>6. Detection(cache', det', acc', hist', real') BY <1>1, <1>2, <1>3, <1>4, DetectionLater
<1>7. Connects(pre', run', ready', rf', msg', real', hist')
  <2>1. run[s] = "insert" /\ RunEnds(s) BY DEF ConnectInsert
  <2>2. ~hist.overlap => real.repos = 0 BY <1>1, <2>1 DEF Connects, Alone
  <2>3. ~hist.overlap => real'.repos <= 1 BY <1>16, <2>2
  <2> QED BY <1>1, <1>2, <2>1, <2>3, ConnectsEnd
<1>8. Reviewed(diff', hist', real') BY <1>1, <1>2, <1>3, <1>4, ReviewedKept
<1>9. Awaits(msg', rf', real') BY <1>1, <1>2, <1>3, <1>5, AwaitsKept
<1>12. Others' BY <1>1, <1>2, <1>3, <1>4, <1>5 DEF Others
<1> QED BY <1>6, <1>7, <1>8, <1>9, <1>12 DEF Inv

LEMMA ConnectFailsKeeps ==
    ASSUME Inv, NEW s \in Callers, ConnectFails(s) PROVE Inv'
<1>1. /\ Others /\ real \in RealState /\ hist \in HistState
      /\ Detection(cache, det, acc, hist, real) /\ Connects(pre, run, ready, rf, msg, real, hist)
      /\ Reviewed(diff, hist, real) /\ Awaits(msg, rf, real)
  BY DEF Inv, Others
<1>2. UNCHANGED <<real, config, applied, synced, rf, shown, msg, cache, det, acc, queued, note,
                  auth, diff, turn, hist>>
  BY DEF ConnectFails, daemon, settings, preamble, loop, detection, accounts, rest
<1>3. real' \in RealState /\ Later(real', real) /\ real'.repos = real.repos BY <1>1, <1>2, LaterSame
<1>4. /\ hist' \in HistState /\ hist'.wanted = hist.wanted /\ hist'.overlap = hist.overlap
      /\ hist'.floor = hist.floor /\ hist'.since = hist.since
  BY <1>1, <1>2
<1>5. msg' \in MsgState /\ msg' = msg BY <1>1, <1>2 DEF Awaits
<1>6. Detection(cache', det', acc', hist', real') BY <1>1, <1>2, <1>3, <1>4, DetectionLater
<1>7. Connects(pre', run', ready', rf', msg', real', hist')
  <2>1. run[s] # "none" /\ RunEnds(s) BY DEF ConnectFails
  <2>2. hist.overlap \/ real'.repos <= 1 BY <1>1, <1>2 DEF Connects, Alone
  <2> QED BY <1>1, <1>2, <2>1, <2>2, ConnectsEnd
<1>8. Reviewed(diff', hist', real') BY <1>1, <1>2, <1>3, <1>4, ReviewedKept
<1>9. Awaits(msg', rf', real') BY <1>1, <1>2, <1>3, <1>5, AwaitsKept
<1>11. events' \in 0..MaxEvents
  <2>1. events \in 0..MaxEvents /\ Count BY <1>1 DEF Others, ConnectFails
  <2> QED BY <2>1, Counted
<1>12. Others' BY <1>1, <1>2, <1>3, <1>4, <1>5, <1>11 DEF Others
<1> QED BY <1>6, <1>7, <1>8, <1>9, <1>12 DEF Inv

-----------------------------------------------------------------------------
(* The rounds of the loop *)
LEMMA SnapshotReadKeeps ==
    ASSUME Inv, SnapshotRead PROVE Inv'
<1>1. /\ Others /\ real \in RealState /\ hist \in HistState
      /\ Detection(cache, det, acc, hist, real) /\ Connects(pre, run, ready, rf, msg, real, hist)
      /\ Reviewed(diff, hist, real) /\ Awaits(msg, rf, real)
  BY DEF Inv, Others
<1>2. UNCHANGED <<real, config, applied, synced, run, ready, shown, msg, acc, queued, note,
                  auth, diff, turn, hist, events>>
  BY DEF SnapshotRead, daemon, settings, preamble, loop, detection, accounts, rest
<1>13. /\ pre["rf"].pc = "done" /\ pre' = [pre EXCEPT !["rf"] = NoPre]
       /\ rf' = [rf EXCEPT !.pc = "show", !.rows = real.rows] /\ rf \in LoopState
  BY <1>1 DEF SnapshotRead, Connects
<1>14. rf' \in LoopState /\ rf'.pc = "show" /\ rf'.rows = real.rows BY <1>1, <1>13 DEF LoopState, RealState
<1>3. real' \in RealState /\ Later(real', real) /\ real'.repos = real.repos BY <1>1, <1>2, LaterSame
<1>4. /\ hist' \in HistState /\ hist'.wanted = hist.wanted /\ hist'.overlap = hist.overlap
      /\ hist'.floor = hist.floor /\ hist'.since = hist.since
  BY <1>1, <1>2
<1>5. msg' \in MsgState /\ msg' = msg BY <1>1, <1>2 DEF Awaits
<1>6. Detection(cache', det', acc', hist', real')
  <2>1. cache \in CacheState /\ det' = Detected(cache, det) BY <1>1 DEF Detection, SnapshotRead
  <2>2. Detection(cache, det', acc, hist, real) BY <1>1, <2>1, DetectionDetected
  <2>3. /\ cache' \in CacheState /\ cache'.acct = cache.acct /\ cache'.models = cache.models /\ cache'.err = cache.err
        /\ cache'.at = "fresh" => cache.at = "fresh"
    BY <2>1 DEF SnapshotRead, CacheState
  <2> QED BY <1>2, <2>2, <2>3 DEF Detection
<1>7. Connects(pre', run', ready', rf', msg', real', hist')
  <2>1. NoPre \in PreState /\ NoPre.pc = "idle" BY DEF NoPre, PreState, None
  <2> QED BY <1>1, <1>2, <1>3, <1>13, <1>14, <2>1, ConnectsRound
<1>8. Reviewed(diff', hist', real') BY <1>1, <1>2, <1>3, <1>4, ReviewedKept
<1>9. Awaits(msg', rf', real')
  <2>1. real.rows \in Int /\ msg.made \in Int BY <1>1 DEF RealState, Version, Awaits, MsgState
  <2> QED BY <1>1, <1>2, <1>14, <2>1 DEF Awaits
<1>12. Others' BY <1>1, <1>2, <1>3, <1>4, <1>5 DEF Others
<1> QED BY <1>6, <1>7, <1>8, <1>9, <1>12 DEF Inv

(* The end of a round, whether it has shown a snapshot or an error. *)
LEMMA RoundEnded ==
    ASSUME Connects(pre, run, ready, rf, msg, real, hist), Reviewed(diff, hist, real), Awaits(msg, rf, real),
           RoundEnds, real \in RealState, pre["rf"].pc # "wait", UNCHANGED <<run, ready, hist, real>>
    PROVE /\ Connects(pre', run', ready', rf', msg', real', hist')
          /\ Reviewed(diff', hist', real')
          /\ Awaits(msg', rf', real')
          /\ msg'.pc = "accounts" <=> msg.pc = "accounts"
<1>1. msg \in MsgState /\ diff \in DiffState BY DEF Awaits, Reviewed
<1>2. CASE rf.more
  <2>1. rf' = [Idle EXCEPT !.pc = "pre"] /\ pre' = [pre EXCEPT !["rf"] = [NoPre EXCEPT !.pc = "sync"]] /\ UNCHANGED <<msg, diff>>
    BY <1>2 DEF RoundEnds
  <2>2. rf' \in LoopState /\ rf'.pc = "pre" BY <2>1 DEF LoopState, Idle, Version
  <2>3. [NoPre EXCEPT !.pc = "sync"] \in PreState /\ [NoPre EXCEPT !.pc = "sync"].pc = "sync"
    BY DEF NoPre, PreState, None
  <2>4. Connects(pre', run', ready', rf', msg', real', hist') BY <2>1, <2>2, <2>3, ConnectsRound
  <2>5. Awaits(msg', rf', real') BY <2>1, <2>2 DEF Awaits
  <2> QED BY <2>1, <2>4, <2>5
<1>3. CASE ~rf.more
  <2>1. /\ rf' = Idle /\ pre' = [pre EXCEPT !["rf"] = NoPre]
        /\ msg' = (IF msg.pc = "wait" THEN Woken ELSE msg)
        /\ diff' = CASE diff.pc = "wait" -> [diff EXCEPT !.pc = "ask"]
                     [] diff.pc = "show" -> [diff EXCEPT !.pc = "shown"]
                     [] OTHER -> diff
    BY <1>3 DEF RoundEnds
  <2>2. rf' \in LoopState /\ rf'.pc = "idle" BY <2>1 DEF LoopState, Idle, Version
  <2>3. NoPre \in PreState /\ NoPre.pc = "idle" BY DEF NoPre, PreState, None
  <2>4. /\ Woken \in MsgState /\ Woken.made \in {0, msg.made} /\ Woken.pc \in {"arm", "none"}
    BY <1>1 DEF Woken, NoMsg, MsgState, Version
  <2>5. /\ msg' \in MsgState /\ msg'.made \in {0, msg.made} /\ msg'.pc # "wait"
        /\ msg'.pc = "submit" <=> msg.pc = "submit"
        /\ msg'.pc = "accounts" <=> msg.pc = "accounts"
    BY <1>1, <2>1, <2>4
  <2>6. Connects(pre', run', ready', rf', msg', real', hist') BY <2>1, <2>2, <2>3, <2>5, ConnectsRound
  <2>7. Reviewed(diff', hist', real')
    <3>1. CASE diff.pc = "wait"
      <4>1. diff' = [diff EXCEPT !.pc = "ask"] BY <2>1, <3>1
      <4>2. diff' \in DiffState /\ diff'.pc = "ask" BY <1>1, <4>1 DEF DiffState
      <4> QED BY <4>2 DEF Reviewed
    <3>2. CASE diff.pc = "show"
      <4>1. diff' = [diff EXCEPT !.pc = "shown"] BY <2>1, <3>2
      <4>2. diff' \in DiffState /\ diff'.pc = "shown" /\ diff'.read = diff.read /\ diff'.pending = diff.pending
        BY <1>1, <4>1 DEF DiffState
      <4> QED BY <3>2, <4>2 DEF Reviewed
    <3>3. CASE diff.pc \notin {"wait", "show"}
      <4>1. diff' = diff BY <2>1, <3>3
      <4> QED BY <4>1
    <3> QED BY <3>1, <3>2, <3>3
  <2>8. Awaits(msg', rf', real')
    <3>1. msg'.made <= real'.rows
      <4>1. CASE msg'.made = msg.made BY <4>1 DEF Awaits
      <4>2. CASE msg'.made = 0
        <5>1. real.rows \in Nat BY DEF RealState, Version
        <5> QED BY <4>2, <5>1
      <4> QED BY <2>5, <4>1, <4>2
    <3> QED BY <2>5, <3>1 DEF Awaits
  <2> QED BY <2>5, <2>6, <2>7, <2>8
<1> QED BY <1>2, <1>3

LEMMA SnapshotShownKeeps ==
    ASSUME Inv, SnapshotShown PROVE Inv'
<1>1. /\ Others /\ real \in RealState /\ hist \in HistState
      /\ Detection(cache, det, acc, hist, real) /\ Connects(pre, run, ready, rf, msg, real, hist)
      /\ Reviewed(diff, hist, real) /\ Awaits(msg, rf, real)
  BY DEF Inv, Others
<1>2. UNCHANGED <<real, config, applied, synced, run, ready, cache, det, acc, queued, note,
                  auth, turn, hist, events>>
  BY DEF SnapshotShown, daemon, settings, preamble, loop, detection, accounts, rest
<1>13. pre["rf"].pc # "wait"
  <2>1. rf.pc = "show" BY DEF SnapshotShown
  <2> QED BY <1>1, <2>1 DEF Connects
<1>14. /\ Connects(pre', run', ready', rf', msg', real', hist')
       /\ Reviewed(diff', hist', real')
       /\ Awaits(msg', rf', real')
       /\ msg'.pc = "accounts" <=> msg.pc = "accounts"
  BY <1>1, <1>2, <1>13, RoundEnded DEF SnapshotShown
<1>3. real' \in RealState /\ Later(real', real) /\ real'.repos = real.repos BY <1>1, <1>2, LaterSame
<1>4. /\ hist' \in HistState /\ hist'.wanted = hist.wanted /\ hist'.overlap = hist.overlap
      /\ hist'.floor = hist.floor /\ hist'.since = hist.since
  BY <1>1, <1>2
<1>5. msg' \in MsgState BY <1>14 DEF Awaits
<1>6. Detection(cache', det', acc', hist', real') BY <1>1, <1>2, <1>3, <1>4, DetectionLater
<1>7. Connects(pre', run', ready', rf', msg', real', hist')
  BY <1>14
<1>8. Reviewed(diff', hist', real')
  BY <1>14
<1>9. Awaits(msg', rf', real')
  BY <1>14
<1>12. Others'
  <2>1. shown' \in ShownState BY <1>1 DEF Others, SnapshotShown, ShownState, Connects, LoopState, Read
  <2> QED BY <1>1, <1>2, <1>3, <1>4, <1>14, <2>1 DEF Others
<1> QED BY <1>6, <1>7, <1>8, <1>9, <1>12 DEF Inv

LEMMA SnapshotFailsKeeps ==
    ASSUME Inv, SnapshotFails PROVE Inv'
<1>1. /\ Others /\ real \in RealState /\ hist \in HistState
      /\ Detection(cache, det, acc, hist, real) /\ Connects(pre, run, ready, rf, msg, real, hist)
      /\ Reviewed(diff, hist, real) /\ Awaits(msg, rf, real)
  BY DEF Inv, Others
<1>2. UNCHANGED <<real, config, applied, synced, run, ready, cache, det, acc, queued, note,
                  auth, turn, hist>>
  BY DEF SnapshotFails, daemon, settings, preamble, loop, detection, accounts, rest
<1>13. pre["rf"].pc # "wait"
  BY DEF SnapshotFails
<1>14. /\ Connects(pre', run', ready', rf', msg', real', hist')
       /\ Reviewed(diff', hist', real')
       /\ Awaits(msg', rf', real')
       /\ msg'.pc = "accounts" <=> msg.pc = "accounts"
  BY <1>1, <1>2, <1>13, RoundEnded DEF SnapshotFails
<1>3. real' \in RealState /\ Later(real', real) /\ real'.repos = real.repos BY <1>1, <1>2, LaterSame
<1>4. /\ hist' \in HistState /\ hist'.wanted = hist.wanted /\ hist'.overlap = hist.overlap
      /\ hist'.floor = hist.floor /\ hist'.since = hist.since
  BY <1>1, <1>2
<1>5. msg' \in MsgState BY <1>14 DEF Awaits
<1>6. Detection(cache', det', acc', hist', real') BY <1>1, <1>2, <1>3, <1>4, DetectionLater
<1>7. Connects(pre', run', ready', rf', msg', real', hist')
  BY <1>14
<1>8. Reviewed(diff', hist', real')
  BY <1>14
<1>9. Awaits(msg', rf', real')
  BY <1>14
<1>11. events' \in 0..MaxEvents
  <2>1. events \in 0..MaxEvents /\ Count BY <1>1 DEF Others, SnapshotFails
  <2> QED BY <2>1, Counted
<1>12. Others'
  <2>1. shown' \in ShownState BY <1>1 DEF Others, SnapshotFails, ShownState, Connects, LoopState, Read
  <2> QED BY <1>1, <1>2, <1>3, <1>4, <1>14, <2>1, <1>11 DEF Others
<1> QED BY <1>6, <1>7, <1>8, <1>9, <1>12 DEF Inv
-----------------------------------------------------------------------------
(* The webview is open and nothing has been read. *)
LEMMA InitScreen == ASSUME Init PROVE Inv
<1>1. "rf" \in Callers /\ "msg" \in Callers /\ "msg" # "rf" /\ \A s \in Callers : s = "rf" \/ s = "msg" BY DEF Callers
<1>2. real \in RealState /\ hist \in HistState BY DEF Init, RealState, HistState, Version, Read, None
<1>3. Others
  <2>1. "msg" \in Readers BY DEF Readers
  <2>2. acc["msg"].pc = "idle" /\ msg.pc = "wait" BY <2>1 DEF Init, NoAcc, NoMsg
  <2>3. shown \in ShownState /\ auth \in AuthState BY DEF Init, ShownState, AuthState, Read, None
  <2>4. events \in 0..MaxEvents /\ note \in Read BY EventsAssumption DEF Init, Read
  <2> QED BY <1>2, <2>2, <2>3, <2>4 DEF Init, Others
<1>4. Detection(cache, det, acc, hist, real)
  <2>1. cache \in CacheState /\ det \in DetState /\ NoAcc \in AccState
    BY DEF Init, CacheState, DetState, NoDet, NoAcc, AccState, Read, None
  <2>2. acc \in [Readers -> AccState] /\ \A a \in Readers : acc[a].start = -1 /\ acc[a].pc = "idle"
    BY <2>1 DEF Init, NoAcc, None
  <2>3. /\ hist.floor = -1 /\ hist.since = 0 /\ real.models = 0 /\ real.acct = 0 /\ cache.at = "absent"
        /\ ~det.on /\ ~det.shown
    BY DEF Init, NoDet, None
  <2> QED BY <2>1, <2>2, <2>3 DEF Detection, None
<1>5. Connects(pre, run, ready, rf, msg, real, hist)
  <2>1. NoPre \in PreState /\ [NoPre EXCEPT !.pc = "sync"] \in PreState BY DEF NoPre, PreState, None
  <2>2. /\ pre \in [Callers -> PreState] /\ pre["rf"].pc = "sync" /\ pre["msg"].pc = "idle"
    BY <1>1, <2>1 DEF Init, NoPre
  <2>3. run \in [Callers -> {"none", "list", "check", "insert"}] /\ \A s \in Callers : run[s] = "none" BY DEF Init
  <2>4. rf \in LoopState /\ rf.pc = "pre" /\ msg.pc = "wait" /\ ready = "none" /\ real.repos = 0
    BY DEF Init, Idle, LoopState, Version, NoMsg
  <2>5. Pushes(pre) BY <1>1, <2>2 DEF Pushes
  <2>6. Alone(run, ready, msg, real) BY <1>1, <2>3, <2>4 DEF Alone
  <2>7. \A s \in Callers : run[s] # "none" <=> pre[s].pc = "wait" /\ pre[s].on = s BY <1>1, <2>2, <2>3
  <2> QED BY <2>2, <2>3, <2>4, <2>5, <2>6, <2>7 DEF Connects, Callers
<1>6. Reviewed(diff, hist, real) BY DEF Init, Reviewed, DiffState, Version
<1>7. Awaits(msg, rf, real)
  <2>1. msg \in MsgState /\ msg.made = 0 /\ msg.kind = "ready" /\ real.rows = 0 BY DEF Init, MsgState, NoMsg, Version
  <2> QED BY <2>1 DEF Awaits
<1> QED BY <1>3, <1>4, <1>5, <1>6, <1>7 DEF Inv

(* Every step of the controller, of the daemon and of the user keeps it. *)
LEMMA NextScreen == ASSUME Inv, [Next]_vars PROVE Inv'
<1>1. CASE Snapshots
  BY <1>1, SnapshotReadKeeps, SnapshotShownKeeps, SnapshotFailsKeeps, ReadinessKeeps DEF Snapshots
<1>2. CASE Detects
  BY <1>2, ProbeKeeps, PublishAccountsKeeps, DetectionEndsKeeps DEF Detects
<1>3. CASE Watches
  BY <1>3, WatchFiresKeeps, WatchChecksKeeps DEF Watches
<1>4. CASE Diffs
  BY <1>4, GitTimerKeeps, DiffReadKeeps, DiffShownKeeps DEF Diffs
<1>5. CASE Handler
  BY <1>5, SubmittedKeeps, DaemonDoesKeeps, ForwardEndsKeeps, RefreshesLastKeeps, MirrorKeeps, ReadsLastKeeps, SignInShownKeeps, SignInWatchedKeeps, MessageRefreshedKeeps DEF Handler
<1>6. CASE Faults
  BY <1>6, ProbeFailsKeeps, EventFailsKeeps, WatchFailsKeeps, SubmitFailsKeeps, TurnFailsKeeps, CallFailsKeeps, MessageAccountsFailKeeps, ConnectFailsKeeps DEF Faults
<1>7. CASE Environment
  BY <1>7, ReceiveKeeps, ReceiveRefreshKeeps, ReceiveDiffKeeps, ReceiveSubmitKeeps, ConfigEditedKeeps, FoldersChangeKeeps, LimitReachedKeeps, UserSignsInKeeps, FilesChangeKeeps DEF Environment
<1>8. CASE TtlPasses BY <1>8, TtlPassesKeeps
<1>9. CASE TenMinutes BY <1>9, TenMinutesKeeps
<1>10. CASE DaemonEvent BY <1>10, DaemonEventKeeps
<1>11. CASE TurnSent BY <1>11, TurnSentKeeps
<1>12. CASE EventRefreshed BY <1>12, EventRefreshedKeeps
<1>13. CASE \E s \in Callers : Preamble(s)
  BY <1>13, SyncBeginKeeps, SyncPushKeeps, EnsureKeeps, ConnectListKeeps, ConnectCheckKeeps, ConnectInsertKeeps DEF Preamble
<1>14. CASE \E a \in Readers : AccountsRead(a) BY <1>14, AccountsReadKeeps
<1>15. CASE UNCHANGED vars
  <2>1. UNCHANGED <<real, config, applied, synced, pre, run, ready, rf, shown, msg, cache, det, acc, queued, note, auth, diff, turn, hist, events>> BY <1>15 DEF vars
  <2>2. Others' BY <2>1 DEF Inv, Others
  <2>3. /\ Detection(cache', det', acc', hist', real') /\ Connects(pre', run', ready', rf', msg', real', hist')
        /\ Reviewed(diff', hist', real') /\ Awaits(msg', rf', real')
    BY <2>1 DEF Inv
  <2> QED BY <2>2, <2>3 DEF Inv
<1> QED BY <1>1, <1>2, <1>3, <1>4, <1>5, <1>6, <1>7, <1>8, <1>9, <1>10, <1>11, <1>12, <1>13, <1>14, <1>15 DEF Next

LEMMA InvScreen == ASSUME Inv PROVE ScreenSound
<1>1. /\ Others /\ Detection(cache, det, acc, hist, real) /\ Connects(pre, run, ready, rf, msg, real, hist)
      /\ Reviewed(diff, hist, real) /\ Awaits(msg, rf, real)
  BY DEF Inv
<1>2. TypeOK BY <1>1 DEF Others, Detection, Connects, Reviewed, Awaits, TypeOK
<1>3. AccountsNotOlder BY <1>1 DEF Detection, AccountsNotOlder
<1>4. FreshMeansCurrent BY <1>1 DEF Detection, FreshMeansCurrent
<1>5. ConnectedOnce BY <1>1 DEF Connects, Alone, ConnectedOnce
<1>6. DiffServed BY <1>1 DEF Reviewed, DiffServed
<1> QED BY <1>2, <1>3, <1>4, <1>5, <1>6 DEF ScreenSound

LEMMA InvAlways == Spec => []Inv
<1>1. Init => Inv BY InitScreen
<1>2. Inv /\ [Next]_vars => Inv' BY NextScreen
<1> QED BY <1>1, <1>2, PTL DEF Spec

(* Whatever messages, events, answers and failures interleave: the accounts on
   screen are never older than the last refresh of them that was applied, a
   detection that counts as fresh was read after the last invalidation, a folder
   is connected once unless the folders changed under the run, and a diff at rest
   was read after the last request for it (workbenchController.ts). *)
THEOREM ScreenIsSound == Spec => []ScreenSound
BY InvAlways, InvScreen, PTL

(* Only the end of a round of the loop lets a handler that awaits it go on. *)
LEMMA WaitEnds ==
    ASSUME Inv, [Next]_vars, msg.pc = "wait", msg'.pc # "wait"
    PROVE SnapshotShown \/ SnapshotFails
<1>1. acc["msg"].pc = "idle" BY DEF Inv, Others
<1>2. CASE Snapshots
  BY <1>2 DEF Snapshots, SnapshotRead, Readiness
<1>3. CASE Detects BY <1>3 DEF Detects, Probe, PublishAccounts, DetectionEnds
<1>4. CASE Watches BY <1>4 DEF Watches, WatchFires, WatchChecks
<1>5. CASE Diffs BY <1>5 DEF Diffs, GitTimer, DiffRead, DiffShown, NoMsg
<1>6. CASE Handler
  BY <1>1, <1>6 DEF Handler, Submitted, DaemonDoes, ForwardEnds, RefreshesLast, Mirror, ReadsLast,
       SignInShown, SignInWatched, MessageRefreshed
<1>7. CASE Faults
  BY <1>1, <1>7 DEF Faults, ProbeFails, EventFails, WatchFails, SubmitFails, TurnFails, CallFails,
       MessageAccountsFail, ConnectFails
<1>8. CASE Environment
  BY <1>8 DEF Environment, Receive, ReceiveRefresh, ReceiveDiff, ReceiveSubmit, Free,
       ConfigEdited, FoldersChange, LimitReached, UserSignsIn, FilesChange
<1>9. CASE TtlPasses \/ TenMinutes \/ DaemonEvent \/ TurnSent \/ EventRefreshed
  BY <1>9 DEF TtlPasses, TenMinutes, DaemonEvent, TurnSent, EventRefreshed
<1>10. CASE \E s \in Callers : Preamble(s)
  BY <1>10 DEF Preamble, SyncBegin, SyncPush, Ensure, ConnectList, ConnectCheck, ConnectInsert
<1>11. CASE \E a \in Readers : AccountsRead(a) BY <1>11 DEF AccountsRead
<1>12. CASE UNCHANGED vars BY <1>12 DEF vars
<1> QED BY <1>2, <1>3, <1>4, <1>5, <1>6, <1>7, <1>8, <1>9, <1>10, <1>11, <1>12 DEF Next

(* The handler of a message that changed something in the daemon ends its wait with
   the change on screen, or with an error there, although the refresh it joined may
   have read before the change (refresh, handleMessageNow). *)
THEOREM OwnChangeIsShown == Spec => OwnChangeShown
<1> DEFINE P == msg.kind = "forward" /\ msg.pc = "wait" /\ msg'.pc # "wait" => shown'.rows >= msg.made \/ shown'.err
<1>1. ASSUME Inv, [Next]_vars PROVE P
  <2> SUFFICES ASSUME msg.kind = "forward", msg.pc = "wait", msg'.pc # "wait" PROVE shown'.rows >= msg.made \/ shown'.err
    OBVIOUS
  <2>1. SnapshotShown \/ SnapshotFails BY <1>1, WaitEnds
  <2>2. CASE SnapshotShown
    <3>1. rf.pc = "show" /\ shown' = [rows |-> rf.rows, err |-> FALSE] /\ RoundEnds BY <2>2 DEF SnapshotShown
    <3>2. ~rf.more BY <3>1 DEF RoundEnds
    <3>3. rf.rows >= msg.made BY <1>1, <3>1, <3>2 DEF Inv, Awaits
    <3> QED BY <3>1, <3>3
  <2>3. CASE SnapshotFails
    <3>1. shown' = [shown EXCEPT !.err = TRUE] /\ shown \in ShownState BY <1>1, <2>3 DEF SnapshotFails, Inv, Others
    <3>2. shown'.err BY <3>1 DEF ShownState
    <3> QED BY <3>2
  <2> QED BY <2>1, <2>2, <2>3
<1>2. Inv /\ [Next]_vars => [P]_vars BY <1>1
<1> QED BY <1>2, InvAlways, PTL DEF Spec, OwnChangeShown
=============================================================================
