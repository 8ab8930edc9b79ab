------------------------------ MODULE PreBuffer ------------------------------
(***************************************************************************)
(* The window of video packets that RecordingSession keeps in memory while *)
(* no alarm is active (pre_buffer_ and its two counters in                 *)
(* recording_session.hpp).  A packet is reduced to what the window looks   *)
(* at: whether it is a keyframe and how many bytes it has.                 *)
(*                                                                         *)
(* The window is measured in keyframes, but it must also stay below a      *)
(* number of bytes and a number of packets when a broken stream sends no   *)
(* keyframes.  All three ways of shrinking it remove packets from the      *)
(* front and adjust the counters as they go, so each of them is            *)
(* DropFront(b, n) for the right n.                                        *)
(***************************************************************************)
EXTENDS Integers, Sequences, FiniteSets, SequencesExt, FiniteSetsExt

CONSTANTS
  PreIFrames,           \* cfg_.pre_buffer_iframes
  MaxPreBufferBytes,    \* MAX_PRE_BUFFER_BYTES
  MaxPreBufferPackets,  \* MAX_PRE_BUFFER_PACKETS
  Sizes                 \* sizes of the packets that push_packet lets through

(***************************************************************************)
(* A negative pre_buffer_iframes would make the trimming loop run forever, *)
(* and push_packet rejects empty packets.                                  *)
(***************************************************************************)
ASSUME BufferAssumption ==
  /\ PreIFrames \in Nat
  /\ MaxPreBufferBytes \in Nat
  /\ MaxPreBufferPackets \in Nat \ {0}
  /\ Sizes \subseteq Nat \ {0}

VARIABLE preBuf  \* [pkts, iframes, bytes]: pre_buffer_, pre_buffer_iframe_count_
                 \* and current_buffer_bytes_

Packet == [key : BOOLEAN, size : Sizes]

EmptyBuffer == [pkts |-> <<>>, iframes |-> 0, bytes |-> 0]

KeyIndices(s) == {i \in DOMAIN s : s[i].key}

SizeOf(s) ==
  LET upto[n \in 0 .. Len(s)] == IF n = 0 THEN 0 ELSE upto[n - 1] + s[n].size
  IN  upto[Len(s)]

-----------------------------------------------------------------------------
(* Operations on the window *)

(* Mutant: the byte counter is not adjusted.                               *)
DropFront_KeepsBytes(b, n) ==
  [ pkts    |-> SubSeq(b.pkts, n + 1, Len(b.pkts)),
    iframes |-> b.iframes - Cardinality({i \in KeyIndices(b.pkts) : i <= n}),
    bytes   |-> b.bytes ]

(* Pop the n oldest packets, keeping both counters in step with the deque. *)
DropFront(b, n) ==
  [ pkts    |-> SubSeq(b.pkts, n + 1, Len(b.pkts)),
    iframes |-> b.iframes - Cardinality({i \in KeyIndices(b.pkts) : i <= n}),
    bytes   |-> b.bytes - SizeOf(SubSeq(b.pkts, 1, n)) ]

(* Mutant: the second keyframe goes too.                                   *)
OldestGop_TakesNextKeyframe(s) ==
  LET K == KeyIndices(s) IN
  IF Cardinality(K) < 2 THEN Len(s) ELSE Min(K \ {Min(K)})

(***************************************************************************)
(* How many packets drop_oldest_gop_from_pre_buffer removes: everything up *)
(* to the second keyframe; all of them if there is only one keyframe; a    *)
(* quarter, but at least one, if there is none.                            *)
(***************************************************************************)
OldestGop(s) ==
  LET K == KeyIndices(s) IN
  IF K = {} THEN Max({1, Len(s) \div 4})
  ELSE IF K = {Min(K)} THEN Len(s)
  ELSE Min(K \ {Min(K)}) - 1

DropOldestGop(b) ==
  IF b.pkts = <<>> THEN b ELSE DropFront(b, OldestGop(b.pkts))

(***************************************************************************)
(* The loop "while count > limit, drop the oldest GOP".  Every iteration   *)
(* removes a packet from a nonempty window, so as many iterations as there *)
(* are packets are enough.                                                 *)
(***************************************************************************)
TrimGops(b) ==
  LET after[n \in 0 .. Len(b.pkts)] ==
        IF n = 0 THEN b
        ELSE LET w == after[n - 1]
             IN  IF w.iframes > PreIFrames THEN DropOldestGop(w) ELSE w
  IN  after[Len(b.pkts)]

EmergencyClear(b, target) ==
  LET enough(n) == b.bytes - SizeOf(SubSeq(b.pkts, 1, n)) <= target
  IN  DropFront(b, Min({n \in 0..Len(b.pkts) : enough(n) \/ n = Len(b.pkts)}))

EmergencyClearByCount(b, target) == DropFront(b, Max({0, Len(b.pkts) - target}))

(* Mutant: an arriving packet is not counted into the bytes.               *)
Arrived_ForgetsBytes(b, p) ==
  [ pkts    |-> Append(b.pkts, p),
    iframes |-> b.iframes + (IF p.key THEN 1 ELSE 0),
    bytes   |-> b.bytes ]

Arrived(b, p) ==
  [ pkts    |-> Append(b.pkts, p),
    iframes |-> b.iframes + (IF p.key THEN 1 ELSE 0),
    bytes   |-> b.bytes + p.size ]

(* Mutant: no limit on the bytes.                                          *)
Added_NoByteLimit(b, p) ==
  LET trimmed == TrimGops(Arrived(b, p))
  IN  IF Len(trimmed.pkts) > MaxPreBufferPackets
      THEN EmergencyClearByCount(trimmed, MaxPreBufferPackets \div 2)
      ELSE trimmed

(* add_to_pre_buffer: append, trim to PreIFrames keyframes, then enforce   *)
(* the byte limit and the packet limit.                                    *)
Added(b, p) ==
  LET trimmed == TrimGops(Arrived(b, p))
      light   == IF trimmed.bytes > MaxPreBufferBytes
                 THEN EmergencyClear(trimmed, MaxPreBufferBytes \div 2)
                 ELSE trimmed
  IN  IF Len(light.pkts) > MaxPreBufferPackets
      THEN EmergencyClearByCount(light, MaxPreBufferPackets \div 2)
      ELSE light

-----------------------------------------------------------------------------
(* The window on its own: packets arrive, and now and then an event starts *)
(* and drains it into a file.                                              *)

AddToPreBuffer(p) == preBuf' = Added(preBuf, p)

(* Mutant: the byte counter survives the event.                            *)
DrainPreBuffer_KeepsBytes == preBuf' = [EmptyBuffer EXCEPT !.bytes = preBuf.bytes]

DrainPreBuffer == preBuf' = EmptyBuffer

BufferInit == preBuf = EmptyBuffer

BufferNext == (\E p \in Packet : AddToPreBuffer(p)) \/ DrainPreBuffer

BufferSpec == BufferInit /\ [][BufferNext]_preBuf

-----------------------------------------------------------------------------
(* Properties *)

(* The window is a deque of packets with two natural counters (the byte    *)
(* counter of the code is unsigned: going below zero would wrap around).   *)
BufferTypeOK ==
  preBuf \in [pkts : Seq(Packet), iframes : Nat, bytes : Nat]

(* After every way of shrinking the window, the two counters still say     *)
(* what is in the deque; trimming and both limits are decided from them,   *)
(* so a counter that drifts disables them for good.                        *)
WindowAccounts ==
  /\ preBuf.iframes = Cardinality(KeyIndices(preBuf.pkts))
  /\ preBuf.bytes = SizeOf(preBuf.pkts)

(* However few keyframes the stream sends and however large its packets    *)
(* are, add_to_pre_buffer leaves the window within all three limits; in    *)
(* particular the loop that drops GOPs gets below its limit, or            *)
(* push_packet would never release buffer_mtx_.                            *)
WindowBounded ==
  /\ preBuf.iframes <= PreIFrames
  /\ preBuf.bytes <= MaxPreBufferBytes
  /\ Len(preBuf.pkts) <= MaxPreBufferPackets

(* The reference for trimming: what follows the n-th newest keyframe.      *)
NewestGops(s, n) ==
  IF Cardinality(KeyIndices(s)) <= n THEN s
  ELSE LET first == {i \in KeyIndices(s) :
                      Cardinality({j \in KeyIndices(s) : j >= i}) <= n}
       IN  IF first = {} THEN <<>> ELSE SubSeq(s, Min(first), Len(s))

(* Dropping whole GOPs one by one leaves exactly the newest PreIFrames of  *)
(* them, none more and none less, and as soon as a GOP has been dropped    *)
(* the window begins with a keyframe.                                      *)
TrimKeepsNewestGops ==
  \A p \in Packet :
    TrimGops(Arrived(preBuf, p)).pkts = NewestGops(Append(preBuf.pkts, p), PreIFrames)

=============================================================================
