---------------------------- MODULE ReliableRTP ----------------------------
(***************************************************************************)
(* The media transport (golib/webrtc/media_reliable.go and                 *)
(* media_transport.go): reliableRTP numbers the writes of one side, keeps  *)
(* them until they are acknowledged and retransmits them; the other side   *)
(* buffers frames by number, acknowledges them and reads them in order.    *)
(* Below it MediaStreamTransport carries frames as RTP packets, which the  *)
(* network may lose or reorder, into a bounded channel of the receiver.    *)
(*                                                                         *)
(* One direction of the traffic is modelled: a sender, its acknowledgments *)
(* and a receiver.  The reader's mutex and condition variable are explicit *)
(* because Close does not take the mutex.                                  *)
(***************************************************************************)
EXTENDS Naturals, Sequences, FiniteSets, Bags, BagsExt, Functions

CONSTANTS
    Cases,       \* the width of the sequence numbers, and bounds: the messages
                 \* written, the packets lost, whether the sides may be closed
    WindowSize,  \* reliableWindowSize
    MaxRetries,  \* reliableMaxRetries
    ChanCap      \* capacity of readCh

ASSUME ConstantsAssumption ==
    /\ {WindowSize, ChanCap} \subseteq Nat \ {0}
    /\ MaxRetries \in Nat
    /\ Cases \subseteq [mod : Nat \ {0}, writes : Nat, lost : Nat, close : BOOLEAN]

VARIABLES
    case,       \* a member of Cases; lost counts down
    written,    \* messages written; message n has sequence number n % SeqMod
    unacked,    \* unacked: sequence number -> [msg, retries]
    sdone,      \* done of the sending side is closed
    packets,    \* bag of data frames under way
    acks,       \* bag of acknowledged numbers under way
    track,      \* the goroutine of NewMediaStreamTransport: "wait" for the remote
                \* track, "loop" (readTrackLoop), "over"
    readCh,     \* readCh of the receiving MediaStreamTransport
    receiver,   \* receiveLoop: "read", "signal" after it stored a frame, "over"
    readBuf,    \* readBuf: sequence number -> message
    readSeq,    \* readSeq
    reader,     \* Read: "out", "armed" (locked, nothing to read), "parked", "eof"
    delivered,  \* messages that Read has returned
    rdone,      \* done of the receiving side is closed
    acked,      \* messages for which an acknowledgment was sent
    stale       \* receiveLoop stored a frame that is not one of the next SeqMod to
                \* be read: read before, or a whole round of numbers ahead

sender == <<written, unacked, sdone>>
network == <<packets, acks, case>>
media == <<track, readCh>>
receiving == <<receiver, readBuf, readSeq, reader, delivered, rdone, acked, stale>>
vars == <<sender, network, media, receiving>>

(* writeSeq and readSeq are uint16: 2^16 numbers in the code. *)
SeqMod == case.mod

Frame(n) == [seq |-> n % SeqMod, msg |-> n]
Send(f) == packets' = packets (+) SetToBag({f})
Without(f, x) == Restrict(f, DOMAIN f \ {x})
With(f, x, v) == [y \in DOMAIN f \cup {x} |-> IF y = x THEN v ELSE f[y]]
Nothing == [x \in {} |-> 0]

Init ==
    /\ written = 0 /\ unacked = Nothing /\ sdone = FALSE
    /\ packets = EmptyBag /\ acks = EmptyBag /\ case \in Cases
    /\ track = "wait" /\ readCh = <<>>
    /\ receiver = "read" /\ readBuf = Nothing /\ readSeq = 0
    /\ reader = "out" /\ delivered = <<>> /\ rdone = FALSE
    /\ acked = {} /\ stale = FALSE

-----------------------------------------------------------------------------
(* The sending side. *)

(* Write registers the frame before it is sent.  A frame written on a closed *)
(* transport is registered but not sent.                                     *)
Write ==
    /\ written < case.writes
    /\ unacked' = With(unacked, Frame(written).seq, [msg |-> written, retries |-> 0])
    /\ written' = written + 1
    /\ IF sdone THEN UNCHANGED packets ELSE Send(Frame(written))
    /\ UNCHANGED <<sdone, acks, case, media, receiving>>

(* One frame of a tick of retransmitLoop whose timeout has passed. *)
Retransmit(q) ==
    /\ ~sdone /\ q \in DOMAIN unacked
    /\ \/ /\ unacked[q].retries >= MaxRetries
          /\ unacked' = Without(unacked, q)
          /\ UNCHANGED packets
       \/ /\ unacked[q].retries < MaxRetries
          /\ unacked' = [unacked EXCEPT ![q].retries = @ + 1]
          /\ Send(Frame(unacked[q].msg))
    /\ UNCHANGED <<written, sdone, acks, case, media, receiving>>

(* The case reliableFlagAck of receiveLoop. *)
ReceiveAck(q) ==
    /\ ~sdone /\ BagIn(q, acks)
    /\ acks' = acks (-) SetToBag({q})
    /\ unacked' = Without(unacked, q)
    /\ UNCHANGED <<written, sdone, packets, case, media, receiving>>

CloseSender ==
    /\ case.close /\ ~sdone
    /\ sdone' = TRUE
    /\ UNCHANGED <<written, unacked, network, media, receiving>>

-----------------------------------------------------------------------------
(* The network. *)

Lose ==
    /\ case.lost > 0 /\ case' = [case EXCEPT !.lost = @ - 1]
    /\ \/ \E f \in BagToSet(packets) : packets' = packets (-) SetToBag({f}) /\ UNCHANGED acks
       \/ \E q \in BagToSet(acks) : acks' = acks (-) SetToBag({q}) /\ UNCHANGED packets
    /\ UNCHANGED <<sender, media, receiving>>

-----------------------------------------------------------------------------
(* The receiving MediaStreamTransport. *)

(* The first packet announces the remote track.  The goroutine gives up      *)
(* after 30 s, which counts as a close, and when the transport is closed.    *)
RemoteTrack ==
    /\ track = "wait"
    /\ \/ packets # EmptyBag /\ track' = "loop"
       \/ (rdone \/ case.close) /\ track' = "over"
    /\ UNCHANGED <<sender, network, readCh, receiving>>

(* readTrackLoop: it blocks while readCh is full.  The select may prefer     *)
(* readCh to a closed done; the next turn sees done.                         *)
readTrackLoop ==
    /\ track = "loop"
    /\ \/ /\ Len(readCh) < ChanCap
          /\ \E f \in BagToSet(packets) :
                packets' = packets (-) SetToBag({f}) /\ readCh' = Append(readCh, f)
          /\ track' = IF rdone THEN "over" ELSE "loop"
       \/ rdone /\ track' = "over" /\ UNCHANGED <<packets, readCh>>
    /\ UNCHANGED <<sender, acks, case, receiving>>

-----------------------------------------------------------------------------
(* The receiving reliableRTP. *)

(* Mutant: the mutex is not held between the test and the Wait. *)
NeverLocked == FALSE

(* readMu is held by a reader that has found nothing and is about to wait. *)
readMuHeld == reader = "armed"

(* Mutant: only the next frame is stored. *)
StoreInOrder(f) == IF f.seq = readSeq THEN With(readBuf, f.seq, f.msg) ELSE readBuf

(* A full buffer drops the frame. *)
Store(f) ==
    IF Cardinality(DOMAIN readBuf) < WindowSize THEN With(readBuf, f.seq, f.msg) ELSE readBuf

(* The messages that the next SeqMod numbers stand for. *)
NextToRead == Len(delivered)..Len(delivered) + SeqMod - 1

(* receiveLoop stores the next frame; the acknowledgment is sent in any case, *)
(* by a goroutine.  After Unlock it signals the reader.  A Read under way when *)
(* the transport is closed may still return a frame; the next turn sees done. *)
ReceiveFrame ==
    /\ receiver = "read" /\ readCh # <<>> /\ ~readMuHeld
    /\ readBuf' = Store(Head(readCh))
    /\ stale' = (stale \/ (readBuf' # readBuf /\ Head(readCh).msg \notin NextToRead))
    /\ readCh' = Tail(readCh)
    /\ acks' = acks (+) SetToBag({Head(readCh).seq})
    /\ acked' = acked \cup {Head(readCh).msg}
    /\ receiver' = "signal"
    /\ UNCHANGED <<sender, packets, case, track, readSeq, reader, delivered, rdone>>

Wake == reader' = IF reader = "parked" THEN "out" ELSE reader

SignalReader ==
    /\ receiver = "signal"
    /\ Wake
    /\ receiver' = IF rdone THEN "over" ELSE "read"
    /\ UNCHANGED <<sender, network, media, readBuf, readSeq, delivered, rdone, acked, stale>>

(* inner.Read fails once the transport is closed. *)
ReceiveOver ==
    /\ receiver = "read" /\ rdone
    /\ receiver' = "over"
    /\ UNCHANGED <<sender, network, media, readBuf, readSeq, reader, delivered, rdone, acked, stale>>

(* Mutant: a gap is skipped. *)
NextReadable == IF DOMAIN readBuf = {} THEN {} ELSE {CHOOSE q \in DOMAIN readBuf : TRUE}

Readable == DOMAIN readBuf \cap {readSeq}

(* Read: with the mutex held it sees done, or a frame, or neither. *)
Read ==
    /\ reader = "out"
    /\ \/ rdone /\ reader' = "eof" /\ UNCHANGED <<readBuf, readSeq, delivered>>
       \/ /\ ~rdone
          /\ \E q \in Readable :
               /\ delivered' = Append(delivered, readBuf[q])
               /\ readBuf' = Without(readBuf, q)
               /\ readSeq' = (q + 1) % SeqMod
          /\ UNCHANGED reader
       \/ /\ ~rdone /\ Readable = {}
          /\ reader' = "armed"
          /\ UNCHANGED <<readBuf, readSeq, delivered>>
    /\ UNCHANGED <<sender, network, media, receiver, rdone, acked, stale>>

(* readCond.Wait. *)
Park ==
    /\ reader = "armed"
    /\ reader' = "parked"
    /\ UNCHANGED <<sender, network, media, receiver, readBuf, readSeq, delivered, rdone, acked, stale>>

(* Close does not take readMu: its Broadcast misses an armed reader. *)
CloseReceiver ==
    /\ case.close /\ ~rdone
    /\ rdone' = TRUE
    /\ Wake
    /\ UNCHANGED <<sender, network, media, receiver, readBuf, readSeq, delivered, acked, stale>>

-----------------------------------------------------------------------------
SenderStep == \E q \in 0..SeqMod - 1 : Retransmit(q) \/ ReceiveAck(q)
ReceiverStep ==
    RemoteTrack \/ readTrackLoop \/ ReceiveFrame \/ SignalReader \/ ReceiveOver \/ Read \/ Park

Next == Write \/ SenderStep \/ CloseSender \/ Lose \/ ReceiverStep \/ CloseReceiver

(* The loops run; retransmitLoop ticks.  Read is called again by smux until  *)
(* it fails.                                                                 *)
Fairness ==
    /\ WF_vars(SenderStep)
    /\ WF_vars(RemoteTrack) /\ WF_vars(readTrackLoop)
    /\ WF_vars(ReceiveFrame) /\ WF_vars(SignalReader) /\ WF_vars(ReceiveOver)
    /\ WF_vars(Read) /\ WF_vars(Park)

Spec == Init /\ [][Next]_vars /\ Fairness

-----------------------------------------------------------------------------
(* Properties. *)

(* The buffers stay within reliableWindowSize and the capacity of readCh,    *)
(* and unacked and readBuf hold messages that were written.                  *)
TypeOK ==
    /\ written \in 0..case.writes
    /\ DOMAIN unacked \subseteq 0..SeqMod - 1
    /\ \A q \in DOMAIN unacked :
         unacked[q].msg \in 0..written - 1 /\ unacked[q].retries \in 0..MaxRetries
    /\ \A q \in DOMAIN readBuf : readBuf[q] \in 0..written - 1 /\ readBuf[q] % SeqMod = q
    /\ Cardinality(DOMAIN readBuf) <= WindowSize /\ Len(readCh) <= ChanCap
    /\ readSeq \in 0..SeqMod - 1
    /\ track \in {"wait", "loop", "over"} /\ receiver \in {"read", "signal", "over"}
    /\ reader \in {"out", "armed", "parked", "eof"}
    /\ {sdone, rdone} \subseteq BOOLEAN

(* Read goes through the sequence numbers one by one, across any number of   *)
(* wraps of the uint16.  The messages it returns are those written, in that  *)
(* order, without gaps or repetitions, whatever the network and the          *)
(* retransmissions do, until the numbers are used up; and after that as long *)
(* as receiveLoop, which compares no number with readSeq, has not stored a   *)
(* late copy of a frame read before or a frame a whole round ahead.          *)
DeliveredInOrder ==
    /\ \A i \in DOMAIN delivered : delivered[i] % SeqMod = (i - 1) % SeqMod
    /\ written < SeqMod \/ ~stale => \A i \in DOMAIN delivered : delivered[i] = i - 1

(* A reader that waits although its next frame is there is about to be       *)
(* signalled by receiveLoop: no wakeup is lost.                              *)
NoLostSignal == reader = "parked" /\ Readable # {} /\ ~rdone => receiver = "signal"

(* reliableRTP "provides reliable, ordered delivery": what was acknowledged, *)
(* and so will not be sent again, has been read or can be read later.        *)
AckedIsKept ==
    \A m \in acked : m < Len(delivered) \/ \E q \in DOMAIN readBuf : readBuf[q] = m

(* Every message is delivered in the end, unless a side is closed, the       *)
(* remote track never came, or the sequence numbers have been used up and    *)
(* stand for a second message.                                               *)
Delivery ==
    \/ <>[](Len(delivered) = written)
    \/ <>(sdone \/ rdone \/ track = "over" \/ written >= SeqMod)
=============================================================================
