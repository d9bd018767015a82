------------------------- MODULE ReliableRTPProofs --------------------------
(***************************************************************************)
(* What ReliableRTP proves about the reader of reliableRTP, for every      *)
(* number of messages and of sequence numbers, window, capacity and retry  *)
(* limit: no wakeup is lost, the numbers are read one by one across their  *)
(* wraps, and the messages come in order until a stale frame is stored.    *)
(***************************************************************************)
EXTENDS ReliableRTP, TLAPS

(* A reader that is about to wait has nothing to read: it has held readMu    *)
(* since it looked, and receiveLoop stores under readMu.                     *)
ArmedWithoutFrame == reader = "armed" => Readable = {}

SignalInv == NoLostSignal /\ ArmedWithoutFrame

(* One step of any goroutine keeps the wakeup of the reader. *)
LEMMA SignalStep == SignalInv /\ [Next]_vars => SignalInv'
<1> SUFFICES ASSUME SignalInv, [Next]_vars
             PROVE  SignalInv'
    OBVIOUS
<1> USE DEF SignalInv, NoLostSignal, ArmedWithoutFrame, Readable
<1>1. CASE Write
    BY <1>1 DEF Write, receiving
<1>2. CASE SenderStep
    BY <1>2 DEF SenderStep, Retransmit, ReceiveAck, receiving
<1>3. CASE CloseSender
    BY <1>3 DEF CloseSender, receiving
<1>4. CASE Lose
    BY <1>4 DEF Lose, receiving
<1>5. CASE RemoteTrack \/ readTrackLoop
    BY <1>5 DEF RemoteTrack, readTrackLoop, receiving
<1>6. CASE ReceiveFrame
    BY <1>6 DEF ReceiveFrame, readMuHeld
<1>7. CASE SignalReader
    BY <1>7 DEF SignalReader, Wake
<1>8. CASE ReceiveOver
    BY <1>8 DEF ReceiveOver
<1>9. CASE Read
  <2>1. CASE reader' = "eof"
      BY <2>1
  <2>2. CASE reader' = reader
      BY <1>9, <2>2 DEF Read
  <2>3. CASE reader' = "armed"
      BY <1>9, <2>3 DEF Read
  <2> QED
      BY <1>9, <2>1, <2>2, <2>3 DEF Read
<1>10. CASE Park
    BY <1>10 DEF Park
<1>11. CASE CloseReceiver
    BY <1>11 DEF CloseReceiver, Wake
<1>12. CASE UNCHANGED vars
    BY <1>12 DEF vars, receiving
<1> QED
    BY <1>1, <1>2, <1>3, <1>4, <1>5, <1>6, <1>7, <1>8, <1>9, <1>10, <1>11, <1>12
    DEF Next, ReceiverStep

(* No wakeup of Read is lost: a reader that waits on readCond although its   *)
(* next frame is there is about to be signalled by receiveLoop.              *)
THEOREM NoSignalIsLost == Spec => []NoLostSignal
<1>1. Init => SignalInv
    BY DEF Init, SignalInv, NoLostSignal, ArmedWithoutFrame
<1>2. SignalInv => NoLostSignal
    BY DEF SignalInv
<1> QED
    BY <1>1, <1>2, SignalStep, PTL DEF Spec

-----------------------------------------------------------------------------
(* Order.  A frame is one that was written, a frame in readBuf is under its   *)
(* own number, and without stale frames it is one of the next SeqMod.         *)

Messages == 0..written - 1
Genuine == {Frame(n) : n \in Messages}

SenderOrder ==
    /\ case \in [mod : Nat \ {0}, writes : Nat, lost : Nat, close : BOOLEAN]
    /\ written \in Nat
    /\ unacked \in [DOMAIN unacked -> [msg : Messages, retries : Nat]]

FramesGenuine ==
    /\ BagToSet(packets) \subseteq Genuine
    /\ readCh \in Seq(Genuine)
    /\ \A q \in DOMAIN readBuf : readBuf[q] \in Messages /\ readBuf[q] % SeqMod = q

ReaderOrder ==
    /\ delivered \in Seq(Nat) /\ DeliveredInOrder
    /\ readSeq = Len(delivered) % SeqMod
    /\ written < SeqMod => Len(delivered) <= written
    /\ ~stale => \A q \in DOMAIN readBuf : readBuf[q] \in NextToRead

OrderInv == SenderOrder /\ FramesGenuine /\ ReaderOrder

LEMMA BagWith ==
    ASSUME NEW B, NEW x
    PROVE  BagToSet(B (+) SetToBag({x})) = BagToSet(B) \cup {x}
BY DEF BagToSet, (+), SetToBag

LEMMA BagWithout ==
    ASSUME NEW B, NEW C
    PROVE  BagToSet(B (-) C) \subseteq BagToSet(B)
BY DEF BagToSet, (-)

LEMMA SmallMod ==
    ASSUME NEW m \in Nat \ {0}, NEW n \in Nat, n < m
    PROVE  n % m = n
OBVIOUS

(* Quotient and remainder are unique. *)
LEMMA UniqueRemainder ==
    ASSUME NEW m \in Nat \ {0}, NEW a \in Int, NEW b \in Int, NEW r \in 0..m - 1,
           NEW s \in 0..m - 1, m * a + r = m * b + s
    PROVE  r = s /\ a = b
<1>1. m * (a - b) = s - r
  OBVIOUS
<1>2. CASE a - b >= 1
  <2>1. m * (a - b) >= m
    BY <1>2
  <2> QED
    BY <1>1, <2>1
<1>3. CASE a - b <= -1
  <2>1. m * (a - b) <= -m
    BY <1>3
  <2> QED
    BY <1>1, <2>1
<1>4. CASE a - b = 0
  BY <1>1, <1>4
<1> QED
  BY <1>2, <1>3, <1>4

LEMMA Remainder ==
    ASSUME NEW m \in Nat \ {0}, NEW n \in Nat
    PROVE  n % m \in 0..m - 1 /\ \E a \in Int : n = m * a + (n % m)
<1>1. n \div m \in Int /\ n = m * (n \div m) + (n % m) /\ n % m \in 0..m - 1
  OBVIOUS
<1> QED
  BY <1>1

(* Two messages with the same number, less than a round apart, are the same. *)
LEMMA SameNumber ==
    ASSUME NEW m \in Nat \ {0}, NEW x \in Nat, NEW y \in Nat, x % m = y % m, y <= x, x < y + m
    PROVE  x = y
<1>1. PICK a \in Int : x = m * a + (x % m)
  BY Remainder
<1>2. PICK b \in Int : y = m * b + (x % m)
  BY Remainder
<1>3. m * (a - b) = x - y
  <2> DEFINE r == x % m
  <2>1. r \in Int /\ x = m * a + r /\ y = m * b + r
    BY <1>1, <1>2, Remainder
  <2> HIDE DEF r
  <2> QED
    BY <2>1
<1>4. 0 = x - y
  <2>1. x - y \in 0..m - 1 /\ 0 \in 0..m - 1 /\ a - b \in Int
    OBVIOUS
  <2>2. m * (a - b) + 0 = m * 0 + (x - y)
    BY <1>3, <2>1
  <2> QED
    BY <2>1, <2>2, UniqueRemainder
<1> QED
  BY <1>4

(* readSeq++ of a uint16. *)
LEMMA NextNumber ==
    ASSUME NEW m \in Nat \ {0}, NEW n \in Nat
    PROVE  ((n % m) + 1) % m = (n + 1) % m
<1> DEFINE r == n % m
           s == (n + 1) % m
<1>1. PICK a \in Int : n = m * a + r
  BY Remainder
<1>0. n + 1 \in Nat
  OBVIOUS
<1>2. PICK b \in Int : n + 1 = m * b + s
  BY <1>0, Remainder
<1>3. r \in 0..m - 1 /\ s \in 0..m - 1
  BY <1>0, Remainder
<1> HIDE DEF r, s
<1>4. CASE r + 1 < m
  <2>1. r + 1 = s
    BY <1>1, <1>2, <1>3, <1>4, UniqueRemainder
  <2>2. (r + 1) % m = r + 1
    BY <1>3, <1>4, SmallMod
  <2> QED
    BY <2>1, <2>2 DEF r, s
<1>5. CASE r + 1 = m
  <2>1. m * (a + 1) + 0 = m * b + s
    BY <1>1, <1>2, <1>3, <1>5
  <2>2. 0 = s
    BY <1>3, <2>1, UniqueRemainder
  <2>3. (r + 1) % m = 0
    BY <1>5
  <2> QED
    BY <2>2, <2>3 DEF r, s
<1> QED
  BY <1>3, <1>4, <1>5

(* At first nothing has been written. *)
LEMMA OrderInit == Init => OrderInv
<1> SUFFICES ASSUME Init
             PROVE  OrderInv
    OBVIOUS
<1>1. case \in [mod : Nat \ {0}, writes : Nat, lost : Nat, close : BOOLEAN]
    BY ConstantsAssumption DEF Init
<1>2. SenderOrder
    BY <1>1 DEF SenderOrder, Init, Nothing
<1>3. FramesGenuine
    BY DEF FramesGenuine, Init, Nothing, EmptyBag, SetToBag, BagToSet
<1>4. 0 % SeqMod = 0
    BY <1>1, SmallMod DEF SeqMod
<1>5. ReaderOrder
    BY <1>1, <1>4 DEF ReaderOrder, DeliveredInOrder, Init, Nothing
<1> QED
    BY <1>2, <1>3, <1>5 DEF OrderInv

(* The reader's part depends on nothing else than this. *)
LEMMA ReaderKept ==
    ASSUME OrderInv, UNCHANGED <<delivered, readSeq, readBuf, stale>>, SeqMod' = SeqMod,
           written' \in Nat, written <= written'
    PROVE  ReaderOrder'
<1>1. written \in Nat /\ SeqMod \in Nat
    BY DEF OrderInv, SenderOrder, SeqMod
<1>2. written' < SeqMod => written < SeqMod
    BY <1>1
<1>3. DeliveredInOrder'
    BY <1>2 DEF OrderInv, ReaderOrder, DeliveredInOrder
<1>4. written' < SeqMod => Len(delivered) <= written'
    BY <1>1, <1>2 DEF OrderInv, ReaderOrder
<1> QED
    BY <1>3, <1>4 DEF OrderInv, ReaderOrder, NextToRead

LEMMA LargerRange ==
    ASSUME NEW a \in Nat, NEW b \in Nat, a <= b
    PROVE  0..a - 1 \subseteq 0..b - 1
OBVIOUS

(* The frames stay genuine when more is written. *)
LEMMA FramesKept ==
    ASSUME OrderInv, SeqMod' = SeqMod, written' \in Nat, written <= written',
           BagToSet(packets') \subseteq Genuine', readCh' \in Seq(Genuine) \cup Seq(Genuine'),
           UNCHANGED readBuf
    PROVE  FramesGenuine'
<1>1. written \in Nat
    BY DEF OrderInv, SenderOrder
<1>2. Messages \subseteq Messages'
    BY <1>1, LargerRange DEF Messages
<1>3. Genuine \subseteq Genuine'
    BY <1>2 DEF Genuine, Frame
<1>4. readCh' \in Seq(Genuine')
    BY <1>3
<1> QED
    BY <1>2, <1>4 DEF OrderInv, FramesGenuine

(* The sender: Write, retransmissions, acknowledgments and the close. *)
LEMMA SenderKeepsOrder ==
    ASSUME OrderInv, Write \/ SenderStep \/ CloseSender
    PROVE  OrderInv'
<1> USE DEF OrderInv
<1>1. /\ case' = case /\ SeqMod' = SeqMod /\ readCh' = readCh
      /\ UNCHANGED <<delivered, readSeq, readBuf, stale>>
    BY DEF Write, SenderStep, Retransmit, ReceiveAck, CloseSender, SeqMod, network, media, receiving
<1>2. BagToSet(packets) \subseteq Genuine /\ readCh \in Seq(Genuine) /\ written \in Nat
    BY DEF FramesGenuine, SenderOrder
<1>3. ASSUME UNCHANGED written, BagToSet(packets') \subseteq Genuine, SenderOrder'
      PROVE  OrderInv'
  <2>1. Genuine' = Genuine
      BY <1>1, <1>3 DEF Genuine, Messages, Frame
  <2> QED
      BY <1>1, <1>2, <1>3, <2>1, FramesKept, ReaderKept
<1>4. CASE Write
  <2>1. written' = written + 1 /\ written' \in Nat /\ written <= written'
      BY <1>2, <1>4 DEF Write
  <2>2. written \in Messages' /\ Messages \subseteq Messages'
      BY <1>2, <2>1 DEF Messages
  <2>3. SenderOrder'
    <3>1. [msg |-> written, retries |-> 0] \in [msg : Messages', retries : Nat]
        BY <2>2
    <3>2. unacked \in [DOMAIN unacked -> [msg : Messages', retries : Nat]]
        BY <2>2 DEF SenderOrder
    <3>3. unacked' \in [DOMAIN unacked' -> [msg : Messages', retries : Nat]]
        BY <1>4, <3>1, <3>2 DEF Write, With
    <3> QED
        BY <1>1, <2>1, <3>3 DEF SenderOrder
  <2>4. BagToSet(packets') \subseteq BagToSet(packets) \cup {Frame(written)}
      BY <1>4, BagWith DEF Write, Send
  <2>5. Frame(written) \in Genuine' /\ Genuine \subseteq Genuine'
      BY <1>1, <2>2 DEF Genuine, Frame
  <2>6. FramesGenuine'
      BY <1>1, <1>2, <2>1, <2>4, <2>5, FramesKept
  <2>7. ReaderOrder'
      BY <1>1, <2>1, ReaderKept
  <2> QED
      BY <2>3, <2>6, <2>7
<1>5. ASSUME NEW q \in 0..SeqMod - 1, Retransmit(q)
      PROVE  OrderInv'
  <2>1. written' = written /\ Messages' = Messages
      BY <1>5 DEF Retransmit, Messages
  <2>2. unacked[q] \in [msg : Messages, retries : Nat]
      BY <1>5 DEF Retransmit, SenderOrder
  <2>3. SenderOrder'
    <3>1. [unacked[q] EXCEPT !.retries = @ + 1] \in [msg : Messages, retries : Nat]
        BY <2>2
    <3>2. CASE unacked' = Without(unacked, q)
        BY <1>1, <1>5, <2>1, <3>2 DEF Retransmit, Without, Restrict, SenderOrder
    <3>3. CASE unacked' = [unacked EXCEPT ![q].retries = @ + 1]
      <4>1. unacked' = [unacked EXCEPT ![q] = [unacked[q] EXCEPT !.retries = @ + 1]]
          BY <3>3
      <4>2. unacked' \in [DOMAIN unacked' -> [msg : Messages, retries : Nat]]
          BY <3>1, <4>1 DEF SenderOrder
      <4> QED
          BY <1>1, <2>1, <4>2 DEF SenderOrder
    <3> QED
        BY <1>5, <3>2, <3>3 DEF Retransmit
  <2>4. BagToSet(packets') \subseteq BagToSet(packets) \cup {Frame(unacked[q].msg)}
      BY <1>5, BagWith DEF Retransmit, Send
  <2>5. Frame(unacked[q].msg) \in Genuine
      BY <2>2 DEF Genuine
  <2> QED
      BY <1>2, <1>3, <2>1, <2>3, <2>4, <2>5
<1>6. ASSUME NEW q \in 0..SeqMod - 1, ReceiveAck(q)
      PROVE  OrderInv'
  <2>1. SenderOrder'
      BY <1>1, <1>6 DEF ReceiveAck, Without, Restrict, SenderOrder, Messages
  <2> QED
      BY <1>2, <1>3, <1>6, <2>1 DEF ReceiveAck
<1>7. CASE CloseSender
    BY <1>1, <1>2, <1>3, <1>7 DEF CloseSender, SenderOrder, Messages, network
<1> QED
    BY <1>4, <1>5, <1>6, <1>7 DEF SenderStep

(* The network and the receiving transport move genuine frames. *)
LEMMA TransportKeepsOrder ==
    ASSUME OrderInv, Lose \/ RemoteTrack \/ readTrackLoop
    PROVE  OrderInv'
<1> USE DEF OrderInv
<1>1. /\ case' \in [mod : Nat \ {0}, writes : Nat, lost : Nat, close : BOOLEAN]
      /\ SeqMod' = SeqMod /\ UNCHANGED <<written, unacked, delivered, readSeq, readBuf, stale>>
    BY DEF Lose, RemoteTrack, readTrackLoop, SenderOrder, SeqMod, sender, network, receiving
<1>2. Messages' = Messages /\ Genuine' = Genuine /\ written \in Nat
    BY <1>1 DEF Messages, Genuine, Frame, SenderOrder
<1>3. SenderOrder'
    BY <1>1, <1>2 DEF SenderOrder
<1>4. ReaderOrder'
    BY <1>1, <1>2, ReaderKept
<1>5. BagToSet(packets') \subseteq BagToSet(packets)
    BY BagWithout DEF Lose, RemoteTrack, readTrackLoop, network
<1>6. readCh' \in Seq(Genuine)
  <2>1. readCh \in Seq(Genuine) /\ BagToSet(packets) \subseteq Genuine
      BY DEF FramesGenuine
  <2>2. CASE readCh' = readCh
      BY <2>1, <2>2
  <2>3. CASE \E f \in BagToSet(packets) : readCh' = Append(readCh, f)
    <3>1. PICK f \in BagToSet(packets) : readCh' = Append(readCh, f)
        BY <2>3
    <3>2. f \in Genuine
        BY <2>1
    <3> QED
        BY <2>1, <3>1, <3>2
  <2> QED
      BY <2>2, <2>3 DEF Lose, RemoteTrack, readTrackLoop, media
<1>7. FramesGenuine'
    BY <1>1, <1>2, <1>5, <1>6, FramesKept DEF FramesGenuine
<1> QED
    BY <1>3, <1>4, <1>7

(* Read takes the frame of the next number. *)
LEMMA ReadKeepsOrder ==
    ASSUME OrderInv, Read
    PROVE  FramesGenuine' /\ ReaderOrder'
<1> DEFINE n == Len(delivered)
           m == readBuf[readSeq]
<1>0. /\ SeqMod' = SeqMod /\ Messages' = Messages /\ Genuine' = Genuine
      /\ UNCHANGED <<written, packets, readCh, stale>>
    BY DEF Read, SeqMod, Messages, Genuine, Frame, sender, network, media
<1>1. /\ SeqMod \in Nat \ {0} /\ written \in Nat /\ delivered \in Seq(Nat) /\ n \in Nat
      /\ readSeq = n % SeqMod /\ FramesGenuine
      /\ DeliveredInOrder /\ (written < SeqMod => n <= written)
      /\ ~stale => \A q \in DOMAIN readBuf : readBuf[q] \in NextToRead
    BY DEF OrderInv, SenderOrder, ReaderOrder, SeqMod
<1>2. CASE UNCHANGED <<readBuf, readSeq, delivered>>
    BY <1>0, <1>1, <1>2 DEF FramesGenuine, ReaderOrder, DeliveredInOrder, NextToRead
<1>3. CASE \E q \in Readable :
               /\ delivered' = Append(delivered, readBuf[q])
               /\ readBuf' = Without(readBuf, q)
               /\ readSeq' = (q + 1) % SeqMod
  <2>1. /\ readSeq \in DOMAIN readBuf /\ delivered' = Append(delivered, m)
        /\ readBuf' = Without(readBuf, readSeq) /\ readSeq' = (readSeq + 1) % SeqMod
      BY <1>3 DEF Readable
  <2>2. m \in Messages /\ m \in Nat /\ m < written /\ m % SeqMod = n % SeqMod
      BY <1>1, <2>1 DEF FramesGenuine, Messages
  <2>3. readSeq' = (n + 1) % SeqMod
      BY <1>1, <2>1, NextNumber
  <2>4. DOMAIN readBuf' = DOMAIN readBuf \ {readSeq} /\ \A q \in DOMAIN readBuf' : readBuf'[q] = readBuf[q]
      BY <2>1 DEF Without, Restrict
  <2>5. FramesGenuine'
      BY <1>0, <1>1, <2>4 DEF FramesGenuine
  <2>6. ~stale => m = n
    <3>1. ~stale => m \in n..n + SeqMod - 1
        BY <1>1, <2>1 DEF NextToRead
    <3> QED
        BY <1>1, <2>2, <3>1, SameNumber
  <2>7. written < SeqMod => m = n
      BY <1>1, <2>2, SmallMod
  <2>8. /\ delivered' \in Seq(Nat) /\ Len(delivered') = n + 1
        /\ \A i \in DOMAIN delivered' : \/ i = n + 1 /\ delivered'[i] = m
                                        \/ i \in DOMAIN delivered /\ delivered'[i] = delivered[i]
      BY <1>1, <2>1, <2>2
  <2> HIDE DEF m, n
  <2>9. DeliveredInOrder'
    <3>1. \A i \in DOMAIN delivered' : delivered'[i] % SeqMod = (i - 1) % SeqMod
      <4>1. (n + 1) - 1 = n
          BY <1>1
      <4> QED
          BY <1>1, <2>2, <2>8, <4>1 DEF DeliveredInOrder
    <3>2. ASSUME written < SeqMod \/ ~stale, NEW i \in DOMAIN delivered'
          PROVE  delivered'[i] = i - 1
      <4>1. m = n /\ \A j \in DOMAIN delivered : delivered[j] = j - 1
          BY <1>1, <2>6, <2>7, <3>2 DEF DeliveredInOrder
      <4>2. CASE i = n + 1 /\ delivered'[i] = m
          BY <1>1, <4>1, <4>2
      <4>3. CASE i \in DOMAIN delivered /\ delivered'[i] = delivered[i]
          BY <4>1, <4>3
      <4> QED
          BY <2>8, <3>2, <4>2, <4>3
    <3> QED
        BY <1>0, <3>1, <3>2 DEF DeliveredInOrder
  <2>10. written < SeqMod => n + 1 <= written
      BY <1>1, <2>2, <2>7
  <2>11. ASSUME ~stale, NEW q \in DOMAIN readBuf' PROVE readBuf'[q] \in n + 1..(n + 1) + SeqMod - 1
    <3>1. readBuf[q] \in n..n + SeqMod - 1 /\ readBuf[q] % SeqMod = q /\ q # readSeq
        BY <1>1, <2>4, <2>11 DEF NextToRead, FramesGenuine, n
    <3>2. readBuf[q] # n
        BY <1>1, <3>1
    <3> QED
        BY <1>1, <2>4, <3>1, <3>2
  <2>12. ~stale => \A q \in DOMAIN readBuf' : readBuf'[q] \in NextToRead'
      BY <1>0, <2>8, <2>11 DEF NextToRead
  <2>13. readSeq' = Len(delivered') % SeqMod /\ (written < SeqMod => Len(delivered') <= written)
      BY <2>3, <2>8, <2>10
  <2>14. ReaderOrder'
      BY <1>0, <2>8, <2>9, <2>12, <2>13 DEF ReaderOrder
  <2> QED
      BY <2>5, <2>14
<1> QED
    BY <1>2, <1>3 DEF Read

(* receiveLoop stores genuine frames, and notices the stale ones. *)
LEMMA ReceiverKeepsOrder ==
    ASSUME OrderInv,
           ReceiveFrame \/ SignalReader \/ ReceiveOver \/ Read \/ Park \/ CloseReceiver
    PROVE  OrderInv'
<1> USE DEF OrderInv
<1>1. case' = case /\ SeqMod' = SeqMod /\ UNCHANGED <<sender, packets>>
    BY DEF ReceiveFrame, SignalReader, ReceiveOver, Read, Park, CloseReceiver, SeqMod, network
<1>2. Messages' = Messages /\ Genuine' = Genuine /\ written' = written /\ written \in Nat
    BY <1>1 DEF Messages, Genuine, Frame, SenderOrder, sender
<1>3. SenderOrder'
    BY <1>1, <1>2 DEF SenderOrder, sender
<1>4. CASE ReceiveFrame
  <2> DEFINE f == Head(readCh)
  <2>1. f \in Genuine /\ Tail(readCh) \in Seq(Genuine)
      BY <1>4 DEF ReceiveFrame, FramesGenuine
  <2>2. f.msg \in Messages /\ f.msg % SeqMod = f.seq
      BY <2>1 DEF Genuine, Frame
  <2>3. /\ readBuf' = readBuf \/ readBuf' = With(readBuf, f.seq, f.msg)
        /\ UNCHANGED <<delivered, readSeq>> /\ readCh' = Tail(readCh)
        /\ stale' = (stale \/ (readBuf' # readBuf /\ f.msg \notin NextToRead))
      BY <1>4 DEF ReceiveFrame, Store
  <2> HIDE DEF f
  <2>4. \A q \in DOMAIN readBuf' : \/ q \in DOMAIN readBuf /\ readBuf'[q] = readBuf[q]
                                   \/ readBuf' # readBuf /\ q = f.seq /\ readBuf'[q] = f.msg
      BY <2>3 DEF With
  <2>5. FramesGenuine'
      BY <1>1, <1>2, <2>1, <2>2, <2>3, <2>4 DEF FramesGenuine
  <2>6. ~stale' => ~stale /\ \A q \in DOMAIN readBuf' : readBuf'[q] \in NextToRead
      BY <2>3, <2>4 DEF ReaderOrder
  <2>7. ReaderOrder'
      BY <1>1, <1>2, <2>3, <2>6 DEF ReaderOrder, DeliveredInOrder, NextToRead
  <2> QED
      BY <1>3, <2>5, <2>7
<1>5. CASE SignalReader \/ ReceiveOver \/ Park \/ CloseReceiver
  <2>1. UNCHANGED <<readCh, readBuf, readSeq, delivered, stale>>
      BY <1>5 DEF SignalReader, ReceiveOver, Park, CloseReceiver, media
  <2>2. ReaderOrder'
      BY <1>1, <1>2, <2>1, ReaderKept
  <2> QED
      BY <1>1, <1>2, <1>3, <2>1, <2>2 DEF FramesGenuine
<1>6. CASE Read
    BY <1>3, <1>6, ReadKeepsOrder
<1> QED
    BY <1>4, <1>5, <1>6

(* Read goes through the sequence numbers one by one across their wraps, and *)
(* returns the messages in the order of the writes, without gaps or          *)
(* repetitions, for any losses, retransmissions and closes: until the        *)
(* numbers are used up, and after that as long as receiveLoop has stored no  *)
(* late copy and no frame a whole round ahead.                               *)
THEOREM InOrder == Spec => []DeliveredInOrder
<1>1. OrderInv /\ [Next]_vars => OrderInv'
  <2> SUFFICES ASSUME OrderInv, [Next]_vars
               PROVE  OrderInv'
      OBVIOUS
  <2>1. CASE UNCHANGED vars
      BY <2>1 DEF OrderInv, SenderOrder, FramesGenuine, ReaderOrder, DeliveredInOrder, Messages,
                  Genuine, Frame, SeqMod, NextToRead, vars, sender, network, media, receiving
  <2> QED
      BY <2>1, SenderKeepsOrder, TransportKeepsOrder, ReceiverKeepsOrder DEF Next, ReceiverStep
<1>2. OrderInv => DeliveredInOrder
    BY DEF OrderInv, ReaderOrder
<1> QED
    BY <1>1, <1>2, OrderInit, PTL DEF Spec
=============================================================================
