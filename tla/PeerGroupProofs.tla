-------------------------- MODULE PeerGroupProofs --------------------------
(***************************************************************************)
(* The groups of PeerConnections, for any options, any number of           *)
(* PeerConnections, channels and streams and any faults: the stream        *)
(* semaphore is balanced and WaitConnected tells the truth.                *)
(***************************************************************************)
EXTENDS PeerGroup, FiniteSetTheorems, WellFoundedInduction, TLAPS

(* The values of a Server or Client, of a stream and of a WaitConnected. *)
EndRec ==
    [sessions : SUBSET Nat, open : SUBSET Nat, ready : SUBSET Nat, bad : SUBSET Nat,
     ice : {"new", "connected", "disconnected", "failed", "closed"},
     alive : BOOLEAN, connected : BOOLEAN, failed : BOOLEAN, done : BOOLEAN,
     copied : SUBSET Nat, closed : BOOLEAN]

StreamRec ==
    [at : {"idle", "picked", "chosen", "sent", "accepted", "served", "gone"}, pc : Nat, ch : Nat,
     held : BOOLEAN, dns : BOOLEAN]

WaitRec == [res : {"idle", "waiting", "ok", "err"}, heard : SUBSET Nat]

(* A nonempty set has an element of least weight. *)
LEMMA LeastExists ==
    ASSUME NEW S, S # {}, NEW f \in [S -> Nat]
    PROVE  \E x \in S : \A y \in S : f[x] <= f[y]
<1> DEFINE T == {f[x] : x \in S}
<1>1. T \subseteq Nat /\ T # {}
  OBVIOUS
<1>2. PICK m \in T : \A n \in T : ~(<<n, m>> \in OpToRel(<, Nat))
  BY <1>1, NatLessThanWellFounded, WFMin
<1>3. \A n \in T : ~(n < m)
  BY <1>1, <1>2, Zenon DEF OpToRel
<1>4. \A n \in T : m <= n
  BY <1>1, <1>3
<1> QED
  BY <1>4

(* The options stay as they are; only the faults left to happen change. *)
SameOptions ==
    /\ cfg' \in Options
    /\ cfg'.npc = cfg.npc /\ cfg'.total = cfg.total /\ cfg'.mode = cfg.mode
    /\ cfg'.limit = cfg.limit

(* A fault uses up one of those left. *)
LEMMA FaultKeepsOptions ==
    ASSUME cfg \in Options, NEW kind \in FaultKinds, Fault(kind)
    PROVE  SameOptions
<1>1. cfg.faults \in [FaultKinds -> Nat] /\ cfg.faults[kind] - 1 \in Nat
  BY DEF Options, Fault
<1>2. [cfg.faults EXCEPT ![kind] = @ - 1] \in [FaultKinds -> Nat]
  BY <1>1
<1>3. cfg' = [cfg EXCEPT !.faults = [cfg.faults EXCEPT ![kind] = @ - 1]]
  BY DEF Fault
<1> QED
  BY <1>2, <1>3 DEF Options, SameOptions

(* No step changes the options of a running group. *)
LEMMA OptionsKept ==
    ASSUME cfg \in Options, [Next]_vars
    PROVE  SameOptions
<1>0. UNCHANGED cfg => SameOptions
  BY DEF SameOptions
<1> USE DEF FaultKinds
<1>1. ASSUME NEW e \in Ends, StartGroup(e) \/ BeginWait(e) PROVE SameOptions
  BY <1>0, <1>1, FaultKeepsOptions DEF StartGroup, BeginWait
<1>2. CASE WireReconnect \/ SetHandler
  BY <1>0, <1>2 DEF WireReconnect, SetHandler
<1>3. ASSUME NEW p \in PCs, LinkUp(p) \/ LinkDown(p) PROVE SameOptions
  BY <1>0, <1>3, FaultKeepsOptions DEF LinkUp, LinkDown
<1>4. ASSUME NEW e \in Ends, NEW p \in PCs, EndStep(e, p) PROVE SameOptions
  <2>1. CASE IceConnected(e, p) \/ IceFailed(e, p) \/ HearOk(e, p) \/ StopCloses(e, p)
    BY <1>0, <2>1 DEF IceConnected, IceFailed, HearOk, StopCloses
  <2>2. CASE IceDisconnected(e, p) \/ PcFailed(e, p) \/ setupMediaTransport(e, p)
    BY <1>0, <2>2, FaultKeepsOptions DEF IceDisconnected, PcFailed, setupMediaTransport
  <2>3. CASE HearError(e, p) \/ Stop(e, p)
    BY <1>0, <2>3, FaultKeepsOptions DEF HearError, Stop
  <2>4. ASSUME NEW c \in Channels(p), OnOpen(e, p, c) \/ SessionEnds(e, p, c) PROVE SameOptions
    BY <1>0, <2>4, FaultKeepsOptions DEF OnOpen, SessionEnds
  <2> QED
    BY <1>4, <2>1, <2>2, <2>3, <2>4 DEF EndStep
<1>5. ASSUME NEW s \in Streams, StreamStep(s) PROVE SameOptions
  BY <1>0, <1>5 DEF StreamStep, Dialling, ChooseSession, DialStream, CloseStream, AcceptStream, StreamLost,
     TakePermit, Dismiss, handleStream
<1>6. CASE UNCHANGED vars
  BY <1>0, <1>6 DEF vars
<1> QED
  BY <1>1, <1>2, <1>3, <1>4, <1>5, <1>6 DEF Next

(* Normalised and distributed as StartServerGroup and StartClientGroup do, every   *)
(* group has a PeerConnection and every PeerConnection has a channel, also when    *)
(* there are fewer channels than PeerConnections.                                  *)
LEMMA Sizes ==
    ASSUME cfg \in Options
    PROVE  /\ Npc \in Nat \ {0} /\ PCs \subseteq Nat /\ 1 \in PCs
           /\ \A p \in PCs : numChannels(p) \in Nat \ {0}
           /\ \A p \in PCs : Channels(p) \subseteq Nat /\ IsFiniteSet(Channels(p)) /\ 1 \in Channels(p)
<1> USE ConstantsAssumption
<1>1. Npc \in Nat \ {0} /\ PCs \subseteq Nat /\ 1 \in PCs
  BY DEF Npc, PCs, Options
<1>2. TotalChannels \in Nat
  BY DEF TotalChannels, Options
<1>3. ASSUME NEW p \in PCs PROVE numChannels(p) \in Nat \ {0}
  <2>1. TotalChannels \div Npc \in Nat
    BY <1>1, <1>2
  <2>2. distributeChannels(TotalChannels, Npc)[p] \in Nat
    BY <2>1 DEF distributeChannels, PCs
  <2> QED
    BY <2>2 DEF numChannels
<1>4. ASSUME NEW p \in PCs
      PROVE  Channels(p) \subseteq Nat /\ IsFiniteSet(Channels(p)) /\ 1 \in Channels(p)
  <2>1. IsFiniteSet({1})
    BY FS_Singleton
  <2>2. numChannels(p) \in Int /\ numChannels(p) >= 1
    BY <1>3
  <2>3. IsFiniteSet(1..numChannels(p))
    BY <2>2, FS_Interval
  <2> QED
    BY <2>1, <2>2, <2>3 DEF Channels
<1> QED
  BY <1>1, <1>3, <1>4

(* The sizes depend on nothing but the options. *)
LEMMA SameSizes ==
    ASSUME SameOptions
    PROVE  Npc' = Npc /\ PCs' = PCs /\ \A p \in PCs : Channels(p)' = Channels(p)
<1>1. Npc' = Npc /\ TotalChannels' = TotalChannels /\ Media' = Media
  BY DEF SameOptions, Npc, TotalChannels, Media
<1>2. \A p : numChannels(p)' = numChannels(p)
  BY <1>1 DEF numChannels
<1> QED
  BY <1>1, <1>2 DEF PCs, Channels

(* Every channel reports once, a session is listed when its channel has opened, and  *)
(* connected is closed only after all channels have reported, with a session made.   *)
GoodEnd(r, p) ==
    /\ r.ready \cup r.bad \subseteq Channels(p) /\ r.ready \cap r.bad = {}
    /\ r.sessions \subseteq r.ready
    /\ r.connected => r.ready # {} /\ r.ready \cup r.bad = Channels(p)

(* Reports are never taken back. *)
Evolves(e, p) ==
    \E r \in EndRec :
        /\ Update(e, p, r) /\ GoodEnd(r, p)
        /\ End(e, p).ready \subseteq r.ready /\ End(e, p).bad \subseteq r.bad

(* checkAllChannelsReady compares counts: equal counts mean that every channel has *)
(* reported, because none reports twice.                                           *)
LEMMA AllReported ==
    ASSUME cfg \in Options, NEW p \in PCs, ~Media, NEW R, NEW B, R \cup B \subseteq Channels(p),
           R \cap B = {}, Cardinality(R) + Cardinality(B) = numChannels(p)
    PROVE  R \cup B = Channels(p)
<1>1. Channels(p) = 1..numChannels(p) /\ numChannels(p) \in Nat \ {0}
  BY Sizes DEF Channels
<1>2. IsFiniteSet(Channels(p)) /\ Cardinality(Channels(p)) = numChannels(p)
  BY <1>1, FS_Interval
<1>3. IsFiniteSet(R) /\ IsFiniteSet(B) /\ IsFiniteSet(R \cup B)
  BY <1>2, FS_Subset
<1>4. Cardinality(R \cap B) = 0
  BY FS_EmptySet
<1>5. Cardinality(R \cup B) = Cardinality(R) + Cardinality(B) - Cardinality(R \cap B)
  BY <1>3, FS_Union
<1>6. Cardinality(R \cup B) = Cardinality(Channels(p))
  BY <1>2, <1>3, <1>4, <1>5, FS_CardinalityType
<1> QED
  BY <1>2, <1>6, FS_Subset

(* A callback that reports nothing. *)
Quiet(r, t) ==
    /\ t \in EndRec /\ t.ready = r.ready /\ t.bad = r.bad /\ t.connected = r.connected
    /\ t.sessions \subseteq r.sessions

LEMMA QuietEvolves ==
    ASSUME NEW e, NEW p, NEW t, GoodEnd(End(e, p), p), Quiet(End(e, p), t), Update(e, p, t)
    PROVE  Evolves(e, p)
BY DEF Evolves, Quiet, GoodEnd

(* Every callback and both halves of Stop keep the reports and what they imply. *)
LEMMA EndEvolves ==
    ASSUME cfg \in Options, NEW e \in Ends, NEW p \in PCs, End(e, p) \in EndRec,
           GoodEnd(End(e, p), p), EndStep(e, p), ~HearOk(e, p), ~HearError(e, p)
    PROVE  Evolves(e, p)
<1> DEFINE r == End(e, p)
<1>0. r \in EndRec /\ GoodEnd(r, p)
  OBVIOUS
<1>00. Channels(p) \subseteq Nat
  BY Sizes
<1> HIDE DEF r
<1>1. CASE IceConnected(e, p)
  <2> DEFINE t == [r EXCEPT !.ice = "connected", !.alive = TRUE]
  <2>1. Quiet(r, t)
    BY <1>0 DEF EndRec, Quiet
  <2>2. Update(e, p, t)
    BY <1>1 DEF IceConnected, r
  <2> HIDE DEF t
  <2> QED
    BY <2>1, <2>2, QuietEvolves DEF r
<1>2. CASE IceDisconnected(e, p)
  <2> DEFINE t == [r EXCEPT !.ice = "disconnected", !.alive = e = "cli"]
  <2>1. Quiet(r, t)
    BY <1>0 DEF EndRec, Quiet
  <2>2. Update(e, p, t)
    BY <1>2 DEF IceDisconnected, r
  <2> HIDE DEF t
  <2> QED
    BY <2>1, <2>2, QuietEvolves DEF r
<1>3. ASSUME NEW t \in EndRec, Quiet(r, t) PROVE Quiet(r, closeSessions(t))
  BY <1>3 DEF EndRec, Quiet, closeSessions
<1>4. CASE IceFailed(e, p)
  <2> DEFINE t == [r EXCEPT !.ice = "failed", !.alive = FALSE, !.failed = TRUE]
  <2>1. Quiet(r, t)
    BY <1>0 DEF EndRec, Quiet
  <2>2. Update(e, p, t) \/ Update(e, p, closeSessions(t))
    BY <1>4 DEF IceFailed, r
  <2> HIDE DEF t
  <2>3. Quiet(r, closeSessions(t))
    BY <1>3, <2>1 DEF Quiet
  <2> QED
    BY <2>1, <2>2, <2>3, QuietEvolves DEF r
<1>5. CASE PcFailed(e, p)
  <2> DEFINE t == [r EXCEPT !.failed = TRUE, !.alive = @ /\ e = "cli"]
  <2>1. Quiet(r, t)
    BY <1>0 DEF EndRec, Quiet
  <2>2. Update(e, p, t) \/ Update(e, p, closeSessions(t))
    BY <1>5 DEF PcFailed, r
  <2> HIDE DEF t
  <2>3. Quiet(r, closeSessions(t))
    BY <1>3, <2>1 DEF Quiet
  <2> QED
    BY <2>1, <2>2, <2>3, QuietEvolves DEF r
<1>6. CASE setupMediaTransport(e, p)
  <2>1. Media /\ r.ready = {} /\ r.bad = {} /\ Channels(p) = {1}
    BY <1>6 DEF setupMediaTransport, r, Channels
  <2>2. CASE Update(e, p, [r EXCEPT !.sessions = @ \cup {1}, !.ready = {1}, !.connected = TRUE,
                                    !.open = IF r.closed THEN @ ELSE {1}])
    <3> DEFINE t == [r EXCEPT !.sessions = @ \cup {1}, !.ready = {1}, !.connected = TRUE,
                              !.open = IF r.closed THEN @ ELSE {1}]
    <3>0. (IF r.closed THEN r.open ELSE {1}) \in SUBSET Nat /\ r.sessions \cup {1} \in SUBSET Nat
      BY <1>0 DEF EndRec
    <3>1. t \in EndRec
      BY <1>0, <3>0 DEF EndRec
    <3>2. t.ready = {1} /\ t.bad = {} /\ t.sessions = r.sessions \cup {1} /\ t.connected
      BY <1>0, <2>1 DEF EndRec
    <3> HIDE DEF t
    <3>3. GoodEnd(t, p)
      BY <1>0, <2>1, <3>2 DEF GoodEnd
    <3>4. Update(e, p, t)
      BY <2>2 DEF t
    <3> QED
      BY <2>1, <3>1, <3>2, <3>3, <3>4 DEF Evolves, r
  <2>3. CASE Update(e, p, [r EXCEPT !.bad = {1}])
    <3> DEFINE t == [r EXCEPT !.bad = {1}]
    <3>1. t \in EndRec
      BY <1>0 DEF EndRec
    <3>2. t.ready = {} /\ t.bad = {1} /\ t.sessions = r.sessions /\ t.connected = r.connected
      BY <1>0, <2>1 DEF EndRec
    <3> HIDE DEF t
    <3>3. GoodEnd(t, p)
      BY <1>0, <2>1, <3>2 DEF GoodEnd
    <3>4. Update(e, p, t)
      BY <2>3 DEF t
    <3> QED
      BY <2>1, <3>1, <3>2, <3>3, <3>4 DEF Evolves, r
  <2> QED
    BY <1>6, <2>2, <2>3 DEF setupMediaTransport, r
<1>7. ASSUME NEW c \in Channels(p), OnOpen(e, p, c) PROVE Evolves(e, p)
  <2>1. ~Media /\ c \notin r.ready \cup r.bad
    BY <1>7 DEF OnOpen, r
  <2>2. ASSUME NEW t \in EndRec, GoodEnd([t EXCEPT !.connected = FALSE], p), t.connected = r.connected,
               r.ready \subseteq t.ready, r.bad \subseteq t.bad,
               Update(e, p, checkAllChannelsReady(t, p))
        PROVE  Evolves(e, p)
    <3> DEFINE u == checkAllChannelsReady(t, p)
    <3>1. /\ u \in EndRec /\ u.ready = t.ready /\ u.bad = t.bad /\ u.sessions = t.sessions
          /\ u.connected = (t.connected \/ (Cardinality(t.ready) + Cardinality(t.bad) = numChannels(p)
                                           /\ t.ready # {}))
      BY <2>2 DEF checkAllChannelsReady, EndRec
    <3>2. /\ t.ready \cup t.bad \subseteq Channels(p) /\ t.ready \cap t.bad = {}
          /\ t.sessions \subseteq t.ready
      BY <2>2 DEF GoodEnd, EndRec
    <3> HIDE DEF u
    <3>3. u.connected => u.ready # {} /\ u.ready \cup u.bad = Channels(p)
      <4>1. CASE r.connected
        BY <1>0, <2>2, <3>1, <3>2, <4>1 DEF GoodEnd
      <4>2. CASE ~r.connected
        <5>1. Cardinality(t.ready) + Cardinality(t.bad) = numChannels(p)
                => t.ready \cup t.bad = Channels(p)
          BY <2>1, <3>2, AllReported
        <5> QED
          BY <2>2, <3>1, <4>2, <5>1
      <4> QED
        BY <4>1, <4>2
    <3>4. GoodEnd(u, p)
      BY <3>1, <3>2, <3>3 DEF GoodEnd
    <3>5. Update(e, p, u)
      BY <2>2 DEF u
    <3> QED
      BY <2>2, <3>1, <3>4, <3>5 DEF Evolves, r
  <2>3. CASE Update(e, p, checkAllChannelsReady(
                [r EXCEPT !.sessions = @ \cup {c}, !.ready = @ \cup {c},
                          !.open = IF r.closed THEN @ ELSE @ \cup {c}], p))
    <3> DEFINE t == [r EXCEPT !.sessions = @ \cup {c}, !.ready = @ \cup {c},
                              !.open = IF r.closed THEN @ ELSE @ \cup {c}]
    <3>0. /\ r.sessions \cup {c} \in SUBSET Nat /\ r.ready \cup {c} \in SUBSET Nat
          /\ (IF r.closed THEN r.open ELSE r.open \cup {c}) \in SUBSET Nat
      BY <1>0, <1>00 DEF EndRec
    <3>1. t \in EndRec
      BY <1>0, <3>0 DEF EndRec
    <3>2. /\ t.ready = r.ready \cup {c} /\ t.bad = r.bad /\ t.sessions = r.sessions \cup {c}
          /\ t.connected = r.connected
      BY <1>0 DEF EndRec
    <3>3. Update(e, p, checkAllChannelsReady(t, p))
      BY <2>3
    <3> HIDE DEF t
    <3>4. GoodEnd([t EXCEPT !.connected = FALSE], p)
      BY <1>0, <2>1, <3>1, <3>2 DEF GoodEnd, EndRec
    <3> QED
      BY <2>2, <3>1, <3>2, <3>3, <3>4
  <2>4. CASE Update(e, p, checkAllChannelsReady([r EXCEPT !.bad = @ \cup {c}], p))
    <3> DEFINE t == [r EXCEPT !.bad = @ \cup {c}]
    <3>1. t \in EndRec
      BY <1>0, <1>00 DEF EndRec
    <3>2. /\ t.ready = r.ready /\ t.bad = r.bad \cup {c} /\ t.sessions = r.sessions
          /\ t.connected = r.connected
      BY <1>0 DEF EndRec
    <3>3. Update(e, p, checkAllChannelsReady(t, p))
      BY <2>4
    <3> HIDE DEF t
    <3>4. GoodEnd([t EXCEPT !.connected = FALSE], p)
      BY <1>0, <2>1, <3>1, <3>2 DEF GoodEnd, EndRec
    <3> QED
      BY <2>2, <3>1, <3>2, <3>3, <3>4
  <2> QED
    BY <1>7, <2>3, <2>4 DEF OnOpen, r
<1>8. ASSUME NEW c \in Channels(p), SessionEnds(e, p, c) PROVE Evolves(e, p)
  <2> DEFINE t == [r EXCEPT !.open = @ \ {c}]
  <2>1. Quiet(r, t)
    BY <1>0 DEF EndRec, Quiet
  <2>2. Update(e, p, t)
    BY <1>8 DEF SessionEnds, r
  <2> HIDE DEF t
  <2> QED
    BY <2>1, <2>2, QuietEvolves DEF r
<1>9. CASE Stop(e, p)
  <2> DEFINE t == [r EXCEPT !.done = TRUE, !.copied = r.sessions]
  <2>1. Quiet(r, t)
    BY <1>0 DEF EndRec, Quiet
  <2>2. Update(e, p, t)
    BY <1>9 DEF Stop, r
  <2> HIDE DEF t
  <2> QED
    BY <2>1, <2>2, QuietEvolves DEF r
<1>10. CASE StopCloses(e, p)
  <2> DEFINE u == closeSessions(r)
             t == [u EXCEPT !.open = {}, !.closed = TRUE, !.ice = "closed", !.alive = FALSE,
                            !.failed = TRUE]
  <2>1. Quiet(r, u)
    BY <1>0, <1>3 DEF Quiet
  <2>2. Update(e, p, t)
    BY <1>10 DEF StopCloses, r
  <2> HIDE DEF u
  <2>3. Quiet(r, t)
    BY <2>1 DEF EndRec, Quiet
  <2> HIDE DEF t
  <2> QED
    BY <2>2, <2>3, QuietEvolves DEF r
<1> QED
  BY <1>1, <1>2, <1>4, <1>5, <1>6, <1>7, <1>8, <1>9, <1>10 DEF EndStep

(* The inductive invariant: types, reports, and the properties themselves. *)
Shape ==
    /\ cfg \in Options
    /\ end \in [Ends -> [PCs -> EndRec]]
    /\ wait \in [Ends -> WaitRec] /\ started \in [Ends -> {"no", "yes", "failed"}]
    /\ stream \in [Streams -> StreamRec] /\ \A s \in Streams : stream[s].pc \in PCs

GoodEnds == \A e \in Ends, p \in PCs : GoodEnd(End(e, p), p)

Waited == \A e \in Ends : wait[e].res # "idle" => started[e] = "yes"

(* The streams that hold a token of server p. *)
Serving(p) == {s \in Streams : stream[s].at = "served" /\ stream[s].pc = p}

GroupInv ==
    /\ Shape /\ GoodEnds /\ Waited /\ WaitTellsTruth
    /\ permits \in [PCs -> Int] /\ PermitsBalanced

(* Before the groups start there are no reports, no streams and no tokens. *)
LEMMA GroupInit == Init => GroupInv
<1> SUFFICES ASSUME Init PROVE GroupInv
  OBVIOUS
<1>1. cfg \in Options
  BY ConstantsAssumption DEF Init
<1>2. /\ 1 \in PCs /\ 1 \in Nat
  BY <1>1, Sizes
<1>3. NewEnd \in EndRec /\ \A p : GoodEnd(NewEnd, p)
  BY DEF NewEnd, EndRec, GoodEnd
<1>4. Idle \in StreamRec /\ Idle.pc = 1 /\ Idle.at = "idle"
  BY <1>2 DEF Idle, StreamRec
<1>5. [res |-> "idle", heard |-> {}] \in WaitRec
  BY DEF WaitRec
<1>6. Shape
  BY <1>1, <1>2, <1>3, <1>4, <1>5 DEF Init, Shape
<1>7. GoodEnds
  BY <1>3 DEF Init, GoodEnds, End
<1>8. Waited /\ WaitTellsTruth
  BY DEF Init, Waited, WaitTellsTruth
<1>9. permits \in [PCs -> Int] /\ PermitsBalanced
  <2>1. \A p \in PCs : {s \in Streams : stream[s].at = "served" /\ stream[s].pc = p} = {}
    BY <1>4 DEF Init
  <2>2. cfg.limit \in Nat
    BY <1>1 DEF Options
  <2>3. \A p \in PCs :
           Cardinality({s \in Streams : stream[s].at = "served" /\ stream[s].pc = p}) = 0
    BY <2>1, FS_EmptySet
  <2>4. permits \in [PCs -> Int] /\ \A p \in PCs : permits[p] = 0
    BY DEF Init
  <2> QED
    BY <2>2, <2>3, <2>4 DEF PermitsBalanced
<1> QED
  BY <1>6, <1>7, <1>8, <1>9 DEF GroupInv

(* A callback leaves streams and waits alone, and what a wait has found stays true. *)
LEMMA EvolvesKeeps ==
    ASSUME GroupInv, SameOptions, NEW e \in Ends, NEW p \in PCs, Evolves(e, p),
           UNCHANGED <<started, wait, stream, permits>>
    PROVE  GroupInv'
<1>1. PICK r \in EndRec : /\ Update(e, p, r) /\ GoodEnd(r, p)
                          /\ End(e, p).ready \subseteq r.ready /\ End(e, p).bad \subseteq r.bad
  BY DEF Evolves
<1>2. PCs' = PCs /\ \A q \in PCs : Channels(q)' = Channels(q)
  BY SameSizes
<1>3. /\ end' \in [Ends -> [PCs -> EndRec]]
      /\ end'[e][p] = r
      /\ \A f \in Ends, q \in PCs : f # e \/ q # p => end'[f][q] = end[f][q]
  BY <1>1 DEF GroupInv, Shape, Update
<1>4. Shape'
  BY <1>2, <1>3 DEF GroupInv, Shape, SameOptions
<1>5. ASSUME NEW f \in Ends, NEW q \in PCs
      PROVE  /\ GoodEnd(End(f, q), q)'
             /\ end[f][q].ready \subseteq end'[f][q].ready
             /\ end[f][q].bad \subseteq end'[f][q].bad
  <2>1. CASE f = e /\ q = p
    BY <1>1, <1>2, <1>3, <2>1 DEF End, GoodEnd
  <2>2. CASE f # e \/ q # p
    BY <1>2, <1>3, <2>2 DEF End, GoodEnd, GroupInv, GoodEnds
  <2> QED
    BY <2>1, <2>2
<1>6. GoodEnds'
  BY <1>2, <1>5 DEF GoodEnds
<1>7. Waited'
  BY DEF GroupInv, Waited
<1>8. WaitTellsTruth'
  <2>1. ASSUME NEW f \in Ends, wait[f].res = "ok"
        PROVE  \E q \in PCs : end'[f][q].ready # {}
                              /\ end'[f][q].ready \cup end'[f][q].bad = Channels(q)
    <3>1. PICK q \in PCs : end[f][q].ready # {} /\ end[f][q].ready \cup end[f][q].bad = Channels(q)
      BY <2>1 DEF GroupInv, WaitTellsTruth, End
    <3>2. end'[f][q].ready \cup end'[f][q].bad \subseteq Channels(q)
      BY <1>2, <1>5 DEF GoodEnd, End
    <3> QED
      BY <1>5, <3>1, <3>2
  <2> QED
    BY <1>2, <2>1 DEF GroupInv, WaitTellsTruth, End
<1>9. (permits \in [PCs -> Int] /\ PermitsBalanced)'
  BY <1>2 DEF GroupInv, PermitsBalanced, SameOptions
<1> QED
  BY <1>4, <1>6, <1>7, <1>8, <1>9 DEF GroupInv

LEMMA SameEnds ==
    ASSUME GroupInv, SameOptions, UNCHANGED end
    PROVE  GoodEnds' /\ (end \in [Ends -> [PCs -> EndRec]])' /\ PCs' = PCs
<1>1. PCs' = PCs /\ \A q \in PCs : Channels(q)' = Channels(q)
  BY SameSizes
<1> QED
  BY <1>1 DEF GroupInv, Shape, GoodEnds, GoodEnd, End

(* A wait succeeds on a connected end and fails when it has heard of all. *)
LEMMA WaitStepKeeps ==
    ASSUME GroupInv, SameOptions, NEW e \in Ends, NEW p \in PCs,
           BeginWait(e) \/ HearOk(e, p) \/ HearError(e, p)
    PROVE  GroupInv'
<1>1. UNCHANGED <<end, started, stream, permits>>
  BY DEF BeginWait, HearOk, HearError
<1>2. /\ PCs' = PCs /\ (\A q \in PCs : Channels(q)' = Channels(q))
      /\ GoodEnds' /\ (end \in [Ends -> [PCs -> EndRec]])'
  BY <1>1, SameSizes, SameEnds
<1>3. wait \in [Ends -> WaitRec] /\ PCs \subseteq Nat
  BY Sizes DEF GroupInv, Shape
<1>4. ASSUME NEW w \in WaitRec, wait' = [wait EXCEPT ![e] = w], started[e] = "yes",
             w.res = "ok" => \E q \in PCs :
                 End(e, q).ready # {} /\ End(e, q).ready \cup End(e, q).bad = Channels(q),
             w.res = "err" => w.heard = PCs
      PROVE  GroupInv'
  <2>1. Shape'
    BY <1>1, <1>2, <1>3, <1>4 DEF GroupInv, Shape, SameOptions
  <2>2. Waited'
    BY <1>1, <1>3, <1>4 DEF GroupInv, Waited
  <2>3. WaitTellsTruth'
    BY <1>1, <1>2, <1>3, <1>4 DEF GroupInv, WaitTellsTruth, End
  <2>4. (permits \in [PCs -> Int] /\ PermitsBalanced)'
    BY <1>1, <1>2 DEF GroupInv, PermitsBalanced, SameOptions
  <2> QED
    BY <1>2, <2>1, <2>2, <2>3, <2>4 DEF GroupInv
<1>5. CASE BeginWait(e)
  <2> DEFINE w == [wait[e] EXCEPT !.res = "waiting"]
  <2>1. w \in WaitRec /\ w.res = "waiting"
    BY <1>3 DEF WaitRec
  <2>2. wait' = [wait EXCEPT ![e] = w] /\ started[e] = "yes"
    BY <1>3, <1>5 DEF BeginWait
  <2> HIDE DEF w
  <2> QED
    BY <1>4, <2>1, <2>2
<1>6. CASE HearOk(e, p)
  <2> DEFINE w == [wait[e] EXCEPT !.res = "ok"]
  <2>1. w \in WaitRec /\ w.res = "ok"
    BY <1>3 DEF WaitRec
  <2>2. wait' = [wait EXCEPT ![e] = w] /\ started[e] = "yes"
    BY <1>3, <1>6 DEF HearOk, GroupInv, Waited
  <2>3. End(e, p).ready # {} /\ End(e, p).ready \cup End(e, p).bad = Channels(p)
    BY <1>6 DEF HearOk, GroupInv, GoodEnds, GoodEnd
  <2> HIDE DEF w
  <2> QED
    BY <1>4, <2>1, <2>2, <2>3
<1>7. CASE HearError(e, p)
  <2> DEFINE w == Heard(wait[e], p)
  <2>1. w \in WaitRec /\ w.res # "ok" /\ (w.res = "err" => w.heard = PCs)
    BY <1>3 DEF WaitRec, Heard
  <2>2. wait' = [wait EXCEPT ![e] = w] /\ started[e] = "yes"
    BY <1>3, <1>7 DEF HearError, GroupInv, Waited
  <2> HIDE DEF w
  <2> QED
    BY <1>4, <2>1, <2>2
<1> QED
  BY <1>5, <1>6, <1>7

(* A group that fails to start had no waiting caller. *)
LEMMA StartKeeps ==
    ASSUME GroupInv, SameOptions, NEW e \in Ends, StartGroup(e)
    PROVE  GroupInv'
<1>1. UNCHANGED <<wait, stream, permits>> /\ wait[e].res = "idle"
  BY DEF StartGroup, GroupInv, Waited
<1>2. PCs' = PCs /\ \A q \in PCs : Channels(q)' = Channels(q)
  BY SameSizes
<1>3. /\ end' \in [Ends -> [PCs -> EndRec]]
      /\ \A f \in Ends \ {e} : end'[f] = end[f]
      /\ \A q \in PCs : GoodEnd(end'[e][q], q)
  <2>1. CASE UNCHANGED end
    BY <2>1 DEF GroupInv, Shape, GoodEnds, End
  <2>2. CASE end' = [end EXCEPT ![e] = [p \in PCs |-> Closed]]
    <3>1. Closed \in EndRec /\ \A q : GoodEnd(Closed, q)
      BY DEF Closed, NewEnd, EndRec, GoodEnd
    <3> QED
      BY <2>2, <3>1 DEF GroupInv, Shape
  <2> QED
    BY <2>1, <2>2 DEF StartGroup
<1>0. /\ started' \in [Ends -> {"no", "yes", "failed"}]
      /\ \A f \in Ends \ {e} : started'[f] = started[f]
  BY DEF GroupInv, Shape, StartGroup
<1>4. Shape'
  BY <1>0, <1>1, <1>2, <1>3 DEF GroupInv, Shape, SameOptions
<1>5. GoodEnds'
  <2>1. ASSUME NEW f \in Ends, NEW q \in PCs PROVE GoodEnd(end'[f][q], q)
    <3>1. CASE f = e
      BY <1>3, <3>1
    <3>2. CASE f # e
      BY <1>3, <3>2 DEF GroupInv, GoodEnds, End
    <3> QED
      BY <3>1, <3>2
  <2> QED
    BY <1>2, <2>1 DEF GoodEnds, GoodEnd, End
<1>6. Waited'
  BY <1>0, <1>1 DEF GroupInv, Waited
<1>7. WaitTellsTruth'
  BY <1>1, <1>2, <1>3 DEF GroupInv, WaitTellsTruth, End
<1>8. (permits \in [PCs -> Int] /\ PermitsBalanced)'
  BY <1>1, <1>2 DEF GroupInv, PermitsBalanced, SameOptions
<1> QED
  BY <1>4, <1>5, <1>6, <1>7, <1>8 DEF GroupInv

(* What is left to show of a step of one stream. *)
LEMMA StreamStepKeeps ==
    ASSUME GroupInv, SameOptions, NEW s \in Streams, NEW t \in StreamRec, t.pc \in PCs,
           stream' = [stream EXCEPT ![s] = t], UNCHANGED <<end, started, wait>>,
           permits' \in [PCs -> Int], PermitsBalanced'
    PROVE  GroupInv'
<1>1. GoodEnds' /\ (end \in [Ends -> [PCs -> EndRec]])' /\ PCs' = PCs
  BY SameEnds
<1>2. \A q \in PCs : Channels(q)' = Channels(q)
  BY SameSizes
<1>3. Shape'
  BY <1>1 DEF GroupInv, Shape, SameOptions
<1>4. Waited' /\ WaitTellsTruth'
  BY <1>1, <1>2 DEF GroupInv, Waited, WaitTellsTruth, End
<1> QED
  BY <1>1, <1>3, <1>4 DEF GroupInv

LEMMA ServingFinite ==
    ASSUME NEW p PROVE IsFiniteSet(Serving(p)) /\ Cardinality(Serving(p)) \in Nat
<1>1. Serving(p) \in SUBSET Streams
  BY DEF Serving
<1> QED
  BY <1>1, ConstantsAssumption, FS_Subset, FS_CardinalityType

LEMMA PermitsKept ==
    ASSUME GroupInv, SameOptions, UNCHANGED permits, \A p \in PCs : Serving(p)' = Serving(p)
    PROVE  permits' \in [PCs -> Int] /\ PermitsBalanced'
BY SameSizes DEF GroupInv, PermitsBalanced, Serving, SameOptions

(* Stream counts are numbers. *)
LEMMA CountsNat ==
    ASSUME NEW p
    PROVE  GetStreamCount(p) \in Nat /\ \A c : NumStreams(p, c) \in Nat
<1>1. ASSUME NEW T, T \subseteq Streams PROVE Cardinality(T) \in Nat
  BY <1>1, ConstantsAssumption, FS_Subset, FS_CardinalityType
<1> QED
  BY <1>1 DEF GetStreamCount, NumStreams

(* DialStream of a group always finds a PeerConnection. *)
LEMMA LeastLoadedExists ==
    ASSUME cfg \in Options
    PROVE  LeastLoaded \in PCs
<1> DEFINE A == {x \in PCs : \A y \in PCs : GetStreamCount(x) <= GetStreamCount(y)}
<1>1. PCs # {} /\ PCs \subseteq Nat
  BY Sizes
<1>2. A # {}
  <2> DEFINE f == [x \in PCs |-> GetStreamCount(x)]
  <2>1. f \in [PCs -> Nat]
    BY CountsNat
  <2>2. PICK x \in PCs : \A y \in PCs : f[x] <= f[y]
    BY <1>1, <2>1, LeastExists
  <2> QED
    BY <2>2
<1>3. \E x \in A : \A y \in A : x <= y
  <2> DEFINE g == [x \in A |-> x]
  <2>1. g \in [A -> Nat]
    BY <1>1
  <2>2. PICK x \in A : \A y \in A : g[x] <= g[y]
    BY <1>2, <2>1, LeastExists
  <2> QED
    BY <2>2
<1>4. LeastLoaded = Min(A)
  BY DEF LeastLoaded, Argmin
<1>5. Min(A) \in A
  BY <1>3 DEF Min
<1> QED
  BY <1>4, <1>5

(* openStream takes a session of the list. *)
LEMMA OpenStreamListed ==
    ASSUME NEW p
    PROVE  openStream(p) \subseteq End("cli", p).sessions
BY DEF openStream, Argmin

(* One case per step of a stream; TakePermit and handleStream move a token. *)
LEMMA StreamsKeep ==
    ASSUME GroupInv, SameOptions, NEW s \in Streams, StreamStep(s)
    PROVE  GroupInv'
<1> DEFINE r == stream[s]
<1>0. /\ UNCHANGED <<end, started, wait>> /\ r \in StreamRec /\ r.pc \in PCs
      /\ stream \in [Streams -> StreamRec] /\ cfg \in Options
  BY DEF StreamStep, Dialling, ChooseSession, DialStream, CloseStream, AcceptStream, StreamLost,
     TakePermit, Dismiss, handleStream, GroupInv, Shape
<1>2. ASSUME NEW t \in StreamRec, t.pc \in PCs, stream' = [stream EXCEPT ![s] = t],
             r.at # "served", t.at # "served", UNCHANGED permits
      PROVE  GroupInv'
  <2>1. \A p \in PCs : Serving(p)' = Serving(p)
    BY <1>0, <1>2 DEF Serving
  <2> QED
    BY <1>0, <1>2, <2>1, PermitsKept, StreamStepKeeps
<1>3. CASE Dialling(s)
  <2>1. PICK dns \in cfg.targets :
           stream' = [stream EXCEPT ![s] = [Idle EXCEPT !.at = "picked", !.pc = LeastLoaded, !.dns = dns]]
    BY <1>3 DEF Dialling
  <2> DEFINE t == [Idle EXCEPT !.at = "picked", !.pc = LeastLoaded, !.dns = dns]
  <2>2. LeastLoaded \in PCs /\ LeastLoaded \in Nat /\ dns \in BOOLEAN
    BY <1>0, LeastLoadedExists, Sizes DEF Options
  <2>3. t \in StreamRec /\ t.pc \in PCs /\ t.at = "picked"
    BY <2>2 DEF Idle, StreamRec
  <2>4. stream' = [stream EXCEPT ![s] = t] /\ r.at # "served" /\ UNCHANGED permits
    BY <1>3, <2>1 DEF Dialling
  <2> HIDE DEF t
  <2> QED
    BY <1>2, <2>3, <2>4
<1>4. CASE ChooseSession(s)
  <2>1. r.at = "picked" /\ UNCHANGED permits
    BY <1>4 DEF ChooseSession
  <2>2. ASSUME NEW c \in openStream(r.pc), stream' = [stream EXCEPT ![s].at = "chosen", ![s].ch = c]
        PROVE  GroupInv'
    <3> DEFINE t == [r EXCEPT !.at = "chosen", !.ch = c]
    <3>1. c \in Nat
      BY <1>0, <2>2, OpenStreamListed DEF GroupInv, Shape, EndRec, End, Ends
    <3>2. t \in StreamRec /\ t.pc = r.pc /\ t.at = "chosen"
      BY <1>0, <3>1 DEF StreamRec
    <3>3. stream' = [stream EXCEPT ![s] = t]
      BY <1>0, <2>2
    <3> HIDE DEF t
    <3> QED
      BY <1>0, <1>2, <2>1, <3>2, <3>3
  <2>3. CASE stream' = [stream EXCEPT ![s].at = "gone"]
    <3> DEFINE t == [r EXCEPT !.at = "gone"]
    <3>1. t \in StreamRec /\ t.pc = r.pc /\ t.at = "gone"
      BY <1>0 DEF StreamRec
    <3>2. stream' = [stream EXCEPT ![s] = t]
      BY <1>0, <2>3
    <3> HIDE DEF t
    <3> QED
      BY <1>0, <1>2, <2>1, <3>1, <3>2
  <2> QED
    BY <1>4, <2>2, <2>3 DEF ChooseSession
<1>12. CASE DialStream(s)
  <2>1. r.at = "chosen" /\ UNCHANGED permits
    BY <1>12 DEF DialStream
  <2>2. PICK a \in {"sent", "gone"}, h \in BOOLEAN :
           stream' = [stream EXCEPT ![s].at = a, ![s].held = h]
    <3> DEFINE usable == r.ch \in End("cli", r.pc).open
    <3>1. usable \in BOOLEAN /\ (IF usable THEN "sent" ELSE "gone") \in {"sent", "gone"}
      OBVIOUS
    <3>2. stream' = [stream EXCEPT ![s].at = IF usable THEN "sent" ELSE "gone",
                                   ![s].held = usable]
      BY <1>12 DEF DialStream
    <3> HIDE DEF usable
    <3> QED
      BY <3>1, <3>2
  <2> DEFINE t == [r EXCEPT !.at = a, !.held = h]
  <2>3. t \in StreamRec /\ t.pc = r.pc /\ t.at = a
    BY <1>0 DEF StreamRec
  <2>4. stream' = [stream EXCEPT ![s] = t]
    BY <1>0, <2>2
  <2> HIDE DEF t
  <2> QED
    BY <1>0, <1>2, <2>1, <2>3, <2>4
<1>5. CASE AcceptStream(s) \/ StreamLost(s) \/ Dismiss(s)
  <2>1. PICK a \in {"accepted", "gone"} : stream' = [stream EXCEPT ![s].at = a]
    BY <1>5 DEF AcceptStream, StreamLost, Dismiss
  <2>2. r.at # "served" /\ UNCHANGED permits
    BY <1>5 DEF AcceptStream, StreamLost, Dismiss
  <2> DEFINE t == [r EXCEPT !.at = a]
  <2>3. t \in StreamRec /\ t.pc = r.pc /\ t.at = a
    BY <1>0 DEF StreamRec
  <2>4. stream' = [stream EXCEPT ![s] = t]
    BY <1>0, <2>1
  <2> HIDE DEF t
  <2> QED
    BY <1>0, <1>2, <2>2, <2>3, <2>4
<1>6. CASE CloseStream(s)
  <2> DEFINE t == [r EXCEPT !.held = FALSE]
  <2>1. t \in StreamRec /\ t.pc = r.pc /\ t.at = r.at
    BY <1>0 DEF StreamRec
  <2>2. stream' = [stream EXCEPT ![s] = t] /\ UNCHANGED permits
    BY <1>0, <1>6 DEF CloseStream
  <2> HIDE DEF t
  <2>3. \A p \in PCs : Serving(p)' = Serving(p)
    BY <1>0, <2>1, <2>2 DEF Serving
  <2> QED
    BY <1>0, <2>1, <2>2, <2>3, PermitsKept, StreamStepKeeps
<1>7. PICK q \in PCs : q = r.pc
  BY <1>0
<1>8. ASSUME NEW a \in {"served", "gone"}, NEW d \in {-1, 1},
             stream' = [stream EXCEPT ![s].at = a],
             permits' = [permits EXCEPT ![q] = permits[q] + d],
             Cardinality(Serving(q)') = Cardinality(Serving(q)) + d,
             cfg.limit > 0 => permits[q] + d <= cfg.limit
      PROVE  GroupInv'
  <2> DEFINE t == [r EXCEPT !.at = a]
  <2>1. t \in StreamRec /\ t.pc = q
    BY <1>0, <1>7 DEF StreamRec
  <2>2. stream' = [stream EXCEPT ![s] = t]
    BY <1>0, <1>8
  <2>3. permits' \in [PCs -> Int] /\ permits'[q] = permits[q] + d
    BY <1>8 DEF GroupInv
  <2>4. PCs' = PCs /\ cfg'.limit = cfg.limit
    BY SameSizes DEF SameOptions
  <2>5. ASSUME NEW p \in PCs
        PROVE  permits'[p] = Cardinality(Serving(p)') /\ (cfg.limit > 0 => permits'[p] <= cfg.limit)
    <3>1. permits[p] = Cardinality(Serving(p)) /\ (cfg.limit > 0 => permits[p] <= cfg.limit)
      BY DEF GroupInv, PermitsBalanced, Serving
    <3>2. CASE p = q
      BY <1>8, <2>3, <3>1, <3>2
    <3>3. CASE p # q
      BY <1>0, <1>7, <1>8, <2>1, <2>2, <3>1, <3>3 DEF Serving, GroupInv
    <3> QED
      BY <3>2, <3>3
  <2>6. PermitsBalanced'
    BY <2>4, <2>5 DEF PermitsBalanced, Serving
  <2> HIDE DEF t
  <2> QED
    BY <1>0, <1>8, <2>1, <2>2, <2>3, <2>6, StreamStepKeeps
<1>9. permits \in [PCs -> Int] /\ cfg.limit \in Nat /\ (cfg.limit > 0 => permits[q] <= cfg.limit)
  BY <1>0 DEF GroupInv, PermitsBalanced, Options
<1>10. CASE TakePermit(s)
  <2>1. /\ stream' = [stream EXCEPT ![s].at = "served"] /\ r.at = "accepted"
        /\ permits' = [permits EXCEPT ![q] = permits[q] + 1]
        /\ cfg.limit > 0 => permits[q] < cfg.limit
    BY <1>7, <1>10 DEF TakePermit
  <2>2. s \notin Serving(q) /\ Serving(q)' = Serving(q) \cup {s}
    BY <1>0, <1>7, <2>1 DEF Serving, StreamRec
  <2>3. Cardinality(Serving(q)') = Cardinality(Serving(q)) + 1
    BY <2>2, ServingFinite, FS_AddElement
  <2>4. cfg.limit > 0 => permits[q] + 1 <= cfg.limit
    BY <1>9, <2>1
  <2> QED
    BY <1>8, <2>1, <2>3, <2>4
<1>11. CASE handleStream(s)
  <2>1. /\ stream' = [stream EXCEPT ![s].at = "gone"] /\ r.at = "served"
        /\ permits' = [permits EXCEPT ![q] = permits[q] - 1]
    BY <1>7, <1>11 DEF handleStream
  <2>2. s \in Serving(q) /\ Serving(q)' = Serving(q) \ {s}
    BY <1>0, <1>7, <2>1 DEF Serving, StreamRec
  <2>3. Cardinality(Serving(q)') = Cardinality(Serving(q)) + (-1)
    BY <2>2, ServingFinite, FS_RemoveElement
  <2>4. /\ permits[q] - 1 = permits[q] + (-1)
        /\ cfg.limit > 0 => permits[q] + (-1) <= cfg.limit
    BY <1>9
  <2> QED
    BY <1>8, <2>1, <2>3, <2>4
<1> QED
  BY <1>3, <1>4, <1>5, <1>6, <1>10, <1>11, <1>12 DEF StreamStep

(* Every step keeps the invariant. *)
LEMMA GroupStep == GroupInv /\ [Next]_vars => GroupInv'
<1> SUFFICES ASSUME GroupInv, [Next]_vars PROVE GroupInv'
  OBVIOUS
<1>1. SameOptions /\ cfg \in Options
  BY OptionsKept DEF GroupInv, Shape
<1>2. ASSUME NEW e \in Ends, StartGroup(e) \/ BeginWait(e) PROVE GroupInv'
  BY <1>1, <1>2, Sizes, StartKeeps, WaitStepKeeps
<1>3. ASSUME UNCHANGED <<end, started, wait, stream, permits>> PROVE GroupInv'
  <2>1. GoodEnds' /\ (end \in [Ends -> [PCs -> EndRec]])' /\ PCs' = PCs
    BY <1>1, <1>3, SameEnds
  <2>2. \A q \in PCs : Channels(q)' = Channels(q)
    BY <1>1, SameSizes
  <2>3. Shape' /\ Waited'
    BY <1>1, <1>3, <2>1 DEF GroupInv, Shape, SameOptions, Waited
  <2>4. WaitTellsTruth'
    BY <1>3, <2>1, <2>2 DEF GroupInv, WaitTellsTruth, End
  <2>5. (permits \in [PCs -> Int] /\ PermitsBalanced)'
    BY <1>1, <1>3, <2>1 DEF GroupInv, PermitsBalanced, SameOptions
  <2> QED
    BY <2>1, <2>3, <2>4, <2>5 DEF GroupInv
<1>4. CASE WireReconnect \/ SetHandler \/ UNCHANGED vars
  BY <1>3, <1>4 DEF WireReconnect, SetHandler, vars
<1>5. ASSUME NEW p \in PCs, LinkUp(p) \/ LinkDown(p) PROVE GroupInv'
  BY <1>3, <1>5 DEF LinkUp, LinkDown
<1>6. ASSUME NEW e \in Ends, NEW p \in PCs, EndStep(e, p) PROVE GroupInv'
  <2>1. CASE HearOk(e, p) \/ HearError(e, p)
    BY <1>1, <2>1, WaitStepKeeps
  <2>2. CASE ~HearOk(e, p) /\ ~HearError(e, p)
    <3>1. End(e, p) \in EndRec /\ GoodEnd(End(e, p), p)
      BY DEF GroupInv, Shape, GoodEnds, End
    <3>2. Evolves(e, p)
      BY <1>1, <1>6, <2>2, <3>1, EndEvolves
    <3>3. UNCHANGED <<started, wait, stream, permits>>
      BY <1>6, <2>2 DEF EndStep, IceConnected, IceDisconnected, IceFailed, PcFailed,
         setupMediaTransport, OnOpen, SessionEnds, Stop, StopCloses
    <3> QED
      BY <1>1, <3>2, <3>3, EvolvesKeeps
  <2> QED
    BY <2>1, <2>2
<1>7. ASSUME NEW s \in Streams, StreamStep(s) PROVE GroupInv'
  BY <1>1, <1>7, StreamsKeep
<1> QED
  BY <1>2, <1>4, <1>5, <1>6, <1>7 DEF Next

(* The ends, waits, streams and semaphores of the groups agree in every interleaving *)
(* of their callbacks, of dialling, accepting and serving, and of Stop.              *)
THEOREM GroupInvariant == Spec => []GroupInv
<1> QED
  BY GroupInit, GroupStep, PTL DEF Spec

(* totalStreamSem of a server holds one token per stream that handleStream is        *)
(* serving, and never more than MaxTotalStreams of them.                             *)
THEOREM PermitsMatch == Spec => []PermitsBalanced
<1>1. GroupInv => PermitsBalanced
  BY DEF GroupInv
<1> QED
  BY <1>1, GroupInvariant, PTL

(* WaitConnected succeeds only when all channels of some PeerConnection have          *)
(* reported and one made a session, and fails only when every PeerConnection failed,  *)
(* stopped or timed out.                                                              *)
THEOREM WaitIsTruthful == Spec => []WaitTellsTruth
<1>1. GroupInv => WaitTellsTruth
  BY DEF GroupInv
<1> QED
  BY <1>1, GroupInvariant, PTL
=============================================================================
