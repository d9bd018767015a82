--------------------------- MODULE DtlsHandshake ---------------------------
(***************************************************************************)
(* The DTLS 1.2 handshake of the vendored pion/dtls (golib/replace/dtls)   *)
(* as both ends of a peer connection run it: the handshake state machine   *)
(* (handshaker.go), the flight handlers (flight*handler.go), the message   *)
(* cache, the fragment buffer, the record layer of Conn (conn.go) and the  *)
(* hello randomisation of golib/webrtc.  Each end is two goroutines, the   *)
(* state machine and the reader, over a network that loses, duplicates and *)
(* reorders datagrams.                                                     *)
(*                                                                         *)
(* Cryptography is symbolic: a master secret is the pair of key shares and *)
(* the session hash, verify data is the transcript it is computed over,    *)
(* and a record opens only under the secret it was sealed with.            *)
(***************************************************************************)
EXTENDS Integers, Sequences, FiniteSets, SequencesExt, FiniteSetsExt

CONSTANTS Configs,     \* the configurations a connection may be set up with
          Suites,      \* the client's cipher suites, in order of preference
          ServerSuites,\* the suites left to the server by its certificate
          MinSuites,   \* the number truncateCipherSuites never goes below
          Required,    \* TLS_ECDHE_ECDSA_WITH_AES_128_GCM_SHA256
          MTU,         \* maximumTransmissionUnit, in units of a small message
          MaxQueue     \* maxAppDataPacketQueueSize

VARIABLES cfg,     \* the configuration chosen
          ep,      \* ep[e]: the Conn of end e, its State, cache and machine
          net,     \* net[e]: the datagrams under way to end e, in order
          faults,  \* faults[k]: how many faults of kind k may still happen
          got      \* got[e]: application records handed to Read

vars == <<cfg, ep, net, faults, got>>

Ends == {"client", "server"}

Peer(e) == IF e = "client" THEN "server" ELSE "client"

\* What of a message's content matters: a cookie, a session, cipher suites and
\* the first of them the server supports, and a signed or hashed transcript.
Blank == [cookie |-> "none", sid |-> "none", suites |-> {}, suite |-> "none", script |-> <<>>]

NoMsg == [typ |-> "none", seq |-> 0, epoch |-> 0, cl |-> FALSE, body |-> Blank]

NoKey == <<"none">>

\* A configuration is [skip, auth, store, ems, cert, data, faults]: the InsecureSkipVerifyHello
\* flag, who shows a certificate ("mutual", "server" or "psk"), the session
\* stores ("none", "fresh": both ends have an empty one, "client": only the
\* client still knows a session, "both"), the extended master secret, the size
\* of a certificate message, how many records each end writes, and how many
\* faults of each kind may happen.

\* F(v), with v evaluated once.
With(v, F(_)) == CHOOSE r \in {F(x) : x \in {v}} : TRUE

\* FoldLeft with every argument evaluated once.
FoldStrict(op(_, _), base, seq) ==
  With(seq, LAMBDA q : FoldLeft(LAMBDA acc, x : CHOOSE n \in {op(o, y) : o \in {acc}, y \in {x}} : TRUE,
                                base, q))
-----------------------------------------------------------------------------
(* handshakeCache *)

Pull(cache, typ, epoch, cl) ==
  LET ms == {m \in cache : m.typ = typ /\ m.epoch = epoch /\ m.cl = cl}
  IN  IF ms = {} THEN NoMsg ELSE CHOOSE m \in ms : \A o \in ms : o.seq <= m.seq

Rule(typ, epoch, cl, opt) == [typ |-> typ, epoch |-> epoch, cl |-> cl, opt |-> opt]

FullPullMap(cache, start, rules) ==
  With([i \in DOMAIN rules |-> Pull(cache, rules[i].typ, rules[i].epoch, rules[i].cl)], LAMBDA all :
  With(SelectSeq(all, LAMBDA m : m.typ # "none"), LAMBDA out :
      [ok   |-> /\ \A i \in DOMAIN rules : rules[i].opt \/ all[i].typ # "none"
                /\ out # <<>>
                /\ \A i \in DOMAIN out : out[i].seq = start + i - 1,
       seq  |-> start + Len(out),
       msgs |-> [y \in {out[i].typ : i \in DOMAIN out} |->
                   (CHOOSE m \in Range(out) : m.typ = y).body]]))

\* The rules of the transcript up to the client's key exchange.
HelloToKeyExchange ==
  << <<"CH", 0, TRUE>>, <<"SH", 0, FALSE>>, <<"Cert", 0, FALSE>>, <<"SKE", 0, FALSE>>,
     <<"CR", 0, FALSE>>, <<"SHD", 0, FALSE>>, <<"Cert", 0, TRUE>>, <<"CKE", 0, TRUE>> >>

PullAndMerge(cache, rules) ==
  SelectSeq([i \in DOMAIN rules |-> Pull(cache, rules[i][1], rules[i][2], rules[i][3])],
            LAMBDA m : m.typ # "none")

SessionHash(cache, more) == PullAndMerge(cache, HelloToKeyExchange) \o more

\* The transcript under the Finished message of end "cl".
FullTranscript(cache, more) ==
  PullAndMerge(cache, HelloToKeyExchange \o << <<"CV", 0, TRUE>>, <<"Fin", 1, TRUE>> >>) \o more

ResumedTranscript(cache, more) ==
  PullAndMerge(cache, << <<"CH", 0, TRUE>>, <<"SH", 0, FALSE>>, <<"Fin", 1, FALSE>> >>) \o more
-----------------------------------------------------------------------------
(* fragmentBuffer *)

Assembled(frag, q) ==
  \E f \in frag : f.m.seq = q /\ \A o \in 0..f.of - 1 : \E g \in frag : g.m.seq = q /\ g.off = o

\* push of one fragment, then pop for as long as the next message is complete.
PushAndPop(s, r) ==
  With(s.frag \cup {[m |-> r.m, off |-> r.off, of |-> r.of]}, LAMBDA frag :
  With(CHOOSE n \in s.cur..(s.cur + Cardinality(frag)) :
         (\A q \in s.cur..n - 1 : Assembled(frag, q)) /\ ~ Assembled(frag, n), LAMBDA next :
      [s EXCEPT !.cache = @ \cup {f.m : f \in {g \in frag : g.m.seq \in s.cur..next - 1}},
                !.frag = {f \in frag : f.m.seq >= next},
                !.cur = next]))
-----------------------------------------------------------------------------
(* The record layer: handleIncomingPacket and the queue of early records. *)

EnqueueUnbounded(s, r, enqueue) == IF enqueue THEN [s EXCEPT !.queue = Append(@, r)] ELSE s

Enqueue(s, r, enqueue) ==
  IF enqueue /\ Len(s.queue) < MaxQueue THEN [s EXCEPT !.queue = Append(@, r)] ELSE s

Outcome(s, hs, rtx, err) == [s |-> s, hs |-> hs, rtx |-> rtx, err |-> err]

Quiet(s) == Outcome(s, FALSE, FALSE, "none")

MarkValid(s, r) == [s EXCEPT !.replay = @ \cup {r.id}]

HandleAnyEpoch(s, r, enqueue) ==
  CASE r.id \in s.replay -> Quiet(s)
    [] r.epoch = 1 /\ r.key # s.key -> Quiet(s)
    [] r.typ = "hs" -> Outcome(With(MarkValid(s, r), LAMBDA t : PushAndPop(t, r)), TRUE,
                               r.off = 0 /\ r.m.seq < s.cur, "none")
    [] r.typ = "alert" -> Outcome(MarkValid(s, r), FALSE, FALSE, r.m.typ)
    [] r.typ = "ccs" ->
         IF s.key = NoKey THEN Quiet(Enqueue(s, r, enqueue))
         ELSE IF s.rEpoch = r.epoch THEN Quiet([MarkValid(s, r) EXCEPT !.rEpoch = r.epoch + 1])
         ELSE Quiet(s)
    [] OTHER -> Outcome(MarkValid(s, r), FALSE, FALSE, "data")

HandleNoReplayCheck(s, r, enqueue) ==
  IF r.epoch > s.rEpoch \/ (r.epoch = 1 /\ s.key = NoKey)
  THEN Quiet(Enqueue(s, r, enqueue)) ELSE HandleAnyEpoch([s EXCEPT !.replay = {}], r, enqueue)

HandleIncomingPacket(s, r, enqueue) ==
  IF r.epoch > s.rEpoch \/ (r.epoch = 1 /\ s.key = NoKey /\ r.id \notin s.replay)
  THEN Quiet(Enqueue(s, r, enqueue)) ELSE HandleAnyEpoch(s, r, enqueue)

\* The records of a datagram in turn; hs and rtx are or-ed, an error ends it.
HandleDatagram(s, recs) ==
  LET step(o, r) == IF o.err # "none" THEN o
                    ELSE With(HandleIncomingPacket(o.s, r, TRUE), LAMBDA n :
                              Outcome(n.s, o.hs \/ n.hs, o.rtx \/ n.rtx, n.err))
  IN  FoldStrict(step, Quiet(s), recs)

\* handleQueuedPackets: the early records again, none of them re-queued.  They
\* are handshake records: neither end has written data when this is called.
HandleQueuedPackets(s) ==
  With(s, LAMBDA u : FoldStrict(LAMBDA t, r : HandleIncomingPacket(t, r, FALSE).s,
                                [u EXCEPT !.queue = <<>>], u.queue))
-----------------------------------------------------------------------------
(* The flight parsers: [s, next, alert], next = "none" to keep reading. *)

Parsed(s, next) == [s |-> s, next |-> next, alert |-> "none"]

KeepReading(s) == Parsed(s, "none")

Fail(s, alert) == [s |-> s, next |-> "none", alert |-> alert]

InitCipherSuite(s) == IF s.key = NoKey THEN [s EXCEPT !.key = s.master] ELSE s

flight0Parse(s) ==
  LET p == FullPullMap(s.cache, 0, <<Rule("CH", 0, TRUE, FALSE)>>)
      h == p.msgs["CH"]
      t == [s EXCEPT !.recvSeq = p.seq, !.suite = h.suite]
  IN  IF ~ p.ok THEN KeepReading(s)
      ELSE IF h.suites \cap ServerSuites = {} THEN Fail(t, "InsufficientSecurity")
      ELSE IF h.sid # "none" /\ cfg.store = "both"                  \* handleHelloResume
           THEN Parsed(InitCipherSuite([t EXCEPT !.sid = h.sid, !.master = <<"old">>]), "4b")
      ELSE Parsed(t, IF cfg.skip THEN "4" ELSE "2")

flight2Parse(s) ==
  LET p == FullPullMap(s.cache, s.recvSeq, <<Rule("CH", 0, TRUE, FALSE)>>)
      t == [s EXCEPT !.recvSeq = p.seq]
  IN  IF ~ p.ok THEN flight0Parse(s)
      ELSE IF p.msgs["CH"].cookie = "none" THEN KeepReading(t)
      ELSE IF p.msgs["CH"].cookie # s.cookie THEN Fail(t, "AccessDenied")
      ELSE Parsed(t, "4")

handleResumption(s) ==
  With(HandleQueuedPackets(InitCipherSuite(s)), LAMBDA t :
  With(FullPullMap(t.cache, t.recvSeq + 1, <<Rule("Fin", 1, FALSE, FALSE)>>), LAMBDA p :
      IF ~ p.ok THEN KeepReading(t)
      ELSE IF p.msgs["Fin"].script # PullAndMerge(t.cache, << <<"CH", 0, TRUE>>, <<"SH", 0, FALSE>> >>)
           THEN Fail(t, "HandshakeFailure")
      ELSE Parsed(t, "5b")))

flight3Parse(s) ==
  LET hvr == FullPullMap(s.cache, s.recvSeq, <<Rule("HVR", 0, FALSE, TRUE)>>)
      sh  == FullPullMap(s.cache, s.recvSeq, <<Rule("SH", 0, FALSE, FALSE)>>)
      h   == sh.msgs["SH"]
      t   == [s EXCEPT !.suite = h.suite]
      u   == [t EXCEPT !.sid = IF cfg.store = "none" THEN "none" ELSE h.sid, !.master = <<>>]
      p   == FullPullMap(s.cache, s.recvSeq + 1,
               IF cfg.auth = "psk"
               THEN <<Rule("SKE", 0, FALSE, TRUE), Rule("SHD", 0, FALSE, FALSE)>>
               ELSE <<Rule("Cert", 0, FALSE, TRUE), Rule("SKE", 0, FALSE, FALSE),
                      Rule("CR", 0, FALSE, TRUE), Rule("SHD", 0, FALSE, FALSE)>>)
  IN  IF hvr.ok THEN Parsed([s EXCEPT !.cookie = hvr.msgs["HVR"].cookie, !.recvSeq = hvr.seq], "3")
      ELSE IF ~ sh.ok THEN KeepReading(s)
      ELSE IF h.suite \notin Range(Suites) THEN Fail(s, "InsufficientSecurity")
      ELSE IF h.sid # "none" /\ h.sid = s.sid THEN handleResumption(t)
      ELSE IF ~ p.ok THEN KeepReading(u)
      ELSE IF cfg.auth # "psk" /\ "Cert" \notin DOMAIN p.msgs
           THEN Fail([u EXCEPT !.recvSeq = p.seq], "NoCertificate")
      ELSE Parsed([u EXCEPT !.recvSeq = p.seq, !.asked = "CR" \in DOMAIN p.msgs], "5")

flight1Parse(s) ==
  LET p == FullPullMap(s.cache, s.recvSeq, <<Rule("HVR", 0, FALSE, TRUE), Rule("SH", 0, FALSE, TRUE)>>)
  IN  IF ~ p.ok THEN KeepReading(s)
      ELSE IF "SH" \in DOMAIN p.msgs THEN flight3Parse(s)
      ELSE Parsed([s EXCEPT !.cookie = p.msgs["HVR"].cookie, !.recvSeq = p.seq], "3")

\* The secret of the two key shares (or the shared key), with the session
\* hash when the extended master secret is in use.
MasterSecret(hash) == IF cfg.ems THEN <<cfg.auth, hash>> ELSE <<cfg.auth>>

\* The second half of the parser: the keys, the early records and Finished.
flight4Finish(t, seq) ==
  With(HandleQueuedPackets(InitCipherSuite([t EXCEPT
         !.master = IF t.key = NoKey THEN MasterSecret(SessionHash(t.cache, <<>>)) ELSE @])), LAMBDA u :
  With(FullPullMap(u.cache, seq, <<Rule("Fin", 1, TRUE, FALSE)>>), LAMBDA f :
      IF ~ f.ok THEN KeepReading(u)
      ELSE IF cfg.auth = "mutual" /\ ~ u.peerCert
           THEN Fail([u EXCEPT !.recvSeq = f.seq], "NoCertificate")
      ELSE Parsed([u EXCEPT !.recvSeq = f.seq], "6")))

flight4Parse(s) ==
  With(FullPullMap(s.cache, s.recvSeq, <<Rule("Cert", 0, TRUE, TRUE),
                   Rule("CKE", 0, TRUE, FALSE), Rule("CV", 0, TRUE, TRUE)>>), LAMBDA p :
  With([s EXCEPT !.peerCert = @ \/ "Cert" \in DOMAIN p.msgs], LAMBDA t :
      IF ~ p.ok THEN KeepReading(s)
      ELSE IF "CV" \in DOMAIN p.msgs /\ ~ t.peerCert THEN Fail(t, "NoCertificate")
      ELSE IF "CV" \in DOMAIN p.msgs /\ p.msgs["CV"].script # PullAndMerge(s.cache, HelloToKeyExchange)
           THEN Fail(t, "BadCertificate")
      ELSE IF "CV" \notin DOMAIN p.msgs /\ t.peerCert THEN KeepReading(t)
      ELSE flight4Finish(t, p.seq)))

flight4bParse(s) ==
  LET p == FullPullMap(s.cache, s.recvSeq, <<Rule("Fin", 1, TRUE, FALSE)>>)
  IN  IF ~ p.ok THEN KeepReading(s)
      ELSE IF p.msgs["Fin"].script # ResumedTranscript(s.cache, <<>>) THEN Fail(s, "HandshakeFailure")
      ELSE Parsed(s, "4b")

flight5Parse(s) ==
  LET p == FullPullMap(s.cache, s.recvSeq, <<Rule("Fin", 1, FALSE, FALSE)>>)
  IN  IF ~ p.ok THEN KeepReading(s)
      ELSE IF p.msgs["Fin"].script # FullTranscript(s.cache, <<>>) THEN Fail(s, "HandshakeFailure")
      ELSE Parsed(s, "5")

\* getFlightParser
Parse(s) ==
  CASE s.flight = "0" -> flight0Parse(s)
    [] s.flight = "1" -> flight1Parse(s)
    [] s.flight = "2" -> flight2Parse(s)
    [] s.flight = "3" -> flight3Parse(s)
    [] s.flight = "4" -> flight4Parse(s)
    [] s.flight = "4b" -> flight4bParse(s)
    [] s.flight = "5" -> flight5Parse(s)
-----------------------------------------------------------------------------
(* The flight generators: the state and the packets of the flight. *)

Msg(typ, body) == [typ |-> "hs", m |-> [NoMsg EXCEPT !.typ = typ, !.body = body], epoch |-> 0]

ChangeCipherSpec == [typ |-> "ccs", m |-> NoMsg, epoch |-> 0]

Finished(script) == [Msg("Fin", [Blank EXCEPT !.script = script]) EXCEPT !.epoch = 1]

\* truncateCipherSuites keeps at least three suites and always the required
\* one; the shuffle after it makes any of them the first the server supports.
Truncations == {o \in SUBSET Range(Suites) : Cardinality(o) >= Min({MinSuites, Len(Suites)})}

AnyOffers == {[Blank EXCEPT !.suites = o, !.suite = f] : o \in Truncations, f \in ServerSuites}

RandomizedOffers ==
  {[Blank EXCEPT !.suites = o, !.suite = f] :
     o \in {x \in Truncations : Required \in x}, f \in ServerSuites}

ClientHello(s) ==
  Msg("CH", [s.offer EXCEPT !.cookie = s.cookie, !.sid = s.sid])

ServerHelloPreferred(s) == Msg("SH", [Blank EXCEPT !.sid = s.sid, !.suite = Suites[1]])

ServerHello(s) == Msg("SH", [Blank EXCEPT !.sid = s.sid, !.suite = s.suite])

Generated(s, pkts) == [s |-> s, pkts |-> pkts, alert |-> "none"]

flight0Generate(s) ==
  {Generated([s EXCEPT !.cookie = IF cfg.skip THEN "none" ELSE "cookie",
                       !.lEpoch = 0, !.rEpoch = 0], <<>>)}

flight1Generate(s) ==
  LET t == [s EXCEPT !.cookie = "none", !.lEpoch = 0, !.rEpoch = 0,
                     !.sid = IF cfg.store \in {"client", "both"} THEN "old" ELSE @,
                     !.master = IF cfg.store \in {"client", "both"} THEN <<"old">> ELSE @]
  IN  {Generated([t EXCEPT !.offer = o], <<ClientHello([t EXCEPT !.offer = o])>>) :
         o \in {x \in RandomizedOffers : x.suite \in x.suites \/ x.suites \cap ServerSuites = {}}}

flight2Generate(s) ==
  {Generated([s EXCEPT !.sendSeq = 0], <<Msg("HVR", [Blank EXCEPT !.cookie = s.cookie])>>)}

\* The hook runs again: with the same seed, or without truncation, so that only
\* the order of the suites may differ.
flight3Generate(s) ==
  {Generated([s EXCEPT !.offer.suite = f], <<ClientHello([s EXCEPT !.offer.suite = f])>>) :
     f \in s.offer.suites \cap ServerSuites}

\* What the server proves itself with; a shared key has no identity hint.
ServerProof ==
  CASE cfg.auth = "mutual" -> <<Msg("Cert", Blank), Msg("SKE", Blank), Msg("CR", Blank)>>
    [] cfg.auth = "server" -> <<Msg("Cert", Blank), Msg("SKE", Blank)>>
    [] cfg.auth = "psk"    -> <<>>

flight4Generate(s) ==
  LET t == [s EXCEPT !.sid = IF cfg.store = "none" THEN @ ELSE "new"]
  IN  {Generated(t, <<ServerHello(t)>> \o ServerProof \o <<Msg("SHD", Blank)>>)}

flight4bGenerate(s) ==
  LET sh  == [ServerHello(s).m EXCEPT !.seq = s.sendSeq]
      fin == PullAndMerge(s.cache, << <<"CH", 0, TRUE>> >>) \o <<sh>>
  IN  {Generated(s, <<ServerHello(s), ChangeCipherSpec, Finished(fin)>>)}

\* Possession of the key of the certificate, shown over the messages so far.
CertificateVerify(s, due) ==
  IF s.asked THEN <<Msg("CV", [Blank EXCEPT !.script = SessionHash(s.cache, due)])>> ELSE <<>>

\* The messages not sent yet get the sequence numbers they will be sent with;
\* initializeCipherSuite and the signature are computed over them.
flight5Generate(s) ==
  LET asked == FullPullMap(s.cache, s.recvSeq - 2, <<Rule("CR", 0, FALSE, FALSE)>>).ok
      first == (IF s.asked THEN <<Msg("Cert", Blank)>> ELSE <<>>) \o <<Msg("CKE", Blank)>>
      Due(pkts, from) == [i \in DOMAIN pkts |->
                            [pkts[i].m EXCEPT !.seq = from + i - 1, !.cl = TRUE]]
      due   == Due(first, s.sendSeq)
      t     == InitCipherSuite([s EXCEPT !.master =
                 IF s.key = NoKey THEN MasterSecret(SessionHash(s.cache, due)) ELSE @])
      sign  == CertificateVerify(s, due)
      all   == due \o Due(sign, s.sendSeq + Len(first))
  IN  IF s.asked /\ ~ asked THEN {[Generated(s, <<>>) EXCEPT !.alert = "HandshakeFailure"]}
      ELSE {Generated(t, first \o sign \o
                        <<ChangeCipherSpec, Finished(FullTranscript(s.cache, all))>>)}

flight5bGenerate(s) ==
  {Generated(s, <<ChangeCipherSpec, Finished(ResumedTranscript(s.cache, <<>>))>>)}

flight6Generate(s) ==
  {Generated(s, <<ChangeCipherSpec, Finished(FullTranscript(s.cache, <<>>))>>)}

\* getFlightGenerator
Generate(s) ==
  CASE s.flight = "0" -> flight0Generate(s)
    [] s.flight = "1" -> flight1Generate(s)
    [] s.flight = "2" -> flight2Generate(s)
    [] s.flight = "3" -> flight3Generate(s)
    [] s.flight = "4" -> flight4Generate(s)
    [] s.flight = "4b" -> flight4bGenerate(s)
    [] s.flight = "5" -> flight5Generate(s)
    [] s.flight = "5b" -> flight5bGenerate(s)
    [] s.flight = "6" -> flight6Generate(s)
-----------------------------------------------------------------------------
(* writePackets: fragmentation by the MTU, sealing, compaction, sending. *)

Size(m) == IF m.typ = "Cert" THEN cfg.cert ELSE 1

\* fragmentHandshake and the records of its fragments, sealed when encrypted.
Fragments(s, p) ==
  LET n == Max({1, (Size(p.m) + MTU - 1) \div MTU})
  IN  [i \in 1..n |->
         [typ |-> p.typ, m |-> p.m, epoch |-> p.epoch, off |-> i - 1, of |-> n, id |-> <<0, 0>>,
          key |-> IF p.epoch = 1 THEN s.key ELSE NoKey,
          size |-> IF i < n THEN MTU ELSE Size(p.m) - (n - 1) * MTU]]

\* compactRawPackets: a datagram is closed once the next record would reach
\* the MTU.
Compact(raws) ==
  LET step(o, r) == IF o.len > 0 /\ o.len + r.size >= MTU
                    THEN [done |-> Append(o.done, o.last), last |-> <<r>>, len |-> r.size]
                    ELSE [o EXCEPT !.last = Append(@, r), !.len = @ + r.size]
      o == FoldStrict(step, [done |-> <<>>, last |-> <<>>, len |-> 0], raws)
  IN  IF raws = <<>> THEN <<>> ELSE Append(o.done, o.last)

\* A record is identified by its sequence number; a number is free again when
\* no copy of it is in the network, in a queue or (below) remembered.
InUse(to) == {net[to][i].id : i \in DOMAIN net[to]} \cup {k[1] : k \in ep[to].replay} \cup
             {ep[to].queue[i].id[1] : i \in DOMAIN ep[to].queue}

FreshIds(to, n) ==
  LET free == (1..(n + Cardinality(InUse(to)))) \ InUse(to)
  IN  [i \in 1..n |-> CHOOSE k \in free : Cardinality({j \in free : j < k}) = i - 1]

Datagrams(from, raws) ==
  IF ep[Peer(from)].closed THEN <<>>
  ELSE With(Compact(raws), LAMBDA ds : With(FreshIds(Peer(from), Len(ds)), LAMBDA ids :
         [i \in DOMAIN ds |-> [id |-> ids[i],
            recs |-> [j \in DOMAIN ds[i] |-> [ds[i][j] EXCEPT !.id = <<ids[i], j>>]]]]))

\* What end e sends after it took (or stopped taking) the datagrams of rest.
Sent(e, rest, raws) == [net EXCEPT ![e] = rest, ![Peer(e)] = @ \o Datagrams(e, raws)]
-----------------------------------------------------------------------------
(* The two goroutines of each end. *)

Conn == [flight |-> "0", st |-> "Preparing", pkts |-> <<>>, cache |-> {}, frag |-> {}, cur |-> 0,
         recvSeq |-> 0, sendSeq |-> 0, lEpoch |-> 0, rEpoch |-> 0, master |-> <<>>, key |-> NoKey,
         suite |-> "none", sid |-> "none", offer |-> Blank, cookie |-> "none", asked |-> FALSE,
         peerCert |-> FALSE, queue |-> <<>>, replay |-> {}, pend |-> "none", full |-> FALSE,
         sent |-> 0, done |-> FALSE, closed |-> FALSE, alert |-> "none"]

\* HandshakeContext: the client starts with flight 1, the server with flight 0.
Init ==
  /\ cfg \in Configs
  /\ ep = [e \in Ends |-> [Conn EXCEPT !.flight = IF e = "client" THEN "1" ELSE "0"]]
  /\ net = [e \in Ends |-> <<>>]
  /\ faults = cfg.faults
  /\ got = [e \in Ends |-> 0]

\* notify: an alert in the local epoch, sealed once the handshake completed.
Alert(s, desc) ==
  <<[typ |-> "alert", m |-> [NoMsg EXCEPT !.typ = desc], epoch |-> s.lEpoch, off |-> 0, of |-> 1, id |-> <<0, 0>>,
     key |-> IF s.done THEN s.key ELSE NoKey, size |-> 1]>>

Shut(s) == [s EXCEPT !.st = "Errored", !.closed = TRUE, !.pend = "none"]

\* Record numbers no copy of which can still arrive need not be remembered.
Forget(s, rest) ==
  [s EXCEPT !.replay = {k \in @ : \/ \E i \in DOMAIN rest : rest[i].id = k[1]
                                  \/ \E i \in DOMAIN s.queue : s.queue[i].id = k}]

\* The machine ends with an error: the alert goes out, handshake returns the
\* error and the reader, cancelled, closes the connection.
Abort(e, s, desc) ==
  /\ ep' = [ep EXCEPT ![e] = [Shut(s) EXCEPT !.alert = desc]]
  /\ net' = Sent(e, <<>>, Alert(s, desc))

Enter(s, st) == [s EXCEPT !.st = st, !.done = @ \/ st = "Finished"]

\* prepare numbers the handshake messages of a flight.
Numbered(pkts, from, e) ==
  [i \in DOMAIN pkts |->
     IF pkts[i].typ # "hs" THEN pkts[i]
     ELSE [pkts[i] EXCEPT !.m.seq = from + Cardinality({j \in 1..i - 1 : pkts[j].typ = "hs"}),
                          !.m.cl = (e = "client"), !.m.epoch = pkts[i].epoch]]

Prepare(e) ==
  /\ ep[e].st = "Preparing"
  /\ \E g \in Generate(ep[e]) :
       IF g.alert # "none" THEN Abort(e, g.s, g.alert)
       ELSE /\ ep' = [ep EXCEPT ![e] = [g.s EXCEPT
                        !.pkts = Numbered(g.pkts, g.s.sendSeq, e), !.st = "Sending",
                        !.sendSeq = @ + Cardinality({i \in DOMAIN g.pkts : g.pkts[i].typ = "hs"}),
                        !.lEpoch = IF \E i \in DOMAIN g.pkts : g.pkts[i].epoch = 1 THEN 1 ELSE @]]
            /\ UNCHANGED net
  /\ UNCHANGED <<cfg, faults, got>>

IsLastSendFlight(f) == f \in {"6", "5b"}

IsLastRecvFlight(f) == f \in {"5", "4b"}

Send(e) ==
  LET s == ep[e]
      sent == {s.pkts[i].m : i \in {j \in DOMAIN s.pkts : s.pkts[j].typ = "hs"}}
  IN  /\ s.st = "Sending"
      /\ ep' = [ep EXCEPT ![e] = Enter([s EXCEPT !.cache = @ \cup sent],
                                       IF IsLastSendFlight(s.flight) THEN "Finished" ELSE "Waiting")]
      /\ net' = Sent(e, net[e], FlattenSeq([i \in DOMAIN s.pkts |-> Fragments(s, s.pkts[i])]))
      /\ UNCHANGED <<cfg, faults, got>>

\* wait, on a message from the reader.  A flight the peer sent again is
\* answered with the own flight, without parsing.
Wait(e) ==
  /\ ep[e].st = "Waiting" /\ ep[e].pend \in {"hs", "rtx"}
  /\ \E s \in {[ep[e] EXCEPT !.pend = "none"]} :
       IF ep[e].pend = "rtx"
       THEN ep' = [ep EXCEPT ![e] = Enter(s, "Sending")] /\ UNCHANGED net
       ELSE \E p \in {Parse(s)} : \E n \in {Forget(p.s, net[e])} :
            IF p.alert # "none" THEN Abort(e, n, p.alert)
            ELSE /\ ep' = [ep EXCEPT ![e] =
                      IF p.next = "none" THEN n
                      ELSE IF p.next = s.flight /\ IsLastRecvFlight(s.flight) THEN Enter(n, "Finished")
                      ELSE [Enter(n, "Preparing") EXCEPT !.flight = p.next]]
                 /\ UNCHANGED net
  /\ UNCHANGED <<cfg, faults, got>>

FinishIgnores(e) ==
  /\ ep[e].st = "Finished" /\ ep[e].pend \in {"hs", "rtx"}
  /\ ep' = [ep EXCEPT ![e].pend = "none"]
  /\ UNCHANGED <<cfg, net, faults, got>>

\* finish: the server sends its last flight again, the client ignores it.
Finish(e) ==
  /\ ep[e].st = "Finished" /\ ep[e].pend \in {"hs", "rtx"}
  /\ ep' = [ep EXCEPT ![e] = [@ EXCEPT !.pend = "none",
                                       !.st = IF e = "client" THEN "Finished" ELSE "Sending"]]
  /\ UNCHANGED <<cfg, net, faults, got>>

\* Nothing is under way: what a timer waits for has been lost.
Silent == (\A e \in Ends : net[e] = <<>>) /\ \A e \in Ends : ep[e].pend = "none" /\ ep[e].st \notin {"Preparing", "Sending"}

\* wait, on the timer.  Flight 2 is not sent again, and flight 0 is empty.
Timeout(e) ==
  /\ ep[e].st = "Waiting" /\ ep[e].flight \notin {"0", "2"}
  /\ Silent \/ faults.early > 0
  /\ faults' = IF Silent THEN faults ELSE [faults EXCEPT !.early = @ - 1]
  /\ ep' = [ep EXCEPT ![e] = Enter(@, "Sending")]
  /\ UNCHANGED <<cfg, net, got>>

\* readAndBuffer, and what the reader goroutine of handshake does on an alert.
Receive(e) ==
  /\ ~ ep[e].closed /\ ep[e].pend = "none" /\ net[e] # <<>>
  /\ \E o \in {HandleDatagram(ep[e], Head(net[e]).recs)} : \E s \in {Forget(o.s, Tail(net[e]))} :
           CASE o.err \in {"none", "data"} ->
                  /\ ep' = [ep EXCEPT ![e] = [s EXCEPT !.pend =
                        IF o.err = "data" THEN "data" ELSE IF ~ o.hs THEN "none"
                        ELSE IF o.rtx THEN "rtx" ELSE "hs"]]
                  /\ net' = [net EXCEPT ![e] = Tail(@)]
             [] o.err = "CloseNotify" ->
                  /\ ep' = [ep EXCEPT ![e] = Shut(s)]
                  /\ net' = Sent(e, <<>>, Alert(s, "CloseNotify"))
             [] OTHER -> ep' = [ep EXCEPT ![e] = Shut(s)] /\ net' = [net EXCEPT ![e] = <<>>]
  /\ UNCHANGED <<cfg, faults, got>>

\* The reader blocked on the one-place channel decrypted.
Deliver(e) ==
  /\ ep[e].pend = "data" /\ ~ ep[e].full
  /\ ep' = [ep EXCEPT ![e] = [@ EXCEPT !.pend = "none", !.full = TRUE]]
  /\ UNCHANGED <<cfg, net, faults, got>>

Read(e) ==
  /\ ep[e].done /\ ep[e].full
  /\ ep' = [ep EXCEPT ![e].full = FALSE]
  /\ got' = [got EXCEPT ![e] = @ + 1]
  /\ UNCHANGED <<cfg, net, faults>>

Write(e) ==
  /\ ep[e].done /\ ~ ep[e].closed /\ ep[e].sent < cfg.data
  /\ ep' = [ep EXCEPT ![e].sent = @ + 1]
  /\ net' = Sent(e, net[e], <<[typ |-> "data", m |-> NoMsg, epoch |-> ep[e].lEpoch, off |-> 0,
                                     of |-> 1, id |-> <<0, 0>>, key |-> ep[e].key, size |-> 1]>>)
  /\ UNCHANGED <<cfg, faults, got>>

\* Close by the user, or the end of the handshake's context before it is done.
Close(e) ==
  /\ ~ ep[e].closed /\ faults.close > 0
  /\ faults' = [faults EXCEPT !.close = @ - 1]
  /\ ep' = [ep EXCEPT ![e] = Shut(@)]
  /\ net' = Sent(e, <<>>, IF ep[e].done THEN Alert(ep[e], "CloseNotify") ELSE <<>>)
  /\ UNCHANGED <<cfg, got>>

\* The network loses a datagram, delivers one twice, or lets one be overtaken
\* by those behind it.
Fault(k, e, seq) ==
  /\ faults[k] > 0
  /\ faults' = [faults EXCEPT ![k] = @ - 1]
  /\ net' = [net EXCEPT ![e] = seq]
  /\ UNCHANGED <<cfg, ep, got>>

Lose(e) == net[e] # <<>> /\ Fault("loss", e, Tail(net[e]))

Duplicate(e) == net[e] # <<>> /\ Fault("dup", e, Append(net[e], Head(net[e])))

Delay(e) == Len(net[e]) > 1 /\ Fault("delay", e, Append(Tail(net[e]), Head(net[e])))

Next ==
  \E e \in Ends : \/ Prepare(e) \/ Send(e) \/ Wait(e) \/ Finish(e) \/ Timeout(e)
                  \/ Receive(e) \/ Deliver(e) \/ Read(e) \/ Write(e) \/ Close(e)
                  \/ Lose(e) \/ Duplicate(e) \/ Delay(e)

\* Both goroutines run, timers fire, and a datagram not lost arrives.
Fairness ==
  \A e \in Ends :
    WF_vars(Prepare(e) \/ Send(e) \/ Wait(e) \/ Finish(e)) /\ WF_vars(Timeout(e))
      /\ WF_vars(Receive(e)) /\ WF_vars(Deliver(e))

Spec == Init /\ [][Next]_vars /\ Fairness
-----------------------------------------------------------------------------
(* Properties. *)

\* Each end stays in its own flights and states, the queue of records of the next
\* epoch (Conn.encryptedPackets) within its limit, and a datagram is the same
\* whenever it arrives.
TypeOK ==
  /\ cfg \in Configs
  /\ \A e \in Ends :
       /\ ep[e].flight \in (IF e = "client" THEN {"1", "3", "5", "5b"} ELSE {"0", "2", "4", "4b", "6"})
       /\ ep[e].st \in {"Preparing", "Sending", "Waiting", "Finished", "Errored"}
       /\ ep[e].pend \in {"none", "hs", "rtx", "data"}
       /\ ep[e].rEpoch \in 0..1 /\ ep[e].lEpoch \in 0..1
       /\ Len(ep[e].queue) <= MaxQueue
  /\ \A e \in Ends : \A i, j \in DOMAIN net[e] : net[e][i].id = net[e][j].id => net[e][i] = net[e][j]

\* No loss, duplicate, reordering, early timer or randomised hello makes
\* either end give up: no parser or generator ever raises a fatal alert.
NetworkCannotAbort == \A e \in Ends : ep[e].alert = "none"

\* Two ends that both completed hold the same keys and the same suite, one
\* that the client offered and the server's certificate supports.
KeysAgree ==
  ep["client"].done /\ ep["server"].done =>
    /\ ep["client"].key = ep["server"].key
    /\ ep["client"].suite = ep["server"].suite
    /\ ep["client"].suite \in ep["client"].offer.suites \cap ServerSuites

\* Application data reaches Read at most once per Write, whatever copies the
\* network makes of its record.
DataAtMostOnce == \A e \in Ends : got[e] + (IF ep[e].full THEN 1 ELSE 0) <= ep[Peer(e)].sent

Completed == \A e \in Ends : ep[e].done

SomeoneClosed == \E e \in Ends : ep[e].closed

\* A full handshake completes at both ends unless one of them is closed, whichever
\* datagrams are lost, as long as no more are lost than the budget of the
\* configuration allows: every lost flight is sent again after its timeout.
FullHandshakeCompletes == cfg.store = "none" => <>(Completed \/ SomeoneClosed)

\* The same of every handshake, a resumed one and one with session stores
\* included.
HandshakeCompletes == <>(Completed \/ SomeoneClosed)
=============================================================================
