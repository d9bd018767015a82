# NATProxy: a TLA+ model of its concurrent parts

NATProxy shares an internet connection between two phones behind NATs. A Go
library (`golib/`) runs inside an Android app; a small Go process
(`signalserver/`) introduces the phones to each other. What is hard to get right
is concurrency: API calls from several Android threads, goroutines that outlive
the call that started them, one global mutex that is dropped during slow network
requests, callbacks of the WebRTC stack, and two ends that talk over a network
that loses, repeats and reorders. This directory models those parts in TLA+,
checks them with TLC and proves most of their safety properties with TLAPS.

## The system

| Part | Source | Role |
|---|---|---|
| Session store | `signalserver/.../main.go` 43-186, 444-579 | one offer and one answer slot per session, event streams, collector |
| Discovery listings | `main.go` 188-310, 581-714 | list of servers that expire without heartbeat, watched by viewers |
| Hole-punch server | `golib/api.go` 431-933, 1070-1142, 1652-1667 | creates a WebRTC group, posts its offers, accepts one client after another |
| Mapped server, xray | `api.go`, `golib/nat/`, `golib/xray/` | maps a port at the router and serves with xray, the client's alternative too |
| Discovery client | `api.go` 938-1063 | registration, heartbeat goroutine, removal |
| WebRTC client | `api.go` 1677-2578 | connect, tunnel, stop, health monitor, fast reconnect |
| Groups and peers | `golib/webrtc/group.go`, `server.go`, `client.go` | several PeerConnections, smux sessions, streams |
| Media transport | `golib/webrtc/media_reliable.go`, `media_transport.go` | a reliable byte stream in RTP packets |
| DTLS | `golib/replace/dtls/` | vendored handshake with a randomised hello |
| Tunnel | `golib/tunnel/`, `golib/webrtc/dnsrelay.go` | TUN device, DNS cache, pooled DNS channels |

A server posts offers into its session's slot; a client reads them, posts
answers, and the accept loop of the server takes them, connects, and prepares a
fresh group for the next client. A group is one to eight PeerConnections, each with
its ICE agent, DTLS connection and data channels (or a media transport); the
tunnel of the client dials streams over them. `PROJECT.json` lists every part
with its status, and the hazards of the code with the properties that cover them.

## Modules

| Module | Models |
|---|---|
| `Mailbox` | what the session store promises: slots, and streams that are given a slot's current content |
| `SessionHub` | the session store with its goroutines, locks, channels and collector |
| `AcceptLoop` | `StartServer`, `StopServer`, the accept loop, draining groups, the session's slots, ICE and clients |
| `ClientLifecycle` | `StartClient`, `ConnectWebRTC`, `StartTunnel`, `StopClient`, the monitor, `attemptFastReconnect` |
| `Discovery` | `RegisterServerDiscovery`, its heartbeat, `UnregisterServerDiscovery`, `StopServer`'s part, expiring listings |
| `PeerGroup` | a `ServerGroup` and a `ClientGroup`: channel setup, `WaitConnected`, `DialStream`, accept loops and their semaphore, `Stop` |
| `ReliableRTP` | `reliableRTP` and `MediaStreamTransport` of both sides |
| `DtlsHandshake` | both ends of a DTLS connection: state machine, flights, cache, fragments, records |
| `TunnelDns` | a DNS query from the TUN through cache, batches, channels and fallbacks |
| `PortMapping` | UPnP, NAT-PMP and PCP mappings, lease renewals, the one xray instance and its users |
| `...Proofs` | TLAPS proofs about the module of that name |
| `MC...` | instances for TLC |

A section under a lock is one step, unless it reads what others write without the lock,
and what lies between two sections is not. Names follow the source; `PROJECT.json` maps
each definition to the lines it stands for. Definitions marked *Mutant* are plausible
mistakes: each replaces one definition to show that a property would notice.

**SessionHub.** `slot` and `age` are the session entries, `watch` the watcher
maps, `token` the one-place channels. A poster stores the body (`Post`), then
walks over the watcher map (`Pick`, `Notify`) without the lock. The map is shared
with `Watch` and `Unwatch`, so the walk may or may not meet a new entry, and the
runtime may abort the process (`fatal`, `Restart`). A send to a channel that was
closed meanwhile panics and ends the walk (`NotifyPanic`); the streams it did not
reach are in `cut`.

**AcceptLoop.** Each life of the server has a loop of its own that is cancelled
but not waited for. `lpc` is its control state, `lgrp` and `lnew` its groups;
`active` and `draining` are the globals. Requests may be lost, or only their
response (`RepostLost`, `ClearLost`, `PostOffersFails`). `AcceptAnswers` may fail before
or after some PeerConnections have taken their answer. `mu` has a holder where a section
under it looks at `iceAlive`, which ICE writes without the lock: the look and the stop
that follows are two steps (`SwapLook` and `Swap`, `ReapLook` and `ReapStop`). ICE can
connect only a group whose own offers were answered. `late` records that a loop
published a group after its server was stopped.

**ClientLifecycle.** Each call or reconnect goroutine is a thread `th[k]` with its local
variables. The ICE failure callback of a group runs once; if it was not set by then the
failure is `"unheard"`. A tick of the monitor looks at its group without the lock
(`MonitorTick`) and resets the count under it (`MonitorReset`); `abandoned` has the
groups that such a reset kept from being given up. `lateWrite` records that a call that
StopClient had overtaken wrote the globals all the same: the exact condition under which
the globals stop being consistent.

**Discovery.** Time is counted in heartbeat intervals, `TTL` is the
`-discovery-ttl` flag in that unit (60 s / 20 s = 3 by default). A listing's age
grows with `Tick` and is reset by `Beat`; `GcTick` removes what is older than the
ttl, with the uncertainty of the moment at exactly the ttl. A goroutine serves each
tick before the next, since a request times out after half an interval; only the
mutex can hold it up for longer.

**PeerGroup.** `end[e][p]` is the `Server` or `Client` of PeerConnection `p`, with its
list of sessions, the counters `readyCount` and `failedCount`, `iceAlive`, and the
channels `connected`, `failed` and `done`. Each callback of pion is a step, as are each
select and each locked section; `Stop` copies the sessions in one step and closes them
in another, and a dial chooses a session in one (`ChooseSession`) and opens the stream
on it in another (`DialStream`). `distributeChannels` is an operator, a share of zero
included. ICE, SCTP and smux are external: they are the callbacks and errors the code
handles.

**ReliableRTP.** `unacked`, `readBuf`, `readSeq` and `readCh` are the fields of that
name. `Read` is split where it matters: it looks under `readMu` (`Read`), and waits on
the condition variable (`Park`), while `receiveLoop` stores a frame under `readMu` and
signals after the unlock (`ReceiveFrame`, `SignalReader`). Frames and acknowledgements
under way are bags, so that any of them may arrive next. Sequence numbers wrap at
`SeqMod`; `stale` records that `receiveLoop`, which compares no number with `readSeq`,
stored a frame that is none of the next `SeqMod` to be read.

**DtlsHandshake.** `ep[e]` is a `Conn` with its state, cache, fragment buffer and
machine; an end is two goroutines, the machine (`Prepare`, `Send`, `Wait`, `Finish`) and
the reader (`Receive`, `Deliver`), which hand over on a channel. All flights of client and
server are modelled, with and without hello verification, client certificates,
shared keys, extended master secret and session stores, as is the truncation of
the offered cipher suites by `golib/webrtc`. Cryptography is symbolic: a secret is what it
is derived from, verify data is the transcript it covers.

**TunnelDns.** A query from the TUN is a thread `th[t]`, and so is the prefetch it may
start; the pool's queue, its timer, running `flushBatch` calls, channels with their
pending maps, and the goroutines that wait for a response are each steps of their own.
A batch item is known by its thread, pool and resolver, as a thread submits at most once
to each resolver. The channels of a pool are a set, since the round robin may start
anywhere. `SwapDialStream` (a fast reconnect) and `Stop` may come anywhere. Transaction
IDs may be equal: `clash` records that two different questions with one ID were on a
channel together. A timeout of a waiting goroutine is free when the server wrote no
response (`silent`) or another query with its ID was sent on its channel (`SharesID`), and
comes from a budget otherwise.

**PortMapping.** `StartServer` and `StopServer` hold the mutex throughout, so `at` is
one control state; `renewer` is the set of renewal goroutines, which take no lock;
`call[k]` is a `StartClient`, which holds the mutex in parts only. `router` is the
router's table, `instance` the one xray instance of the process. A renewal may fail, which
the code ignores; `refused` in the goroutine's record tells how its last one went.

**How the modules fit.** `AcceptLoop` and `ClientLifecycle` see a group as a state
machine (offered, connected, lost, stopped); `PeerGroup` opens that up. In `PeerGroup`
a link coming up stands for ICE and DTLS; `DtlsHandshake` opens DTLS up and
`ReliableRTP` the media transport. `TunnelDns` takes streams from a group as
`PeerGroup` gives them: they may fail to open, break, or belong to a stopped group.

## Runs

| Run | Shows |
|---|---|
| `session_hub` | no listed channel is closed (`RegistryLive`), no update is lost (`NoLostUpdate`), each reaches its stream (`UpdateReachesStream`), and the hub implements `Mailbox` (`ImplementsMailbox`) |
| `accept_loop` | no group of the running server is lost, readable offers belong to the group that listens or to none, no group stays open where nobody would stop it (`NoGroupOutlives`), an answer is taken once, stopped loops exit, used groups are replaced, lost offers come back |
| `client_lifecycle` | the tunnel dials the active group, no group leaks, a call has its own context, a lost connection is replaced or ends the client |
| `discovery` | no stop channel is closed twice, no heartbeat goroutine escapes, no listing expires early |
| `listing_life` | a listing without heartbeat vanishes, a kept one comes back |
| `peer_group` | the semaphore balances on every path (`PermitsBalanced`), `WaitConnected` returns success or error for the right reason (`WaitTellsTruth`), a stream waits for a token only while others in use hold them all (`TokenGranted`), and after `Stop` every session and handler ends, those that appear while it runs included (`StopEndsStreams`) |
| `reliable_rtp` | messages come in order, numbers that wrap included (`DeliveredInOrder`), no wakeup of `Read` is lost, and everything arrives while the receive window suffices (`Delivery`) |
| `dtls_handshake` | no loss, copy or delay makes an end abort, both ends agree on keys and suite, data is delivered at most once, a full handshake completes, the queue of early records stays bounded (`TypeOK`) |
| `tunnel_dns` | every query ends (`EveryQueryEnds`) with its own answer (`AnswersMatch`), one result each (`ResultOnce`), and cache and list agree within their limit (`TypeOK`) |
| `port_mapping` | while the server runs the mapping is lost only to refused renewals and short leases (`MappedWhileRunning`), each renewal can be ended by a later stop, the engine serves whoever counts on it |
| `handles_reconnections`, `reliable` | a comment of the code is violated; see *Findings* |

What holds has exceptions where the code has them, and each property names its own:

- `NoLostUpdate`, `UpdateReachesStream`: streams that a panicking poster did not
  reach, and streams whose session the collector deleted. They stay connected and
  hear nothing until they reconnect.
- `AnswerTakenOnce`: after the clearing request was lost.
- `NoGroupOutlives`: after a loop published its group when its server was stopped already.
- `FreshAfterUse`: after a failed creation or post (finding 1), or answers that only some
  PeerConnections of a group took.
- `NoGroupLeaked`, `OwnContext`: after a stopped call wrote the globals.
- `DeadClientHandled`: failures before the callback was set; and groups whose last reconnect
  found the limit reached (`api.go:2500`) just before a monitor that had seen the group alive
  reset the count. `attemptFastReconnect` then reads the count again, does not call
  `StopClient`, and a dead client stays in the running state.
- `HeartbeatOwned`: after two registrations overlapped. The second overwrites the
  stop channel of the first, whose goroutine then runs until the process ends.
- `DeliveredInOrder`: after the sequence numbers wrapped and a late copy of a frame read
  before, or a frame a whole round ahead, was stored. Which numbers are read is claimed
  even then.
- `Delivery`: after a close or a wrap; and the instance has no more messages than the
  window holds (finding 2).
- `AnswersMatch`: the question, but not the ID, after two different questions with the same
  transaction ID were on one channel together, since `readLoop` matches nothing else.
- `EngineServesOwner`: while no `instance.Close` has failed.
- `MappedWhileRunning`: from a refused renewal to the next that is granted, and from the
  end of a lease that is not longer than `upnpLeaseRenewEvery` to its renewal; NAT-PMP and
  PCP mappings are never renewed.

### Bounds

- *session_hub*: two posters, two streams and two posts give every overlap of two
  notifications with a registration or a removal on the same map. The first stream
  is taken to be one of offers, as offers and answers run the same code.
- *accept_loop*: two lives, three groups and two answers let a stale loop meet a newer
  one and two clients follow each other, with one lost request (134,571 states).
- *client_lifecycle*: three threads let a stopped call meet a newer one and a
  reconnect; two groups are the old and the new one. `maxReconnects` is 2 in the
  code and 1 here, so that three threads reach the limit (299,890 states).
- *discovery*: two calls meet each other and `StopServer`, with a third listing id for
  a re-registration; two faults let a listing expire with the default ttl.
  `listing_life` has one registration: with overlapping ones the bound on listing
  ids, not the code, would decide. Ids are used again once nobody holds them.
- *peer_group* (174,909 states): one or two PeerConnections, requests of zero and of
  more than the cap, remainders and shares of zero, both transports, two streams
  against a limit of one, and one or two faults per configuration.
- *reliable_rtp* (301,765 states): three messages with a loss and four sequence numbers,
  three messages with two numbers, which wrap, or two that race with a close; one place
  in `readCh`.
- *dtls_handshake* (65,064 states): fourteen configurations, each with one to four
  faults, two losses in one of them; flights of one and two datagrams, certificates of two fragments.
- *tunnel_dns* (120,529 states): three queries, two of them for one name and two with one
  transaction ID, batches of two, a cache of one entry, one or two channels, up to three
  faults per case.
- *port_mapping* (4,631,714 states): three starts with a lease of three ticks renewed
  every two, two with a lease of one tick or an indefinite one, or one or two starts beside
  two `StartClient` calls; any renewal may be refused.

Deadlock is not checked where the bounds make the model stop
(`CHECK_DEADLOCK FALSE`).

### Fairness

Goroutines that can run do run (weak fairness), since every wait in the code has a
timeout and every request a deadline; the container is restarted
(`restart: unless-stopped`); tickers fire. A datagram that the model does not lose
arrives, and losses are bounded, as retransmission can promise nothing else. The handler
of a stream ends once the stream has: its reads fail, and a relay that waits for its
target ends after `relayInactivityTimeout`; a stream in use may last for ever. An accept
loop gets the mutex in the end (strong fairness), since Go hands it to a goroutine that
has waited for a millisecond. Users, clients, ICE, the router and faults owe
nothing. `PortMapping` has no liveness property and no fairness. In
`ClientLifecycle` and `TunnelDns` every behaviour of the bounded model ends, so one
condition on all these steps together says the same as one for each.

## Findings

1. *handles_reconnections*: one failure to re-create the group or to post its offers
   (`api.go:861`, `869`) leaves the loop waiting with a used group for ever, where
   `api.go:668` says "Accept loop: wait for clients and handle reconnections."
2. *reliable*: a frame that meets a full receive buffer is dropped and acknowledged
   all the same (`media_reliable.go:158`), so nobody sends it again, where
   `media_reliable.go:11` says "reliable, ordered delivery".

### Further divergences

The modules state these too. Each definition is refuted when it is the only property of
a copy of its module's configuration (for `HandshakeCompletes` with
`Configs <- MCResumed`, for `StopUnlists` that of `listing_life`):

| Definition | Code | What the comment says |
|---|---|---|
| `StopCleansUp` (`AcceptLoop`) | `api.go:878` publishes a group after a stop | `api.go:1070` "stops the proxy server and cleans up resources." |
| `DrainStopsOnlyIdle` (`AcceptLoop`) | `api.go:1660` stops a busy group while ICE is disconnected for a moment | `api.go:1652` "that have no active streams" |
| `StopCancelsConnect` (`ClientLifecycle`) | `api.go:2036` commits after `StopClient` | `api.go:2395` "Cancels mid-connect if needed." |
| `ReconnectHandlesRecovery` (`ClientLifecycle`) | `api.go:2046` sets the callback after ICE may have failed | `api.go:2480` "reconnect callback handles recovery." |
| `StopUnlists` (`Discovery`) | `api.go:991` stores a registration after a stop | `api.go:1081` "Auto-unregister from discovery" |
| `StopEndsRenewals` (`PortMapping`) | `api.go:542` leaves the lease of a failed start, `upnp.go:416` removes the first it finds | `api.go:1070`, as above |
| `HandshakeCompletes` (`DtlsHandshake`) | `handshaker.go:356` ignores a repeated flight at the client of a resumed session | `conn.go:1121` "The other party may request retransmission of the last flight" |

Four more comments are met by exceptions of the properties above, which the runs reach:

- `media_reliable.go:11` "reliable, ordered delivery": after 65,536 messages a delayed
  copy of an old frame (`media_reliable.go:159`) is read in place of the new one.
- `upnp.go:462` "renews a UPnP port mapping before it expires": `upnpLeaseRenewEvery` is
  fixed while `golib/api.go` takes any `UpnpLeaseDuration`, and a failed renewal is ignored.
- `dnschannel.go:66` "waits for the response matched by txID": a second query with the ID
  takes the place of the first in `pending`, and the end of the first (`dnschannel.go:344`)
  removes the second.
- `tun.go:211` "Falls back to dnsCacheMaxTTL on parse error": a TTL of zero, which is no
  parse error, is cached for the maximum as well (`tun.go:260`).

Also met while modelling, and part of the models without a property of their own: a group
that ICE disconnects for a moment is stopped even if it is connected again by then
(`api.go:880`, `1660`); a dial fails on a session that closed after it was chosen, or on a
PeerConnection without sessions, which counts as the least loaded, while another works;
`MaxTotalStreams` is called server-wide (`server.go:131`) and holds per
PeerConnection; `reconnectOnce` is spent while `OnReconnectNeeded` is still nil; a
batch flushed after `close` opens channels on the closed pool; `SwapDialStream`
replaces the pool without a lock; a renewal selected during the removal of its mapping
adds it again.

## Proofs

Each module assumes only what its `ASSUME` says of the constants, so the theorems hold
for any number of sessions, streams, calls, messages and faults. The assumptions are
that bounds are natural numbers, the sizes the code divides by or fills up to positive
(`BatchMax`, `CacheMax`, `MaxPC`, `RenewEvery`, the number of sequence numbers), that
the ttl of a listing is longer than one heartbeat interval, that the streams of a group
are finitely many, and that the cases, options and queries come from the sets the
modules name.

Every safety property of a passing run is proved, those of `DtlsHandshake` apart. Each
proof follows one pattern: an inductive invariant that TLC had checked first, one lemma
per part of it that says which actions could disturb that part and why they do not, and
a last step in temporal logic.

**SessionHubProofs**: `TypeCorrect`, `RegistryIsLive`, `NoUpdateIsLost` and
`Refinement` (`Spec => ImplementsMailbox`). `NoLostUpdate` is not inductive: the
invariant `Inv` adds `RegistryLive`, the shape of a poster's walk (`PosterShape`: a
map, a rest or a current channel exist only inside the walk) and `FirstSend` (a
registered stream has sent something only if its slot is full, so that an empty slot
never makes it outdated). The argument is by who can lose a notification: a post
tells every registered stream or finds it about to read, a walk passes what it takes
to the channel, a stream that consumes its token re-reads, and the collector and a
restart empty the registry with the slots. Without `RegistryLive` a walk could tell a
stream of another key; without `PosterShape` a new post could overwrite the rest of
an unfinished walk. `Refinement` maps each step to one of `Mailbox` or to a stutter.

**DiscoveryProofs**: `ClosedOnce` (`CloseOnce`), `HeartbeatHasOwner`
(`HeartbeatOwned`) and `ExpiryMeansMisses` (`ExpiryNeedsMisses`). A channel is named by
the call that makes it in its last step. `CloseOnce` is preserved by every step but that
one, where it needs that the channel was not around before: `IssuedLate` says that a
channel exists only once its call has ended, and `NotBegun` that no call begins twice.
For ownership, the danger is the step that overwrites `heartbeatStop`: `Alone` says that,
unless registrations have overlapped, the one under way is the only one and
`heartbeatStop` is nil meanwhile. For expiry, `Aged` relates two clocks that no step reads
together: a listing is at most one interval older than the misses its goroutine has
counted, and that one only while a tick is still unserved.

**AcceptLoopProofs**: `GroupsKept` (`NoGroupLost`), `OffersAgree` (`OfferAgrees`),
`GroupsEnd` (`NoGroupOutlives`) and `AnswersTakenOnce` (`AnswerTakenOnce`).
Cancelled loops run on beside the current one and share its globals, so the invariant
`AcceptInv` first says whose groups are whose: `OwnGroups`, the groups a loop holds were
created by its own life and its new group is not its current one. On that rest
`OffersOwn` (the slot holds the offers of the group the loop will publish or has
published, of a stopped one, or nothing) and `AnswersOwn` (an answer is in one slot, and
once taken stays there only until it is cleared). `GroupsEnd` also needs `Current`: until a
late publication, the active group is the current one of the running life's loop, so that
the swap overwrites no group but the one it drains or stops; and `Looked`, that what the
holder of `mu` has looked at exists. `AnswerTakenOnce`, an action property, follows from
the invariant for one step.

**ClientLifecycleProofs**: `TunnelFollowsActive` (`TunnelDialsActive`), `ContextsOwn`
(`OwnContext`) and `GroupsHeld` (`NoGroupLeaked`), from `ClientInv`. The first needs that
the four globals of a running client are written together (`StateAgrees`). The others
need a mutual exclusion that no lock gives, since the mutex is dropped during requests:
at most one call that `StopClient` has not overtaken tries to connect (`OneAttempt`, by
`clientConnecting`), and at most one reconnects (`OneRevival`: only the active group is
up and has the callback, so nothing else can start another). `Held` then finds a holder
for every open group. All three parts are claimed until a call that was overtaken writes
the globals (`lateWrite`), and fail after that.

**PeerGroupProofs**: `PermitsMatch` (`PermitsBalanced`) and `WaitIsTruthful`
(`WaitTellsTruth`), from `GroupInv`. It adds to the properties what one PeerConnection
has reported (`GoodEnd`): every channel at most once, as ready or as failed, a session
only for a ready one, and `connected` only when all have reported. Reports are never
taken back, so what `WaitConnected` saw stays true. The semaphore is counted as the set
of the streams it serves, for any number of them.

**ReliableRTPProofs**: `NoSignalIsLost` (`NoLostSignal`), with the addition that a
reader about to wait has nothing to read, because it has held `readMu` since it
looked; and `InOrder` (`DeliveredInOrder`), for every number of messages and of sequence
numbers. Its invariant says that every frame, in the network, in `readCh` and in
`readBuf`, carries a message that its number stands for (`FramesGenuine`), that `readSeq`
counts what was delivered, and that what `readBuf` holds is among the next `SeqMod`
messages unless something stale was stored, which does no harm before the numbers wrap.

**PortMappingProofs**: `EngineOwned` (`EngineServesOwner`), `RenewalsListed`
(`RenewersListed`) and `MappingKept` (`MappedWhileRunning`). For the engine, the invariant
adds who may hold the instance between the sections of `StartClient`: at most one of
the server, the running client and the calls that have started it (`Owned`), as long as
no `instance.Close` has failed. For the leases, `LeaseInv` numbers them as they are made
(`Numbered`), pairs each listed lease with one goroutine that goes on (`Listed`), gives a
server on UPnP such a goroutine (`Renewed`), and says that the router holds what is left
of a lease granted when a goroutine of the port was last granted one, or a whole lease has
passed since (`Fresh`). `Fresh` has to speak of every goroutine of that port, those that
are already told to stop included: a late renewal by one of them starts a lease as
long as that of the others.

**TunnelDnsProofs**: `CacheBounded` (`TypeOK`), `AnswersOwn` (`AnswersMatch`) and
`OneResult` (`ResultOnce`), from `DnsInv`, which has a part for each. `Bounded` has the
types, the agreement of the cache with its list and the limits of pools and queues; it
rests on lemmas about the list (removing an element, moving it to the front and cutting
the end keep it without repetitions). `Matching` follows a response on its way: what is
registered under an ID has that ID and, without a clash, asks what the queries with that
ID on the channel ask; whatever waits in a goroutine or a result has the ID of its item
and, without a clash, answers its question, as does what is cached. `OnePlace` says
where an item may be: in the queue of its own pool, in one batch, or with one goroutine,
in that order, and without a result until then; and the items that a thread has still to
submit are in no place (`Ahead`, `Fresh`), so that a second submission never meets the
first.

Model-checked only:

- every liveness property (`UpdateReachesStream`, `StoppedLoopExits`, `FreshAfterUse`,
  `OfferRestored`, `DeadClientHandled`, `Ephemeral`, `ListedAgain`,
  `FullHandshakeCompletes`, `TokenGranted`, `StopEndsStreams`, `Delivery`, `EveryQueryEnds`), since the
  prover has no rules for fairness;
- `TypeOK`, `NetworkCannotAbort`, `KeysAgree` and `DataAtMostOnce` of `DtlsHandshake`.
  Their invariant would have to describe what two ends can have cached at every flight
  of every variant of the handshake, and an end handles the records of a datagram and the
  fragments of a message by folds over sequences, about which the prover has no induction.

## Not modelled

- The viewers of the discovery stream (`watch`, `notifyAll`): they read whole listings and
  nothing depends on them. A viewer that leaves while `notifyAll` sends on its channel
  makes the collector's goroutine panic; the same pattern is modelled in `SessionHub`.
- The UDP relay of the signaling server: it forwards between registered addresses,
  and no other part reads its state.
- Supabase rendezvous (a hosted service whose behaviour is not in the repository) and
  manual signaling (one exchange of codes by hand).
- In DTLS: connection IDs, the size limit of the fragment buffer, and a change of the
  randomisation seed while a handshake is under way.
- Byte formats and cryptography: signaling encryption and compression, padding,
  obfuscation, codecs, record ciphers. Payloads, SDP and ids are opaque values.
- Flow control of one data channel (`dcconn.go`), rate limits, counters, quality
  measurements and other uses of the clock without shared protocol state.
- TCP connections of the tunnel (`handleTCP`): bytes copied between two sockets.
- NAT classification with STUN: one sequence of probes whose result is only
  displayed; the functions of `nat/cache.go` have no caller.
- The log ring buffer, whose reader asks for a negative capacity when the log was cleared
  behind its cursor (`applog.go:96`), and pure helpers.
- The Kotlin services and the Flutter interface: any order of their calls is allowed.
