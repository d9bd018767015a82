----------------------------- MODULE PeerGroup -----------------------------
(***************************************************************************)
(* The two ends of a tunnel (golib/webrtc/group.go, server.go, client.go): *)
(* a ServerGroup and a ClientGroup of several PeerConnections, the smux    *)
(* sessions that the open callbacks of the data channels (or the media     *)
(* transport) create, WaitConnected, the choice of PeerConnection and      *)
(* session for a new stream, the server's accept loops with their          *)
(* semaphore, the ICE callbacks and Stop.                                  *)
(*                                                                         *)
(* A callback, a locked section, and a select are one step each.  The ICE  *)
(* agents, SCTP and smux are external; they are modelled by the callbacks  *)
(* and errors that the code handles.                                       *)
(***************************************************************************)
EXTENDS Integers, FiniteSets, FiniteSetsExt

CONSTANTS
    Configs,          \* option records, see Options
    MaxPC,            \* maxPeerConnections
    DefaultChannels,  \* the NumChannels that stands for 0
    Streams           \* bound: the streams dialled, numbered in that order

Ends == {"srv", "cli"}
FaultKinds == {"start", "down", "blip", "bad", "dtls", "timeout", "stop"}

Options ==
    [npc : Int, total : Nat, mode : {"data", "media"}, limit : Nat, waits : SUBSET Ends,
     dials : SUBSET Streams, targets : SUBSET BOOLEAN, faults : [FaultKinds -> Nat]]

ASSUME ConstantsAssumption ==
    /\ MaxPC \in Nat \ {0} /\ DefaultChannels \in Nat \ {0}
    /\ IsFiniteSet(Streams) /\ Configs \subseteq Options

VARIABLES
    cfg,      \* the options both sides run with; bounds: the ends whose callers
              \* wait, the streams dialled, and the faults left to happen
    end,      \* end[e][p]: the Server or Client of PeerConnection p, see NewEnd
    link,     \* link[p]: the network path of p: "new", "up" or "down"
    started,  \* started[e]: "no", "yes" or "failed", of StartServerGroup and
              \* StartClientGroup
    wait,     \* wait[e]: the WaitConnected of the group: its result and the
              \* PeerConnections it has heard an error of
    stream,   \* stream[s]: where stream s is, see Idle
    permits,  \* permits[p]: the tokens in totalStreamSem of server p
    once      \* reconnectOnce and OnReconnectNeeded of the client group

vars == <<cfg, end, link, started, wait, stream, permits, once>>

Peer(e) == CHOOSE o \in Ends : o # e

-----------------------------------------------------------------------------
(* How many PeerConnections a group has, and how many channels each of them. *)

Npc == IF cfg.npc <= 0 THEN 1 ELSE IF cfg.npc > MaxPC THEN MaxPC ELSE cfg.npc
PCs == 1..Npc
AllPCs == 1..MaxPC

distributeChannels(total, npc) ==
    [p \in 1..npc |-> total \div npc + (IF p <= total % npc THEN 1 ELSE 0)]

TotalChannels == IF cfg.total = 0 THEN DefaultChannels ELSE cfg.total

(* A share of 0 goes through the defaults of StartServer and StartClient. *)
numChannels(p) ==
    LET share == distributeChannels(TotalChannels, Npc)[p]
    IN  IF share = 0 THEN DefaultChannels ELSE share

Media == cfg.mode = "media"
Channels(p) == IF Media THEN {1} ELSE 1..numChannels(p)

-----------------------------------------------------------------------------
(* One Server or Client: sessions is the list of that name, open the smux    *)
(* sessions that are not closed, ready and bad the channels counted by       *)
(* readyCount and failedCount, alive is iceAlive, and connected, failed and  *)
(* done say whether the channel of that name is closed.  copied is what Stop *)
(* copied from sessions.                                                     *)

NewEnd == [sessions |-> {}, open |-> {}, ready |-> {}, bad |-> {},
           ice |-> "new", alive |-> FALSE, connected |-> FALSE, failed |-> FALSE,
           done |-> FALSE, copied |-> {}, closed |-> FALSE]

Closed == [NewEnd EXCEPT !.done = TRUE, !.closed = TRUE, !.failed = TRUE]

Idle == [at |-> "idle", pc |-> 1, ch |-> 1, held |-> FALSE, dns |-> FALSE]

Init ==
    /\ cfg \in Configs
    /\ end = [e \in Ends |-> [p \in PCs |-> NewEnd]]
    /\ link = [p \in PCs |-> "new"]
    /\ started = [e \in Ends |-> "no"]
    /\ wait = [e \in Ends |-> [res |-> "idle", heard |-> {}]]
    /\ stream = [s \in Streams |-> Idle]
    /\ permits = [p \in PCs |-> 0]
    /\ once = [spent |-> FALSE, wired |-> FALSE, set |-> FALSE, calls |-> 0]

Fault(kind) == cfg.faults[kind] > 0 /\ cfg' = [cfg EXCEPT !.faults[kind] = @ - 1]

End(e, p) == end[e][p]
Update(e, p, r) == end' = [end EXCEPT ![e][p] = r]

-----------------------------------------------------------------------------
(* Starting the groups. *)

(* When one PeerConnection cannot be created the earlier ones are stopped.   *)
StartGroup(e) ==
    /\ started[e] = "no"
    /\ e = "cli" => started["srv"] = "yes"
    /\ \/ started' = [started EXCEPT ![e] = "yes"] /\ UNCHANGED <<cfg, end>>
       \/ /\ Fault("start")
          /\ started' = [started EXCEPT ![e] = "failed"]
          /\ end' = [end EXCEPT ![e] = [p \in PCs |-> Closed]]
    /\ UNCHANGED <<link, wait, stream, permits, once>>

(* The last loop of StartClientGroup. *)
WireReconnect ==
    /\ started["cli"] = "yes" /\ ~once.wired
    /\ once' = [once EXCEPT !.wired = TRUE]
    /\ UNCHANGED <<cfg, end, link, started, wait, stream, permits>>

(* OnReconnectNeeded is set by the caller of StartClientGroup, after         *)
(* WaitConnected has returned.                                               *)
SetHandler ==
    /\ wait["cli"].res = "ok" /\ once.wired /\ ~once.set
    /\ once' = [once EXCEPT !.set = TRUE]
    /\ UNCHANGED <<cfg, end, link, started, wait, stream, permits>>

(* The path of p comes up once both ends have the description of the other.  *)
LinkUp(p) ==
    /\ \A e \in Ends : started[e] = "yes" /\ ~End(e, p).closed
    /\ link[p] = "new"
    /\ link' = [link EXCEPT ![p] = "up"]
    /\ UNCHANGED <<cfg, end, started, wait, stream, permits, once>>

LinkDown(p) ==
    /\ link[p] \in {"new", "up"} /\ started["cli"] = "yes"
    /\ Fault("down")
    /\ link' = [link EXCEPT ![p] = "down"]
    /\ UNCHANGED <<end, started, wait, stream, permits, once>>

-----------------------------------------------------------------------------
(* Channels open. *)

checkAllChannelsReady(r, p) ==
    [r EXCEPT !.connected =
        @ \/ (Cardinality(r.ready) + Cardinality(r.bad) = numChannels(p) /\ r.ready # {})]

(* OnOpen of data channel c.  On a PeerConnection that is closed already the *)
(* new session fails at its first read.                                      *)
OnOpen(e, p, c) ==
    /\ ~Media /\ link[p] = "up" /\ End(e, p).ice # "new"
    /\ c \in Channels(p) \ (End(e, p).ready \cup End(e, p).bad)
    /\ \/ /\ UNCHANGED cfg
          /\ Update(e, p, checkAllChannelsReady(
                [End(e, p) EXCEPT !.sessions = @ \cup {c}, !.ready = @ \cup {c},
                                  !.open = IF End(e, p).closed THEN @ ELSE @ \cup {c}], p))
       \/ /\ Fault("bad")
          /\ Update(e, p, checkAllChannelsReady([End(e, p) EXCEPT !.bad = @ \cup {c}], p))
    /\ UNCHANGED <<link, started, wait, stream, permits, once>>

(* The media transport has one session and does not wait for others; when it *)
(* cannot be made nothing is counted.                                        *)
setupMediaTransport(e, p) ==
    /\ Media /\ link[p] = "up" /\ End(e, p).ice # "new"
    /\ End(e, p).ready = {} /\ End(e, p).bad = {}
    /\ \/ /\ UNCHANGED cfg
          /\ Update(e, p,
                [End(e, p) EXCEPT !.sessions = @ \cup {1}, !.ready = {1}, !.connected = TRUE,
                                  !.open = IF End(e, p).closed THEN @ ELSE {1}])
       \/ Fault("bad") /\ Update(e, p, [End(e, p) EXCEPT !.bad = {1}])
    /\ UNCHANGED <<link, started, wait, stream, permits, once>>

-----------------------------------------------------------------------------
(* ICE and PeerConnection callbacks. *)

closeSessions(r) == [r EXCEPT !.open = @ \ r.sessions, !.sessions = {}]

(* onReconnectNeeded of a client, guarded by reconnectOnce, which is spent   *)
(* even while OnReconnectNeeded is still nil.                                *)
onReconnectNeeded ==
    once' = [once EXCEPT !.spent = TRUE,
                         !.calls = IF once.set /\ ~once.spent THEN @ + 1 ELSE @]

IceConnected(e, p) ==
    /\ link[p] = "up" /\ End(e, p).ice \in {"new", "disconnected"} /\ ~End(e, p).closed
    /\ Update(e, p, [End(e, p) EXCEPT !.ice = "connected", !.alive = TRUE])
    /\ UNCHANGED <<cfg, link, started, wait, stream, permits, once>>

(* Only the server takes a disconnection for the loss of the connection. *)
IceDisconnected(e, p) ==
    /\ End(e, p).ice = "connected" /\ ~End(e, p).closed
    /\ \/ link[p] = "down" /\ UNCHANGED cfg
       \/ link[p] = "up" /\ Fault("blip")
    /\ Update(e, p, [End(e, p) EXCEPT !.ice = "disconnected", !.alive = e = "cli"])
    /\ UNCHANGED <<link, started, wait, stream, permits, once>>

(* The client leaves its sessions open when it can ask for a reconnect. *)
IceFailed(e, p) ==
    LET lost == [End(e, p) EXCEPT !.ice = "failed", !.alive = FALSE, !.failed = TRUE]
    IN  /\ link[p] = "down" /\ ~End(e, p).closed
        /\ End(e, p).ice \in {"new", "disconnected"}
        /\ \/ e = "cli" /\ once.wired /\ onReconnectNeeded /\ Update(e, p, lost)
           \/ /\ e = "srv" \/ ~once.wired
              /\ Update(e, p, closeSessions(lost)) /\ UNCHANGED once
        /\ UNCHANGED <<cfg, link, started, wait, stream, permits>>

(* The PeerConnection fails although ICE is connected (DTLS). *)
PcFailed(e, p) ==
    LET lost == [End(e, p) EXCEPT !.failed = TRUE, !.alive = @ /\ e = "cli"]
    IN  /\ End(e, p).ice = "connected" /\ End(e, p).ready = {} /\ ~End(e, p).closed
        /\ Fault("dtls")
        /\ Update(e, p, IF e = "srv" THEN closeSessions(lost) ELSE lost)
        /\ UNCHANGED <<link, started, wait, stream, permits, once>>

(* A session whose other end is closed reads an error: at once when the path *)
(* still works, after the keepalive timeout otherwise.  It stays in the list. *)
SessionEnds(e, p, c) ==
    /\ c \in End(e, p).open
    /\ link[p] = "down" \/ (c \in End(Peer(e), p).ready /\ c \notin End(Peer(e), p).open)
    /\ Update(e, p, [End(e, p) EXCEPT !.open = @ \ {c}])
    /\ UNCHANGED <<cfg, link, started, wait, stream, permits, once>>

-----------------------------------------------------------------------------
(* WaitConnected of a group: one goroutine per PeerConnection. *)

BeginWait(e) ==
    /\ started[e] = "yes" /\ wait[e].res = "idle" /\ e \in cfg.waits
    /\ e = "cli" => once.wired
    /\ wait' = [wait EXCEPT ![e].res = "waiting"]
    /\ UNCHANGED <<cfg, end, link, started, stream, permits, once>>

(* The select of one Server or Client: connected, or failed, done, timeout.  *)
HearOk(e, p) ==
    /\ wait[e].res = "waiting" /\ p \notin wait[e].heard /\ End(e, p).connected
    /\ wait' = [wait EXCEPT ![e].res = "ok"]
    /\ UNCHANGED <<cfg, end, link, started, stream, permits, once>>

(* Mutant: the first error ends the wait. *)
HeardFirst(w, p) == [res |-> "err", heard |-> w.heard \cup {p}]

Heard(w, p) == [res |-> IF w.heard \cup {p} = PCs THEN "err" ELSE "waiting",
                heard |-> w.heard \cup {p}]

HearError(e, p) ==
    /\ wait[e].res = "waiting" /\ p \notin wait[e].heard
    /\ \/ (End(e, p).failed \/ End(e, p).done) /\ UNCHANGED cfg
       \/ Fault("timeout")
    /\ wait' = [wait EXCEPT ![e] = Heard(@, p)]
    /\ UNCHANGED <<end, link, started, stream, permits, once>>

-----------------------------------------------------------------------------
(* The client dials. *)

OnSession(s, p, c) == stream[s].held /\ stream[s].pc = p /\ stream[s].ch = c

NumStreams(p, c) ==
    IF c \in End("cli", p).open THEN Cardinality({s \in Streams : OnSession(s, p, c)}) ELSE 0

(* The sum of NumStreams over the sessions. *)
GetStreamCount(p) ==
    Cardinality({s \in Streams :
        \E c \in End("cli", p).sessions \cap End("cli", p).open : OnSession(s, p, c)})

Argmin(S, F(_)) == {x \in S : \A y \in S : F(x) <= F(y)}

(* The first PeerConnection with the fewest streams. *)
LeastLoaded == Min(Argmin(PCs, GetStreamCount))

Dialling(s) ==
    /\ s \in cfg.dials /\ stream[s].at = "idle" /\ wait["cli"].res = "ok"
    /\ \A t \in cfg.dials : t < s => stream[t].at # "idle"
    /\ \E dns \in cfg.targets :
         stream' = [stream EXCEPT ![s] = [Idle EXCEPT !.at = "picked", !.pc = LeastLoaded,
                                                      !.dns = dns]]
    /\ UNCHANGED <<cfg, end, link, started, wait, permits, once>>

(* The sessions that openStream may take: the only one, the least loaded of  *)
(* those that are not closed, any if all are.                                *)
openStream(p) ==
    LET sessions == End("cli", p).sessions
        usable == sessions \cap End("cli", p).open
    IN  IF usable = {} \/ Cardinality(sessions) = 1 THEN sessions
        ELSE Argmin(usable, LAMBDA c : NumStreams(p, c))

(* The scan of openStream, which holds no lock.  It is one step: a closed    *)
(* session stays closed, and the counts only say which open one is taken.    *)
ChooseSession(s) ==
    LET p == stream[s].pc
    IN  /\ stream[s].at = "picked"
        /\ \/ \E c \in openStream(p) :
                stream' = [stream EXCEPT ![s].at = "chosen", ![s].ch = c]
           \/ openStream(p) = {} /\ stream' = [stream EXCEPT ![s].at = "gone"]
        /\ UNCHANGED <<cfg, end, link, started, wait, permits, once>>

(* OpenStream of the session that was chosen and the write of the target     *)
(* header.  The dial fails when that session is closed by now.               *)
DialStream(s) ==
    LET usable == stream[s].ch \in End("cli", stream[s].pc).open
    IN  /\ stream[s].at = "chosen"
        /\ stream' = [stream EXCEPT ![s].at = IF usable THEN "sent" ELSE "gone", ![s].held = usable]
        /\ UNCHANGED <<cfg, end, link, started, wait, permits, once>>

(* The user of the stream closes it. *)
CloseStream(s) ==
    /\ stream[s].held
    /\ stream' = [stream EXCEPT ![s].held = FALSE]
    /\ UNCHANGED <<cfg, end, link, started, wait, permits, once>>

-----------------------------------------------------------------------------
(* The server accepts. *)

SrvOpen(s) == stream[s].ch \in End("srv", stream[s].pc).open

(* AcceptStream in the accept loop of the session, which takes no other      *)
(* stream until it has a token for this one.                                 *)
AcceptStream(s) ==
    /\ stream[s].at = "sent" /\ SrvOpen(s) /\ link[stream[s].pc] = "up"
    /\ \A t \in Streams : stream[t].at = "accepted" =>
          stream[t].pc # stream[s].pc \/ stream[t].ch # stream[s].ch
    /\ stream' = [stream EXCEPT ![s].at = "accepted"]
    /\ UNCHANGED <<cfg, end, link, started, wait, permits, once>>

(* The stream never reaches an accept loop. *)
StreamLost(s) ==
    /\ stream[s].at = "sent" /\ (~SrvOpen(s) \/ link[stream[s].pc] = "down")
    /\ stream[s].ch \in End("srv", stream[s].pc).ready
    /\ stream' = [stream EXCEPT ![s].at = "gone"]
    /\ UNCHANGED <<cfg, end, link, started, wait, permits, once>>

(* Mutant: the limit is not consulted. *)
TakePermitAlways(s) ==
    LET p == stream[s].pc
    IN  /\ stream[s].at = "accepted"
        /\ permits' = [permits EXCEPT ![p] = @ + 1]
        /\ stream' = [stream EXCEPT ![s].at = "served"]
        /\ UNCHANGED <<cfg, end, link, started, wait, once>>

(* A limit of 0 stands for no semaphore. *)
TakePermit(s) ==
    LET p == stream[s].pc
    IN  /\ stream[s].at = "accepted"
        /\ cfg.limit > 0 => permits[p] < cfg.limit
        /\ permits' = [permits EXCEPT ![p] = @ + 1]
        /\ stream' = [stream EXCEPT ![s].at = "served"]
        /\ UNCHANGED <<cfg, end, link, started, wait, once>>

Dismiss(s) ==
    /\ stream[s].at = "accepted" /\ End("srv", stream[s].pc).done
    /\ stream' = [stream EXCEPT ![s].at = "gone"]
    /\ UNCHANGED <<cfg, end, link, started, wait, permits, once>>

(* handleStream returns: a TCP target was unreachable, or is done, or has    *)
(* been silent for relayInactivityTimeout; a DNS channel is served until its *)
(* stream is at its end.                                                     *)
StreamEnded(s) ==
    ~stream[s].held \/ ~SrvOpen(s) \/ End("srv", stream[s].pc).done

(* Mutant: a handler that is told to stop returns without its token. *)
handleStreamKeeps(s) ==
    /\ stream[s].at = "served"
    /\ stream[s].dns => StreamEnded(s)
    /\ stream' = [stream EXCEPT ![s].at = "gone"]
    /\ permits' = [permits EXCEPT ![stream[s].pc] = IF StreamEnded(s) THEN @ ELSE @ - 1]
    /\ UNCHANGED <<cfg, end, link, started, wait, once>>

handleStream(s) ==
    /\ stream[s].at = "served"
    /\ stream[s].dns => StreamEnded(s)
    /\ stream' = [stream EXCEPT ![s].at = "gone"]
    /\ permits' = [permits EXCEPT ![stream[s].pc] = @ - 1]
    /\ UNCHANGED <<cfg, end, link, started, wait, once>>

-----------------------------------------------------------------------------
(* Stop of one Server or Client; the group stops them in turn. *)

Stop(e, p) ==
    /\ started[e] = "yes" /\ ~End(e, p).done
    /\ \A q \in PCs : q < p => End(e, q).closed
    /\ p = 1 => Fault("stop")
    /\ p # 1 => UNCHANGED cfg
    /\ Update(e, p, [End(e, p) EXCEPT !.done = TRUE, !.copied = End(e, p).sessions])
    /\ UNCHANGED <<link, started, wait, stream, permits, once>>

(* Mutant: the PeerConnection is left open. *)
StopCopiedOnly(e, p) ==
    /\ End(e, p).done /\ ~End(e, p).closed
    /\ Update(e, p, [End(e, p) EXCEPT !.open = @ \ End(e, p).copied, !.closed = TRUE,
                                      !.alive = FALSE, !.failed = TRUE])
    /\ UNCHANGED <<cfg, link, started, wait, stream, permits, once>>

(* The copied sessions are closed, then the PeerConnection, which ends every *)
(* session on it and runs the callbacks for the closed state.                *)
StopCloses(e, p) ==
    /\ End(e, p).done /\ ~End(e, p).closed
    /\ Update(e, p, [closeSessions(End(e, p)) EXCEPT !.open = {}, !.closed = TRUE,
                        !.ice = "closed", !.alive = FALSE, !.failed = TRUE])
    /\ UNCHANGED <<cfg, link, started, wait, stream, permits, once>>

-----------------------------------------------------------------------------
EndStep(e, p) ==
    \/ IceConnected(e, p) \/ IceDisconnected(e, p) \/ IceFailed(e, p) \/ PcFailed(e, p)
    \/ setupMediaTransport(e, p)
    \/ \E c \in Channels(p) : OnOpen(e, p, c) \/ SessionEnds(e, p, c)
    \/ HearOk(e, p) \/ HearError(e, p)
    \/ Stop(e, p) \/ StopCloses(e, p)

StreamStep(s) ==
    \/ Dialling(s) \/ ChooseSession(s) \/ DialStream(s) \/ CloseStream(s)
    \/ AcceptStream(s) \/ StreamLost(s) \/ TakePermit(s) \/ Dismiss(s) \/ handleStream(s)

Next ==
    \/ \E e \in Ends : StartGroup(e) \/ BeginWait(e)
    \/ WireReconnect \/ SetHandler
    \/ \E p \in PCs : LinkUp(p) \/ LinkDown(p)
    \/ \E e \in Ends, p \in PCs : EndStep(e, p)
    \/ \E s \in Streams : StreamStep(s)

(* The goroutines of Stop, of the accept loops and of the stream handlers    *)
(* run on.  A handler need not return while its stream is in use; once the   *)
(* stream has ended its reads fail, and a relay that still waits for its     *)
(* target ends after relayInactivityTimeout.                                 *)
Fairness ==
    /\ \A e \in Ends, p \in AllPCs : WF_vars(p \in PCs /\ StopCloses(e, p))
    /\ \A s \in Streams :
         WF_vars(TakePermit(s)) /\ WF_vars(Dismiss(s)) /\ WF_vars(StreamEnded(s) /\ handleStream(s))

Spec == Init /\ [][Next]_vars /\ Fairness

-----------------------------------------------------------------------------
(* Properties. *)

(* The fields of Server, Client and the groups have the values the code      *)
(* gives them, a session that is listed was counted as ready, and a stream   *)
(* is on a PeerConnection and a channel that exist.                          *)
TypeOK ==
    /\ cfg \in Options
    /\ \A e \in Ends, p \in PCs :
         /\ End(e, p).ready \cup End(e, p).bad \subseteq Channels(p)
         /\ End(e, p).sessions \cup End(e, p).open \cup End(e, p).copied
               \subseteq End(e, p).ready
         /\ End(e, p).ice \in {"new", "connected", "disconnected", "failed", "closed"}
    /\ link \in [PCs -> {"new", "up", "down"}]
    /\ \A s \in Streams : stream[s].pc \in PCs /\ stream[s].ch \in Channels(stream[s].pc)

(* The semaphore of a server: it holds one token for every stream that is    *)
(* being handled, never more than MaxTotalStreams of them, and none is left  *)
(* behind when a handler returns by any path.                                *)
PermitsBalanced ==
    \A p \in PCs :
        /\ permits[p] = Cardinality({s \in Streams : stream[s].at = "served" /\ stream[s].pc = p})
        /\ cfg.limit > 0 => permits[p] <= cfg.limit

(* Both WaitConnected methods: success means that every channel of some      *)
(* PeerConnection has reported and one of them made a session; an error      *)
(* means that all PeerConnections failed, stopped or timed out.              *)
WaitTellsTruth ==
    \A e \in Ends :
        /\ wait[e].res = "ok" => \E p \in PCs :
              End(e, p).ready # {} /\ End(e, p).ready \cup End(e, p).bad = Channels(p)
        /\ wait[e].res = "err" => wait[e].heard = PCs

(* The tokens of server p are all with streams that have not ended. *)
Busy(p) ==
    cfg.limit > 0 /\ Cardinality({s \in Streams : /\ stream[s].at = "served" /\ stream[s].pc = p
                                                 /\ ~StreamEnded(s)}) >= cfg.limit

(* An accept loop that waits for a token of totalStreamSem gets it, or gives *)
(* up at Stop, unless MaxTotalStreams streams are in use: streams that their *)
(* users have closed, or whose session is gone, never hold up a new one,     *)
(* whichever accept loop of the PeerConnection they came through.            *)
TokenGranted ==
    \A s \in Streams :
        (stream[s].at = "accepted") ~> (stream[s].at # "accepted" \/ Busy(stream[s].pc))

(* The server side of p has neither open sessions nor running handlers. *)
Finished(p) ==
    /\ End("srv", p).open = {}
    /\ permits[p] = 0
    /\ \A s \in Streams : stream[s].pc = p => stream[s].at # "accepted"

(* After Stop no session stays open and no handler keeps running, also when  *)
(* a channel opens between the copy of the list and the close of the         *)
(* PeerConnection, or an accept loop is waiting for a token.                 *)
StopEndsStreams ==
    \A p \in AllPCs : (p \in PCs /\ End("srv", p).done) ~> [](p \in PCs => Finished(p))
=============================================================================
