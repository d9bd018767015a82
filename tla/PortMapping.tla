---------------------------- MODULE PortMapping -----------------------------
(***************************************************************************)
(* The port-mapped path (golib/nat/upnp.go, golib/nat/pmp.go,              *)
(* golib/xray/engine.go and the branches of golib/api.go that use them).   *)
(* The server maps a port at the router with UPnP, NAT-PMP or PCP, keeps a *)
(* UPnP mapping alive with a goroutine per lease, and serves with xray; a  *)
(* client connects through xray as well.  There is one xray instance in    *)
(* the process.  StartServer and StopServer hold mu throughout, StartClient *)
(* only in parts, and renewals take no lock at all.                        *)
(*                                                                         *)
(* Time is counted in ticks.  The router, the gateways' answers and the    *)
(* engine inside xray are external.                                        *)
(***************************************************************************)
EXTENDS Integers, Sequences, FiniteSets, SequencesExt, Functions

CONSTANTS
    Cases,       \* settings and bounds, a set of Settings
    ListenPort,  \* cfg.ListenPort
    Ports,       \* what randomPort may return
    Gateways,    \* bound: the most IGD clients discovered
    Retries,     \* MappingRetries
    RenewEvery,  \* upnpLeaseRenewEvery, in ticks
    PMPLifetime, \* lifetime of a NAT-PMP or PCP mapping, in ticks
    Calls        \* the StartClient calls, in this order

(* What the user chose, how many StartClient calls there are, and how often  *)
(* each kind of step may happen.                                             *)
Settings ==
    [natMethod : {"auto", "upnp", "holepunch"}, lease : Nat, calls : Nat,
     budget : [{"tick", "start", "xray", "close"} -> Nat]]

ASSUME ConstantsAssumption ==
    /\ {Gateways, Retries, RenewEvery, PMPLifetime} \subseteq Nat \ {0}
    /\ Cases \subseteq Settings

VARIABLES
    case,      \* a member of Cases; its budgets count down
    at,        \* the step of StartServer or StopServer that holds mu, "free" if none does
    gateway,   \* TryUPnP: the client it tries and how many there are
    attempt,   \* TryUPnP: attempts
    server,    \* serverRunning and serverInfo: the method and the port
    leases,    \* activeLeases
    renewer,   \* the goroutines of renewLease, as a set of records, see Lease
    ids,       \* bound: leases made so far
    router,    \* the mappings at the router: port -> ticks left, or Forever
    instance,  \* xray: who started the running instance, or "none"
    client,    \* clientConnecting and clientRunning
    call,      \* call[k]: the step of a StartClient call
    unclosed   \* an instance.Close has returned an error

vars == <<case, at, gateway, attempt, server, leases, renewer, ids, router, instance, client,
          call, unclosed>>
upnp == <<gateway, attempt>>
lease == <<leases, renewer, ids>>
clients == <<client, call>>

Forever == -1
NoServer == [up |-> FALSE, method |-> "none", port |-> 0]

Init ==
    /\ case \in Cases
    /\ at = "free" /\ gateway = [now |-> 0, all |-> 0] /\ attempt = 0
    /\ server = NoServer
    /\ leases = <<>> /\ renewer = {} /\ ids = 0
    /\ router = [p \in {} |-> 0]
    /\ instance = "none" /\ unclosed = FALSE
    /\ client = [connecting |-> FALSE, running |-> FALSE]
    /\ call = [k \in Calls |-> "idle"]

Spend(k) == case.budget[k] > 0 /\ case' = [case EXCEPT !.budget[k] = @ - 1]

-----------------------------------------------------------------------------
(* The router and the leases. *)

(* A duration of zero is indefinite. *)
Left(duration) == IF duration = 0 THEN Forever ELSE duration

Mapped(p, duration) ==
    router' = [q \in DOMAIN router \cup {p} |-> IF q = p THEN Left(duration) ELSE router[q]]

(* Mutant: the ticker runs with the lease. *)
AtExpiry(duration) == Left(duration)

(* The period of the ticker, whatever the lease is. *)
Period(duration) == RenewEvery

(* The goroutine of a lease; refused tells how its last call went, which the *)
(* code does not look at.                                                    *)
Lease(p, duration) ==
    [id |-> ids, port |-> p, duration |-> duration, due |-> Period(duration), calls |-> FALSE,
     stopped |-> FALSE, refused |-> FALSE]

(* A mapping was added: the lease is listed and its renewal started. *)
AddLease(p, duration) ==
    /\ Mapped(p, duration)
    /\ ids' = ids + 1
    /\ leases' = Append(leases, [id |-> ids, port |-> p])
    /\ renewer' = renewer \cup {Lease(p, duration)}

Replace(r, s) == renewer' = (renewer \ {r}) \cup {s}

(* The select of renewLease: with both channels ready, either is taken. *)
RenewFires(r) ==
    /\ ~r.calls /\ r.due = 0
    /\ Replace(r, [r EXCEPT !.calls = TRUE, !.due = Period(r.duration)])
    /\ UNCHANGED <<case, at, upnp, server, leases, ids, router, instance, clients, unclosed>>

(* The AddPortMapping of a renewal returns: the router has the mapping with  *)
(* its whole lease, or the call failed and the loop carries on all the same. *)
RenewDone(r) ==
    /\ r.calls
    /\ \/ Mapped(r.port, r.duration) /\ Replace(r, [r EXCEPT !.calls = FALSE, !.refused = FALSE])
       \/ UNCHANGED router /\ Replace(r, [r EXCEPT !.calls = FALSE, !.refused = TRUE])
    /\ UNCHANGED <<case, at, upnp, server, leases, ids, instance, clients, unclosed>>

RenewExits(r) ==
    /\ r.stopped /\ ~r.calls
    /\ renewer' = renewer \ {r}
    /\ UNCHANGED <<case, at, upnp, server, leases, ids, router, instance, clients, unclosed>>

(* Time passes while no call of the API is under way and no tick is due. *)
Tick ==
    /\ Spend("tick")
    /\ at = "free" /\ \A k \in Calls : call[k] \in {"idle", "over"}
    /\ \A r \in renewer : r.due > 0 /\ ~r.calls
    /\ renewer' = {[r EXCEPT !.due = @ - 1] : r \in renewer}
    /\ router' = [p \in {q \in DOMAIN router : router[q] # 1} |->
                    IF router[p] = Forever THEN Forever ELSE router[p] - 1]
    /\ UNCHANGED <<at, upnp, server, leases, ids, instance, clients, unclosed>>

-----------------------------------------------------------------------------
(* StartServer up to the choice of a method. *)

Goto(s) == at' = s

StartServer ==
    /\ at = "free" /\ ~server.up
    /\ Spend("start")
    /\ Goto(IF case.natMethod = "holepunch" THEN "holepunch" ELSE "discover")
    /\ UNCHANGED <<upnp, server, lease, router, instance, clients, unclosed>>

(* clientsFromLocations: the IGD services of the devices that were found. *)
Found(n) == gateway' = [now |-> 1, all |-> n] /\ Goto("address")

(* discoverUPnPClients tries SSDP, then the usual addresses of gateways. *)
DiscoverViaSSDP ==
    /\ at = "discover"
    /\ \/ \E n \in 1..Gateways : Found(n)
       \/ Goto("bruteforce") /\ UNCHANGED gateway
    /\ UNCHANGED <<case, attempt, server, lease, router, instance, clients, unclosed>>

DiscoverBruteForce ==
    /\ at = "bruteforce"
    /\ \/ \E n \in 1..Gateways : Found(n)
       \/ Goto("natpmp") /\ UNCHANGED gateway
    /\ UNCHANGED <<case, attempt, server, lease, router, instance, clients, unclosed>>

NextGateway ==
    /\ gateway' = [gateway EXCEPT !.now = @ + 1]
    /\ Goto(IF gateway.now < gateway.all THEN "address" ELSE "natpmp")

(* GetExternalIPAddress fails or gives a private address: the next client. *)
ExternalAddress ==
    /\ at = "address"
    /\ attempt' = 0
    /\ \/ Goto("add") /\ UNCHANGED gateway
       \/ NextGateway
    /\ UNCHANGED <<case, server, lease, router, instance, clients, unclosed>>

UPnPMapped(p) ==
    /\ Goto("xray")
    /\ server' = [server EXCEPT !.method = "upnp", !.port = p]

(* AddPortMapping with the port asked for and then with random ones; the     *)
(* first refusal is followed by a request for an indefinite lease.           *)
AddPortMapping ==
    /\ at = "add" /\ attempt < Retries
    /\ \E p \in IF attempt = 0 THEN {ListenPort} ELSE Ports :
          \/ AddLease(p, case.lease) /\ UPnPMapped(p) /\ UNCHANGED attempt
          \/ /\ IF attempt = 0 THEN Goto("indefinite") /\ UNCHANGED attempt
                               ELSE attempt' = attempt + 1 /\ UNCHANGED at
             /\ UNCHANGED <<server, lease, router>>
    /\ UNCHANGED <<case, gateway, instance, clients, unclosed>>

AddIndefinite ==
    /\ at = "indefinite"
    /\ \/ AddLease(ListenPort, 0) /\ UPnPMapped(ListenPort) /\ UNCHANGED attempt
       \/ Goto("add") /\ attempt' = 1 /\ UNCHANGED <<server, lease, router>>
    /\ UNCHANGED <<case, gateway, instance, clients, unclosed>>

OutOfAttempts ==
    /\ at = "add" /\ attempt = Retries
    /\ NextGateway
    /\ UNCHANGED <<case, attempt, server, lease, router, instance, clients, unclosed>>

(* tryNATPMP and tryPCP: the gateway may grant another port, and nobody      *)
(* renews the mapping.                                                       *)
Granted(method) ==
    \E p \in Ports \cup {ListenPort} :
        /\ Mapped(p, PMPLifetime)
        /\ Goto("xray")
        /\ server' = [server EXCEPT !.method = method, !.port = p]

tryNATPMP ==
    /\ at = "natpmp"
    /\ \/ Granted("natpmp")
       \/ Goto("pcp") /\ UNCHANGED <<server, router>>
    /\ UNCHANGED <<case, upnp, lease, instance, clients, unclosed>>

tryPCP ==
    /\ at = "pcp"
    /\ \/ Granted("pcp")
       \/ /\ Goto(IF case.natMethod = "upnp" THEN "free" ELSE "holepunch")
          /\ UNCHANGED <<server, router>>
    /\ UNCHANGED <<case, upnp, lease, instance, clients, unclosed>>

-----------------------------------------------------------------------------
(* xray. *)

(* Mutant: an instance that runs already is replaced. *)
StartReplaces(owner, ok) == ok

(* StartXray refuses a second instance, and may fail for other reasons. *)
StartXray(owner, ok) == ok /\ instance = "none"

(* StartXray by owner: an instance, or an error. *)
XrayStarts(owner) == StartXray(owner, TRUE) /\ instance' = owner /\ UNCHANGED case
XrayFails(owner) ==
    /\ UNCHANGED instance
    /\ \/ ~StartXray(owner, TRUE) /\ UNCHANGED case
       \/ Spend("xray")

(* StopXray forgets the instance whether or not Close fails. *)
StopXray == instance' = "none"
CloseFails == instance # "none" /\ Spend("close") /\ unclosed' = TRUE
Closes == UNCHANGED <<case, unclosed>>

(* The rest of StartServer: after an error the mapping and its lease stay. *)
ServeWithXray ==
    /\ at = "xray" /\ Goto("free")
    /\ \/ XrayStarts("server") /\ server' = [server EXCEPT !.up = TRUE]
       \/ XrayFails("server") /\ server' = NoServer
    /\ UNCHANGED <<upnp, lease, router, clients, unclosed>>

(* Hole punching takes over. *)
HolePunch ==
    /\ at = "holepunch" /\ Goto("free")
    /\ server' = [NoServer EXCEPT !.up = TRUE, !.method = "holepunch"]
    /\ UNCHANGED <<case, upnp, lease, router, instance, clients, unclosed>>

(* StopServer: an error of xray leaves the server running. *)
StopServer ==
    /\ at = "free" /\ server.up
    /\ \/ /\ server.method = "holepunch" /\ server' = NoServer
          /\ UNCHANGED <<case, at, instance, unclosed>>
       \/ /\ server.method # "holepunch" /\ StopXray
          /\ \/ CloseFails /\ UNCHANGED <<at, server>>
             \/ /\ Closes
                /\ IF server.method = "upnp" THEN Goto("remove") /\ UNCHANGED server
                   ELSE UNCHANGED at /\ server' = NoServer
    /\ UNCHANGED <<upnp, lease, router, clients>>

(* Mutant: the goroutine of the lease is not told. *)
RemoveSilently ==
    LET k == CHOOSE i \in DOMAIN leases : leases[i].port = server.port
    IN  /\ at = "remove" /\ Goto("free") /\ server' = NoServer
        /\ router' = Restrict(router, DOMAIN router \ {server.port})
        /\ leases' = RemoveAt(leases, k)
        /\ UNCHANGED <<case, upnp, renewer, ids, instance, clients, unclosed>>

(* RemoveUPnPMapping: the first lease with the port. *)
RemoveUPnPMapping ==
    LET mine == {i \in DOMAIN leases : leases[i].port = server.port}
        k == CHOOSE i \in mine : \A j \in mine : i <= j
    IN  /\ at = "remove" /\ Goto("free") /\ server' = NoServer
        /\ router' = Restrict(router, DOMAIN router \ {server.port})
        /\ leases' = RemoveAt(leases, k)
        /\ renewer' = {IF r.id = leases[k].id THEN [r EXCEPT !.stopped = TRUE] ELSE r : r \in renewer}
        /\ UNCHANGED <<case, upnp, ids, instance, clients, unclosed>>

-----------------------------------------------------------------------------
(* The client. *)

Client(k, s) == call' = [call EXCEPT ![k] = s]

(* The call returns with an error: its deferred function. *)
Return(k) == at = "free" /\ Client(k, "over") /\ client' = [client EXCEPT !.connecting = FALSE]

StartClient(k) ==
    /\ call[k] = "idle" /\ k <= case.calls /\ \A j \in Calls : j < k => call[j] # "idle"
    /\ at = "free"
    /\ IF client.connecting \/ client.running THEN Client(k, "over") /\ UNCHANGED client
       ELSE Client(k, "check") /\ client' = [client EXCEPT !.connecting = TRUE]
    /\ UNCHANGED <<case, at, upnp, server, lease, router, instance, unclosed>>

(* The first check for a cancellation. *)
CheckCancelled(k) ==
    /\ call[k] = "check" /\ at = "free"
    /\ Client(k, IF client.connecting THEN "xray" ELSE "failed")
    /\ UNCHANGED <<case, at, upnp, server, lease, router, instance, client, unclosed>>

ClientXray(k) ==
    /\ call[k] = "xray"
    /\ \/ XrayStarts("client") /\ Client(k, "tunnel")
       \/ XrayFails("client") /\ Client(k, "failed")
    /\ UNCHANGED <<at, upnp, server, lease, router, client, unclosed>>

(* The tunnel starts, or fails and xray is stopped again. *)
ClientTunnel(k) ==
    /\ call[k] = "tunnel"
    /\ \/ Client(k, "commit") /\ UNCHANGED <<case, instance>>
       \/ Spend("xray") /\ StopXray /\ Client(k, "failed")
    /\ UNCHANGED <<at, upnp, server, lease, router, client, unclosed>>

(* The state is updated, unless the connection was cancelled: then what was  *)
(* started is taken down, after the unlock.                                  *)
ClientCommit(k) ==
    /\ call[k] = "commit" /\ at = "free"
    /\ IF client.connecting
       THEN client' = [connecting |-> FALSE, running |-> TRUE] /\ Client(k, "over")
       ELSE Client(k, "teardown") /\ UNCHANGED client
    /\ UNCHANGED <<case, at, upnp, server, lease, router, instance, unclosed>>

ClientTeardown(k) ==
    /\ call[k] = "teardown"
    /\ StopXray /\ Client(k, "failed")
    /\ UNCHANGED <<case, at, upnp, server, lease, router, client, unclosed>>

ClientFailed(k) ==
    /\ call[k] = "failed" /\ Return(k)
    /\ UNCHANGED <<case, at, upnp, server, lease, router, instance, unclosed>>

(* StopClient: cancels a connect, and stops a running client; an error of    *)
(* xray leaves it running.                                                   *)
StopClient ==
    /\ at = "free" /\ (client.connecting \/ client.running)
    /\ \/ /\ ~client.running
          /\ client' = [client EXCEPT !.connecting = FALSE]
          /\ UNCHANGED <<case, instance, unclosed>>
       \/ /\ client.running /\ StopXray
          /\ \/ CloseFails /\ client' = [client EXCEPT !.connecting = FALSE]
             \/ Closes /\ client' = [connecting |-> FALSE, running |-> FALSE]
    /\ UNCHANGED <<at, upnp, server, lease, router, call>>

-----------------------------------------------------------------------------
ServerStep ==
    \/ StartServer \/ DiscoverViaSSDP \/ DiscoverBruteForce \/ ExternalAddress
    \/ AddPortMapping \/ AddIndefinite \/ OutOfAttempts \/ tryNATPMP \/ tryPCP \/ ServeWithXray \/ HolePunch \/ StopServer
    \/ RemoveUPnPMapping
ClientStep(k) ==
    \/ StartClient(k) \/ CheckCancelled(k) \/ ClientXray(k) \/ ClientTunnel(k) \/ ClientCommit(k)
    \/ ClientTeardown(k) \/ ClientFailed(k)
Next ==
    \/ ServerStep \/ StopClient \/ Tick
    \/ \E k \in Calls : ClientStep(k)
    \/ \E r \in renewer : RenewFires(r) \/ RenewDone(r) \/ RenewExits(r)

Spec == Init /\ [][Next]_vars

-----------------------------------------------------------------------------
(* Properties. *)

(* The values of the variables; an attempt never goes past MappingRetries,   *)
(* and a removal finds its lease.                                            *)
TypeOK ==
    /\ case \in Settings
    /\ at \in {"free", "discover", "bruteforce", "address", "add", "indefinite", "natpmp", "pcp", "xray",
               "holepunch", "remove"}
    /\ attempt \in 0..Retries /\ gateway.now \in 0..(gateway.all + 1)
    /\ at = "remove" => \E i \in DOMAIN leases : leases[i].port = server.port
    /\ instance \in {"none", "server", "client"}
    /\ \A k \in Calls : call[k] \in {"idle", "check", "xray", "tunnel", "commit", "teardown",
                                     "failed", "over"}

(* The ticks since goroutine r last heard from the router. *)
Age(r) == IF r.calls THEN RenewEvery ELSE RenewEvery - r.due

(* While the server runs on a UPnP mapping, goroutines renew its port, and   *)
(* the router has the mapping as long as one of them was not refused at its  *)
(* last call and made it less than a lease ago: for indefinite leases and    *)
(* those longer than upnpLeaseRenewEvery a failed renewal is the only way to *)
(* lose it, and the next one that succeeds brings it back.  A shorter lease, *)
(* which golib/api.go accepts, lapses before every renewal but no earlier    *)
(* than it says.  What earlier starts and stops left behind takes nothing    *)
(* away.                                                                     *)
MappedWhileRunning ==
    LET own == {r \in renewer : r.port = server.port /\ ~r.stopped}
    IN  server.up /\ at = "free" /\ server.method = "upnp" =>
            /\ own # {}
            /\ \/ server.port \in DOMAIN router
               \/ \A r \in own : r.refused \/ (case.lease # 0 /\ case.lease <= Age(r))

(* Every goroutine that goes on renewing belongs to a lease in activeLeases, *)
(* so that a later StopServer can end it, and every listed lease has one.    *)
RenewersListed ==
    {r.id : r \in {x \in renewer : ~x.stopped}} = {leases[i].id : i \in DOMAIN leases}

(* The one xray instance belongs to whoever counts on it: the server that    *)
(* runs on a mapped port, or the client that runs.  StartClient calls that   *)
(* were cancelled, failed or came too late never take it away.  It needs     *)
(* that instance.Close has not failed.                                       *)
EngineServesOwner ==
    ~unclosed =>
        /\ server.up /\ at = "free" /\ server.method # "holepunch" => instance = "server"
        /\ client.running => instance = "client"

(* When StopServer has removed the mapping, nothing renews one any more. *)
StopEndsRenewals == [][RemoveUPnPMapping => \A r \in renewer' : r.stopped]_vars
=============================================================================
