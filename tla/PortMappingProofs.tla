------------------------- MODULE PortMappingProofs --------------------------
(***************************************************************************)
(* The xray instance serves its owner, every renewal goroutine has its     *)
(* listed lease, and the router keeps the mapping of a running server, for *)
(* every number of StartClient calls, ports, gateways and leases.          *)
(***************************************************************************)
EXTENDS PortMapping, SequenceTheorems, WellFoundedInduction, TLAPS

(* The steps of a StartClient call between its StartXray and the moment it   *)
(* hands the instance over or stops it.                                      *)
Holds(k) == call[k] \in {"tunnel", "commit", "teardown"}

Methods == {"none", "upnp", "natpmp", "pcp", "holepunch"}
CallSteps == {"idle", "check", "xray", "tunnel", "commit", "teardown", "failed", "over"}
ServerInfo == [up : BOOLEAN, method : Methods, port : Ports \cup {ListenPort, 0}]

Types ==
    /\ server \in ServerInfo
    /\ client \in [connecting : BOOLEAN, running : BOOLEAN]
    /\ call \in [Calls -> CallSteps]
    /\ unclosed \in BOOLEAN

(* Only the step that removes the mapping runs under a server that is up. *)
StepsOfServer ==
    /\ at = "remove" => server.up
    /\ server.up => at \in {"free", "remove"}

(* At most one of the server, the client and the calls counts on the         *)
(* instance.                                                                 *)
Owned ==
    /\ server.up /\ server.method # "holepunch" /\ at # "remove" => instance = "server"
    /\ client.running => instance = "client"
    /\ \A k \in Calls : Holds(k) => instance = "client" /\ ~client.running
    /\ \A j, k \in Calls : Holds(j) /\ Holds(k) => j = k

IInv == Types /\ StepsOfServer /\ (~unclosed => Owned)

-----------------------------------------------------------------------------
(* What a reader of serverInfo sees when there is no server. *)
LEMMA NoServerInfo == NoServer \in ServerInfo /\ ~NoServer.up
  BY DEF NoServer, ServerInfo, Methods

(* No server, client or instance exists at the start of the process. *)
LEMMA InitOwned == Init => IInv
<1> SUFFICES ASSUME Init PROVE IInv
  OBVIOUS
<1>1. Types
  BY NoServerInfo DEF Init, Types, CallSteps
<1>2. StepsOfServer
  BY NoServerInfo DEF Init, StepsOfServer
<1>3. Owned
  <2>1. ~server.up /\ ~client.running
    BY NoServerInfo DEF Init
  <2>2. \A k \in Calls : ~Holds(k)
    BY DEF Init, Holds
  <2>3. QED BY <2>1, <2>2 DEF Owned
<1>4. QED BY <1>1, <1>2, <1>3 DEF IInv

(* The steps of StartServer before StartXray touch neither the client nor    *)
(* the instance, and there is no server yet.                                 *)
LEMMA MappingKeepsOwner ==
    ASSUME IInv,
           \/ StartServer \/ DiscoverViaSSDP \/ DiscoverBruteForce \/ ExternalAddress
           \/ AddPortMapping \/ AddIndefinite \/ OutOfAttempts \/ tryNATPMP \/ tryPCP
    PROVE  IInv'
<1>1. ASSUME NEW p \in Ports \cup {ListenPort}, NEW method \in Methods,
             server' = [server EXCEPT !.method = method, !.port = p]
      PROVE  server' \in ServerInfo
             /\ server'.up = server.up
  BY <1>1 DEF ServerInfo, IInv, Types
<1>2. SUFFICES /\ server' \in ServerInfo
               /\ UNCHANGED <<client, call, instance, unclosed>>
               /\ ~server.up /\ ~server'.up /\ at' # "remove"
  BY <1>2 DEF IInv, Types, StepsOfServer, Owned, Holds
<1>3. CASE StartServer
  BY <1>3 DEF StartServer, Goto, clients, IInv, Types
<1>4. CASE DiscoverViaSSDP \/ DiscoverBruteForce
  BY <1>4 DEF DiscoverViaSSDP, DiscoverBruteForce, Found, Goto, clients, IInv, Types, StepsOfServer
<1>5. CASE ExternalAddress \/ OutOfAttempts
  BY <1>5 DEF ExternalAddress, OutOfAttempts, NextGateway, Goto, clients, IInv, Types, StepsOfServer
<1>6. CASE AddPortMapping
  <2>1. UNCHANGED <<client, call, instance, unclosed>> /\ at = "add" /\ ~server.up
    BY <1>6 DEF AddPortMapping, clients, IInv, Types, StepsOfServer
  <2>2. PICK p \in Ports \cup {ListenPort} :
          \/ UPnPMapped(p)
          \/ at' \in {"indefinite", "add"} /\ UNCHANGED server
    BY <1>6, <2>1 DEF AddPortMapping, Goto
  <2>3. QED BY <1>1, <2>1, <2>2 DEF UPnPMapped, Goto, Methods, IInv, Types
<1>7. CASE AddIndefinite
  <2>1. UNCHANGED <<client, call, instance, unclosed>> /\ at = "indefinite" /\ ~server.up
    BY <1>7 DEF AddIndefinite, clients, IInv, Types, StepsOfServer
  <2>2. \/ UPnPMapped(ListenPort)
        \/ at' = "add" /\ UNCHANGED server
    BY <1>7 DEF AddIndefinite, Goto
  <2>3. QED BY <1>1, <2>1, <2>2 DEF UPnPMapped, Goto, Methods, IInv, Types
<1>8. CASE tryNATPMP \/ tryPCP
  <2>1. UNCHANGED <<client, call, instance, unclosed>> /\ at \in {"natpmp", "pcp"} /\ ~server.up
    BY <1>8 DEF tryNATPMP, tryPCP, clients, IInv, Types, StepsOfServer
  <2>2. \/ Granted("natpmp") \/ Granted("pcp")
        \/ at' \in {"pcp", "free", "holepunch"} /\ UNCHANGED server
    BY <1>8 DEF tryNATPMP, tryPCP, Goto
  <2>3. QED BY <1>1, <2>1, <2>2 DEF Granted, Goto, Methods, IInv, Types
<1>9. QED BY <1>3, <1>4, <1>5, <1>6, <1>7, <1>8

(* What StartServer and StopServer do with the instance. *)
LEMMA ServingKeepsOwner ==
    ASSUME IInv, ServeWithXray \/ HolePunch \/ StopServer \/ RemoveUPnPMapping
    PROVE  IInv'
<1>1. CASE ServeWithXray
  <2>1. /\ at = "xray" /\ at' = "free" /\ ~server.up /\ UNCHANGED <<client, call, unclosed>>
        /\ server' \in ServerInfo
    BY <1>1, NoServerInfo
       DEF ServeWithXray, XrayStarts, XrayFails, Goto, clients, ServerInfo, IInv, Types, StepsOfServer
  <2>2. \/ instance = "none" /\ instance' = "server"
        \/ UNCHANGED instance /\ ~server'.up
    BY <1>1, NoServerInfo DEF ServeWithXray, XrayStarts, XrayFails, StartXray
  <2>3. QED BY <2>1, <2>2 DEF IInv, Types, StepsOfServer, Owned, Holds
<1>2. CASE HolePunch
  <2>1. /\ at' = "free" /\ UNCHANGED <<instance, client, call, unclosed>>
        /\ server' = [up |-> TRUE, method |-> "holepunch", port |-> 0]
    BY <1>2 DEF HolePunch, Goto, NoServer, clients
  <2>2. server' \in ServerInfo /\ server'.method = "holepunch"
    BY <2>1 DEF ServerInfo, Methods
  <2>3. QED BY <2>1, <2>2 DEF IInv, Types, StepsOfServer, Owned, Holds
<1>3. CASE StopServer
  <2>1. at = "free" /\ server.up /\ UNCHANGED clients
    BY <1>3 DEF StopServer
  <2>2. CASE server.method = "holepunch"
    <3>1. server' = NoServer /\ UNCHANGED <<at, instance, client, call, unclosed>>
      BY <1>3, <2>2 DEF StopServer, clients
    <3>2. QED BY <2>1, <3>1, NoServerInfo DEF IInv, Types, StepsOfServer, Owned, Holds
  <2>3. CASE server.method # "holepunch"
    <3>0. /\ instance' = "none"
          /\ \/ CloseFails /\ UNCHANGED <<at, server>>
             \/ Closes /\ Goto("remove") /\ UNCHANGED server
             \/ Closes /\ UNCHANGED at /\ server' = NoServer
      BY <1>3, <2>3 DEF StopServer, StopXray
    <3>1. /\ instance' = "none" /\ unclosed' \in BOOLEAN /\ (unclosed => unclosed')
          /\ \/ unclosed' /\ UNCHANGED <<at, server>>
             \/ at' = "remove" /\ UNCHANGED server
             \/ UNCHANGED at /\ server' = NoServer
      BY <3>0 DEF CloseFails, Closes, Goto, IInv, Types
    <3>2. ~unclosed => instance = "server"
      BY <2>1, <2>3 DEF IInv, Owned
    <3>3. ~unclosed => ~client.running /\ \A k \in Calls : ~Holds(k)
      BY <3>2 DEF IInv, Owned
    <3>4. Types' /\ StepsOfServer'
      BY <2>1, <3>1, NoServerInfo DEF clients, IInv, Types, StepsOfServer
    <3>5. ~unclosed' => Owned'
      <4>1. SUFFICES ASSUME ~unclosed' PROVE Owned'
        OBVIOUS
      <4>2. ~client'.running /\ \A k \in Calls : ~Holds(k)'
        BY <2>1, <3>1, <3>3, <4>1 DEF clients, Holds, IInv, Types
      <4>3. server'.up => at' = "remove"
        BY <3>1, <4>1, NoServerInfo
      <4>4. QED BY <4>2, <4>3 DEF Owned
    <3>6. QED BY <3>4, <3>5 DEF IInv
  <2>4. QED BY <2>2, <2>3
<1>4. CASE RemoveUPnPMapping
  <2>1. at' = "free" /\ server' = NoServer /\ UNCHANGED <<instance, client, call, unclosed>>
    BY <1>4 DEF RemoveUPnPMapping, Goto, clients
  <2>2. QED BY <2>1, NoServerInfo DEF IInv, Types, StepsOfServer, Owned, Holds
<1>5. QED BY <1>1, <1>2, <1>3, <1>4

(* A call that holds the instance is the only one, and no other call gets    *)
(* past StartXray meanwhile.                                                 *)
LEMMA CallKeepsOwner ==
    ASSUME IInv, NEW k \in Calls, ClientStep(k)
    PROVE  IInv'
<1>1. /\ UNCHANGED <<at, server, unclosed>>
      /\ call' \in [Calls -> CallSteps]
      /\ \A j \in Calls \ {k} : call'[j] = call[j]
  <2>1. UNCHANGED <<at, server, unclosed>>
    BY DEF ClientStep, StartClient, CheckCancelled, ClientXray, ClientTunnel, ClientCommit,
           ClientTeardown, ClientFailed
  <2>2. \E s \in CallSteps : Client(k, s)
    BY DEF ClientStep, StartClient, CheckCancelled, ClientXray, ClientTunnel, ClientCommit,
           ClientTeardown, ClientFailed, Return, CallSteps
  <2>3. QED BY <2>1, <2>2 DEF Client, IInv, Types
<1>2. client' \in [connecting : BOOLEAN, running : BOOLEAN]
  <2>1. \/ UNCHANGED client
        \/ client' = [client EXCEPT !.connecting = TRUE]
        \/ client' = [client EXCEPT !.connecting = FALSE]
        \/ client' = [connecting |-> FALSE, running |-> TRUE]
    BY DEF ClientStep, StartClient, CheckCancelled, ClientXray, ClientTunnel, ClientCommit,
           ClientTeardown, ClientFailed, Return
  <2>2. client \in [connecting : BOOLEAN, running : BOOLEAN]
    BY DEF IInv, Types
  <2>3. /\ [client EXCEPT !.connecting = TRUE] \in [connecting : BOOLEAN, running : BOOLEAN]
        /\ [client EXCEPT !.connecting = FALSE] \in [connecting : BOOLEAN, running : BOOLEAN]
    BY <2>2
  <2>4. [connecting |-> FALSE, running |-> TRUE] \in [connecting : BOOLEAN, running : BOOLEAN]
    OBVIOUS
  <2>5. QED BY <2>1, <2>2, <2>3, <2>4
<1>3. Types' /\ StepsOfServer'
  BY <1>1, <1>2 DEF IInv, Types, StepsOfServer
<1>4. SUFFICES ASSUME Owned PROVE Owned'
  BY <1>1, <1>3 DEF IInv
<1>5. ASSUME ~Holds(k), ~Holds(k)', UNCHANGED instance, client'.running = client.running
      PROVE  Owned'
  BY <1>1, <1>4, <1>5 DEF Owned, Holds
<1>6. CASE StartClient(k)
  <2>1. /\ call[k] = "idle" /\ call'[k] \in {"check", "over"} /\ UNCHANGED instance
        /\ client'.running = client.running
    BY <1>6 DEF StartClient, Client, IInv, Types
  <2>2. QED BY <1>5, <2>1 DEF Holds
<1>7. CASE CheckCancelled(k)
  <2>1. /\ call[k] = "check" /\ call'[k] \in {"xray", "failed"} /\ UNCHANGED <<instance, client>>
    BY <1>7 DEF CheckCancelled, Client, IInv, Types
  <2>2. QED BY <1>5, <2>1 DEF Holds
<1>8. CASE ClientXray(k)
  <2>1. CASE XrayStarts("client")
    <3>1. instance = "none" /\ instance' = "client" /\ UNCHANGED client
      BY <1>8, <2>1 DEF ClientXray, XrayStarts, StartXray
    <3>2. ~client.running /\ \A j \in Calls : ~Holds(j)
      BY <1>4, <3>1 DEF Owned
    <3>3. \A j \in Calls \ {k} : ~Holds(j)'
      BY <1>1, <3>2 DEF Holds
    <3>4. ~(server.up /\ server.method # "holepunch" /\ at # "remove")
      BY <1>4, <3>1 DEF Owned
    <3>5. QED BY <1>1, <3>1, <3>2, <3>3, <3>4 DEF Owned
  <2>2. CASE XrayFails("client") /\ Client(k, "failed")
    <3>1. call[k] = "xray" /\ call'[k] = "failed" /\ UNCHANGED <<instance, client>>
      BY <1>8, <2>2 DEF ClientXray, XrayFails, Client, IInv, Types
    <3>2. QED BY <1>5, <3>1 DEF Holds
  <2>3. QED BY <1>8, <2>1, <2>2 DEF ClientXray
<1>9. ASSUME Holds(k), ~Holds(k)', client'.running = client.running
      PROVE  Owned'
  <2>1. ~client.running /\ \A j \in Calls : ~Holds(j)'
    BY <1>1, <1>4, <1>9 DEF Owned, Holds
  <2>2. ~(server.up /\ server.method # "holepunch" /\ at # "remove")
    BY <1>4, <1>9 DEF Owned
  <2>3. QED BY <1>1, <1>9, <2>1, <2>2 DEF Owned
<1>10. ASSUME Holds(k), Holds(k)', UNCHANGED <<instance, client>>
       PROVE  Owned'
  BY <1>1, <1>4, <1>10 DEF Owned, Holds
<1>11. CASE ClientTunnel(k)
  <2>1. /\ call[k] = "tunnel" /\ UNCHANGED client
        /\ \/ call'[k] = "commit" /\ UNCHANGED instance
           \/ call'[k] = "failed"
    BY <1>11 DEF ClientTunnel, Client, IInv, Types
  <2>2. QED BY <1>9, <1>10, <2>1 DEF Holds
<1>12. CASE ClientCommit(k)
  <2>1. call[k] = "commit" /\ UNCHANGED instance
    BY <1>12 DEF ClientCommit
  <2>2. CASE client.connecting
    <3>1. client'.running /\ call'[k] = "over"
      BY <1>12, <2>2 DEF ClientCommit, Client, IInv, Types
    <3>2. instance' = "client" /\ \A j \in Calls : ~Holds(j)'
      BY <1>1, <1>4, <2>1, <3>1 DEF Owned, Holds
    <3>3. ~(server.up /\ server.method # "holepunch" /\ at # "remove")
      BY <1>4, <2>1 DEF Owned, Holds
    <3>4. QED BY <1>1, <3>2, <3>3 DEF Owned
  <2>3. CASE ~client.connecting
    <3>1. call'[k] = "teardown" /\ UNCHANGED client
      BY <1>12, <2>3 DEF ClientCommit, Client, IInv, Types
    <3>2. QED BY <1>10, <2>1, <3>1 DEF Holds
  <2>4. QED BY <2>2, <2>3
<1>13. CASE ClientTeardown(k)
  <2>1. call[k] = "teardown" /\ call'[k] = "failed" /\ UNCHANGED client
    BY <1>13 DEF ClientTeardown, Client, IInv, Types
  <2>2. QED BY <1>9, <2>1 DEF Holds
<1>14. CASE ClientFailed(k)
  <2>1. /\ call[k] = "failed" /\ call'[k] = "over" /\ UNCHANGED instance
        /\ client'.running = client.running
    BY <1>14 DEF ClientFailed, Return, Client, IInv, Types
  <2>2. QED BY <1>5, <2>1 DEF Holds
<1>15. QED BY <1>6, <1>7, <1>8, <1>11, <1>12, <1>13, <1>14 DEF ClientStep

(* StopClient stops the instance only under a client that runs, and then no  *)
(* call and no server counts on it.                                          *)
LEMMA StopClientKeepsOwner ==
    ASSUME IInv, StopClient
    PROVE  IInv'
<1>1. UNCHANGED <<at, server, call>>
  BY DEF StopClient
<1>2. CASE ~client.running
  <2>1. /\ client' = [client EXCEPT !.connecting = FALSE]
        /\ UNCHANGED <<instance, unclosed>>
    BY <1>2 DEF StopClient
  <2>2. client' \in [connecting : BOOLEAN, running : BOOLEAN] /\ client'.running = client.running
    BY <2>1 DEF IInv, Types
  <2>3. QED BY <1>1, <2>1, <2>2 DEF IInv, Types, StepsOfServer, Owned, Holds
<1>3. CASE client.running
  <2>1. /\ instance' = "none"
        /\ \/ CloseFails /\ client' = [client EXCEPT !.connecting = FALSE]
           \/ Closes /\ client' = [connecting |-> FALSE, running |-> FALSE]
    BY <1>3 DEF StopClient, StopXray
  <2>2. /\ unclosed' \in BOOLEAN /\ (unclosed => unclosed')
        /\ client' \in [connecting : BOOLEAN, running : BOOLEAN]
        /\ unclosed' \/ ~client'.running
    <3>1. CASE CloseFails /\ client' = [client EXCEPT !.connecting = FALSE]
      <4>1. unclosed' = TRUE
        BY <3>1 DEF CloseFails
      <4>2. client' \in [connecting : BOOLEAN, running : BOOLEAN]
        BY <3>1 DEF IInv, Types
      <4>3. QED BY <4>1, <4>2
    <3>2. CASE Closes /\ client' = [connecting |-> FALSE, running |-> FALSE]
      <4>1. unclosed' = unclosed /\ unclosed \in BOOLEAN
        BY <3>2 DEF Closes, IInv, Types
      <4>2. client' \in [connecting : BOOLEAN, running : BOOLEAN] /\ ~client'.running
        BY <3>2
      <4>3. QED BY <4>1, <4>2
    <3>3. QED BY <2>1, <3>1, <3>2
  <2>3. Types' /\ StepsOfServer'
    BY <1>1, <2>2 DEF IInv, Types, StepsOfServer
  <2>4. ASSUME ~unclosed' PROVE Owned'
    <3>1. Owned /\ instance = "client" /\ ~client'.running
      BY <1>3, <2>2, <2>4 DEF IInv, Owned
    <3>2. \A k \in Calls : ~Holds(k)'
      BY <1>1, <1>3, <3>1 DEF Owned, Holds
    <3>3. ~(server.up /\ server.method # "holepunch" /\ at # "remove")
      BY <3>1 DEF Owned
    <3>4. QED BY <1>1, <3>1, <3>2, <3>3 DEF Owned
  <2>5. QED BY <2>3, <2>4 DEF IInv
<1>4. QED BY <1>2, <1>3

(* Renewals and the clock touch neither the server nor the client. *)
LEMMA RenewalsKeepOwner ==
    ASSUME IInv,
           \/ Tick \/ UNCHANGED vars
           \/ \E r \in renewer : RenewFires(r) \/ RenewDone(r) \/ RenewExits(r)
    PROVE  IInv'
<1>1. UNCHANGED <<at, server, instance, client, call, unclosed>>
  BY DEF Tick, RenewFires, RenewDone, RenewExits, clients, vars
<1>2. QED BY <1>1 DEF IInv, Types, StepsOfServer, Owned, Holds

(* The owner is kept by every step. *)
LEMMA OwnerKept == IInv /\ [Next]_vars => IInv'
  BY MappingKeepsOwner, ServingKeepsOwner, CallKeepsOwner, StopClientKeepsOwner, RenewalsKeepOwner
     DEF Next, ServerStep

(* The xray instance of golib/xray/engine.go belongs to the server that runs *)
(* on a mapped port or to the client that runs, whatever StartClient calls   *)
(* are under way, cancelled or failing (StartXray's refusal of a second      *)
(* instance and the order of StopXray and the flags of golib/api.go make     *)
(* this so), as long as no Close of an instance has failed.                  *)
THEOREM EngineOwned == Spec => []EngineServesOwner
<1>1. IInv => EngineServesOwner
  BY DEF IInv, Owned, EngineServesOwner
<1>2. QED BY InitOwned, OwnerKept, <1>1, PTL DEF Spec

-----------------------------------------------------------------------------
(* The leases of golib/nat/upnp.go.  A lease and its goroutine share a       *)
(* number, given once; the goroutine that goes on is the one of a listed     *)
(* lease; and a mapping has the rest of the lease that any goroutine of its  *)
(* port was granted last.                                                    *)

MapPorts == Ports \cup {ListenPort}
Renewer ==
    [id : Nat, port : MapPorts, duration : Nat, due : 0..RenewEvery, calls : BOOLEAN,
     stopped : BOOLEAN, refused : BOOLEAN]

Entry == [id : Nat, port : MapPorts]

LeaseTypes ==
    /\ case \in Settings
    /\ leases \in Seq(Entry)
    /\ renewer \subseteq Renewer /\ ids \in Nat
    /\ router \in [DOMAIN router -> Nat \cup {Forever}]

Numbered ==
    /\ \A r \in renewer : r.id < ids
    /\ \A i \in DOMAIN leases : leases[i].id < ids
    /\ \A r, q \in renewer : r.id = q.id => r = q
    /\ \A i, j \in DOMAIN leases : leases[i].id = leases[j].id => i = j

Listed ==
    /\ \A r \in renewer :
          ~r.stopped => \E i \in DOMAIN leases : leases[i].id = r.id /\ leases[i].port = r.port
    /\ \A i \in DOMAIN leases : \E r \in renewer : ~r.stopped /\ r.id = leases[i].id

(* The server that has a UPnP mapping has a goroutine that renews it. *)
Renewed ==
    /\ at = "remove" => server.method = "upnp"
    /\ server.method = "upnp" => \E r \in renewer : ~r.stopped /\ r.port = server.port

(* A mapping that was granted a whole lease n ticks ago, or later. *)
Kept(p, n) ==
    p \in DOMAIN router /\ (router[p] = Forever \/ (case.lease # 0 /\ router[p] + n >= case.lease))
Lapsed(n) == case.lease # 0 /\ case.lease <= n

Fresh ==
    /\ \A r \in renewer : r.duration \in {case.lease, 0}
    /\ server.method = "upnp" =>
          \A r \in renewer : r.port = server.port /\ ~r.refused =>
              Kept(server.port, Age(r)) \/ Lapsed(Age(r))

LeaseInv == LeaseTypes /\ Numbered /\ Listed /\ Renewed /\ Fresh

(* Spending a budget leaves the settings alone. *)
LEMMA SpendKeeps ==
    ASSUME case \in Settings, NEW k \in {"tick", "start", "xray", "close"}, Spend(k)
    PROVE  case' \in Settings /\ case'.lease = case.lease
<1>1. PICK n \in Nat : n = case.budget[k] /\ n > 0
  BY DEF Settings, Spend
<1> DEFINE b == [case.budget EXCEPT ![k] = n - 1]
<1>2. b \in [{"tick", "start", "xray", "close"} -> Nat]
  BY <1>1 DEF Settings
<1>3. case' = [case EXCEPT !.budget = b]
  BY <1>1 DEF Spend, Settings
<1> HIDE DEF b
<1>4. QED BY <1>2, <1>3 DEF Settings

(* What RemoveAt does to a list. *)
LEMMA RemoveAtParts ==
    ASSUME NEW S, NEW s \in Seq(S), NEW k \in DOMAIN s
    PROVE  /\ RemoveAt(s, k) \in Seq(S)
           /\ DOMAIN RemoveAt(s, k) = 1..(Len(s) - 1)
           /\ \A i \in 1..(Len(s) - 1) : RemoveAt(s, k)[i] = IF i < k THEN s[i] ELSE s[i + 1]
<1>1. k \in 1..Len(s)
  OBVIOUS
<1> DEFINE a == SubSeq(s, 1, k - 1)
           b == SubSeq(s, k + 1, Len(s))
<1>2. a \in Seq(S) /\ Len(a) = k - 1 /\ \A i \in 1..(k - 1) : a[i] = s[i]
  BY <1>1
<1>3. b \in Seq(S) /\ Len(b) = Len(s) - k /\ \A i \in 1..(Len(s) - k) : b[i] = s[k + i]
  BY <1>1
<1>4. RemoveAt(s, k) = a \o b
  BY DEF RemoveAt
<1> HIDE DEF a, b
<1>5. /\ a \o b \in Seq(S) /\ Len(a \o b) = Len(a) + Len(b)
      /\ \A i \in 1..(Len(a) + Len(b)) : (a \o b)[i] = IF i <= Len(a) THEN a[i] ELSE b[i - Len(a)]
  BY <1>2, <1>3, ConcatProperties
<1>6. Len(a) + Len(b) = Len(s) - 1
  BY <1>1, <1>2, <1>3
<1>7. DOMAIN (a \o b) = 1..(Len(s) - 1)
  BY <1>5, <1>6
<1>8. ASSUME NEW i \in 1..(Len(s) - 1)
      PROVE  (a \o b)[i] = IF i < k THEN s[i] ELSE s[i + 1]
  <2>1. CASE i < k
    BY <1>1, <1>2, <1>5, <1>6, <2>1
  <2>2. CASE ~(i < k)
    <3>1. i - Len(a) \in 1..(Len(s) - k) /\ k + (i - Len(a)) = i + 1
      BY <1>1, <1>2, <2>2
    <3>0. i \in 1..(Len(a) + Len(b)) /\ ~(i <= Len(a))
      BY <1>1, <1>2, <1>6, <2>2
    <3>2. (a \o b)[i] = b[i - Len(a)]
      BY <1>5, <3>0
    <3>3. b[i - Len(a)] = s[i + 1]
      BY <1>3, <3>1
    <3>4. QED BY <2>2, <3>2, <3>3
  <2>3. QED BY <2>1, <2>2
<1>9. QED BY <1>4, <1>5, <1>7, <1>8

(* How long ago a goroutine heard from the router. *)
LEMMA AgeType ==
    ASSUME NEW r \in Renewer
    PROVE  Age(r) \in Nat
<1>1. RenewEvery \in Nat /\ r.due \in 0..RenewEvery
  BY ConstantsAssumption DEF Renewer
<1>2. QED BY <1>1 DEF Age

(* There are no leases at the start. *)
LEMMA InitLeases == Init => LeaseInv
<1> SUFFICES ASSUME Init PROVE LeaseInv
  OBVIOUS
<1>1. LeaseTypes
  BY ConstantsAssumption DEF Init, LeaseTypes
<1>2. renewer = {} /\ DOMAIN leases = {} /\ server.method = "none" /\ at = "free"
  BY DEF Init, NoServer
<1>3. QED BY <1>1, <1>2 DEF LeaseInv, Numbered, Listed, Renewed, Fresh

(* A step that touches no lease and gives the server no UPnP mapping. *)
Elsewhere ==
    /\ UNCHANGED <<leases, renewer, ids>>
    /\ case' \in Settings /\ case'.lease = case.lease
    /\ at' = "remove" => server'.method = "upnp"
    /\ \/ server'.method # "upnp" /\ router' \in [DOMAIN router' -> Nat \cup {Forever}]
       \/ UNCHANGED router /\ server.method = "upnp" /\ server'.port = server.port

(* Such a step keeps what is known of the leases. *)
LEMMA ElsewhereKeeps ==
    ASSUME LeaseInv, Elsewhere
    PROVE  LeaseInv'
<1>1. LeaseTypes'
  BY DEF Elsewhere, LeaseInv, LeaseTypes
<1>2. Numbered' /\ Listed'
  BY DEF Elsewhere, LeaseInv, Numbered, Listed
<1>3. Renewed'
  BY DEF Elsewhere, LeaseInv, Renewed
<1>4. Fresh'
  BY DEF Elsewhere, LeaseInv, Fresh, Kept, Lapsed
<1>5. QED BY <1>1, <1>2, <1>3, <1>4 DEF LeaseInv

(* A renewal or a tick changes when a goroutine acts next, and nothing else  *)
(* of it.                                                                    *)
Same(r, q) ==
    r.id = q.id /\ r.port = q.port /\ r.duration = q.duration /\ r.stopped = q.stopped

Retimed ==
    /\ UNCHANGED <<at, server, leases, ids>>
    /\ case' \in Settings /\ case'.lease = case.lease
    /\ router' \in [DOMAIN router' -> Nat \cup {Forever}]
    /\ \A q \in renewer' : q \in Renewer /\ \E r \in renewer : Same(r, q)
    /\ \A r \in renewer : \E q \in renewer' : Same(r, q)
    /\ \A q, s \in renewer' : q.id = s.id => q = s

(* Then only the times need an argument. *)
LEMMA RetimedKeeps ==
    ASSUME LeaseInv, Retimed, Fresh'
    PROVE  LeaseInv'
<1>1. LeaseTypes'
  BY DEF Retimed, LeaseInv, LeaseTypes
<1>2. Numbered'
  BY DEF Retimed, Same, LeaseInv, Numbered
<1>3. Listed'
  BY DEF Retimed, Same, LeaseInv, Listed
<1>4. Renewed'
  BY DEF Retimed, Same, LeaseInv, Renewed
<1>5. QED BY <1>1, <1>2, <1>3, <1>4 DEF LeaseInv

(* The router after an AddPortMapping. *)
LEMMA MappedRouter ==
    ASSUME LeaseTypes, NEW p, NEW d \in Nat, Mapped(p, d)
    PROVE  /\ router' \in [DOMAIN router' -> Nat \cup {Forever}]
           /\ DOMAIN router' = DOMAIN router \cup {p}
           /\ \A q \in DOMAIN router \ {p} : router'[q] = router[q]
           /\ router'[p] = Left(d) /\ Left(d) \in Nat \cup {Forever}
<1>1. Left(d) \in Nat \cup {Forever}
  BY DEF Left
<1>2. DOMAIN router' = DOMAIN router \cup {p}
  BY DEF Mapped
<1>3. router'[p] = Left(d) /\ \A q \in DOMAIN router \ {p} : router'[q] = router[q]
  BY DEF Mapped
<1>4. router' \in [DOMAIN router' -> Nat \cup {Forever}]
  BY <1>1, <1>2, <1>3 DEF Mapped, LeaseTypes
<1>5. QED BY <1>1, <1>2, <1>3, <1>4

(* A mapping with a whole lease is kept, whenever it was granted last. *)
LEMMA WholeLease ==
    ASSUME NEW p \in DOMAIN router', NEW d \in {case.lease, 0}, case.lease \in Nat,
           router'[p] = Left(d), case'.lease = case.lease, NEW n \in Nat
    PROVE  Kept(p, n)'
<1>1. CASE d = 0
  BY <1>1 DEF Left, Kept
<1>2. CASE d # 0
  <2>1. router'[p] = case.lease /\ case.lease # 0
    BY <1>2 DEF Left
  <2>2. router'[p] + n >= case.lease
    BY <2>1
  <2>3. QED BY <2>1, <2>2 DEF Kept
<1>3. QED BY <1>1, <1>2

(* A step of one goroutine: what it does to the set of them. *)
LEMMA ReplaceKeeps ==
    ASSUME LeaseInv, NEW r \in renewer, NEW t \in Renewer, Same(r, t), Replace(r, t)
    PROVE  /\ \A q \in renewer' : q \in Renewer /\ \E x \in renewer : Same(x, q)
           /\ \A x \in renewer : \E q \in renewer' : Same(x, q)
           /\ \A q, s \in renewer' : q.id = s.id => q = s
  BY DEF LeaseInv, LeaseTypes, Numbered, Replace, Same

(* A tick of the goroutine's timer: the call that follows is under way. *)
LEMMA FiringKeeps ==
    ASSUME LeaseInv, NEW r \in renewer, RenewFires(r)
    PROVE  LeaseInv'
<1> DEFINE t == [r EXCEPT !.calls = TRUE, !.due = Period(r.duration)]
<1>1. r \in Renewer /\ RenewEvery \in 0..RenewEvery
  BY ConstantsAssumption DEF LeaseInv, LeaseTypes
<1>2. t \in Renewer /\ Same(r, t) /\ t.refused = r.refused
  BY <1>1 DEF Renewer, Same, Period
<1>a. Age(t) = Age(r)
  <2>1. ~r.calls /\ r.due = 0 /\ t.calls
    BY <1>1 DEF RenewFires, Renewer
  <2>2. RenewEvery - 0 = RenewEvery
    BY ConstantsAssumption
  <2>3. QED BY <2>1, <2>2 DEF Age
<1>3. Replace(r, t)
  BY DEF RenewFires
<1> HIDE DEF t
<1>4. UNCHANGED <<case, at, server, leases, ids, router>>
  BY DEF RenewFires
<1>5. Retimed
  BY <1>2, <1>3, <1>4, ReplaceKeeps DEF Retimed, LeaseInv, LeaseTypes
<1>6. Fresh'
  <2>1. ASSUME NEW q \in renewer'
        PROVE  \E x \in renewer : Same(x, q) /\ q.refused = x.refused /\ Age(q) = Age(x)
    BY <1>2, <1>3, <1>a DEF Replace, Same
  <2>2. QED BY <1>4, <2>1 DEF LeaseInv, Fresh, Kept, Lapsed, Same
<1>7. QED BY <1>5, <1>6, RetimedKeeps

(* A renewal that succeeds gives its port the whole lease again; one that    *)
(* fails is remembered.                                                      *)
LEMMA RenewalKeeps ==
    ASSUME LeaseInv, NEW r \in renewer, RenewDone(r)
    PROVE  LeaseInv'
<1>1. r \in Renewer /\ r.duration \in {case.lease, 0} /\ case.lease \in Nat
  BY DEF LeaseInv, LeaseTypes, Fresh, Settings
<1>2. PICK t \in Renewer : /\ Same(r, t) /\ Replace(r, t)
                           /\ Mapped(r.port, r.duration) \/ (UNCHANGED router /\ t.refused)
  <2> DEFINE g == [r EXCEPT !.calls = FALSE, !.refused = FALSE]
             f == [r EXCEPT !.calls = FALSE, !.refused = TRUE]
  <2>1. g \in Renewer /\ Same(r, g) /\ f \in Renewer /\ Same(r, f) /\ f.refused
    BY <1>1 DEF Renewer, Same
  <2>2. \/ Mapped(r.port, r.duration) /\ Replace(r, g)
        \/ UNCHANGED router /\ Replace(r, f)
    BY DEF RenewDone
  <2> HIDE DEF g, f
  <2>3. QED BY <2>1, <2>2
<1>3. UNCHANGED <<case, at, server, leases, ids>>
  BY DEF RenewDone
<1>4. ASSUME Mapped(r.port, r.duration)
      PROVE  /\ router' \in [DOMAIN router' -> Nat \cup {Forever}]
             /\ DOMAIN router' = DOMAIN router \cup {r.port}
             /\ \A q \in DOMAIN router \ {r.port} : router'[q] = router[q]
             /\ router'[r.port] = Left(r.duration)
  <2>1. r.duration \in Nat /\ LeaseTypes
    BY <1>1 DEF LeaseInv
  <2>2. QED BY <1>4, <2>1, MappedRouter
<1>5. router' \in [DOMAIN router' -> Nat \cup {Forever}]
  BY <1>2, <1>4 DEF LeaseInv, LeaseTypes
<1>6. Retimed
  BY <1>2, <1>3, <1>5, ReplaceKeeps DEF Retimed, LeaseInv, LeaseTypes
<1>7. \A q \in renewer' : q.duration \in {case.lease, 0}
  BY <1>6 DEF LeaseInv, Fresh, Retimed, Same
<1>8. ASSUME server.method = "upnp", NEW q \in renewer', q.port = server.port, ~q.refused
      PROVE  (Kept(server.port, Age(q)) \/ Lapsed(Age(q)))'
  <2>1. CASE Mapped(r.port, r.duration) /\ server.port = r.port
    <3>1. r.port \in DOMAIN router' /\ router'[r.port] = Left(r.duration) /\ Age(q) \in Nat
      BY <1>4, <1>6, <2>1, AgeType DEF Retimed
    <3>2. Kept(r.port, Age(q))'
      <4>1. PICK n \in Nat : n = Age(q)
        BY <3>1
      <4>2. Kept(r.port, n)'
        BY <1>1, <1>3, <3>1, WholeLease
      <4>3. QED BY <1>3, <4>1, <4>2 DEF Kept, Age
    <3>3. QED BY <1>3, <2>1, <3>2 DEF Kept, Age
  <2>2. CASE Mapped(r.port, r.duration) /\ server.port # r.port
    <3>1. q \in renewer
      BY <1>2, <1>8, <2>2 DEF Replace, Same
    <3>2. Kept(server.port, Age(q)) \/ Lapsed(Age(q))
      BY <1>8, <3>1 DEF LeaseInv, Fresh
    <3>3. server.port \in DOMAIN router =>
            server.port \in DOMAIN router' /\ router'[server.port] = router[server.port]
      BY <1>4, <2>2
    <3>4. QED BY <1>3, <3>2, <3>3 DEF Kept, Lapsed, Age
  <2>3. CASE UNCHANGED router /\ t.refused
    <3>1. q \in renewer
      BY <1>2, <1>8, <2>3 DEF Replace
    <3>2. Kept(server.port, Age(q)) \/ Lapsed(Age(q))
      BY <1>8, <3>1 DEF LeaseInv, Fresh
    <3>3. QED BY <1>3, <2>3, <3>2 DEF Kept, Lapsed, Age
  <2>4. QED BY <1>2, <2>1, <2>2, <2>3
<1>9. Fresh'
  BY <1>3, <1>7, <1>8 DEF Fresh
<1>10. QED BY <1>6, <1>9, RetimedKeeps

(* A goroutine that ends had been stopped. *)
LEMMA ExitKeeps ==
    ASSUME LeaseInv, NEW r \in renewer, RenewExits(r)
    PROVE  LeaseInv'
<1>1. /\ UNCHANGED <<case, at, server, leases, ids, router>>
      /\ renewer' = renewer \ {r} /\ r.stopped
  BY DEF RenewExits
<1>2. LeaseTypes' /\ Numbered'
  BY <1>1 DEF LeaseInv, LeaseTypes, Numbered
<1>3. Listed'
  BY <1>1 DEF LeaseInv, Listed
<1>4. Renewed'
  BY <1>1 DEF LeaseInv, Renewed
<1>5. Fresh'
  BY <1>1 DEF LeaseInv, Fresh, Kept, Lapsed
<1>6. QED BY <1>2, <1>3, <1>4, <1>5 DEF LeaseInv

(* A tick takes from a mapping what it adds to the time since it was         *)
(* granted.                                                                  *)
LEMMA TickKeeps ==
    ASSUME LeaseInv, Tick
    PROVE  LeaseInv'
<1>1. /\ UNCHANGED <<at, server, leases, ids>>
      /\ case' \in Settings /\ case'.lease = case.lease
  BY SpendKeeps DEF Tick, LeaseInv, LeaseTypes
<1>2. \A r \in renewer : r.due > 0 /\ ~r.calls
  BY DEF Tick
<1> DEFINE Later(r) == [r EXCEPT !.due = @ - 1]
<1>3. renewer' = {Later(r) : r \in renewer}
  BY DEF Tick
<1>4. ASSUME NEW r \in renewer
      PROVE  Later(r) \in Renewer /\ Same(r, Later(r)) /\ Later(r).due = r.due - 1
             /\ ~Later(r).calls /\ Later(r).refused = r.refused
  <2>1. r \in Renewer /\ r.due \in 0..RenewEvery /\ RenewEvery \in Nat
    BY ConstantsAssumption DEF LeaseInv, LeaseTypes, Renewer
  <2>2. r.due - 1 \in 0..RenewEvery
    BY <1>2, <2>1
  <2>3. QED BY <1>2, <2>1, <2>2 DEF Renewer, Same
<1> HIDE DEF Later
<1>5. /\ \A p \in DOMAIN router' : p \in DOMAIN router /\ router[p] # 1
      /\ \A p \in DOMAIN router : router[p] # 1 => p \in DOMAIN router'
      /\ \A p \in DOMAIN router' :
            router'[p] = IF router[p] = Forever THEN Forever ELSE router[p] - 1
      /\ router' = [p \in DOMAIN router' |-> router'[p]]
  BY DEF Tick
<1>6. ASSUME NEW p \in DOMAIN router' PROVE router'[p] \in Nat \cup {Forever}
  <2>1. router[p] \in Nat \cup {Forever} /\ router[p] # 1
    BY <1>5 DEF LeaseInv, LeaseTypes
  <2>2. QED BY <1>5, <2>1 DEF Forever
<1>7. router' \in [DOMAIN router' -> Nat \cup {Forever}]
  BY <1>5, <1>6
<1>8. Retimed
  <2>1. \A q \in renewer' : q \in Renewer /\ \E r \in renewer : Same(r, q)
    BY <1>3, <1>4
  <2>2. \A r \in renewer : \E q \in renewer' : Same(r, q)
    BY <1>3, <1>4
  <2>3. \A q, s \in renewer' : q.id = s.id => q = s
    BY <1>3, <1>4 DEF Same, LeaseInv, Numbered
  <2>4. QED BY <1>1, <1>7, <2>1, <2>2, <2>3 DEF Retimed
<1>9. \A q \in renewer' : q.duration \in {case.lease, 0}
  BY <1>8 DEF LeaseInv, Fresh, Retimed, Same
<1>10. ASSUME NEW r \in renewer
       PROVE  Age(r) \in Nat /\ Age(Later(r)) = Age(r) + 1
  <2>1. r \in Renewer /\ r.due \in 0..RenewEvery /\ RenewEvery \in Nat
    BY ConstantsAssumption DEF LeaseInv, LeaseTypes, Renewer
  <2>2. Age(r) = RenewEvery - r.due /\ Age(Later(r)) = RenewEvery - (r.due - 1)
    BY <1>2, <1>4 DEF Age
  <2>3. QED BY <2>1, <2>2
<1>11. ASSUME NEW p, NEW n \in Nat, Kept(p, n) \/ Lapsed(n)
       PROVE  (Kept(p, n + 1) \/ Lapsed(n + 1))'
  <2>1. case.lease \in Nat
    BY DEF LeaseInv, LeaseTypes, Settings
  <2>2. CASE Lapsed(n)
    BY <1>1, <2>1, <2>2 DEF Lapsed
  <2>3. CASE Kept(p, n)
    <3>1. p \in DOMAIN router /\ router[p] \in Nat \cup {Forever}
      BY <2>3 DEF Kept, LeaseInv, LeaseTypes
    <3>2. CASE router[p] = Forever
      BY <1>5, <3>1, <3>2 DEF Kept, Forever
    <3>3. CASE router[p] # Forever /\ router[p] # 1
      <4>1. p \in DOMAIN router' /\ router'[p] = router[p] - 1
        BY <1>5, <3>1, <3>3
      <4>2. case.lease # 0 /\ router[p] + n >= case.lease /\ router[p] \in Nat
        BY <2>3, <3>1, <3>3 DEF Kept
      <4>3. router'[p] + (n + 1) >= case.lease
        BY <2>1, <4>1, <4>2
      <4>4. QED BY <1>1, <4>1, <4>2, <4>3 DEF Kept
    <3>4. CASE router[p] = 1
      <4>1. case.lease # 0 /\ 1 + n >= case.lease
        BY <2>3, <3>4 DEF Kept, Forever
      <4>2. QED BY <1>1, <2>1, <4>1 DEF Lapsed
    <3>5. QED BY <3>2, <3>3, <3>4
  <2>4. QED BY <1>11, <2>2, <2>3
<1>12. ASSUME server.method = "upnp", NEW q \in renewer', q.port = server.port, ~q.refused
       PROVE  (Kept(server.port, Age(q)) \/ Lapsed(Age(q)))'
  <2>1. PICK r \in renewer : q = Later(r)
    BY <1>3
  <2>2. r.port = server.port /\ ~r.refused
    BY <1>4, <1>12, <2>1 DEF Same
  <2>3. PICK n \in Nat : n = Age(r) /\ Age(q) = n + 1
    BY <1>10, <2>1
  <2>4. Kept(server.port, n) \/ Lapsed(n)
    BY <1>12, <2>2, <2>3 DEF LeaseInv, Fresh
  <2>5. (Kept(server.port, n + 1) \/ Lapsed(n + 1))'
    BY <1>1, <1>11, <2>4 DEF Kept
  <2>6. QED BY <2>3, <2>5 DEF Age, Kept, Lapsed
<1>13. Fresh'
  BY <1>1, <1>9, <1>12 DEF Fresh
<1>14. QED BY <1>8, <1>13, RetimedKeeps

(* A lease is added with a number of its own, listed, and given a goroutine; *)
(* its port has a whole lease.                                               *)
LEMMA AddLeaseKeeps ==
    ASSUME IInv, LeaseInv, NEW p \in MapPorts, NEW d \in {case.lease, 0},
           AddLease(p, d), UPnPMapped(p), UNCHANGED case
    PROVE  LeaseInv'
<1>1. server'.method = "upnp" /\ server'.port = p /\ at' = "xray"
  BY DEF UPnPMapped, Goto, IInv, Types, ServerInfo
<1>2. d \in Nat /\ case.lease \in Nat
  BY DEF LeaseInv, LeaseTypes, Settings
<1>3. /\ router' \in [DOMAIN router' -> Nat \cup {Forever}]
      /\ DOMAIN router' = DOMAIN router \cup {p}
      /\ router'[p] = Left(d)
  BY <1>2, MappedRouter DEF AddLease, LeaseInv
<1>4. PICK l : l = Lease(p, d)
  OBVIOUS
<1>5. PICK e : e = [id |-> ids, port |-> p]
  OBVIOUS
<1>6. /\ l \in Renewer /\ l.id = ids /\ l.port = p /\ l.duration = d /\ ~l.stopped
      /\ e \in Entry /\ e.id = ids /\ e.port = p
  BY <1>2, <1>4, <1>5, ConstantsAssumption DEF Lease, Period, Renewer, Entry, LeaseInv, LeaseTypes
<1>7. renewer' = renewer \cup {l} /\ leases' = Append(leases, e) /\ ids' = ids + 1
  BY <1>4, <1>5 DEF AddLease
<1>8. /\ leases' \in Seq(Entry)
      /\ DOMAIN leases' = 1..(Len(leases) + 1)
      /\ leases'[Len(leases) + 1] = e
      /\ \A i \in DOMAIN leases : i \in 1..Len(leases) /\ leases'[i] = leases[i]
      /\ \A i \in DOMAIN leases' : i \in DOMAIN leases \/ i = Len(leases) + 1
  BY <1>6, <1>7 DEF LeaseInv, LeaseTypes
<1>9. LeaseTypes'
  BY <1>3, <1>6, <1>7, <1>8 DEF LeaseInv, LeaseTypes
<1>10. Numbered'
  <2>1. ids \in Nat /\ \A r \in renewer : r.id \in Nat
    BY DEF LeaseInv, LeaseTypes, Renewer
  <2>2. ASSUME NEW i \in DOMAIN leases PROVE leases[i].id \in Nat
    <3>1. leases[i] \in Entry
      BY DEF LeaseInv, LeaseTypes
    <3>2. QED BY <3>1 DEF Entry
  <2>3. (\A r \in renewer' : r.id < ids') /\ \A i \in DOMAIN leases' : leases'[i].id < ids'
    BY <1>6, <1>7, <1>8, <2>1, <2>2 DEF LeaseInv, Numbered
  <2>4. \A r, q \in renewer' : r.id = q.id => r = q
    BY <1>6, <1>7, <2>1 DEF LeaseInv, Numbered
  <2>5. \A i, j \in DOMAIN leases' : leases'[i].id = leases'[j].id => i = j
    BY <1>6, <1>8, <2>1, <2>2 DEF LeaseInv, Numbered
  <2>6. QED BY <2>3, <2>4, <2>5 DEF Numbered
<1>11. Listed'
  <2>1. \A i \in DOMAIN leases : i \in DOMAIN leases' /\ leases'[i] = leases[i]
    BY <1>8 DEF LeaseInv, LeaseTypes
  <2>2. Len(leases) + 1 \in DOMAIN leases'
    BY <1>8 DEF LeaseInv, LeaseTypes
  <2>3. ASSUME NEW r \in renewer', ~r.stopped
        PROVE  \E i \in DOMAIN leases' : leases'[i].id = r.id /\ leases'[i].port = r.port
    <3>1. CASE r = l
      BY <1>6, <1>8, <2>2, <3>1
    <3>2. CASE r \in renewer
      <4>1. PICK i \in DOMAIN leases : leases[i].id = r.id /\ leases[i].port = r.port
        BY <2>3, <3>2 DEF LeaseInv, Listed
      <4>2. QED BY <2>1, <4>1
    <3>3. QED BY <1>7, <3>1, <3>2
  <2>4. ASSUME NEW i \in DOMAIN leases'
        PROVE  \E r \in renewer' : ~r.stopped /\ r.id = leases'[i].id
    <3>1. CASE i = Len(leases) + 1
      BY <1>6, <1>7, <1>8, <3>1
    <3>2. CASE i \in DOMAIN leases
      <4>1. PICK r \in renewer : ~r.stopped /\ r.id = leases[i].id
        BY <3>2 DEF LeaseInv, Listed
      <4>2. QED BY <1>7, <2>1, <3>2, <4>1
    <3>3. QED BY <1>8, <3>1, <3>2
  <2>5. QED BY <2>3, <2>4 DEF Listed
<1>12. Renewed'
  BY <1>1, <1>6, <1>7 DEF Renewed
<1>13. Fresh'
  <2>1. \A r \in renewer' : r.duration \in {case.lease, 0}
    BY <1>6, <1>7 DEF LeaseInv, Fresh
  <2>2. ASSUME NEW r \in renewer' PROVE Kept(server.port, Age(r))'
    <3>1. PICK n \in Nat : n = Age(r)
      BY <1>9, AgeType DEF LeaseTypes
    <3>2. p \in DOMAIN router' /\ case'.lease = case.lease
      BY <1>3
    <3>3. Kept(p, n)'
      BY <1>2, <1>3, <3>2, WholeLease
    <3>4. QED BY <1>1, <3>1, <3>3 DEF Kept, Age
  <2>3. QED BY <2>1, <2>2 DEF Fresh
<1>14. QED BY <1>9, <1>10, <1>11, <1>12, <1>13 DEF LeaseInv

(* The goroutines that are told to stop are those of the lease that goes. *)
LEMMA RemovalKeeps ==
    ASSUME LeaseInv, RemoveUPnPMapping
    PROVE  LeaseInv'
<1> DEFINE mine == {i \in DOMAIN leases : leases[i].port = server.port}
           first == CHOOSE i \in mine : \A j \in mine : i <= j
           Told(r) == IF r.id = leases[first].id THEN [r EXCEPT !.stopped = TRUE] ELSE r
<1>1. /\ at = "remove" /\ at' = "free" /\ server' = NoServer /\ UNCHANGED <<case, ids>>
      /\ router' = Restrict(router, DOMAIN router \ {server.port})
      /\ leases' = RemoveAt(leases, first)
      /\ renewer' = {Told(r) : r \in renewer}
  BY DEF RemoveUPnPMapping, Goto
<1>2. PICK i0 \in mine : \A j \in mine : i0 <= j
  <2>1. mine \subseteq Nat /\ mine # {}
    <3>1. PICK r \in renewer : ~r.stopped /\ r.port = server.port
      BY <1>1 DEF LeaseInv, Renewed
    <3>2. PICK i \in DOMAIN leases : leases[i].port = server.port
      BY <3>1 DEF LeaseInv, Listed
    <3>3. DOMAIN leases \subseteq Nat
      BY DEF LeaseInv, LeaseTypes
    <3>4. QED BY <3>2, <3>3
  <2>2. PICK i \in mine : \A j \in mine : ~(<<j, i>> \in OpToRel(<, Nat))
    BY <2>1, NatLessThanWellFounded, WFMin
  <2>3. \A j \in mine : ~(j < i)
    BY <2>1, <2>2, Zenon DEF OpToRel
  <2>4. QED BY <2>1, <2>3
<1>3. PICK k \in DOMAIN leases : k = first
  BY <1>2
<1>4. PICK b \in Nat : b = leases[k].id
  <2>1. leases[k] \in Entry
    BY DEF LeaseInv, LeaseTypes
  <2>2. QED BY <2>1 DEF Entry
<1>5. /\ leases' \in Seq(Entry)
      /\ DOMAIN leases' = 1..(Len(leases) - 1)
      /\ \A i \in 1..(Len(leases) - 1) : leases'[i] = IF i < k THEN leases[i] ELSE leases[i + 1]
  BY <1>1, <1>3, RemoveAtParts DEF LeaseInv, LeaseTypes
<1>6. ASSUME NEW r \in renewer
      PROVE  /\ Told(r) \in Renewer /\ Told(r).id = r.id /\ Told(r).port = r.port
             /\ Told(r).duration = r.duration
             /\ Told(r).stopped <=> (r.stopped \/ r.id = b)
  BY <1>3, <1>4 DEF LeaseInv, LeaseTypes, Renewer
<1>7. \A i \in DOMAIN leases : i \in 1..Len(leases)
  BY DEF LeaseInv, LeaseTypes
<1> HIDE DEF mine, first, Told
<1> DEFINE Old(i) == IF i < k THEN i ELSE i + 1
<1>8. /\ \A i \in DOMAIN leases' : Old(i) \in DOMAIN leases \ {k} /\ leases'[i] = leases[Old(i)]
      /\ \A i, j \in DOMAIN leases' : Old(i) = Old(j) => i = j
  <2>1. Len(leases) \in Nat /\ DOMAIN leases = 1..Len(leases)
    BY DEF LeaseInv, LeaseTypes
  <2>2. ASSUME NEW i \in 1..(Len(leases) - 1)
        PROVE  Old(i) \in 1..Len(leases) /\ Old(i) # k /\ leases'[i] = leases[Old(i)]
    <3>1. Old(i) \in 1..Len(leases) /\ Old(i) # k
      BY <2>1
    <3>2. leases'[i] = leases[Old(i)]
      BY <1>5
    <3>3. QED BY <3>1, <3>2
  <2>3. \A i, j \in 1..(Len(leases) - 1) : Old(i) = Old(j) => i = j
    BY <2>1
  <2>4. QED BY <1>5, <2>1, <2>2, <2>3
<1>9. ASSUME NEW j \in DOMAIN leases \ {k} PROVE \E i \in DOMAIN leases' : j = Old(i)
  <2>1. CASE j < k
    BY <1>5, <1>7, <2>1
  <2>2. CASE j > k
    <3>1. j - 1 \in DOMAIN leases' /\ Old(j - 1) = j
      BY <1>5, <1>7, <2>2
    <3>2. QED BY <3>1
  <2>3. QED BY <1>7, <2>1, <2>2
<1> HIDE DEF Old
<1>10. LeaseTypes'
  <2>1. router' \in [DOMAIN router' -> Nat \cup {Forever}]
    BY <1>1 DEF Restrict, LeaseInv, LeaseTypes
  <2>2. renewer' \subseteq Renewer
    BY <1>1, <1>6
  <2>3. QED BY <1>1, <1>5, <2>1, <2>2 DEF LeaseInv, LeaseTypes
<1>11. Numbered'
  <2>1. (\A r \in renewer' : r.id < ids') /\ \A r, q \in renewer' : r.id = q.id => r = q
    BY <1>1, <1>6 DEF LeaseInv, Numbered
  <2>2. \A i \in DOMAIN leases' : leases'[i].id < ids'
    BY <1>1, <1>8 DEF LeaseInv, Numbered
  <2>3. \A i, j \in DOMAIN leases' : leases'[i].id = leases'[j].id => i = j
    BY <1>8 DEF LeaseInv, Numbered
  <2>4. QED BY <2>1, <2>2, <2>3 DEF Numbered
<1>12. Listed'
  <2>1. ASSUME NEW q \in renewer', ~q.stopped
        PROVE  \E i \in DOMAIN leases' : leases'[i].id = q.id /\ leases'[i].port = q.port
    <3>1. PICK r \in renewer : q = Told(r)
      BY <1>1
    <3>2. ~r.stopped /\ r.id # b /\ q.id = r.id /\ q.port = r.port
      BY <1>6, <2>1, <3>1
    <3>3. PICK j \in DOMAIN leases : leases[j].id = r.id /\ leases[j].port = r.port
      BY <3>2 DEF LeaseInv, Listed
    <3>4. j # k
      BY <1>4, <3>2, <3>3
    <3>5. PICK i \in DOMAIN leases' : j = Old(i)
      BY <1>9, <3>4
    <3>6. QED BY <1>8, <3>2, <3>3, <3>5
  <2>2. ASSUME NEW i \in DOMAIN leases'
        PROVE  \E q \in renewer' : ~q.stopped /\ q.id = leases'[i].id
    <3>1. PICK j \in DOMAIN leases \ {k} : leases'[i] = leases[j]
      BY <1>8
    <3>2. PICK r \in renewer : ~r.stopped /\ r.id = leases[j].id
      BY DEF LeaseInv, Listed
    <3>3. r.id # b
      BY <1>4, <3>2 DEF LeaseInv, Numbered
    <3>4. QED BY <1>1, <1>6, <3>1, <3>2, <3>3
  <2>3. QED BY <2>1, <2>2 DEF Listed
<1>13. server'.method # "upnp"
  BY <1>1 DEF NoServer
<1>14. Renewed'
  BY <1>1, <1>13 DEF Renewed
<1>15. Fresh'
  BY <1>1, <1>6, <1>13 DEF LeaseInv, Fresh
<1>16. QED BY <1>10, <1>11, <1>12, <1>14, <1>15 DEF LeaseInv

(* The steps that only choose a method, serve, or belong to the client. *)
LEMMA OthersElsewhere ==
    ASSUME IInv, LeaseInv,
           \/ StartServer \/ DiscoverViaSSDP \/ DiscoverBruteForce \/ ExternalAddress \/ OutOfAttempts
           \/ tryNATPMP \/ tryPCP \/ ServeWithXray \/ HolePunch \/ StopServer \/ StopClient
           \/ UNCHANGED vars
           \/ \E k \in Calls : ClientStep(k)
    PROVE  Elsewhere
<1>1. /\ case \in Settings /\ router \in [DOMAIN router -> Nat \cup {Forever}]
      /\ at = "remove" => server.method = "upnp"
      /\ server \in ServerInfo
  BY DEF IInv, Types, LeaseInv, LeaseTypes, Renewed
<1>2. ASSUME UNCHANGED case \/ \E k \in {"tick", "start", "xray", "close"} : Spend(k)
      PROVE  case' \in Settings /\ case'.lease = case.lease
  BY <1>1, <1>2, SpendKeeps
<1>3. NoServer.method # "upnp"
  BY DEF NoServer
<1>4. CASE StartServer
  BY <1>1, <1>2, <1>4 DEF StartServer, Goto, lease, Elsewhere
<1>5. CASE DiscoverViaSSDP \/ DiscoverBruteForce
  BY <1>1, <1>2, <1>5 DEF DiscoverViaSSDP, DiscoverBruteForce, Found, Goto, lease, Elsewhere
<1>6. CASE ExternalAddress \/ OutOfAttempts
  BY <1>1, <1>2, <1>6 DEF ExternalAddress, OutOfAttempts, NextGateway, Goto, lease, Elsewhere
<1>7. CASE tryNATPMP \/ tryPCP
  <2>1. UNCHANGED <<leases, renewer, ids, case>>
    BY <1>7 DEF tryNATPMP, tryPCP, lease
  <2>2. CASE UNCHANGED <<server, router>> /\ at' \in {"pcp", "free", "holepunch"}
    BY <1>1, <1>2, <2>1, <2>2 DEF Elsewhere
  <2>3. ASSUME NEW m \in {"natpmp", "pcp"}, Granted(m) PROVE Elsewhere
    <3>1. PICK p \in MapPorts : Mapped(p, PMPLifetime) /\ server' = [server EXCEPT !.method = m, !.port = p]
      BY <2>3 DEF Granted, MapPorts
    <3>2. router' \in [DOMAIN router' -> Nat \cup {Forever}]
      BY <3>1, MappedRouter, ConstantsAssumption DEF LeaseInv
    <3>3. server'.method # "upnp" /\ at' = "xray"
      BY <1>1, <2>3, <3>1 DEF ServerInfo, Granted, Goto
    <3>4. QED BY <1>1, <1>2, <2>1, <3>2, <3>3 DEF Elsewhere
  <2>4. QED BY <1>7, <2>2, <2>3 DEF tryNATPMP, tryPCP, Goto
<1>8. CASE ServeWithXray
  <2>1. UNCHANGED <<leases, renewer, ids, router>> /\ at' = "free"
    BY <1>8 DEF ServeWithXray, lease, Goto
  <2>2. server' = NoServer \/ (server'.method = server.method /\ server'.port = server.port)
    BY <1>1, <1>8 DEF ServeWithXray, ServerInfo
  <2>3. UNCHANGED case \/ Spend("xray")
    BY <1>8 DEF ServeWithXray, XrayStarts, XrayFails
  <2>4. QED BY <1>1, <1>2, <1>3, <2>1, <2>2, <2>3 DEF Elsewhere
<1>9. CASE HolePunch
  <2>1. server'.method = "holepunch"
    BY <1>9 DEF HolePunch, NoServer
  <2>2. QED BY <1>1, <1>2, <1>9, <2>1 DEF HolePunch, Goto, lease, Elsewhere
<1>10. CASE StopServer
  <2>1. UNCHANGED <<leases, renewer, ids, router>> /\ at = "free"
    BY <1>10 DEF StopServer, lease
  <2>2. UNCHANGED case \/ Spend("close")
    BY <1>10 DEF StopServer, CloseFails, Closes
  <2>3. \/ UNCHANGED at /\ (server' = NoServer \/ UNCHANGED server)
        \/ at' = "remove" /\ UNCHANGED server /\ server.method = "upnp"
    BY <1>10 DEF StopServer, Goto
  <2>4. QED BY <1>1, <1>2, <1>3, <2>1, <2>2, <2>3 DEF Elsewhere
<1>11. CASE StopClient
  <2>1. UNCHANGED <<leases, renewer, ids, router, at, server>>
    BY <1>11 DEF StopClient, lease
  <2>2. UNCHANGED case \/ Spend("close")
    BY <1>11 DEF StopClient, CloseFails, Closes
  <2>3. QED BY <1>1, <1>2, <2>1, <2>2 DEF Elsewhere
<1>12. CASE UNCHANGED vars
  BY <1>1, <1>2, <1>12 DEF vars, Elsewhere
<1>13. ASSUME NEW k \in Calls, ClientStep(k) PROVE Elsewhere
  <2>1. UNCHANGED <<leases, renewer, ids, router, at, server>>
    BY <1>13 DEF ClientStep, StartClient, CheckCancelled, ClientXray, ClientTunnel, ClientCommit,
                 ClientTeardown, ClientFailed, lease
  <2>2. UNCHANGED case \/ Spend("xray")
    BY <1>13 DEF ClientStep, StartClient, CheckCancelled, ClientXray, ClientTunnel, ClientCommit,
                 ClientTeardown, ClientFailed, XrayStarts, XrayFails
  <2>3. QED BY <1>1, <1>2, <2>1, <2>2 DEF Elsewhere
<1>14. QED BY <1>4, <1>5, <1>6, <1>7, <1>8, <1>9, <1>10, <1>11, <1>12, <1>13

(* A request to the router ends in a lease or in nothing. *)
LEMMA RequestKeeps ==
    ASSUME IInv, LeaseInv, AddPortMapping \/ AddIndefinite
    PROVE  LeaseInv'
<1>1. UNCHANGED case
  BY DEF AddPortMapping, AddIndefinite
<1>2. \/ \E p \in MapPorts : \E d \in {case.lease, 0} : AddLease(p, d) /\ UPnPMapped(p)
      \/ UNCHANGED <<server, leases, renewer, ids, router>> /\ at' # "remove"
  <2>1. CASE AddPortMapping
    BY <2>1 DEF AddPortMapping, MapPorts, Goto, lease
  <2>2. CASE AddIndefinite
    BY <2>2 DEF AddIndefinite, MapPorts, Goto, lease
  <2>3. QED BY <2>1, <2>2
<1>3. CASE UNCHANGED <<server, leases, renewer, ids, router>> /\ at' # "remove"
  <2>1. Elsewhere
    BY <1>1, <1>3 DEF Elsewhere, LeaseInv, LeaseTypes
  <2>2. QED BY <2>1, ElsewhereKeeps
<1>4. QED BY <1>1, <1>2, <1>3, AddLeaseKeeps

(* The leases are kept by every step. *)
LEMMA LeasesKept == IInv /\ LeaseInv /\ [Next]_vars => LeaseInv'
<1> SUFFICES ASSUME IInv, LeaseInv, [Next]_vars PROVE LeaseInv'
  OBVIOUS
<1>1. CASE AddPortMapping \/ AddIndefinite
  BY <1>1, RequestKeeps
<1>2. CASE RemoveUPnPMapping
  BY <1>2, RemovalKeeps
<1>3. CASE Tick
  BY <1>3, TickKeeps
<1>4. CASE \E r \in renewer : RenewFires(r) \/ RenewDone(r) \/ RenewExits(r)
  BY <1>4, FiringKeeps, RenewalKeeps, ExitKeeps
<1>5. CASE \/ StartServer \/ DiscoverViaSSDP \/ DiscoverBruteForce \/ ExternalAddress
           \/ OutOfAttempts \/ tryNATPMP \/ tryPCP \/ ServeWithXray \/ HolePunch \/ StopServer
           \/ StopClient \/ UNCHANGED vars
           \/ \E k \in Calls : ClientStep(k)
  <2>1. Elsewhere
    BY <1>5, OthersElsewhere
  <2>2. QED BY <2>1, ElsewhereKeeps
<1>6. QED BY <1>1, <1>2, <1>3, <1>4, <1>5 DEF Next, ServerStep

(* Every goroutine of renewLease that goes on belongs to a lease in          *)
(* activeLeases and every listed lease has its goroutine, however often the  *)
(* server started, failed to start xray and stopped (TryUPnP appends the     *)
(* lease under the lock it starts the goroutine with; RemoveUPnPMapping      *)
(* closes the stopCh of the entry it takes out).                             *)
THEOREM RenewalsListed == Spec => []RenewersListed
<1>1. LeaseInv => RenewersListed
  <2>1. SUFFICES ASSUME LeaseInv PROVE RenewersListed
    OBVIOUS
  <2>2. \A r \in renewer : ~r.stopped => \E i \in DOMAIN leases : leases[i].id = r.id
    BY <2>1 DEF LeaseInv, Listed
  <2>3. \A i \in DOMAIN leases : \E r \in renewer : ~r.stopped /\ r.id = leases[i].id
    BY <2>1 DEF LeaseInv, Listed
  <2>4. QED BY <2>2, <2>3 DEF RenewersListed
<1>2. QED BY InitOwned, OwnerKept, InitLeases, LeasesKept, <1>1, PTL DEF Spec

(* The router keeps the mapping of a server that runs on UPnP until every    *)
(* goroutine of renewLease for its port has failed at its last call or made  *)
(* it a whole lease ago, for every lease; neither the goroutines of earlier  *)
(* starts nor their removals take the mapping away.                          *)
THEOREM MappingKept == Spec => []MappedWhileRunning
<1>1. LeaseInv => MappedWhileRunning
  BY DEF LeaseInv, Renewed, Fresh, Kept, Lapsed, MappedWhileRunning
<1>2. QED BY InitOwned, OwnerKept, InitLeases, LeasesKept, <1>1, PTL DEF Spec
=============================================================================
