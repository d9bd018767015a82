----------------------------- MODULE Discovery -----------------------------
(***************************************************************************)
(* The discovery listing of one proxy server: RegisterServerDiscovery, its *)
(* heartbeat goroutine, UnregisterServerDiscovery and the part of          *)
(* StopServer that takes the listing down (golib/api.go), against the      *)
(* listings of the signaling server (discoveryHub), which expire.          *)
(*                                                                         *)
(* API calls come from several threads and hold the mutex mu only while    *)
(* they read or write the globals, StopServer excepted.  A request takes   *)
(* effect at the signaling server in one step; it, or its response, may be *)
(* lost.  Time is counted in heartbeat intervals.  The Supabase variant of *)
(* the requests and the watchers of the hub are left out.                  *)
(***************************************************************************)
EXTENDS Integers, FiniteSets

CONSTANTS TTL,          \* discovery-ttl in heartbeat intervals; the default is 3
          MaxCalls,     \* bound: register and unregister calls
          MaxListings,  \* bound: listing ids in use at a time
          MaxFaults     \* bound: lost requests and responses, restarts

\* The help text of the flag: "must be > heartbeat interval".
ASSUME TTLAssumption == TTL \in Nat /\ TTL > 1

ASSUME BoundsAssumption ==
    MaxCalls \in Nat /\ MaxListings \in Nat /\ MaxFaults \in Nat

Calls == 1..MaxCalls
Ids == 1..MaxListings
None == 0             \* an empty id, a nil channel
Absent == -1          \* age of a listing the hub does not hold

\* The collector runs every ttl/2, so no listing grows older than this.
MaxAge == TTL + TTL \div 2 + 1

VARIABLES
    running,   \* serverRunning
    listed,    \* listed[i]: age of listing i at the hub, or Absent
    id,        \* discoveryListingID
    url,       \* discoverySignalingURL is set
    stop,      \* heartbeatStop: the call that made the channel
    closed,    \* calls whose stop channel is closed
    ncalls,    \* calls so far
    th,        \* th[k]: kind, control state (pc), the listing it handles (id),
               \* whether it knows the URL (url), the channel it took (stop)
    hb,        \* hb[k]: control state (pc) of the heartbeat goroutine of call k,
               \* its currentID (id), a tick of its ticker is waiting (due),
               \* intervals without a heartbeat for its listing (missed)
    faults,    \* faults so far
    overlap    \* a registration has begun while another was under way

globals == <<running, id, url, stop, closed>>
vars == <<globals, listed, ncalls, th, hb, faults, overlap>>

NoCall == [kind |-> "none", pc |-> "idle", id |-> None, url |-> FALSE, stop |-> None]
NoBeat == [pc |-> "none", id |-> None, due |-> FALSE, missed |-> 0]

Init ==
    /\ running = FALSE
    /\ listed = [i \in Ids |-> Absent]
    /\ id = None /\ url = FALSE /\ stop = None /\ closed = {}
    /\ ncalls = 0
    /\ th = [k \in Calls |-> NoCall]
    /\ hb = [k \in Calls |-> NoBeat]
    /\ faults = 0 /\ overlap = FALSE

Present(i) == i \in Ids /\ listed[i] # Absent
Fault == faults < MaxFaults /\ faults' = faults + 1

-----------------------------------------------------------------------------
(* Requests to the hub.                                                    *)

\* Ids that nobody holds.  A random id is never drawn twice; the model may use
\* one again when all trace of it is gone.
Free == {i \in Ids : ~Present(i) /\ i # id /\ \A k \in Calls : i \notin {th[k].id, hb[k].id}}
FreshId == CHOOSE i \in Free : \A j \in Free : i <= j

\* handleDiscoveryRegister: a listing under a fresh id.
register ==
    /\ Free # {}
    /\ listed' = [listed EXCEPT ![FreshId] = 0]

\* The outcomes of RegisterServer: an id, an error although the listing was
\* made, an error.
RegisterServer(ok, err) ==
    \/ register /\ ok /\ UNCHANGED faults
    \/ register /\ err /\ Fault
    \/ err /\ Fault /\ UNCHANGED listed

\* DELETE /discovery/{id}
remove(i) == listed' = [j \in Ids |-> IF j = i THEN Absent ELSE listed[j]]

\* DeregisterServer: without a URL the request goes nowhere.
DeregisterServer(known, i) ==
    \/ known /\ remove(i) /\ UNCHANGED faults
    \/ ~known /\ UNCHANGED <<listed, faults>>
    \/ known /\ Fault /\ UNCHANGED listed

-----------------------------------------------------------------------------
(* The API calls.                                                          *)

\* The hole-punch or UPnP server starts: nothing of it matters here.
StartServer ==
    /\ ~running
    /\ running' = TRUE
    /\ UNCHANGED <<id, url, stop, closed, listed, ncalls, th, hb, faults, overlap>>

\* StopServer holds mu, the request included.
StopServer ==
    /\ running
    /\ running' = FALSE
    /\ IF id # None
       THEN /\ closed' = closed \cup ({stop} \ {None})
            /\ stop' = None
            /\ DeregisterServer(url, id)
            /\ id' = None /\ url' = FALSE
       ELSE UNCHANGED <<id, url, stop, closed, listed, faults>>
    /\ UNCHANGED <<ncalls, th, hb, overlap>>

\* Mutant: the stop channel is not cleared with the rest.
BeginKeepsStop(k, what) ==
    /\ ncalls < MaxCalls
    /\ k = ncalls + 1
    /\ ncalls' = k
    /\ what = "register" => running
    /\ th' = [th EXCEPT ![k] = [kind |-> what, pc |-> "close", id |-> id, url |-> url,
                                stop |-> stop]]
    /\ overlap' = (overlap \/ \E j \in Calls :
                      what = "register" /\ th[j].kind = "register" /\ th[j].pc # "done")
    /\ id' = None /\ url' = FALSE
    /\ UNCHANGED <<running, stop, closed, listed, hb, faults>>

\* The first section of RegisterServerDiscovery and UnregisterServerDiscovery
\* takes the listing out of the globals.  The app registers running servers.
Begin(k, what) ==
    /\ ncalls < MaxCalls
    /\ k = ncalls + 1
    /\ ncalls' = k
    /\ what = "register" => running
    /\ th' = [th EXCEPT ![k] = [kind |-> what, pc |-> "close", id |-> id, url |-> url,
                                stop |-> stop]]
    /\ overlap' = (overlap \/ \E j \in Calls :
                      what = "register" /\ th[j].kind = "register" /\ th[j].pc # "done")
    /\ id' = None /\ url' = FALSE /\ stop' = None
    /\ UNCHANGED <<running, closed, listed, hb, faults>>

Ended == [NoCall EXCEPT !.pc = "done"]
Return(k) == th' = [th EXCEPT ![k] = Ended]

\* After the old listing: on to the new one, if the call makes one.
GoOn(k) ==
    IF th[k].kind = "register"
    THEN th' = [th EXCEPT ![k] = [NoCall EXCEPT !.kind = "register", !.pc = "register"]]
    ELSE Return(k)

\* Mutant: the goroutine of the old listing is left running.
CloseNothing(k) ==
    /\ th[k].pc = "close"
    /\ IF th[k].id # None THEN th' = [th EXCEPT ![k].pc = "deregister"] ELSE GoOn(k)
    /\ UNCHANGED <<globals, listed, ncalls, hb, faults, overlap>>

\* close(oldStop), outside the section.
CloseStop(k) ==
    /\ th[k].pc = "close"
    /\ closed' = closed \cup ({th[k].stop} \ {None})
    /\ IF th[k].id # None THEN th' = [th EXCEPT ![k].pc = "deregister"] ELSE GoOn(k)
    /\ UNCHANGED <<running, id, url, stop, listed, ncalls, hb, faults, overlap>>

\* The error is ignored, or returned after everything is done.
Deregister(k) ==
    /\ th[k].pc = "deregister"
    /\ DeregisterServer(th[k].url, th[k].id)
    /\ GoOn(k)
    /\ UNCHANGED <<globals, ncalls, hb, overlap>>

Register(k) ==
    /\ th[k].pc = "register"
    /\ RegisterServer(th' = [th EXCEPT ![k].pc = "store", ![k].id = FreshId],
                      Return(k))
    /\ UNCHANGED <<globals, ncalls, hb, overlap>>

\* The last section, and the start of the goroutine.
Store(k) ==
    /\ th[k].pc = "store"
    /\ id' = th[k].id /\ url' = TRUE /\ stop' = k
    /\ hb' = [hb EXCEPT ![k] = [NoBeat EXCEPT !.pc = "idle", !.id = th[k].id,
                                 !.missed = IF Present(th[k].id) THEN listed[th[k].id] ELSE 0]]
    /\ Return(k)
    /\ UNCHANGED <<running, closed, listed, ncalls, faults, overlap>>

-----------------------------------------------------------------------------
(* The heartbeat goroutine of call k.                                      *)

Exit(k) ==
    /\ hb[k].pc = "idle"
    /\ k \in closed
    /\ hb' = [hb EXCEPT ![k] = [NoBeat EXCEPT !.pc = "exited"]]
    /\ UNCHANGED <<globals, listed, ncalls, th, faults, overlap>>

\* Mutant: an expired listing is not registered again.
BeatOnly(k) ==
    /\ hb[k].pc = "idle" /\ hb[k].due
    /\ listed' = [listed EXCEPT ![hb[k].id] = IF Present(hb[k].id) THEN 0 ELSE Absent]
    /\ hb' = [hb EXCEPT ![k].due = FALSE, ![k].missed = 0]
    /\ UNCHANGED <<globals, ncalls, th, faults, overlap>>

\* Mutant: the heartbeat does not refresh the listing.
BeatStale(k) ==
    LET h == hb[k] IN
    /\ h.pc = "idle" /\ h.due
    /\ hb' = [hb EXCEPT ![k].due = FALSE, ![k].missed = 0,
                        ![k].pc = IF Present(h.id) THEN "idle" ELSE "register"]
    /\ UNCHANGED <<globals, listed, ncalls, th, faults, overlap>>

\* HeartbeatServer.  When the stop channel is closed and a tick is waiting,
\* select takes either.  Not found means the listing has expired.
Beat(k) ==
    LET h == hb[k] IN
    /\ h.pc = "idle" /\ h.due
    /\ \/ /\ Present(h.id)
          /\ listed' = [listed EXCEPT ![h.id] = 0]
          /\ hb' = [hb EXCEPT ![k].due = FALSE, ![k].missed = 0]
          /\ UNCHANGED faults
       \/ /\ ~Present(h.id)
          /\ hb' = [hb EXCEPT ![k].due = FALSE, ![k].pc = "register"]
          /\ UNCHANGED <<listed, faults>>
       \/ /\ Fault
          /\ hb' = [hb EXCEPT ![k].due = FALSE, ![k].missed = @ + 1]
          /\ UNCHANGED listed
    /\ UNCHANGED <<globals, ncalls, th, overlap>>

\* RegisterServer again; on an error the old id is kept for the next tick.
Reregister(k) ==
    /\ hb[k].pc = "register"
    /\ RegisterServer(hb' = [hb EXCEPT ![k].pc = "store", ![k].id = FreshId,
                                       ![k].missed = 0],
                      hb' = [hb EXCEPT ![k].pc = "idle"])
    /\ UNCHANGED <<globals, ncalls, th, overlap>>

\* discoveryListingID = newID, under mu, whoever has cleared it meanwhile.
StoreNew(k) ==
    /\ hb[k].pc = "store"
    /\ id' = hb[k].id
    /\ hb' = [hb EXCEPT ![k].pc = "idle"]
    /\ UNCHANGED <<running, url, stop, closed, listed, ncalls, th, faults, overlap>>

-----------------------------------------------------------------------------
(* Time and the signaling server.                                          *)

\* An interval passes.  A request times out within half an interval, so the
\* goroutine has served the last tick, and has seen a closed stop channel; only
\* mu can hold it up for longer.
Tick ==
    /\ \A k \in Calls : /\ hb[k].pc # "register"
                        /\ hb[k].pc = "idle" => ~hb[k].due /\ k \notin closed
    /\ \A i \in Ids : listed[i] < MaxAge
    /\ listed' = [i \in Ids |-> IF Present(i) THEN listed[i] + 1 ELSE Absent]
    /\ hb' = [k \in Calls |->
                CASE hb[k].pc = "idle"                  -> [hb[k] EXCEPT !.due = TRUE]
                  [] hb[k].pc = "store" /\ ~hb[k].due   -> [hb[k] EXCEPT !.due = TRUE]
                  [] hb[k].pc = "store" /\ hb[k].due    ->
                        [hb[k] EXCEPT !.missed = IF @ < TTL THEN @ + 1 ELSE @]
                  [] OTHER                              -> hb[k]]
    /\ UNCHANGED <<globals, ncalls, th, faults, overlap>>

\* Mutant: nothing expires.
GcTickKeeps == UNCHANGED vars

\* gcLoop: listings older than the ttl go; at an age of TTL intervals the exact
\* moments decide.
GcTick ==
    /\ \E D \in SUBSET {i \in Ids : listed[i] = TTL} :
          listed' = [i \in Ids |-> IF i \in D \/ listed[i] > TTL THEN Absent ELSE listed[i]]
    /\ UNCHANGED <<globals, ncalls, th, hb, faults, overlap>>

\* The signaling server restarts with empty maps.
Restart ==
    /\ Fault
    /\ listed' = [i \in Ids |-> Absent]
    /\ UNCHANGED <<globals, ncalls, th, hb, overlap>>

CallStep(k) == CloseStop(k) \/ Deregister(k) \/ Register(k) \/ Store(k)
BeatStep(k) == Exit(k) \/ Beat(k) \/ Reregister(k) \/ StoreNew(k)

Next ==
    \/ StartServer \/ StopServer
    \/ \E k \in Calls, what \in {"register", "unregister"} : Begin(k, what)
    \/ \E k \in Calls : CallStep(k) \/ BeatStep(k)
    \/ Tick \/ GcTick \/ Restart

\* Threads run, time passes and the collector's ticker fires.
Fairness ==
    /\ \A k \in Calls : WF_vars(CallStep(k)) /\ WF_vars(BeatStep(k))
    /\ WF_vars(Tick)
    /\ WF_vars(GcTick /\ listed' # listed)

Spec == Init /\ [][Next]_vars /\ Fairness

-----------------------------------------------------------------------------
(* Properties.                                                             *)

\* Every variable has its type; in particular no nil channel is closed.
TypeOK ==
    /\ running \in BOOLEAN /\ url \in BOOLEAN /\ overlap \in BOOLEAN
    /\ listed \in [Ids -> {Absent} \cup 0..MaxAge]
    /\ id \in Ids \cup {None}
    /\ stop \in Calls \cup {None}
    /\ closed \subseteq Calls
    /\ ncalls \in 0..MaxCalls
    /\ th \in [Calls ->
          [kind : {"none", "register", "unregister"},
           pc : {"idle", "close", "deregister", "register", "store", "done"},
           id : Ids \cup {None}, url : BOOLEAN, stop : Calls \cup {None}]]
    /\ hb \in [Calls ->
          [pc : {"none", "idle", "register", "store", "exited"},
           id : Ids \cup {None}, due : BOOLEAN, missed : 0..(MaxAge + MaxFaults)]]
    /\ faults \in 0..MaxFaults

Closing(k) == th[k].pc = "close" /\ th[k].stop # None
Beating(k) == hb[k].pc \in {"idle", "register", "store"}

\* A stop channel has one owner, a global or a call, and is not yet closed, so
\* none is closed twice (which would panic), however RegisterServerDiscovery,
\* UnregisterServerDiscovery and StopServer overlap.
CloseOnce ==
    /\ stop \notin closed
    /\ \A k \in Calls : Closing(k) =>
          /\ th[k].stop \notin closed \cup {stop}
          /\ \A j \in Calls : Closing(j) /\ th[j].stop = th[k].stop => j = k

\* A heartbeat goroutine that has not been told to stop can still be told: its
\* channel is the one in the globals or a call is about to close it.  Only two
\* overlapping registrations can lose one.
HeartbeatOwned ==
    \A k \in Calls :
        Beating(k) /\ k \notin closed
          => overlap \/ stop = k \/ \E j \in Calls : Closing(j) /\ th[j].stop = k

\* discovery-ttl against the heartbeat interval: a listing that reaches its ttl
\* under the goroutine that keeps it went without heartbeat for all the intervals
\* of the ttl but the last.  With the defaults, a ttl of three intervals, it takes
\* two lost heartbeats in a row; a single one is tolerated.
ExpiryNeedsMisses ==
    \A k \in Calls :
        Beating(k) /\ Present(hb[k].id) /\ listed[hb[k].id] >= TTL
          => hb[k].missed >= TTL - 1

\* A goroutine keeps listing i up, or a call is about to start one.
Kept(i) ==
    \/ \E k \in Calls : Beating(k) /\ k \notin closed /\ hb[k].id = i
    \/ \E k \in Calls : th[k].pc = "store" /\ th[k].id = i

\* A listing that nobody keeps up vanishes: HeartbeatServer is all that resets its
\* age.  signalserver/README.md: listings "are ephemeral and require heartbeat".
Ephemeral == \A i \in Ids : Present(i) ~> ~Present(i) \/ Kept(i)

\* A server that keeps its heartbeat goroutine is listed again after its
\* listing expired or the signaling server restarted.
ListedAgain ==
    \A k \in Calls : Beating(k) ~> Present(hb[k].id) \/ k \in closed

\* api.go, StopServer: "Auto-unregister from discovery".  Once the server has
\* been stopped, and is not started again, its listings vanish.
StopUnlists == ~running ~> running \/ \A i \in Ids : ~Present(i)

=============================================================================
