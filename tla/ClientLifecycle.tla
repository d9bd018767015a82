-------------------------- MODULE ClientLifecycle --------------------------
(***************************************************************************)
(* The WebRTC client of golib/api.go: StartClient (one call), the two-step *)
(* ConnectWebRTC and StartTunnel, StopClient, the health monitor, and the  *)
(* fast reconnect that the ICE failure callback of a client group starts.  *)
(*                                                                         *)
(* The globals are guarded by one mutex that every call drops during slow  *)
(* network operations.  Calls come from several Android threads and from   *)
(* goroutines of the library; each is a thread of the model, numbered in   *)
(* the order in which it starts.  A section under the mutex is one step.   *)
(* A group is taken to have one PeerConnection.                            *)
(***************************************************************************)
EXTENDS Naturals, FiniteSets

CONSTANTS MaxCalls,       \* bound: API calls and reconnect goroutines
          MaxGroups,      \* bound: client groups created
          MaxReconnects   \* maxReconnects

ASSUME BoundsAssumption ==
    MaxCalls \in Nat /\ MaxGroups \in Nat /\ MaxReconnects \in Nat

Calls == 1..MaxCalls
Groups == 1..MaxGroups
None == 0

VARIABLES
    running,     \* clientRunning
    connecting,  \* clientConnecting
    active,      \* activeWebRTCClientGroup
    pending,     \* pendingWebRTCClientGroup
    tunnel,      \* the group that activeTunnel dials, None if it is nil
    cancelFn,    \* the call whose context clientConnectCancel cancels
    ctxVar,      \* the call that made clientConnectCtx
    ctxDone,     \* calls whose context is cancelled
    doneCh,      \* the call that made clientDoneCh
    doneClosed,  \* calls whose done channel is closed
    reconnects,  \* reconnectCount
    ngroups,     \* groups created so far
    gst,         \* gst[g]: state of the PeerConnection of g
    wired,       \* groups with OnReconnectNeeded set
    ncalls,      \* threads started so far
    th,          \* th[k]: what thread k runs (kind), its control state (pc), its
                 \* wrtcGroup or newGroup (grp), its oldGroup (old), the call
                 \* whose context it was given (ctx), and whether StopClient has
                 \* run meanwhile (stopped)
    mon,         \* the group that the health monitor of k watches
    monDone,     \* the call whose done channel that monitor listens on
    seen,        \* monitors that found their group alive and do not hold mu yet
    abandoned,   \* groups that were active when a monitor reset reconnectCount
                 \* between the two reads of it by a reconnect at the limit
    lateWrite    \* a stopped thread has published its group, or has cleared
                 \* the flag of a newer call

flags == <<running, connecting>>
refs == <<active, pending, tunnel>>
context == <<cancelFn, ctxVar, ctxDone>>
done == <<doneCh, doneClosed>>
groups == <<ngroups, gst, wired>>
monitors == <<mon, monDone, seen, abandoned>>
vars == <<flags, refs, context, done, reconnects, groups, ncalls, th, monitors,
          lateWrite>>

Idle == [kind |-> "none", pc |-> "idle", grp |-> None, old |-> None, ctx |-> None,
         stopped |-> FALSE]

Init ==
    /\ running = FALSE /\ connecting = FALSE
    /\ active = None /\ pending = None /\ tunnel = None
    /\ cancelFn = None /\ ctxVar = None /\ ctxDone = {}
    /\ doneCh = None /\ doneClosed = {}
    /\ reconnects = 0
    /\ ngroups = 0
    /\ gst = [g \in Groups |-> "none"]
    /\ wired = {}
    /\ ncalls = 0
    /\ th = [k \in Calls |-> Idle]
    /\ mon = [k \in Calls |-> None]
    /\ monDone = [k \in Calls |-> None]
    /\ seen = {} /\ abandoned = {}
    /\ lateWrite = FALSE

Pc(k) == th[k].pc
Grp(k) == th[k].grp
Cancelled(k) == th[k].ctx \in ctxDone
UnderWay == {k \in 1..ncalls : Pc(k) # "done"}

Goto(k, s) == th' = [th EXCEPT ![k].pc = s]

\* Thread k returns and its local variables are gone.
Ended == [Idle EXCEPT !.pc = "done"]
Return(k) == th' = [th EXCEPT ![k] = Ended]

\* A new thread k.
Spawn(k, thread) ==
    /\ ncalls < MaxCalls
    /\ k = ncalls + 1
    /\ ncalls' = k
    /\ th' = [th EXCEPT ![k] = thread]

\* ClientGroup.Stop on every group in G.
StopGroups(G) == gst' = [g \in Groups |-> IF g \in G THEN "stopped" ELSE gst[g]]

\* StartClientGroup, called by thread k.
CreateGroup(k, next) ==
    /\ ngroups < MaxGroups
    /\ ngroups' = ngroups + 1
    /\ gst' = [gst EXCEPT ![ngroups + 1] = "new"]
    /\ th' = [th EXCEPT ![k].grp = ngroups + 1, ![k].pc = next]
    /\ UNCHANGED wired

-----------------------------------------------------------------------------
(* StartClient and ConnectWebRTC up to the connected group.                *)

\* Mutant: a connection attempt does not exclude another.
BeginConnectAnyTime(k, what) ==
    /\ ~running
    /\ Spawn(k, IF what = "start"
                THEN [Idle EXCEPT !.kind = what, !.pc = "ctx"]
                ELSE [Idle EXCEPT !.kind = what, !.pc = "offers", !.ctx = k])
    /\ connecting' = TRUE
    /\ cancelFn' = k /\ ctxVar' = k
    /\ UNCHANGED <<running, refs, ctxDone, done, reconnects, groups, monitors,
                   lateWrite>>

\* The guard and the flags, under mu, with a new cancellable context.
\* ConnectWebRTC keeps the context in a local variable there and then.
BeginConnect(k, what) ==
    /\ ~running /\ ~connecting
    /\ Spawn(k, IF what = "start"
                THEN [Idle EXCEPT !.kind = what, !.pc = "ctx"]
                ELSE [Idle EXCEPT !.kind = what, !.pc = "offers", !.ctx = k])
    /\ connecting' = TRUE
    /\ cancelFn' = k /\ ctxVar' = k
    /\ UNCHANGED <<running, refs, ctxDone, done, reconnects, groups, monitors,
                   lateWrite>>

\* StartClient reads the global context again, after it has released mu.
ReadCtx(k) ==
    /\ Pc(k) = "ctx"
    /\ th' = [th EXCEPT ![k].ctx = ctxVar, ![k].pc = "offers"]
    /\ UNCHANGED <<flags, refs, context, done, reconnects, groups, ncalls, monitors,
                   lateWrite>>

\* Offers by event stream or polling, then the check of the context.
GetOffers(k) ==
    /\ Pc(k) = "offers"
    /\ \/ ~Cancelled(k) /\ Goto(k, "create")
       \/ Goto(k, "fail")
    /\ UNCHANGED <<flags, refs, context, done, reconnects, groups, ncalls, monitors,
                   lateWrite>>

StartGroup(k) ==
    /\ Pc(k) = "create"
    /\ \/ CreateGroup(k, "created")
       \/ Goto(k, "fail") /\ UNCHANGED groups
    /\ UNCHANGED <<flags, refs, context, done, reconnects, ncalls, monitors,
                   lateWrite>>

\* After StartClientGroup: the check of the context, then either newer offers
\* have arrived and the group is made again, or the answers are posted.
PostAnswers(k) ==
    /\ Pc(k) = "created"
    /\ \/ ~Cancelled(k) /\ Goto(k, "connect") /\ UNCHANGED gst
       \/ ~Cancelled(k) /\ Goto(k, "create") /\ StopGroups({Grp(k)})
       \/ Goto(k, "fail") /\ StopGroups({Grp(k)})
    /\ UNCHANGED <<flags, refs, context, done, reconnects, ngroups, wired, ncalls,
                   monitors, lateWrite>>

\* WaitConnected returns nil only when the connection came up, even if it is lost
\* by now; timeouts and failures are errors.
WaitSucceeds(k) == gst[Grp(k)] \in {"up", "lost", "unheard"}
WaitErrs(k) == gst[Grp(k)] # "up"

\* WaitConnected (StartClient) or WaitConnectedCtx (ConnectWebRTC), which the
\* context can end too.
WaitConnected(k) ==
    /\ Pc(k) = "connect"
    /\ \/ /\ WaitSucceeds(k)
          /\ Goto(k, IF th[k].kind = "start" THEN "tun" ELSE "store")
          /\ UNCHANGED gst
       \/ /\ WaitErrs(k) \/ (th[k].kind = "connect" /\ Cancelled(k))
          /\ Goto(k, "fail")
          /\ StopGroups({Grp(k)})
    /\ UNCHANGED <<flags, refs, context, done, reconnects, ngroups, wired, ncalls,
                   monitors, lateWrite>>

\* The deferred cleanup of both calls, which does not look whose context and
\* whose pending group it finds in the globals.  A failed StartTunnel only
\* clears clientConnecting.
ConnectFails(k) ==
    /\ Pc(k) = "fail"
    /\ connecting' = FALSE
    /\ IF th[k].kind = "connect"
       THEN StopGroups({pending}) /\ pending' = None
       ELSE UNCHANGED <<gst, pending>>
    /\ IF th[k].kind = "tunnel"
       THEN UNCHANGED <<cancelFn, ctxDone>>
       ELSE ctxDone' = ctxDone \cup ({cancelFn} \ {None}) /\ cancelFn' = None
    /\ lateWrite' = (lateWrite \/ (th[k].stopped /\ connecting))
    /\ Return(k)
    /\ UNCHANGED <<running, active, tunnel, ctxVar, done, reconnects, ngroups, wired,
                   ncalls, monitors>>

\* The last section of ConnectWebRTC.
StorePending(k) ==
    /\ Pc(k) = "store"
    /\ pending' = Grp(k)
    /\ lateWrite' = (lateWrite \/ th[k].stopped)
    /\ Return(k)
    /\ UNCHANGED <<flags, active, tunnel, context, done, reconnects, groups, ncalls,
                   monitors>>

-----------------------------------------------------------------------------
(* The tunnel.                                                             *)

\* StartTunnel takes the pending group, under mu.
BeginTunnel(k) ==
    /\ connecting /\ pending # None
    /\ Spawn(k, [Idle EXCEPT !.kind = "tunnel", !.pc = "tun", !.grp = pending])
    /\ pending' = None
    /\ UNCHANGED <<flags, active, tunnel, context, done, reconnects, groups, monitors,
                   lateWrite>>

\* ProtectSockets (StartTunnel only) and StartTunnelWithOptions.
StartTun(k) ==
    /\ Pc(k) = "tun"
    /\ \/ Goto(k, "commit") /\ UNCHANGED gst
       \/ Goto(k, "fail") /\ StopGroups({Grp(k)})
    /\ UNCHANGED <<flags, refs, context, done, reconnects, ngroups, wired, ncalls,
                   monitors, lateWrite>>

\* The state update of StartClient and StartTunnel.  Only StartClient checks
\* its context again.
Commit(k) ==
    /\ Pc(k) = "commit"
    /\ th[k].kind = "start" => ~Cancelled(k)
    /\ tunnel' = Grp(k) /\ active' = Grp(k)
    /\ connecting' = FALSE /\ running' = TRUE
    /\ doneCh' = k
    /\ lateWrite' = (lateWrite \/ th[k].stopped)
    /\ Goto(k, "wire")
    /\ UNCHANGED <<pending, context, doneClosed, reconnects, groups, ncalls, monitors>>

CommitCancelled(k) ==
    /\ Pc(k) = "commit"
    /\ th[k].kind = "start" /\ Cancelled(k)
    /\ StopGroups({Grp(k)})
    /\ Goto(k, "fail")
    /\ UNCHANGED <<flags, refs, context, done, reconnects, ngroups, wired, ncalls,
                   monitors, lateWrite>>

\* After mu is released: set the callback of the group, start the monitor on
\* whatever done channel the global holds by then.
Wire(k) ==
    /\ Pc(k) = "wire"
    /\ wired' = wired \cup {Grp(k)}
    /\ mon' = [mon EXCEPT ![k] = Grp(k)]
    /\ monDone' = [monDone EXCEPT ![k] = doneCh]
    /\ Return(k)
    /\ UNCHANGED <<flags, refs, context, done, reconnects, ngroups, gst, ncalls,
                   seen, abandoned, lateWrite>>

-----------------------------------------------------------------------------
(* StopClient, the monitor and the fast reconnect.                         *)

\* StopClient, called by a user (k = None) or by reconnect thread k, holds mu
\* from beginning to end.
StopClient(k) ==
    LET cancels == connecting \/ running
        stopped == (IF connecting THEN {pending} ELSE {})
                   \cup (IF running THEN {active} ELSE {})
    IN /\ connecting' = FALSE /\ running' = FALSE
       /\ StopGroups(stopped)
       /\ pending' = IF connecting THEN None ELSE pending
       /\ ctxDone' = IF cancels THEN ctxDone \cup ({cancelFn} \ {None}) ELSE ctxDone
       /\ cancelFn' = IF cancels THEN None ELSE cancelFn
       /\ IF running
          THEN /\ doneClosed' = doneClosed \cup ({doneCh} \ {None})
               /\ doneCh' = None
               /\ tunnel' = None /\ active' = None
               /\ reconnects' = 0
          ELSE UNCHANGED <<done, tunnel, active, reconnects>>
       /\ th' = [j \in Calls |->
                    CASE j = k                  -> Ended
                      [] j \in UnderWay \ {k}   -> [th[j] EXCEPT !.stopped = TRUE]
                      [] OTHER                  -> th[j]]
       /\ UNCHANGED <<ctxVar, ngroups, wired, ncalls, monitors, lateWrite>>

\* A tick of monitorClientHealth that finds its group alive, without mu; the
\* others only log.
MonitorTick(k) ==
    /\ mon[k] # None /\ k \notin seen
    /\ gst[mon[k]] = "up"
    /\ seen' = seen \cup {k}
    /\ UNCHANGED <<flags, refs, context, done, reconnects, groups, ncalls, th, mon,
                   monDone, abandoned, lateWrite>>

\* The rest of that tick, under mu: by now the group may be dead.
MonitorReset(k) ==
    /\ k \in seen
    /\ seen' = seen \ {k}
    /\ reconnects' = 0
    /\ mon' = [mon EXCEPT ![k] = IF active # None THEN active ELSE @]
    /\ abandoned' =
          IF reconnects >= MaxReconnects /\ \E j \in UnderWay : Pc(j) = "giveup"
          THEN abandoned \cup ({active} \ {None}) ELSE abandoned
    /\ UNCHANGED <<flags, refs, context, done, groups, ncalls, th, monDone, lateWrite>>

MonitorExits(k) ==
    /\ mon[k] # None /\ k \notin seen
    /\ monDone[k] \in doneClosed
    /\ mon' = [mon EXCEPT ![k] = None]
    /\ monDone' = [monDone EXCEPT ![k] = None]
    /\ UNCHANGED <<flags, refs, context, done, reconnects, groups, ncalls, th, seen,
                   abandoned, lateWrite>>

\* Mutant: the last attempt that is allowed is not made.
BeginReconnectEarlier(k) ==
    /\ Pc(k) = "begin"
    /\ IF running /\ reconnects + 1 < MaxReconnects
       THEN /\ reconnects' = reconnects + 1
            /\ th' = [th EXCEPT ![k].old = active, ![k].pc = "rebuild"]
       ELSE Goto(k, "giveup") /\ UNCHANGED reconnects
    /\ UNCHANGED <<flags, refs, context, done, groups, ncalls, monitors, lateWrite>>

\* The first section of attemptFastReconnect.
BeginReconnect(k) ==
    /\ Pc(k) = "begin"
    /\ IF running /\ reconnects < MaxReconnects
       THEN /\ reconnects' = reconnects + 1
            /\ th' = [th EXCEPT ![k].old = active, ![k].pc = "rebuild"]
       ELSE Goto(k, "giveup") /\ UNCHANGED reconnects
    /\ UNCHANGED <<flags, refs, context, done, groups, ncalls, monitors, lateWrite>>

\* reconnectCount is read again after the section.
GiveUp(k) ==
    /\ Pc(k) = "giveup"
    /\ IF reconnects >= MaxReconnects THEN Goto(k, "stop") ELSE Return(k)
    /\ UNCHANGED <<flags, refs, context, done, reconnects, groups, ncalls, monitors,
                   lateWrite>>

\* GetSDPOffersCtx and StartClientGroup.
Rebuild(k) ==
    /\ Pc(k) = "rebuild"
    /\ \/ CreateGroup(k, "reconnect")
       \/ Goto(k, "stop") /\ UNCHANGED groups
    /\ UNCHANGED <<flags, refs, context, done, reconnects, ncalls, monitors,
                   lateWrite>>

\* PostSDPAnswersCtx and WaitConnectedCtx, both within thirty seconds.
WaitReconnected(k) ==
    /\ Pc(k) = "reconnect"
    /\ \/ WaitSucceeds(k) /\ Goto(k, "swap") /\ UNCHANGED gst
       \/ WaitErrs(k) /\ Goto(k, "stop") /\ StopGroups({Grp(k)})
    /\ UNCHANGED <<flags, refs, context, done, reconnects, ngroups, wired, ncalls,
                   monitors, lateWrite>>

\* Mutant: the tunnel goes on dialing the old group.
SwapKeepsDial(k) ==
    /\ Pc(k) = "swap"
    /\ running
    /\ active' = Grp(k)
    /\ wired' = wired \cup {Grp(k)}
    /\ lateWrite' = (lateWrite \/ th[k].stopped)
    /\ Goto(k, "old")
    /\ UNCHANGED <<flags, pending, tunnel, context, done, reconnects, ngroups, gst,
                   ncalls, monitors>>

\* The hot swap, under mu.
Swap(k) ==
    /\ Pc(k) = "swap"
    /\ IF running /\ tunnel # None
       THEN /\ tunnel' = Grp(k) /\ active' = Grp(k)
            /\ wired' = wired \cup {Grp(k)}
            /\ lateWrite' = (lateWrite \/ th[k].stopped)
            /\ Goto(k, "old")
            /\ UNCHANGED gst
       ELSE /\ StopGroups({Grp(k)})
            /\ Return(k)
            /\ UNCHANGED <<tunnel, active, wired, lateWrite>>
    /\ UNCHANGED <<flags, pending, context, done, reconnects, ngroups, ncalls, monitors>>

\* Mutant: the old group is left open.
StopOldForgotten(k) ==
    /\ Pc(k) = "old"
    /\ Return(k)
    /\ UNCHANGED <<flags, refs, context, done, reconnects, groups, ncalls, monitors,
                   lateWrite>>

\* oldGroup.Stop()
StopOld(k) ==
    /\ Pc(k) = "old"
    /\ StopGroups({th[k].old})
    /\ Return(k)
    /\ UNCHANGED <<flags, refs, context, done, reconnects, ngroups, wired, ncalls,
                   monitors, lateWrite>>

-----------------------------------------------------------------------------
(* The network.                                                            *)

\* The server has the answers that the owner of g posted.
PeerConnects(g) ==
    /\ gst[g] = "new"
    /\ \E k \in UnderWay : Grp(k) = g /\ Pc(k) \in {"connect", "reconnect"}
    /\ gst' = [gst EXCEPT ![g] = "up"]
    /\ UNCHANGED <<flags, refs, context, done, reconnects, ngroups, wired, ncalls, th,
                   monitors, lateWrite>>

\* ICE fails for good.  The Once of the group runs the callback if there is
\* one by now, and is spent either way.
ICEFails(g) ==
    /\ gst[g] \in {"new", "up"}
    /\ gst' = [gst EXCEPT ![g] = IF @ = "new" THEN "failed"
                                 ELSE IF g \in wired THEN "lost" ELSE "unheard"]
    /\ IF g \in wired
       THEN Spawn(ncalls + 1, [Idle EXCEPT !.kind = "reconnect", !.pc = "begin"])
       ELSE UNCHANGED <<ncalls, th>>
    /\ UNCHANGED <<flags, refs, context, done, reconnects, ngroups, wired, monitors,
                   lateWrite>>

-----------------------------------------------------------------------------
Step(k) ==
    \/ ReadCtx(k)
    \/ GetOffers(k)
    \/ StartGroup(k)
    \/ PostAnswers(k)
    \/ WaitConnected(k)
    \/ ConnectFails(k)
    \/ StorePending(k)
    \/ StartTun(k)
    \/ Commit(k)
    \/ CommitCancelled(k)
    \/ Wire(k)
    \/ BeginReconnect(k)
    \/ GiveUp(k)
    \/ Rebuild(k)
    \/ WaitReconnected(k)
    \/ Swap(k)
    \/ StopOld(k)
    \/ Pc(k) = "stop" /\ StopClient(k)

Next ==
    \/ \E k \in Calls : Step(k) \/ MonitorTick(k) \/ MonitorReset(k) \/ MonitorExits(k)
    \/ \E k \in Calls, what \in {"start", "connect"} : BeginConnect(k, what)
    \/ \E k \in Calls : BeginTunnel(k)
    \/ (connecting \/ running) /\ StopClient(None)
    \/ \E g \in Groups : PeerConnects(g) \/ ICEFails(g)

\* A running call or goroutine takes its next step: everything it waits for has
\* a timeout.  Users and the network owe nothing.  Every behaviour of the bounded
\* system ends, so that one condition is enough.
Fairness ==
    WF_vars(\E k \in Calls : Step(k) \/ MonitorExits(k))

Spec == Init /\ [][Next]_vars /\ Fairness

-----------------------------------------------------------------------------
(* Properties.                                                             *)

\* Every variable has its type.
TypeOK ==
    /\ running \in BOOLEAN /\ connecting \in BOOLEAN /\ lateWrite \in BOOLEAN
    /\ {active, pending, tunnel} \subseteq Groups \cup {None}
    /\ {cancelFn, ctxVar, doneCh} \subseteq Calls \cup {None}
    /\ ctxDone \subseteq Calls /\ doneClosed \subseteq Calls
    /\ reconnects \in 0..MaxReconnects
    /\ ngroups \in 0..MaxGroups
    /\ gst \in [Groups -> {"none", "new", "up", "lost", "unheard", "failed", "stopped"}]
    /\ wired \subseteq Groups
    /\ ncalls \in 0..MaxCalls
    /\ th \in [Calls ->
          [kind : {"none", "start", "connect", "tunnel", "reconnect"},
           pc : {"idle", "ctx", "offers", "create", "created", "connect", "fail",
                 "store", "tun", "commit", "wire", "begin", "giveup", "rebuild",
                 "reconnect", "swap", "old", "stop", "done"},
           grp : Groups \cup {None}, old : Groups \cup {None},
           ctx : Calls \cup {None}, stopped : BOOLEAN]]
    /\ mon \in [Calls -> Groups \cup {None}]
    /\ monDone \in [Calls -> Calls \cup {None}]
    /\ seen \subseteq Calls /\ abandoned \subseteq Groups

\* While the client runs, the tunnel exists and dials the group that the API
\* holds as the active one, also across hot swaps and overlapping attempts;
\* and a stopped client keeps no tunnel (StopClient, attemptFastReconnect).
TunnelDialsActive ==
    /\ running => active # None /\ doneCh # None
    /\ ~running => doneCh = None
    /\ tunnel = active

InUse(g) ==
    g \in {active, pending} \/ \E k \in UnderWay : g \in {Grp(k), th[k].old}

\* A client group with sockets open is always held by a global or by a running
\* call, and so will be stopped, unless a call that StopClient had overtaken went
\* on to write the globals: every other leak is excluded.
NoGroupLeaked ==
    ~lateWrite => \A g \in 1..ngroups : gst[g] # "stopped" => InUse(g)

\* The context that StartClient is given is its own, or StopClient has overtaken
\* it or a call before it: the unlocked read of clientConnectCtx is harmless
\* otherwise.
OwnContext ==
    \A k \in UnderWay :
        th[k].ctx \in {None, k} \/ th[k].stopped \/ lateWrite

\* A running client whose group has lost its connection is stopped or gets
\* another group (attemptFastReconnect), with two exceptions: the failure came
\* before the callback was set, or a tick of the health monitor that had found
\* the group alive reset reconnectCount after the reconnect had found the limit
\* reached and before it read the count again to call StopClient.
DeadClientHandled ==
    \A g \in Groups :
        (running /\ active = g /\ gst[g] = "lost") ~> (active # g \/ g \in abandoned)

\* "Stop client and clean up. Cancels mid-connect if needed." (golib/api.go,
\* StopClient): a call that was under way when StopClient ran does not put the
\* client into the running state.
StopCancelsConnect ==
    [][\A k \in Calls : Pc(k) = "commit" /\ th[k].stopped => Pc(k)' # "wire"]_vars

\* "Don't auto-stop - reconnect callback handles recovery." (golib/api.go,
\* monitorClientHealth): a running client whose group is dead gets another group
\* or is stopped.
ReconnectHandlesRecovery ==
    \A g \in Groups :
        (running /\ active = g /\ gst[g] \in {"lost", "unheard"}) ~> (active # g)

=============================================================================
