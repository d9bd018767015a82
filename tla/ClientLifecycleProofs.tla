----------------------- MODULE ClientLifecycleProofs -----------------------
(***************************************************************************)
(* The WebRTC client of golib/api.go, for any number of calls, groups and  *)
(* reconnects: the tunnel dials the active group, a call that StopClient   *)
(* has not overtaken was given its own context, and every group with open  *)
(* sockets is held by a global or by a call under way.                     *)
(*                                                                         *)
(* The last two rest on mutual exclusion that no lock gives: outside mu,   *)
(* at most one call that StopClient has not overtaken tries to connect,    *)
(* and at most one reconnects.  A call that it has overtaken may break     *)
(* that by writing the globals late, which lateWrite records.              *)
(***************************************************************************)
EXTENDS ClientLifecycle, TLAPS

USE DEF None

(* Control states of a thread. *)
Pcs == {"idle", "ctx", "offers", "create", "created", "connect", "fail",
        "store", "tun", "commit", "wire", "begin", "giveup", "rebuild",
        "reconnect", "swap", "old", "stop", "done"}

Thread ==
    [kind : {"none", "start", "connect", "tunnel", "reconnect"}, pc : Pcs,
     grp : Groups \cup {None}, old : Groups \cup {None},
     ctx : Calls \cup {None}, stopped : BOOLEAN]

GroupStates == {"none", "new", "up", "lost", "unheard", "failed", "stopped"}

(* The part of TypeOK that the other invariants need. *)
Typed ==
    /\ th \in [Calls -> Thread] /\ ncalls \in 0..MaxCalls
    /\ gst \in [Groups -> GroupStates] /\ ngroups \in 0..MaxGroups
    /\ active \in Groups \cup {None} /\ pending \in Groups \cup {None}
    /\ ctxVar \in Calls \cup {None} /\ wired \subseteq Groups

(* Thread k has these fields after the step, the others are as they were. *)
Becomes(k, pc, grp, old, ctx, stopped) ==
    /\ th' \in [Calls -> Thread]
    /\ \A j \in Calls \ {k} : th'[j] = th[j]
    /\ th'[k].pc = pc /\ th'[k].grp = grp /\ th'[k].old = old
    /\ th'[k].ctx = ctx /\ th'[k].stopped = stopped

(* A thread that moves on keeps its local variables. *)
LEMMA GotoBecomes ==
    ASSUME Typed, NEW k \in Calls, NEW s \in Pcs, Goto(k, s)
    PROVE  Becomes(k, s, Grp(k), th[k].old, th[k].ctx, th[k].stopped)
BY DEF Typed, Goto, Becomes, Thread, Grp

(* A thread that returns loses them. *)
LEMMA ReturnBecomes ==
    ASSUME Typed, NEW k \in Calls, Return(k)
    PROVE  Becomes(k, "done", None, None, None, FALSE)
BY DEF Typed, Return, Becomes, Thread, Ended, Idle, Pcs

(* StartClientGroup gives the thread the next group. *)
LEMMA CreateBecomes ==
    ASSUME Typed, NEW k \in Calls, NEW s \in Pcs, CreateGroup(k, s)
    PROVE  Becomes(k, s, ngroups + 1, th[k].old, th[k].ctx, th[k].stopped)
<1> DEFINE t == [th[k] EXCEPT !.grp = ngroups + 1, !.pc = s]
<1>1. th[k] \in Thread /\ ngroups + 1 \in Groups
  BY BoundsAssumption DEF Typed, CreateGroup, Groups
<1>2. t \in Thread
  BY <1>1 DEF Thread
<1>3. /\ t.pc = s /\ t.grp = ngroups + 1 /\ t.old = th[k].old /\ t.ctx = th[k].ctx
      /\ t.stopped = th[k].stopped
  BY <1>1 DEF Thread
<1>4. th' = [th EXCEPT ![k] = t]
  BY DEF CreateGroup, Typed
<1> HIDE DEF t
<1> QED
  BY <1>2, <1>3, <1>4 DEF Becomes, Typed

(* StartClient reads clientConnectCtx after it has dropped mu. *)
LEMMA ReadCtxBecomes ==
    ASSUME Typed, NEW k \in Calls, ReadCtx(k)
    PROVE  Becomes(k, "offers", Grp(k), th[k].old, ctxVar, th[k].stopped)
<1> DEFINE t == [th[k] EXCEPT !.ctx = ctxVar, !.pc = "offers"]
<1>1. th[k] \in Thread /\ ctxVar \in Calls \cup {None}
  BY DEF Typed
<1>2. t \in Thread
  BY <1>1 DEF Thread, Pcs
<1>3. /\ t.pc = "offers" /\ t.grp = Grp(k) /\ t.old = th[k].old /\ t.ctx = ctxVar
      /\ t.stopped = th[k].stopped
  BY <1>1 DEF Thread, Grp
<1>4. th' = [th EXCEPT ![k] = t]
  BY DEF ReadCtx, Typed
<1> HIDE DEF t
<1> QED
  BY <1>2, <1>3, <1>4 DEF Becomes, Typed

(* attemptFastReconnect remembers the group it will replace. *)
LEMMA RebuildBecomes ==
    ASSUME Typed, NEW k \in Calls, th' = [th EXCEPT ![k].old = active, ![k].pc = "rebuild"]
    PROVE  Becomes(k, "rebuild", Grp(k), active, th[k].ctx, th[k].stopped)
<1> DEFINE t == [th[k] EXCEPT !.old = active, !.pc = "rebuild"]
<1>1. th[k] \in Thread /\ active \in Groups \cup {None}
  BY DEF Typed
<1>2. t \in Thread
  BY <1>1 DEF Thread, Pcs
<1>3. /\ t.pc = "rebuild" /\ t.grp = Grp(k) /\ t.old = active /\ t.ctx = th[k].ctx
      /\ t.stopped = th[k].stopped
  BY <1>1 DEF Thread, Grp
<1>4. th' = [th EXCEPT ![k] = t]
  BY DEF Typed
<1> HIDE DEF t
<1> QED
  BY <1>2, <1>3, <1>4 DEF Becomes, Typed

(* A new thread takes the next number. *)
LEMMA SpawnBecomes ==
    ASSUME Typed, NEW k, NEW t \in Thread, Spawn(k, t)
    PROVE  k \in Calls /\ k = ncalls + 1 /\ ncalls' = k
           /\ Becomes(k, t.pc, t.grp, t.old, t.ctx, t.stopped)
BY BoundsAssumption DEF Typed, Spawn, Becomes, Calls

(* The threads that calls and callbacks start. *)
LEMMA NewThreads ==
    ASSUME Typed, NEW k \in Calls
    PROVE  /\ [Idle EXCEPT !.kind = "start", !.pc = "ctx"] \in Thread
           /\ [Idle EXCEPT !.kind = "connect", !.pc = "offers", !.ctx = k] \in Thread
           /\ [Idle EXCEPT !.kind = "tunnel", !.pc = "tun", !.grp = pending] \in Thread
           /\ [Idle EXCEPT !.kind = "reconnect", !.pc = "begin"] \in Thread
BY DEF Typed, Idle, Thread, Pcs

(* StopClient ends its own thread and overtakes every other one under way, which *)
(* keeps its place and its local variables.                                      *)
LEMMA StopBecomes ==
    ASSUME Typed, NEW k \in Calls \cup {None}, StopClient(k)
    PROVE  /\ th' \in [Calls -> Thread]
           /\ \A j \in Calls : j = k => th'[j] = Ended
           /\ \A j \in Calls : j # k =>
                 /\ th'[j].pc = th[j].pc /\ th'[j].grp = th[j].grp /\ th'[j].old = th[j].old
                 /\ th'[j].ctx = th[j].ctx
                 /\ j \in UnderWay => th'[j].stopped
                 /\ j \notin UnderWay => th'[j] = th[j]
<1>1. Ended \in Thread
  BY DEF Ended, Idle, Thread, Pcs
<1>2. \A j \in Calls : [th[j] EXCEPT !.stopped = TRUE] \in Thread
  BY DEF Typed, Thread
<1>3. th' = [j \in Calls |-> CASE j = k                  -> Ended
                               [] j \in UnderWay \ {k}   -> [th[j] EXCEPT !.stopped = TRUE]
                               [] OTHER                  -> th[j]]
  BY DEF StopClient
<1> QED
  BY <1>1, <1>2, <1>3 DEF Typed, Thread

(* The variables of the invariants, besides gst and th. *)
core == <<running, connecting, active, pending, tunnel, doneCh, ctxVar, wired,
          ngroups, ncalls, lateWrite>>

(* What a step does to its thread. *)
Moves(k, s) == Becomes(k, s, Grp(k), th[k].old, th[k].ctx, th[k].stopped)
Finishes(k) == Becomes(k, "done", None, None, None, FALSE)

(* The control flow of a thread where it keeps its group and where it stops it. *)
Keeps(k, s) ==
    \/ Pc(k) = "offers" /\ s \in {"create", "fail"}
    \/ Pc(k) = "create" /\ s = "fail"
    \/ Pc(k) = "created" /\ s = "connect"
    \/ Pc(k) = "connect" /\ s \in {"store", "tun"} /\ WaitSucceeds(k)
    \/ Pc(k) = "tun" /\ s = "commit"
    \/ Pc(k) = "begin" /\ s = "giveup"
    \/ Pc(k) = "giveup" /\ s = "stop"
    \/ Pc(k) = "rebuild" /\ s = "stop"
    \/ Pc(k) = "reconnect" /\ s = "swap" /\ WaitSucceeds(k)

Drops(k, s) ==
    \/ Pc(k) = "created" /\ s \in {"create", "fail"}
    \/ Pc(k) \in {"connect", "tun", "commit"} /\ s = "fail"
    \/ Pc(k) = "reconnect" /\ s = "stop"

(* The kinds of step of a thread: it moves on, creates a group, reads the context, *)
(* begins to reconnect, ends without touching a global, or writes the globals.     *)
Goes(k) ==
    /\ UNCHANGED core
    /\ \E s \in Pcs : /\ Moves(k, s)
                      /\ \/ Keeps(k, s) /\ UNCHANGED gst
                         \/ Drops(k, s) /\ StopGroups({Grp(k)})

Creates(k) ==
    /\ UNCHANGED <<running, connecting, active, pending, tunnel, doneCh, ctxVar, wired,
                   ncalls, lateWrite>>
    /\ ngroups + 1 \in Groups /\ ngroups' = ngroups + 1
    /\ gst' = [gst EXCEPT ![ngroups + 1] = "new"]
    /\ \E s \in Pcs :
         /\ Becomes(k, s, ngroups + 1, th[k].old, th[k].ctx, th[k].stopped)
         /\ \/ Pc(k) = "create" /\ s = "created"
            \/ Pc(k) = "rebuild" /\ s = "reconnect"

Reads(k) ==
    /\ UNCHANGED core /\ UNCHANGED gst
    /\ Pc(k) = "ctx"
    /\ Becomes(k, "offers", Grp(k), th[k].old, ctxVar, th[k].stopped)

Revives(k) ==
    /\ UNCHANGED core /\ UNCHANGED gst
    /\ Pc(k) = "begin" /\ running
    /\ Becomes(k, "rebuild", Grp(k), active, th[k].ctx, th[k].stopped)

Ends(k) ==
    /\ UNCHANGED core
    /\ Finishes(k)
    /\ \/ Pc(k) = "giveup" /\ UNCHANGED gst
       \/ Pc(k) = "swap" /\ StopGroups({Grp(k)})
       \/ Pc(k) = "old" /\ StopGroups({th[k].old})

Publishes(k) ==
    \/ ConnectFails(k) /\ Finishes(k)
    \/ StorePending(k) /\ Finishes(k)
    \/ Commit(k) /\ Moves(k, "wire")
    \/ Wire(k) /\ Finishes(k)
    \/ Swap(k) /\ running /\ tunnel # None /\ Moves(k, "old")

(* Every step of a thread but its StopClient is of one of these kinds. *)
LEMMA StepKinds ==
    ASSUME Typed, NEW k \in Calls, Step(k), ~(Pc(k) = "stop" /\ StopClient(k))
    PROVE  Goes(k) \/ Creates(k) \/ Reads(k) \/ Revives(k) \/ Ends(k) \/ Publishes(k)
<1> USE DEF core, flags, refs, context, done, groups, monitors, Moves, Finishes, Keeps, Drops
<1>0. /\ {"create", "created", "connect", "fail", "store", "tun", "commit", "wire",
          "giveup", "reconnect", "swap", "old", "stop"} \subseteq Pcs
  BY DEF Pcs
<1>1. CASE ReadCtx(k)
  BY <1>1, ReadCtxBecomes DEF ReadCtx, Reads
<1>2. CASE GetOffers(k)
  BY <1>0, <1>2, GotoBecomes DEF GetOffers, Goes
<1>3. CASE StartGroup(k)
  <2>1. CASE CreateGroup(k, "created")
    <3>1. ngroups + 1 \in Groups
      BY <2>1, BoundsAssumption DEF CreateGroup, Typed, Groups
    <3> QED
      BY <1>0, <1>3, <2>1, <3>1, CreateBecomes DEF StartGroup, CreateGroup, Creates
  <2>2. CASE Goto(k, "fail") /\ UNCHANGED groups
    BY <1>0, <1>3, <2>2, GotoBecomes DEF StartGroup, Goes
  <2> QED
    BY <1>3, <2>1, <2>2 DEF StartGroup
<1>4. CASE PostAnswers(k)
  BY <1>0, <1>4, GotoBecomes DEF PostAnswers, Goes
<1>5. CASE WaitConnected(k)
  BY <1>0, <1>5, GotoBecomes DEF WaitConnected, Goes
<1>6. CASE ConnectFails(k)
  BY <1>6, ReturnBecomes DEF ConnectFails, Publishes
<1>7. CASE StorePending(k)
  BY <1>7, ReturnBecomes DEF StorePending, Publishes
<1>8. CASE StartTun(k)
  BY <1>0, <1>8, GotoBecomes DEF StartTun, Goes
<1>9. CASE Commit(k)
  BY <1>0, <1>9, GotoBecomes DEF Commit, Publishes
<1>10. CASE CommitCancelled(k)
  BY <1>0, <1>10, GotoBecomes DEF CommitCancelled, Goes
<1>11. CASE Wire(k)
  BY <1>11, ReturnBecomes DEF Wire, Publishes
<1>12. CASE BeginReconnect(k)
  <2>1. CASE running /\ reconnects < MaxReconnects
    BY <1>12, <2>1, RebuildBecomes DEF BeginReconnect, Revives
  <2>2. CASE ~(running /\ reconnects < MaxReconnects)
    BY <1>0, <1>12, <2>2, GotoBecomes DEF BeginReconnect, Goes
  <2> QED
    BY <2>1, <2>2
<1>13. CASE GiveUp(k)
  <2>1. CASE Goto(k, "stop")
    BY <1>0, <1>13, <2>1, GotoBecomes DEF GiveUp, Goes
  <2>2. CASE Return(k)
    BY <1>13, <2>2, ReturnBecomes DEF GiveUp, Ends
  <2> QED
    BY <1>13, <2>1, <2>2 DEF GiveUp
<1>14. CASE Rebuild(k)
  <2>1. CASE CreateGroup(k, "reconnect")
    <3>1. ngroups + 1 \in Groups
      BY <2>1, BoundsAssumption DEF CreateGroup, Typed, Groups
    <3> QED
      BY <1>0, <1>14, <2>1, <3>1, CreateBecomes DEF Rebuild, CreateGroup, Creates
  <2>2. CASE Goto(k, "stop") /\ UNCHANGED groups
    BY <1>0, <1>14, <2>2, GotoBecomes DEF Rebuild, Goes
  <2> QED
    BY <1>14, <2>1, <2>2 DEF Rebuild
<1>15. CASE WaitReconnected(k)
  BY <1>0, <1>15, GotoBecomes DEF WaitReconnected, Goes
<1>16. CASE Swap(k)
  <2>1. CASE running /\ tunnel # None
    BY <1>0, <1>16, <2>1, GotoBecomes DEF Swap, Publishes
  <2>2. CASE ~(running /\ tunnel # None)
    BY <1>16, <2>2, ReturnBecomes DEF Swap, Ends
  <2> QED
    BY <2>1, <2>2
<1>17. CASE StopOld(k)
  BY <1>17, ReturnBecomes DEF StopOld, Ends
<1> QED
  BY <1>1, <1>2, <1>3, <1>4, <1>5, <1>6, <1>7, <1>8, <1>9, <1>10, <1>11, <1>12, <1>13,
     <1>14, <1>15, <1>16, <1>17 DEF Step

(* The steps that start threads, and the events of a group: a call begins to *)
(* connect, StartTunnel takes the pending group, a group loses its           *)
(* connection or comes up.                                                   *)
Begins(k) ==
    /\ UNCHANGED <<running, active, pending, tunnel, doneCh, wired, ngroups, lateWrite, gst>>
    /\ ~running /\ ~connecting /\ connecting' = TRUE /\ ctxVar' = k
    /\ k = ncalls + 1 /\ ncalls' = k
    /\ \/ Becomes(k, "ctx", None, None, None, FALSE)
       \/ Becomes(k, "offers", None, None, k, FALSE)

Tunnels(k) ==
    /\ UNCHANGED <<running, connecting, active, tunnel, doneCh, ctxVar, wired, ngroups,
                   lateWrite, gst>>
    /\ connecting /\ pending # None /\ pending' = None
    /\ k = ncalls + 1 /\ ncalls' = k
    /\ Becomes(k, "tun", pending, None, None, FALSE)

Fades(g) ==
    /\ UNCHANGED <<running, connecting, active, pending, tunnel, doneCh, ctxVar, wired,
                   ngroups, lateWrite>>
    /\ \/ gst[g] = "new" /\ gst' = [gst EXCEPT ![g] = "failed"]
       \/ gst[g] = "up" /\ gst' = [gst EXCEPT ![g] = IF g \in wired THEN "lost" ELSE "unheard"]
    /\ \/ g \notin wired /\ UNCHANGED <<ncalls, th>>
       \/ /\ g \in wired /\ ncalls + 1 \in Calls /\ ncalls' = ncalls + 1
          /\ Becomes(ncalls + 1, "begin", None, None, None, FALSE)

Rises(g) ==
    UNCHANGED core /\ UNCHANGED th /\ gst[g] = "new" /\ gst' = [gst EXCEPT ![g] = "up"]

(* Each of the other actions is one of those, or touches nothing of interest. *)
LEMMA OtherKinds ==
    ASSUME Typed
    PROVE  /\ \A k \in Calls, what \in {"start", "connect"} : BeginConnect(k, what) => Begins(k)
           /\ \A k \in Calls : BeginTunnel(k) => Tunnels(k)
           /\ \A g \in Groups : PeerConnects(g) => Rises(g)
           /\ \A g \in Groups : ICEFails(g) => Fades(g)
           /\ \A k \in Calls : MonitorTick(k) \/ MonitorReset(k) \/ MonitorExits(k) => UNCHANGED <<core, gst, th>>
           /\ UNCHANGED vars => UNCHANGED <<core, gst, th>>
<1> USE DEF core, flags, refs, context, done, groups, monitors
<1>1. ASSUME NEW k \in Calls, BeginConnect(k, "start") PROVE Begins(k)
  <2> DEFINE t == [Idle EXCEPT !.kind = "start", !.pc = "ctx"]
  <2>1. t \in Thread /\ Spawn(k, t)
    BY <1>1, NewThreads DEF BeginConnect
  <2>2. t.pc = "ctx" /\ t.grp = None /\ t.old = None /\ t.ctx = None /\ t.stopped = FALSE
    BY DEF Idle
  <2> HIDE DEF t
  <2>3. k = ncalls + 1 /\ ncalls' = k /\ Becomes(k, "ctx", None, None, None, FALSE)
    BY <2>1, <2>2, SpawnBecomes
  <2> QED
    BY <1>1, <2>3 DEF BeginConnect, Begins
<1>2. ASSUME NEW k \in Calls, BeginConnect(k, "connect") PROVE Begins(k)
  <2> DEFINE t == [Idle EXCEPT !.kind = "connect", !.pc = "offers", !.ctx = k]
  <2>1. t \in Thread /\ Spawn(k, t)
    BY <1>2, NewThreads DEF BeginConnect
  <2>2. t.pc = "offers" /\ t.grp = None /\ t.old = None /\ t.ctx = k /\ t.stopped = FALSE
    BY DEF Idle
  <2> HIDE DEF t
  <2>3. k = ncalls + 1 /\ ncalls' = k /\ Becomes(k, "offers", None, None, k, FALSE)
    BY <2>1, <2>2, SpawnBecomes
  <2> QED
    BY <1>2, <2>3 DEF BeginConnect, Begins
<1>3. ASSUME NEW k \in Calls, BeginTunnel(k) PROVE Tunnels(k)
  <2> DEFINE t == [Idle EXCEPT !.kind = "tunnel", !.pc = "tun", !.grp = pending]
  <2>1. t \in Thread /\ Spawn(k, t)
    BY <1>3, NewThreads DEF BeginTunnel
  <2>2. t.pc = "tun" /\ t.grp = pending /\ t.old = None /\ t.ctx = None /\ t.stopped = FALSE
    BY DEF Idle
  <2> HIDE DEF t
  <2>3. k = ncalls + 1 /\ ncalls' = k /\ Becomes(k, "tun", pending, None, None, FALSE)
    BY <2>1, <2>2, SpawnBecomes
  <2> QED
    BY <1>3, <2>3 DEF BeginTunnel, Tunnels
<1>4. ASSUME NEW g \in Groups, PeerConnects(g) PROVE Rises(g)
  BY <1>4 DEF PeerConnects, Rises
<1>5. ASSUME NEW g \in Groups, ICEFails(g) PROVE Fades(g)
  <2>1. \/ gst[g] = "new" /\ gst' = [gst EXCEPT ![g] = "failed"]
        \/ gst[g] = "up" /\ gst' = [gst EXCEPT ![g] = IF g \in wired THEN "lost" ELSE "unheard"]
    <3>1. CASE gst[g] = "new"
      BY <1>5, <3>1 DEF ICEFails
    <3>2. CASE gst[g] = "up" /\ g \in wired
      BY <1>5, <3>2 DEF ICEFails
    <3>3. CASE gst[g] = "up" /\ g \notin wired
      BY <1>5, <3>3 DEF ICEFails
    <3> QED
      BY <1>5, <3>1, <3>2, <3>3 DEF ICEFails
  <2>2. CASE g \in wired
    <3> DEFINE t == [Idle EXCEPT !.kind = "reconnect", !.pc = "begin"]
    <3>1. Spawn(ncalls + 1, t)
      BY <1>5, <2>2 DEF ICEFails
    <3>2. t.pc = "begin" /\ t.grp = None /\ t.old = None /\ t.ctx = None /\ t.stopped = FALSE
      BY DEF Idle
    <3>3. t \in Thread
      BY DEF Idle, Thread, Pcs
    <3> HIDE DEF t
    <3>4. ncalls + 1 \in Calls /\ ncalls' = ncalls + 1
          /\ Becomes(ncalls + 1, "begin", None, None, None, FALSE)
      BY <3>1, <3>2, <3>3, SpawnBecomes
    <3> QED
      BY <1>5, <2>1, <2>2, <3>4 DEF ICEFails, Fades
  <2>3. CASE g \notin wired
    BY <1>5, <2>1, <2>3 DEF ICEFails, Fades
  <2> QED
    BY <2>2, <2>3
<1>6. ASSUME NEW k \in Calls, MonitorTick(k) \/ MonitorReset(k) \/ MonitorExits(k) PROVE UNCHANGED <<core, gst, th>>
  BY <1>6 DEF MonitorTick, MonitorReset, MonitorExits
<1>7. UNCHANGED vars => UNCHANGED <<core, gst, th>>
  BY DEF vars
<1> QED
  BY <1>1, <1>2, <1>3, <1>4, <1>5, <1>6, <1>7

(* Every step is of one of these kinds. *)
LEMMA StepCases ==
    ASSUME Typed, [Next]_vars
    PROVE  \/ \E k \in Calls : \/ Goes(k) \/ Creates(k) \/ Reads(k) \/ Revives(k) \/ Ends(k)
                               \/ Publishes(k) \/ Begins(k) \/ Tunnels(k)
           \/ \E k \in Calls \cup {None} : StopClient(k) /\ (k \in Calls => Pc(k) = "stop")
           \/ \E g \in Groups : Rises(g) \/ Fades(g)
           \/ UNCHANGED <<core, gst, th>>
<1>1. ASSUME NEW k \in Calls, Step(k)
      PROVE  \/ Goes(k) \/ Creates(k) \/ Reads(k) \/ Revives(k) \/ Ends(k) \/ Publishes(k)
             \/ StopClient(k) /\ Pc(k) = "stop"
  BY <1>1, StepKinds
<1>2. CASE \E k \in Calls : Step(k)
  BY <1>1, <1>2
<1>3. CASE \E k \in Calls : MonitorTick(k) \/ MonitorReset(k) \/ MonitorExits(k)
  BY <1>3, OtherKinds
<1>4. CASE \E k \in Calls, what \in {"start", "connect"} : BeginConnect(k, what)
  BY <1>4, OtherKinds
<1>5. CASE \E k \in Calls : BeginTunnel(k)
  BY <1>5, OtherKinds
<1>6. CASE StopClient(None)
  <2>1. None \in Calls \cup {None} /\ None \notin Calls
    BY DEF Calls
  <2> QED
    BY <1>6, <2>1
<1>7. CASE \E g \in Groups : PeerConnects(g) \/ ICEFails(g)
  BY <1>7, OtherKinds
<1>8. CASE UNCHANGED vars
  BY <1>8, OtherKinds
<1> QED
  BY <1>2, <1>3, <1>4, <1>5, <1>6, <1>7, <1>8 DEF Next

(* Where a thread answers for the group in its local variable, and where that *)
(* group has been connected.                                                  *)
HoldPcs == {"created", "connect", "store", "tun", "commit", "reconnect", "swap"}
UpPcs == {"store", "tun", "commit", "wire", "swap"}
Risen == {"up", "lost", "unheard", "stopped"}

WasUp(g) == g # None => gst[g] \in Risen

(* A thread has started before it has a state, its old group was once active, and *)
(* the group it answers for exists.                                               *)
KnownThread(k) ==
    /\ k > ncalls => Pc(k) = "idle"
    /\ WasUp(th[k].old)
    /\ Pc(k) \in HoldPcs \cup UpPcs => Grp(k) \in 1..ngroups
    /\ Pc(k) \in UpPcs => WasUp(Grp(k))

(* A group that has not been created is in no state, and the globals, the callbacks *)
(* and the threads name groups that were connected.                                 *)
Known ==
    /\ \A g \in Groups : g > ngroups => gst[g] = "none"
    /\ WasUp(active) /\ WasUp(pending) /\ \A g \in wired : WasUp(g)
    /\ \A k \in Calls : KnownThread(k)

(* Types are kept; Wire and Swap need that the thread has a group. *)
LEMMA TypedStep ==
    ASSUME Typed, Known, [Next]_vars
    PROVE  Typed'
<1> USE BoundsAssumption DEF Typed, core
<1>1. ASSUME NEW k \in Calls, Goes(k) PROVE Typed'
  BY <1>1 DEF Goes, Moves, Becomes, StopGroups, GroupStates
<1>2. ASSUME NEW k \in Calls, Creates(k) PROVE Typed'
  BY <1>2 DEF Creates, Becomes, GroupStates, Groups
<1>3. ASSUME NEW k \in Calls, Reads(k) \/ Revives(k) PROVE Typed'
  BY <1>3 DEF Reads, Revives, Becomes
<1>4. ASSUME NEW k \in Calls, Ends(k) PROVE Typed'
  BY <1>4 DEF Ends, Finishes, Becomes, StopGroups, GroupStates
<1>5. ASSUME NEW k \in Calls, Publishes(k) PROVE Typed'
  <2>1. th[k] \in Thread /\ Grp(k) \in Groups \cup {None}
    BY DEF Grp, Thread
  <2>2. CASE ConnectFails(k) /\ Finishes(k)
    BY <2>2 DEF ConnectFails, Finishes, Becomes, StopGroups, GroupStates, done, monitors
  <2>3. CASE StorePending(k) /\ Finishes(k)
    BY <2>1, <2>3 DEF StorePending, Finishes, Becomes, context, groups
  <2>4. CASE Commit(k) /\ Moves(k, "wire")
    BY <2>1, <2>4 DEF Commit, Moves, Becomes, context, groups
  <2>5. CASE Wire(k) /\ Finishes(k)
    <3>1. Grp(k) \in Groups
      BY <2>5 DEF Wire, Known, KnownThread, UpPcs, Groups
    <3>2. wired' \subseteq Groups
      BY <2>5, <3>1 DEF Wire
    <3> QED
      BY <2>5, <3>2 DEF Wire, Finishes, Becomes, refs, context
  <2>6. CASE Swap(k) /\ running /\ tunnel # None /\ Moves(k, "old")
    <3>1. Grp(k) \in Groups
      BY <2>6 DEF Swap, Known, KnownThread, UpPcs, Groups
    <3>2. wired' \subseteq Groups
      BY <2>6, <3>1 DEF Swap
    <3> QED
      BY <2>6, <3>1, <3>2 DEF Swap, Moves, Becomes, context
  <2> QED
    BY <1>5, <2>2, <2>3, <2>4, <2>5, <2>6 DEF Publishes
<1>6. ASSUME NEW k \in Calls, Begins(k) \/ Tunnels(k) PROVE Typed'
  BY <1>6 DEF Begins, Tunnels, Becomes, Calls
<1>7. ASSUME NEW k \in Calls \cup {None}, StopClient(k) PROVE Typed'
  <2>1. th' \in [Calls -> Thread]
    BY <1>7, StopBecomes
  <2>2. active' \in Groups \cup {None} /\ pending' \in Groups \cup {None}
    BY <1>7 DEF StopClient
  <2>3. gst' \in [Groups -> GroupStates]
    BY <1>7 DEF StopClient, StopGroups, GroupStates
  <2> QED
    BY <1>7, <2>1, <2>2, <2>3 DEF StopClient
<1>8. ASSUME NEW g \in Groups, Rises(g) PROVE Typed'
  BY <1>8 DEF Rises, GroupStates
<1>9. ASSUME NEW g \in Groups, Fades(g) PROVE Typed'
  BY <1>9 DEF Fades, Becomes, GroupStates, Calls
<1>10. CASE UNCHANGED <<core, gst, th>>
  BY <1>10
<1> QED
  BY <1>1, <1>2, <1>3, <1>4, <1>5, <1>6, <1>7, <1>8, <1>9, <1>10, StepCases

(* No step refers to a group that does not exist, and none brings one back to life. *)
LEMMA KnownStep ==
    ASSUME Typed, Known, [Next]_vars
    PROVE  Known'
<1> USE BoundsAssumption DEF Typed, core, Calls, Groups
<1>0. \A j \in Calls : /\ th[j] \in Thread /\ Grp(j) \in Groups \cup {None}
                       /\ th[j].old \in Groups \cup {None}
  BY DEF Thread, Grp
<1>a. ASSUME NEW S, StopGroups(S), UNCHANGED ngroups, \A g \in S : g <= ngroups
      PROVE  /\ \A g \in Groups : g > ngroups' => gst'[g] = "none"
             /\ \A g \in Groups \cup {None} : WasUp(g) => WasUp(g)'
  BY <1>a DEF StopGroups, Known, WasUp, Risen
<1>b. \A g \in Groups \cup {None} : WasUp(g) => g <= ngroups
  BY DEF WasUp, Known, Risen
<1>1. ASSUME NEW k \in Calls, Goes(k) PROVE Known'
  <2>1. PICK s \in Pcs : Moves(k, s) /\ \/ Keeps(k, s) /\ UNCHANGED gst
                                        \/ Drops(k, s) /\ StopGroups({Grp(k)})
    BY <1>1 DEF Goes
  <2>2. UNCHANGED core
    BY <1>1 DEF Goes
  <2>3. Drops(k, s) => Grp(k) <= ngroups
    BY <1>0 DEF Drops, Known, KnownThread, HoldPcs
  <2>4. /\ \A g \in Groups : g > ngroups' => gst'[g] = "none"
        /\ \A g \in Groups \cup {None} : WasUp(g) => WasUp(g)'
    BY <1>a, <2>1, <2>2, <2>3 DEF Known, WasUp
  <2>5. \A j \in Calls \ {k} : KnownThread(j)'
    BY <1>0, <2>1, <2>2, <2>4 DEF Known, KnownThread, Moves, Becomes, Pc, Grp, WasUp
  <2>6. KnownThread(k)'
    <3>1. k <= ncalls
      BY <2>1 DEF Known, KnownThread, Keeps, Drops
    <3>2. WasUp(th[k].old)'
      BY <1>0, <2>1, <2>4 DEF Known, KnownThread, Moves, Becomes, WasUp
    <3>3. CASE Keeps(k, s) /\ UNCHANGED gst
      BY <2>1, <2>2, <3>1, <3>2, <3>3 DEF Known, KnownThread, Moves, Becomes, Pc, Grp, WasUp, Keeps,
         HoldPcs, UpPcs, Risen, WaitSucceeds
    <3>4. CASE Drops(k, s)
      BY <2>1, <2>2, <3>1, <3>2, <3>4 DEF KnownThread, Moves, Becomes, Pc, Grp, Drops, HoldPcs, UpPcs
    <3> QED
      BY <2>1, <3>3, <3>4
  <2> QED
    BY <2>2, <2>4, <2>5, <2>6 DEF Known, WasUp
<1>2. ASSUME NEW k \in Calls, Creates(k) PROVE Known'
  <2>1. \A g \in Groups \cup {None} : WasUp(g) => WasUp(g)'
    BY <1>2 DEF Creates, Known, WasUp, Risen
  <2>2. \A g \in Groups : g > ngroups' => gst'[g] = "none"
    BY <1>2 DEF Creates, Known
  <2>3. \A j \in Calls \ {k} : KnownThread(j)'
    BY <1>0, <1>2, <2>1 DEF Known, KnownThread, Creates, Becomes, Pc, Grp, WasUp
  <2>4. KnownThread(k)'
    <3>1. PICK s \in {"created", "reconnect"} :
             /\ Becomes(k, s, ngroups + 1, th[k].old, th[k].ctx, th[k].stopped)
             /\ Pc(k) # "idle"
      BY <1>2 DEF Creates
    <3> QED
      BY <1>0, <1>2, <2>1, <3>1 DEF Known, KnownThread, Creates, Becomes, Pc, Grp, WasUp, UpPcs
  <2> QED
    BY <1>2, <2>1, <2>2, <2>3, <2>4 DEF Known, Creates, WasUp
<1>3. ASSUME NEW k \in Calls, Reads(k) \/ Revives(k) PROVE Known'
  <2>1. UNCHANGED <<core, gst>>
    BY <1>3 DEF Reads, Revives
  <2>2. \A j \in Calls : KnownThread(j)'
    BY <1>3, <2>1 DEF Known, KnownThread, Reads, Revives, Becomes, Pc, Grp, WasUp, HoldPcs, UpPcs
  <2> QED
    BY <2>1, <2>2 DEF Known, WasUp
<1>4. ASSUME NEW k \in Calls, Finishes(k), UNCHANGED ncalls, UNCHANGED ngroups, Pc(k) # "idle",
             \A g \in Groups \cup {None} : WasUp(g) => WasUp(g)'
      PROVE  \A j \in Calls : KnownThread(j)'
  BY <1>0, <1>4 DEF Known, KnownThread, Finishes, Becomes, Pc, Grp, WasUp, HoldPcs, UpPcs
<1>5. ASSUME NEW k \in Calls, Ends(k) PROVE Known'
  <2>1. UNCHANGED core /\ Finishes(k) /\ Pc(k) # "idle"
    BY <1>5 DEF Ends
  <2>2. PICK S \in SUBSET (Groups \cup {None}) :
           (UNCHANGED gst \/ StopGroups(S)) /\ \A g \in S : g <= ngroups
    <3>1. CASE UNCHANGED gst
      <4> WITNESS {} \in SUBSET (Groups \cup {None})
      <4> QED
        BY <3>1
    <3>2. CASE Pc(k) = "swap" /\ StopGroups({Grp(k)})
      BY <1>0, <3>2 DEF Known, KnownThread, HoldPcs
    <3>3. CASE Pc(k) = "old" /\ StopGroups({th[k].old})
      BY <1>0, <1>b, <3>3 DEF Known, KnownThread
    <3> QED
      BY <1>5, <3>1, <3>2, <3>3 DEF Ends
  <2>3. /\ \A g \in Groups : g > ngroups' => gst'[g] = "none"
        /\ \A g \in Groups \cup {None} : WasUp(g) => WasUp(g)'
    BY <1>a, <2>1, <2>2 DEF Known, WasUp
  <2> QED
    BY <1>4, <2>1, <2>3 DEF Known, WasUp
<1>6. ASSUME NEW k \in Calls, Publishes(k) PROVE Known'
  <2>1. CASE ConnectFails(k) /\ Finishes(k)
    <3>1. UNCHANGED <<active, ngroups, wired, ncalls>> /\ Pc(k) # "idle"
      BY <2>1 DEF ConnectFails
    <3>2. UNCHANGED <<gst, pending>> \/ (StopGroups({pending}) /\ pending' = None)
      BY <2>1 DEF ConnectFails
    <3>3. /\ \A g \in Groups : g > ngroups' => gst'[g] = "none"
          /\ \A g \in Groups \cup {None} : WasUp(g) => WasUp(g)'
      BY <1>a, <1>b, <3>1, <3>2 DEF Known, WasUp
    <3>4. \A j \in Calls : KnownThread(j)'
      BY <1>4, <2>1, <3>1, <3>3
    <3>5. WasUp(pending)'
      BY <3>2, <3>3 DEF Known, WasUp
    <3> QED
      BY <3>1, <3>3, <3>4, <3>5 DEF Known, WasUp
  <2>2. CASE StorePending(k) /\ Finishes(k)
    <3>1. UNCHANGED <<active, gst, ngroups, wired, ncalls>> /\ Pc(k) = "store" /\ pending' = Grp(k)
      BY <2>2 DEF StorePending, groups
    <3>2. \A j \in Calls : KnownThread(j)'
      BY <1>4, <2>2, <3>1 DEF WasUp
    <3>3. WasUp(pending)'
      BY <3>1 DEF Known, KnownThread, UpPcs, WasUp
    <3> QED
      BY <3>1, <3>2, <3>3 DEF Known, WasUp
  <2>3. CASE Commit(k) /\ Moves(k, "wire")
    <3>1. UNCHANGED <<pending, gst, ngroups, wired, ncalls>> /\ Pc(k) = "commit" /\ active' = Grp(k)
      BY <2>3 DEF Commit, groups
    <3>2. \A j \in Calls : KnownThread(j)'
      BY <2>3, <3>1 DEF Known, KnownThread, Moves, Becomes, Pc, Grp, WasUp, HoldPcs, UpPcs
    <3>3. WasUp(active)'
      BY <3>1 DEF Known, KnownThread, UpPcs, WasUp
    <3> QED
      BY <3>1, <3>2, <3>3 DEF Known, WasUp
  <2>4. CASE Wire(k) /\ Finishes(k)
    <3>1. UNCHANGED <<active, pending, gst, ngroups, ncalls>> /\ Pc(k) = "wire"
          /\ wired' = wired \cup {Grp(k)}
      BY <2>4 DEF Wire, refs
    <3>2. \A j \in Calls : KnownThread(j)'
      BY <1>4, <2>4, <3>1 DEF WasUp
    <3>3. \A g \in wired' : WasUp(g)'
      BY <3>1 DEF Known, KnownThread, UpPcs, WasUp
    <3> QED
      BY <3>1, <3>2, <3>3 DEF Known, WasUp
  <2>5. CASE Swap(k) /\ running /\ tunnel # None /\ Moves(k, "old")
    <3>1. UNCHANGED <<pending, gst, ngroups, ncalls>> /\ Pc(k) = "swap"
          /\ wired' = wired \cup {Grp(k)} /\ active' = Grp(k)
      BY <2>5 DEF Swap
    <3>2. \A j \in Calls : KnownThread(j)'
      BY <2>5, <3>1 DEF Known, KnownThread, Moves, Becomes, Pc, Grp, WasUp, HoldPcs, UpPcs
    <3>3. WasUp(active)' /\ \A g \in wired' : WasUp(g)'
      BY <3>1 DEF Known, KnownThread, UpPcs, WasUp
    <3> QED
      BY <3>1, <3>2, <3>3 DEF Known, WasUp
  <2> QED
    BY <1>6, <2>1, <2>2, <2>3, <2>4, <2>5 DEF Publishes
<1>7. ASSUME NEW k \in Calls, Begins(k) PROVE Known'
  <2>1. \A j \in Calls : KnownThread(j)'
    BY <1>7 DEF Known, KnownThread, Begins, Becomes, Pc, Grp, WasUp, HoldPcs, UpPcs
  <2> QED
    BY <1>7, <2>1 DEF Begins, Known, WasUp
<1>8. ASSUME NEW k \in Calls, Tunnels(k) PROVE Known'
  <2>1. pending \in 1..ngroups
    BY <1>8, <1>b DEF Known, Tunnels
  <2>2. \A j \in Calls \ {k} : KnownThread(j)'
    BY <1>8 DEF Known, KnownThread, Tunnels, Becomes, Pc, Grp, WasUp
  <2>3. KnownThread(k)'
    BY <1>8, <2>1 DEF Known, KnownThread, Tunnels, Becomes, Pc, Grp, WasUp
  <2> QED
    BY <1>8, <2>2, <2>3 DEF Tunnels, Known, WasUp
<1>9. ASSUME NEW k \in Calls \cup {None}, StopClient(k), k \in Calls => Pc(k) = "stop" PROVE Known'
  <2>1. UNCHANGED <<ngroups, wired, ncalls>> /\ active' \in {active, None} /\ pending' \in {pending, None}
    BY <1>9 DEF StopClient
  <2>2. PICK S \in SUBSET {active, pending} : StopGroups(S)
    BY <1>9 DEF StopClient
  <2>3. /\ \A g \in Groups : g > ngroups' => gst'[g] = "none"
        /\ \A g \in Groups \cup {None} : WasUp(g) => WasUp(g)'
    BY <1>a, <1>b, <2>1, <2>2 DEF Known
  <2>4. ASSUME NEW j \in Calls, j # k PROVE KnownThread(j)'
    <3>1. th'[j].pc = th[j].pc /\ th'[j].grp = th[j].grp /\ th'[j].old = th[j].old
      BY <1>9, <2>4, StopBecomes
    <3>2. KnownThread(j) /\ UNCHANGED <<ngroups, ncalls>>
      BY <2>1 DEF Known
    <3> QED
      BY <1>0, <2>3, <3>1, <3>2 DEF KnownThread, Pc, Grp
  <2>5. ASSUME k \in Calls PROVE KnownThread(k)'
    <3>1. th'[k] = Ended
      BY <1>9, <2>5, StopBecomes
    <3> QED
      BY <1>9, <2>1, <2>5, <3>1 DEF Known, KnownThread, Ended, Idle, Pc, Grp, WasUp, HoldPcs, UpPcs
  <2> QED
    BY <2>1, <2>3, <2>4, <2>5 DEF Known, WasUp
<1>10. ASSUME NEW g \in Groups, Rises(g) PROVE Known'
  <2>1. /\ \A h \in Groups : h > ngroups' => gst'[h] = "none"
        /\ \A h \in Groups \cup {None} : WasUp(h) => WasUp(h)'
    BY <1>10 DEF Rises, Known, WasUp, Risen
  <2>2. \A j \in Calls : KnownThread(j)'
    BY <1>0, <1>10, <2>1 DEF Rises, Known, KnownThread, Pc, Grp, WasUp
  <2> QED
    BY <1>10, <2>1, <2>2 DEF Rises, Known, WasUp
<1>11. ASSUME NEW g \in Groups, Fades(g) PROVE Known'
  <2>1. /\ \A h \in Groups : h > ngroups' => gst'[h] = "none"
        /\ \A h \in Groups \cup {None} : WasUp(h) => WasUp(h)'
    BY <1>11 DEF Fades, Known, WasUp, Risen
  <2>2. CASE UNCHANGED <<ncalls, th>>
    <3>1. \A j \in Calls : KnownThread(j)'
      BY <1>0, <1>11, <2>1, <2>2 DEF Fades, Known, KnownThread, Pc, Grp, WasUp
    <3> QED
      BY <1>11, <2>1, <3>1 DEF Fades, Known, WasUp
  <2>3. CASE ncalls' = ncalls + 1 /\ Becomes(ncalls + 1, "begin", None, None, None, FALSE)
    <3>1. ASSUME NEW j \in Calls PROVE KnownThread(j)'
      <4>1. CASE j = ncalls + 1
        BY <2>3, <4>1 DEF KnownThread, Becomes, Pc, Grp, WasUp, HoldPcs, UpPcs
      <4>2. CASE j # ncalls + 1
        <5>1. th'[j] = th[j] /\ KnownThread(j) /\ UNCHANGED ngroups
          BY <1>11, <2>3, <4>2 DEF Fades, Becomes, Known
        <5>2. j > ncalls' => j > ncalls
          BY <2>3 DEF Typed, Calls
        <5> QED
          BY <1>0, <2>1, <5>1, <5>2 DEF KnownThread, Pc, Grp
      <4> QED
        BY <4>1, <4>2
    <3> QED
      BY <1>11, <2>1, <3>1 DEF Fades, Known, WasUp
  <2> QED
    BY <1>11, <2>2, <2>3 DEF Fades
<1>12. CASE UNCHANGED <<core, gst, th>>
  BY <1>12 DEF Known, KnownThread, Pc, Grp, WasUp
<1> QED
  BY <1>1, <1>2, <1>3, <1>5, <1>6, <1>7, <1>8, <1>9, <1>10, <1>11, <1>12, StepCases

(* clientRunning, activeWebRTCClientGroup, activeTunnel and clientDoneCh are set and *)
(* cleared together: TunnelDialsActive, and a client that does not run has no group. *)
StateAgrees ==
    /\ running => active # None /\ doneCh # None
    /\ ~running => active = None /\ doneCh = None
    /\ tunnel = active

(* Commit, Swap and StopClient are the writers, and each writes all four or keeps them. *)
LEMMA StateStep ==
    ASSUME Typed, Known, StateAgrees, [Next]_vars
    PROVE  StateAgrees'
<1> USE DEF StateAgrees, core
<1>1. ASSUME NEW k \in Calls,
             \/ Goes(k) \/ Creates(k) \/ Reads(k) \/ Revives(k) \/ Ends(k) \/ Begins(k) \/ Tunnels(k)
      PROVE  StateAgrees'
  <2>1. UNCHANGED <<running, active, doneCh, tunnel>>
    BY <1>1 DEF Goes, Creates, Reads, Revives, Ends, Begins, Tunnels
  <2> QED
    BY <2>1
<1>2. ASSUME NEW k \in Calls, Publishes(k) PROVE StateAgrees'
  <2>1. Pc(k) \in {"commit", "swap"} => Grp(k) # None
    <3>1. KnownThread(k)
      BY DEF Known
    <3>2. Pc(k) \in {"commit", "swap"} => Grp(k) \in 1..ngroups
      BY <3>1 DEF KnownThread, HoldPcs
    <3> QED
      BY <3>2
  <2>2. k # None
    BY DEF Calls
  <2>3. CASE Commit(k)
    BY <2>1, <2>2, <2>3 DEF Commit
  <2>4. CASE Swap(k) /\ running
    BY <2>1, <2>4 DEF Swap, flags, done
  <2>5. CASE ConnectFails(k) \/ StorePending(k) \/ Wire(k)
    <3>1. UNCHANGED <<running, active, doneCh, tunnel>>
      <4>1. CASE ConnectFails(k)
        BY <4>1 DEF ConnectFails, done
      <4>2. CASE StorePending(k)
        BY <4>2 DEF StorePending, flags, done
      <4>3. CASE Wire(k)
        BY <4>3 DEF Wire, flags, refs, done
      <4> QED
        BY <2>5, <4>1, <4>2, <4>3
    <3> QED
      BY <3>1
  <2> QED
    BY <1>2, <2>3, <2>4, <2>5 DEF Publishes
<1>3. ASSUME NEW k \in Calls \cup {None}, StopClient(k) PROVE StateAgrees'
  BY <1>3 DEF StopClient, done
<1>4. ASSUME NEW g \in Groups, Rises(g) \/ Fades(g) PROVE StateAgrees'
  <2>1. UNCHANGED <<running, active, doneCh, tunnel>>
    BY <1>4 DEF Rises, Fades
  <2> QED
    BY <2>1
<1>5. CASE UNCHANGED <<core, gst, th>>
  BY <1>5
<1> QED
  BY <1>1, <1>2, <1>3, <1>4, <1>5, StepCases

(* A call that StopClient has not overtaken and that tries to connect. *)
AttemptPcs ==
    {"ctx", "offers", "create", "created", "connect", "fail", "store", "tun", "commit"}
Trying(k) == ~th[k].stopped /\ Pc(k) \in AttemptPcs

(* There is at most one, clientConnecting is its flag, and the context is its own. *)
(* The group that ConnectWebRTC leaves behind keeps the flag set until             *)
(* StartTunnel takes it.                                                           *)
OneAttempt ==
    /\ running => ~connecting
    /\ pending # None => connecting
    /\ \A k \in Calls : Trying(k) =>
          connecting /\ pending = None /\ (Pc(k) = "ctx" => ctxVar = k)
    /\ \A j, k \in Calls : Trying(j) /\ Trying(k) => j = k
    /\ \A k \in Calls : ~th[k].stopped => th[k].ctx \in {None, k}

(* beginConnect refuses a second attempt under mu; StopClient clears the flag and *)
(* overtakes the attempt in the same section.                                     *)
LEMMA AttemptStep ==
    ASSUME Typed, Known, OneAttempt, [Next]_vars, ~lateWrite'
    PROVE  OneAttempt'
<1> USE DEF core
<1>1. ASSUME NEW k \in Calls,
             UNCHANGED <<running, connecting, pending, ctxVar>>,
             \A j \in Calls \ {k} : th'[j] = th[j],
             th'[k].stopped = th[k].stopped, th'[k].ctx = th[k].ctx,
             Pc(k)' \in AttemptPcs => Pc(k) \in AttemptPcs /\ Pc(k)' # "ctx"
      PROVE  OneAttempt'
  BY <1>1 DEF OneAttempt, Trying, Pc
<1>2. ASSUME NEW k \in Calls, Goes(k) PROVE OneAttempt'
  <2>1. Pc(k)' \in AttemptPcs => Pc(k) \in AttemptPcs /\ Pc(k)' # "ctx"
    BY <1>2 DEF Goes, Moves, Becomes, Keeps, Drops, Pc, AttemptPcs
  <2> QED
    BY <1>1, <1>2, <2>1 DEF Goes, Moves, Becomes
<1>3. ASSUME NEW k \in Calls, Creates(k) PROVE OneAttempt'
  <2>1. Pc(k)' \in AttemptPcs => Pc(k) \in AttemptPcs /\ Pc(k)' # "ctx"
    BY <1>3 DEF Creates, Becomes, Pc, AttemptPcs
  <2> QED
    BY <1>1, <1>3, <2>1 DEF Creates, Becomes
<1>4. ASSUME NEW k \in Calls, Revives(k) PROVE OneAttempt'
  BY <1>1, <1>4 DEF Revives, Becomes, Pc, AttemptPcs
<1>5. ASSUME NEW k \in Calls, Reads(k) PROVE OneAttempt'
  <2>1. /\ UNCHANGED <<running, connecting, pending, ctxVar>> /\ Pc(k) = "ctx" /\ Pc(k)' = "offers"
        /\ th'[k].stopped = th[k].stopped /\ th'[k].ctx = ctxVar
        /\ \A j \in Calls \ {k} : th'[j] = th[j]
    BY <1>5 DEF Reads, Becomes, Pc
  <2>2. Trying(k)' <=> Trying(k)
    BY <2>1 DEF Trying, AttemptPcs
  <2>3. \A j \in Calls : (Trying(j)' <=> Trying(j)) /\ (Pc(j)' = "ctx" => Pc(j) = "ctx")
    BY <2>1, <2>2 DEF Trying, Pc
  <2>4. ~th[k].stopped => ctxVar = k
    BY <2>1 DEF OneAttempt, Trying, AttemptPcs
  <2>5. \A j \in Calls : ~th'[j].stopped => th'[j].ctx \in {None, j}
    BY <2>1, <2>4 DEF OneAttempt
  <2> QED
    BY <2>1, <2>3, <2>5 DEF OneAttempt
<1>6. ASSUME NEW k \in Calls, Ends(k) PROVE OneAttempt'
  <2>1. /\ UNCHANGED <<running, connecting, pending, ctxVar>>
        /\ Pc(k)' = "done" /\ th'[k].ctx = None /\ \A j \in Calls \ {k} : th'[j] = th[j]
    BY <1>6 DEF Ends, Finishes, Becomes, Pc
  <2>2. \A j \in Calls : Trying(j)' => Trying(j) /\ Pc(j)' = Pc(j)
    BY <2>1 DEF Trying, Pc, AttemptPcs
  <2>3. \A j \in Calls : ~th'[j].stopped => th'[j].ctx \in {None, j}
    BY <2>1 DEF OneAttempt
  <2> QED
    BY <2>1, <2>2, <2>3 DEF OneAttempt
<1>7. ASSUME NEW k \in Calls, Publishes(k) PROVE OneAttempt'
  <2>1. CASE ConnectFails(k) /\ Finishes(k)
    <3>1. /\ Pc(k) = "fail" /\ connecting' = FALSE /\ pending' \in {pending, None}
          /\ UNCHANGED <<running, ctxVar>> /\ ~(th[k].stopped /\ connecting)
      BY <2>1 DEF ConnectFails
    <3>2. \A j \in Calls \ {k} : th'[j] = th[j] /\ ~Trying(j)
      BY <2>1, <3>1 DEF Finishes, Becomes, OneAttempt, Trying, AttemptPcs
    <3>3. pending = None
      BY <3>1 DEF OneAttempt, Trying, AttemptPcs
    <3> QED
      BY <2>1, <3>1, <3>2, <3>3 DEF Finishes, Becomes, OneAttempt, Trying, Pc, AttemptPcs
  <2>2. CASE StorePending(k) /\ Finishes(k)
    <3>1. Pc(k) = "store" /\ ~th[k].stopped /\ UNCHANGED <<running, connecting, ctxVar>>
      BY <2>2 DEF StorePending, flags, context
    <3>2. Trying(k)
      BY <3>1 DEF Trying, AttemptPcs
    <3> QED
      BY <2>2, <3>1, <3>2 DEF Finishes, Becomes, OneAttempt, Trying, Pc, AttemptPcs
  <2>3. CASE Commit(k) /\ Moves(k, "wire")
    <3>1. /\ Pc(k) = "commit" /\ ~th[k].stopped /\ UNCHANGED <<pending, ctxVar>>
          /\ connecting' = FALSE
      BY <2>3 DEF Commit, context
    <3>2. Trying(k)
      BY <3>1 DEF Trying, AttemptPcs
    <3> QED
      BY <2>3, <3>1, <3>2 DEF Moves, Becomes, OneAttempt, Trying, Pc, AttemptPcs
  <2>4. CASE Wire(k) /\ Finishes(k)
    BY <2>4 DEF Wire, flags, refs, context, Finishes, Becomes, OneAttempt, Trying, Pc, AttemptPcs
  <2>5. CASE Swap(k) /\ Moves(k, "old")
    BY <1>1, <2>5 DEF Swap, flags, context, Moves, Becomes, Pc, AttemptPcs
  <2> QED
    BY <1>7, <2>1, <2>2, <2>3, <2>4, <2>5 DEF Publishes
<1>8. ASSUME NEW k \in Calls, Begins(k) PROVE OneAttempt'
  BY <1>8 DEF Begins, Becomes, OneAttempt, Trying, Pc
<1>9. ASSUME NEW k \in Calls, Tunnels(k) PROVE OneAttempt'
  <2>1. \A j \in Calls : ~Trying(j)
    BY <1>9 DEF Tunnels, OneAttempt
  <2> QED
    BY <1>9, <2>1 DEF Tunnels, Becomes, OneAttempt, Trying, Pc
<1>10. ASSUME NEW k \in Calls \cup {None}, StopClient(k) PROVE OneAttempt'
  <2>1. ~running' /\ ~connecting' /\ pending' = None
    BY <1>10 DEF StopClient, OneAttempt
  <2>2. \A j \in Calls : ~Trying(j)'
    <3>1. \A j \in Calls : Pc(j) \in AttemptPcs => j \in UnderWay
      BY BoundsAssumption DEF Known, KnownThread, UnderWay, AttemptPcs, Calls, Typed
    <3> QED
      BY <1>10, <3>1, StopBecomes DEF Trying, Pc, AttemptPcs, Ended, Idle
  <2>3. \A j \in Calls : ~th'[j].stopped => th'[j].ctx \in {None, j}
    BY <1>10, StopBecomes DEF OneAttempt, Ended, Idle
  <2> QED
    BY <2>1, <2>2, <2>3 DEF OneAttempt
<1>11. ASSUME NEW g \in Groups, Rises(g) PROVE OneAttempt'
  BY <1>11 DEF Rises, OneAttempt, Trying, Pc
<1>12. ASSUME NEW g \in Groups, Fades(g) PROVE OneAttempt'
  BY <1>12 DEF Fades, Becomes, OneAttempt, Trying, Pc, AttemptPcs
<1>13. CASE UNCHANGED <<core, gst, th>>
  BY <1>13 DEF OneAttempt, Trying, Pc
<1> QED
  BY <1>2, <1>3, <1>4, <1>5, <1>6, <1>7, <1>8, <1>9, <1>10, <1>11, <1>12, <1>13, StepCases

(* A fast reconnect that StopClient has not overtaken. *)
RevivePcs == {"begin", "rebuild", "reconnect", "swap"}
Reviving(k) == ~th[k].stopped /\ Pc(k) \in RevivePcs

(* There is at most one, the client runs meanwhile, and its oldGroup is the active  *)
(* group: a group that is up and has the callback is the active one, so it cannot   *)
(* fail, and start another reconnect, while the active group is down.               *)
OneRevival ==
    /\ \A k \in Calls : Reviving(k) =>
          running /\ gst[active] # "up" /\ (Pc(k) # "begin" => th[k].old = active)
    /\ \A j, k \in Calls : Reviving(j) /\ Reviving(k) => j = k
    /\ \A g \in wired : gst[g] = "up" => g = active
    /\ \A k \in Calls : Pc(k) = "wire" /\ gst[Grp(k)] = "up" => Grp(k) = active

(* A reconnect starts when a wired group fails, and only the active group can; the *)
(* active group changes in Swap, by the reconnect itself, and in Commit, when the  *)
(* client does not run and so nothing reconnects.                                  *)
LEMMA RevivalStep ==
    ASSUME Typed, Known, StateAgrees, OneAttempt, OneRevival, [Next]_vars, ~lateWrite'
    PROVE  OneRevival'
<1> USE DEF core
<1>0. \A j \in Calls : /\ th[j] \in Thread /\ Grp(j) \in Groups \cup {None}
                       /\ Pc(j) \in UpPcs => Grp(j) \in Groups
  BY BoundsAssumption DEF Typed, Thread, Grp, Known, KnownThread, Groups
<1>1. ASSUME NEW k \in Calls, UNCHANGED <<running, active, wired>>,
             \A g \in Groups : gst'[g] = "up" => gst[g] = "up",
             \A j \in Calls \ {k} : th'[j] = th[j],
             Pc(k)' # "wire",
             Reviving(k)' => Reviving(k) /\ th'[k].old = th[k].old /\ Pc(k) # "begin"
      PROVE  OneRevival'
  <2>1. running => active \in Groups
    BY DEF Typed, StateAgrees
  <2>2. \A j \in Calls : Reviving(j)' =>
          running' /\ gst'[active'] # "up" /\ (Pc(j)' # "begin" => th'[j].old = active')
    BY <1>1, <2>1 DEF OneRevival, Reviving, Pc
  <2>3. \A i, j \in Calls : Reviving(i)' /\ Reviving(j)' => i = j
    BY <1>1 DEF OneRevival, Reviving, Pc
  <2>4. \A g \in wired' : gst'[g] = "up" => g = active'
    BY <1>1 DEF OneRevival, Typed
  <2>5. \A j \in Calls : Pc(j)' = "wire" /\ gst'[Grp(j)'] = "up" => Grp(j)' = active'
    <3> SUFFICES ASSUME NEW j \in Calls, Pc(j)' = "wire", gst'[Grp(j)'] = "up"
                 PROVE  Grp(j)' = active'
      OBVIOUS
    <3>1. th'[j] = th[j]
      BY <1>1
    <3>2. Pc(j) = "wire" /\ Grp(j)' = Grp(j)
      BY <3>1 DEF Pc, Grp
    <3>3. Grp(j) \in Groups
      BY <1>0, <3>2 DEF UpPcs
    <3> QED
      BY <1>1, <3>2, <3>3 DEF OneRevival
  <2> QED
    BY <2>2, <2>3, <2>4, <2>5 DEF OneRevival
<1>a. ASSUME NEW S, StopGroups(S) PROVE \A g \in Groups : gst'[g] = "up" => gst[g] = "up"
  BY <1>a DEF StopGroups
<1>2. ASSUME NEW k \in Calls, Goes(k) PROVE OneRevival'
  <2>1. \A g \in Groups : gst'[g] = "up" => gst[g] = "up"
    BY <1>2, <1>a DEF Goes
  <2>2. PICK s \in Pcs : Moves(k, s) /\ (Keeps(k, s) \/ Drops(k, s))
    BY <1>2 DEF Goes
  <2>3. s # "wire" /\ (s \in RevivePcs => Pc(k) = "reconnect")
    BY <2>2 DEF Keeps, Drops, RevivePcs
  <2>4. Pc(k)' # "wire" /\ (Reviving(k)' => Reviving(k) /\ Pc(k) # "begin")
    BY <2>2, <2>3 DEF Moves, Becomes, Reviving, RevivePcs, Pc
  <2> QED
    BY <1>1, <1>2, <2>1, <2>2, <2>4 DEF Goes, Moves, Becomes
<1>3. ASSUME NEW k \in Calls, Creates(k) PROVE OneRevival'
  <2>1. \A g \in Groups : gst'[g] = "up" => gst[g] = "up"
    BY <1>3 DEF Creates, Typed
  <2>2. Pc(k)' # "wire" /\ (Reviving(k)' => Reviving(k) /\ Pc(k) # "begin")
    BY <1>3 DEF Creates, Becomes, Reviving, RevivePcs, Pc
  <2> QED
    BY <1>1, <1>3, <2>1, <2>2 DEF Creates, Becomes
<1>4. ASSUME NEW k \in Calls, Reads(k) PROVE OneRevival'
  BY <1>1, <1>4 DEF Reads, Becomes, Reviving, RevivePcs, Pc
<1>5. ASSUME NEW k \in Calls, Revives(k) PROVE OneRevival'
  <2>1. /\ UNCHANGED <<running, active, wired, gst>> /\ Pc(k) = "begin" /\ Pc(k)' = "rebuild"
        /\ th'[k].stopped = th[k].stopped /\ th'[k].old = active
        /\ \A j \in Calls \ {k} : th'[j] = th[j]
    BY <1>5 DEF Revives, Becomes, Pc
  <2>2. \A j \in Calls : Reviving(j)' => Reviving(j)
    BY <2>1 DEF Reviving, RevivePcs, Pc
  <2>3. \A j \in Calls \ {k} : Pc(j)' = Pc(j) /\ Grp(j)' = Grp(j)
    BY <2>1 DEF Pc, Grp
  <2>4. \A j \in Calls : Reviving(j)' =>
          running' /\ gst'[active'] # "up" /\ (Pc(j)' # "begin" => th'[j].old = active')
    BY <2>1, <2>2, <2>3 DEF OneRevival
  <2>5. \A j \in Calls : Pc(j)' = "wire" /\ gst'[Grp(j)'] = "up" => Grp(j)' = active'
    BY <2>1, <2>3 DEF OneRevival
  <2> QED
    BY <2>1, <2>2, <2>4, <2>5 DEF OneRevival
<1>6. ASSUME NEW k \in Calls, Finishes(k), UNCHANGED <<running, active, wired>>,
             \A g \in Groups : gst'[g] = "up" => gst[g] = "up"
      PROVE  OneRevival'
  BY <1>1, <1>6 DEF Finishes, Becomes, Reviving, RevivePcs, Pc
<1>7. ASSUME NEW k \in Calls, Ends(k) PROVE OneRevival'
  <2>1. \A g \in Groups : gst'[g] = "up" => gst[g] = "up"
    BY <1>7, <1>a DEF Ends
  <2> QED
    BY <1>6, <1>7, <2>1 DEF Ends
<1>8. ASSUME NEW k \in Calls, Publishes(k) PROVE OneRevival'
  <2>1. CASE ConnectFails(k) /\ Finishes(k)
    <3>1. \A g \in Groups : gst'[g] = "up" => gst[g] = "up"
      BY <2>1, <1>a DEF ConnectFails
    <3> QED
      BY <1>6, <2>1, <3>1 DEF ConnectFails
  <2>2. CASE StorePending(k) /\ Finishes(k)
    BY <1>6, <2>2 DEF StorePending, flags, groups
  <2>3. CASE Commit(k) /\ Moves(k, "wire")
    <3>1. Pc(k) = "commit" /\ ~th[k].stopped /\ UNCHANGED <<gst, wired>> /\ active' = Grp(k)
      BY <2>3 DEF Commit, groups
    <3>2. ~running
      BY <3>1 DEF OneAttempt, Trying, AttemptPcs
    <3>3. active = None /\ \A j \in Calls : ~Reviving(j)
      BY <3>2 DEF StateAgrees, OneRevival
    <3>4. \A g \in wired : gst[g] # "up"
      BY <3>3 DEF OneRevival, Typed, Groups
    <3>5. \A j \in Calls : Pc(j) = "wire" => gst[Grp(j)] # "up"
      BY <1>0, <3>3 DEF OneRevival, UpPcs, Groups
    <3> QED
      BY <2>3, <3>1, <3>3, <3>4, <3>5
         DEF Moves, Becomes, OneRevival, Reviving, RevivePcs, Pc, Grp
  <2>4. CASE Wire(k) /\ Finishes(k)
    <3>1. Pc(k) = "wire" /\ UNCHANGED <<running, active, gst>> /\ wired' = wired \cup {Grp(k)}
      BY <2>4 DEF Wire, flags, refs
    <3>2. \A g \in wired' : gst'[g] = "up" => g = active'
      BY <3>1 DEF OneRevival
    <3>3. Pc(k)' = "done" /\ \A j \in Calls \ {k} : th'[j] = th[j]
      BY <2>4 DEF Finishes, Becomes, Pc
    <3>4. /\ \A j \in Calls : Reviving(j)' => Reviving(j) /\ j # k
          /\ \A j \in Calls \ {k} : Pc(j)' = Pc(j) /\ Grp(j)' = Grp(j)
      BY <3>3 DEF Reviving, RevivePcs, Pc, Grp
    <3>5. \A j \in Calls : Reviving(j)' =>
            running' /\ gst'[active'] # "up" /\ (Pc(j)' # "begin" => th'[j].old = active')
      BY <3>1, <3>3, <3>4 DEF OneRevival
    <3>6. \A j \in Calls : Pc(j)' = "wire" /\ gst'[Grp(j)'] = "up" => Grp(j)' = active'
      BY <3>1, <3>3, <3>4 DEF OneRevival
    <3> QED
      BY <3>2, <3>4, <3>5, <3>6 DEF OneRevival
  <2>5. CASE Swap(k) /\ running /\ tunnel # None /\ Moves(k, "old")
    <3>1. /\ Pc(k) = "swap" /\ ~th[k].stopped /\ UNCHANGED <<running, gst>>
          /\ active' = Grp(k) /\ wired' = wired \cup {Grp(k)}
      BY <2>5 DEF Swap, flags
    <3>2. Reviving(k)
      BY <3>1 DEF Reviving, RevivePcs
    <3>3. gst[active] # "up" /\ \A j \in Calls \ {k} : ~Reviving(j)
      BY <3>2 DEF OneRevival
    <3>4. \A g \in wired : gst[g] # "up"
      BY <3>3 DEF OneRevival
    <3>5. \A j \in Calls : Pc(j) = "wire" => gst[Grp(j)] # "up"
      BY <3>3 DEF OneRevival
    <3> QED
      BY <2>5, <3>1, <3>3, <3>4, <3>5
         DEF Moves, Becomes, OneRevival, Reviving, RevivePcs, Pc, Grp
  <2> QED
    BY <1>8, <2>1, <2>2, <2>3, <2>4, <2>5 DEF Publishes
<1>9. ASSUME NEW k \in Calls, Begins(k) PROVE OneRevival'
  <2>1. UNCHANGED <<running, active, wired, gst>>
    BY <1>9 DEF Begins
  <2>2. Pc(k)' # "wire" /\ ~Reviving(k)' /\ \A j \in Calls \ {k} : th'[j] = th[j]
    BY <1>9 DEF Begins, Becomes, Reviving, RevivePcs, Pc
  <2> QED
    BY <1>1, <2>1, <2>2
<1>10. ASSUME NEW k \in Calls, Tunnels(k) PROVE OneRevival'
  <2>1. UNCHANGED <<running, active, wired, gst>>
    BY <1>10 DEF Tunnels
  <2>2. Pc(k)' # "wire" /\ ~Reviving(k)' /\ \A j \in Calls \ {k} : th'[j] = th[j]
    BY <1>10 DEF Tunnels, Becomes, Reviving, RevivePcs, Pc
  <2> QED
    BY <1>1, <2>1, <2>2
<1>11. ASSUME NEW k \in Calls \cup {None}, StopClient(k) PROVE OneRevival'
  <2>1. active' = None /\ UNCHANGED wired
    BY <1>11 DEF StopClient, StateAgrees
  <2>2. \A j \in Calls : ~Reviving(j)'
    <3>1. \A j \in Calls : Pc(j) \in RevivePcs => j \in UnderWay
      BY BoundsAssumption DEF Known, KnownThread, UnderWay, RevivePcs, Calls, Typed
    <3> QED
      BY <1>11, <3>1, StopBecomes DEF Reviving, Pc, RevivePcs, Ended, Idle
  <2>3. \A g \in Groups : gst'[g] = "up" => gst[g] = "up" /\ g # active
    <3>1. CASE running
      BY <1>11, <3>1 DEF StopClient, StopGroups
    <3>2. CASE ~running
      BY <1>11, <3>2 DEF StopClient, StopGroups, StateAgrees, Groups
    <3> QED
      BY <3>1, <3>2
  <2>4. \A j \in Calls : Pc(j)' = "wire" => Pc(j) = "wire" /\ Grp(j)' = Grp(j)
    BY <1>11, StopBecomes DEF Pc, Grp, Ended, Idle
  <2>5. \A j \in Calls : Pc(j)' = "wire" => gst'[Grp(j)'] # "up"
    BY <1>0, <2>3, <2>4 DEF OneRevival, UpPcs
  <2>6. \A g \in wired' : gst'[g] # "up"
    BY <2>1, <2>3 DEF OneRevival, Typed
  <2> QED
    BY <2>2, <2>5, <2>6 DEF OneRevival
<1>12. ASSUME NEW g \in Groups, Rises(g) PROVE OneRevival'
  <2>1. g \notin wired /\ g # active /\ \A j \in Calls : Pc(j) = "wire" => Grp(j) # g
    <3>1. gst[g] = "new" /\ g # None /\ ~WasUp(g)
      BY <1>12 DEF Rises, WasUp, Risen, Groups
    <3>2. \A j \in Calls : Pc(j) = "wire" => WasUp(Grp(j))
      BY DEF Known, KnownThread, UpPcs
    <3> QED
      BY <3>1, <3>2 DEF Known
  <2>2. /\ UNCHANGED <<running, active, wired, th>>
        /\ \A h \in Groups : h # g => gst'[h] = gst[h]
    BY <1>12 DEF Rises, Typed
  <2>3. \A j \in Calls : /\ Reviving(j)' = Reviving(j) /\ Pc(j)' = Pc(j) /\ Grp(j)' = Grp(j)
    BY <2>2 DEF Reviving, Pc, Grp
  <2>4. running => gst'[active] = gst[active]
    BY <2>1, <2>2 DEF Typed, StateAgrees
  <2>5. \A h \in wired' : gst'[h] = "up" => h = active'
    BY <2>1, <2>2 DEF OneRevival, Typed
  <2>6. \A j \in Calls : Pc(j)' = "wire" /\ gst'[Grp(j)'] = "up" => Grp(j)' = active'
    <3>1. \A j \in Calls : Pc(j) = "wire" => Grp(j) \in Groups /\ Grp(j) # g
      BY <1>0, <2>1 DEF UpPcs
    <3> QED
      BY <2>2, <2>3, <3>1 DEF OneRevival
  <2>7. \A j \in Calls : Reviving(j)' =>
          running' /\ gst'[active'] # "up" /\ (Pc(j)' # "begin" => th'[j].old = active')
    BY <2>2, <2>3, <2>4 DEF OneRevival
  <2> QED
    BY <2>3, <2>5, <2>6, <2>7 DEF OneRevival
<1>13. ASSUME NEW g \in Groups, Fades(g) PROVE OneRevival'
  <2>1. \A h \in Groups : gst'[h] = "up" => gst[h] = "up" /\ h # g
    BY <1>13 DEF Fades, Typed
  <2>2. CASE UNCHANGED <<ncalls, th>>
    <3>1. UNCHANGED <<running, active, wired>>
      BY <1>13 DEF Fades
    <3>2. running => active \in Groups
      BY DEF Typed, StateAgrees
    <3> QED
      BY <1>0, <2>1, <2>2, <3>1, <3>2 DEF OneRevival, Reviving, Pc, Grp, Typed, UpPcs
  <2>3. CASE g \in wired /\ ncalls + 1 \in Calls /\ Becomes(ncalls + 1, "begin", None, None, None, FALSE)
    <3>1. UNCHANGED <<running, active, wired>>
      BY <1>13 DEF Fades
    <3>2. gst[g] = "up"
      BY <1>13, <2>3 DEF Fades, Known, WasUp, Risen, Groups
    <3>3. g = active /\ running /\ \A j \in Calls : ~Reviving(j)
      <4>1. g = active /\ g # None
        BY <2>3, <3>2 DEF OneRevival, Groups
      <4>2. \A j \in Calls : ~Reviving(j)
        BY <3>2, <4>1 DEF OneRevival
      <4> QED
        BY <4>1, <4>2 DEF StateAgrees
    <3>4. \A h \in wired' : gst'[h] = "up" => h = active'
      BY <2>1, <3>1 DEF OneRevival, Typed
    <3>5. \A j \in Calls : Pc(j)' = "wire" /\ gst'[Grp(j)'] = "up" => Grp(j)' = active'
      <4> SUFFICES ASSUME NEW j \in Calls, Pc(j)' = "wire", gst'[Grp(j)'] = "up"
                   PROVE  Grp(j)' = active'
        OBVIOUS
      <4>1. th'[j] = th[j]
        BY <2>3 DEF Becomes, Pc
      <4>2. Pc(j) = "wire" /\ Grp(j)' = Grp(j)
        BY <4>1 DEF Pc, Grp
      <4>3. Grp(j) \in Groups
        BY <1>0, <4>2 DEF UpPcs
      <4> QED
        BY <2>1, <3>1, <4>2, <4>3 DEF OneRevival
    <3>6. PICK n \in Calls : n = ncalls + 1
      BY <2>3
    <3>7. \A j \in Calls : Reviving(j)' => j = n
      BY <2>3, <3>3, <3>6 DEF Becomes, Reviving, Pc
    <3>8. gst'[active'] # "up" /\ running' /\ Pc(n)' = "begin"
      BY <2>1, <2>3, <3>1, <3>3, <3>6 DEF Becomes, Pc
    <3> QED
      BY <3>4, <3>5, <3>7, <3>8 DEF OneRevival
  <2> QED
    BY <1>13, <2>2, <2>3 DEF Fades
<1>14. CASE UNCHANGED <<core, gst, th>>
  BY <1>14 DEF OneRevival, Reviving, Pc, Grp
<1> QED
  BY <1>2, <1>3, <1>4, <1>5, <1>7, <1>8, <1>9, <1>10, <1>11, <1>12, <1>13, <1>14, StepCases

(* Thread k will stop g or publish it. *)
Holds(k, g) ==
    \/ Pc(k) \in HoldPcs /\ Grp(k) = g
    \/ Pc(k) = "old" /\ th[k].old = g

(* NoGroupLeaked with the exact holders. *)
Held == \A g \in 1..ngroups :
    gst[g] # "stopped" => g \in {active, pending} \/ \E k \in Calls : Holds(k, g)

(* Store and Commit overwrite None, because there is one attempt; Swap overwrites the *)
(* group that its thread holds as oldGroup, because there is one reconnect; every     *)
(* other step that lets a group go stops it.                                          *)
LEMMA HeldStep ==
    ASSUME Typed, Known, StateAgrees, OneAttempt, OneRevival, Held, [Next]_vars, ~lateWrite'
    PROVE  Held'
<1> USE DEF core
<1>0. 1..ngroups \subseteq Groups
  BY BoundsAssumption DEF Typed, Groups
<1>1. ASSUME NEW k \in Calls, UNCHANGED <<active, pending, ngroups>>,
             \A g \in 1..ngroups : gst'[g] # "stopped" => gst[g] # "stopped",
             \A j \in Calls \ {k} : th'[j] = th[j],
             \A g \in 1..ngroups : gst'[g] # "stopped" /\ Holds(k, g) => Holds(k, g)'
      PROVE  Held'
  <2>1. \A g \in 1..ngroups, j \in Calls : gst'[g] # "stopped" /\ Holds(j, g) => Holds(j, g)'
    BY <1>1 DEF Holds, Pc, Grp
  <2> QED
    BY <1>1, <2>1 DEF Held
<1>a. ASSUME NEW S, StopGroups(S)
      PROVE  \A g \in 1..ngroups : gst'[g] # "stopped" => gst[g] # "stopped" /\ g \notin S
  BY <1>0, <1>a DEF StopGroups
<1>2. ASSUME NEW k \in Calls, Goes(k) PROVE Held'
  <2>1. PICK s \in Pcs : Moves(k, s) /\ \/ Keeps(k, s) /\ UNCHANGED gst
                                        \/ Drops(k, s) /\ StopGroups({Grp(k)})
    BY <1>2 DEF Goes
  <2>2. \A g \in 1..ngroups : gst'[g] # "stopped" => gst[g] # "stopped"
    BY <1>a, <2>1
  <2>3. ASSUME NEW g \in 1..ngroups, gst'[g] # "stopped", Holds(k, g) PROVE Holds(k, g)'
    <3>1. CASE Keeps(k, s)
      BY <2>1, <2>3, <3>1 DEF Holds, Keeps, Moves, Becomes, Pc, Grp, HoldPcs
    <3>2. CASE Drops(k, s) /\ StopGroups({Grp(k)})
      BY <1>a, <2>3, <3>2 DEF Holds, Drops, Pc
    <3> QED
      BY <2>1, <3>1, <3>2
  <2> QED
    BY <1>1, <1>2, <2>1, <2>2, <2>3 DEF Goes, Moves, Becomes
<1>3. ASSUME NEW k \in Calls, Creates(k) PROVE Held'
  <2>1. PICK s \in {"created", "reconnect"} :
           Becomes(k, s, ngroups + 1, th[k].old, th[k].ctx, th[k].stopped)
    BY <1>3 DEF Creates
  <2>2. PICK n \in Groups : n = ngroups + 1
    BY <1>3 DEF Creates
  <2>3. Holds(k, n)'
    BY <2>1, <2>2 DEF Becomes, Holds, HoldPcs, Pc, Grp
  <2>4. ASSUME NEW g \in 1..ngroups, gst'[g] # "stopped"
        PROVE  g \in {active', pending'} \/ \E j \in Calls : Holds(j, g)'
    <3>1. gst[g] # "stopped"
      BY <1>0, <1>3, <2>4 DEF Creates, Typed
    <3>2. UNCHANGED <<active, pending>> /\ ~Holds(k, g)
      BY <1>3 DEF Creates, Holds, HoldPcs
    <3>3. \A j \in Calls \ {k} : Holds(j, g) => Holds(j, g)'
      BY <2>1 DEF Becomes, Holds, Pc, Grp
    <3> QED
      BY <3>1, <3>2, <3>3 DEF Held
  <2>5. \A g \in 1..ngroups' : g = n \/ g \in 1..ngroups
    BY <1>3, <2>2 DEF Creates, Typed
  <2> QED
    BY <2>3, <2>4, <2>5 DEF Held
<1>4. ASSUME NEW k \in Calls, Reads(k) \/ Revives(k) PROVE Held'
  <2>1. \A g \in 1..ngroups : ~Holds(k, g)
    BY <1>4 DEF Reads, Revives, Holds, HoldPcs
  <2>2. UNCHANGED <<core, gst>> /\ \A j \in Calls \ {k} : th'[j] = th[j]
    BY <1>4 DEF Reads, Revives, Becomes
  <2> QED
    BY <1>1, <2>1, <2>2
<1>5. ASSUME NEW k \in Calls, Ends(k) PROVE Held'
  <2>1. \A g \in 1..ngroups : gst'[g] # "stopped" => gst[g] # "stopped" /\ ~Holds(k, g)
    BY <1>5, <1>a DEF Ends, Holds, HoldPcs
  <2> QED
    BY <1>1, <1>5, <2>1 DEF Ends, Finishes, Becomes
<1>6. ASSUME NEW k \in Calls, Publishes(k) PROVE Held'
  <2>1. CASE ConnectFails(k) /\ Finishes(k)
    <3>1. \A g \in 1..ngroups : gst'[g] # "stopped" =>
             gst[g] # "stopped" /\ (g = pending => g = pending')
      <4>1. CASE th[k].kind = "connect"
        BY <1>a, <2>1, <4>1 DEF ConnectFails
      <4>2. CASE th[k].kind # "connect"
        BY <2>1, <4>2 DEF ConnectFails
      <4> QED
        BY <4>1, <4>2
    <3>2. \A g \in 1..ngroups : ~Holds(k, g)
      BY <2>1 DEF ConnectFails, Holds, HoldPcs
    <3>3. UNCHANGED <<active, ngroups>> /\ \A j \in Calls \ {k} : th'[j] = th[j]
      BY <2>1 DEF ConnectFails, Finishes, Becomes
    <3>4. \A g \in 1..ngroups, j \in Calls \ {k} : Holds(j, g) => Holds(j, g)'
      BY <3>3 DEF Holds, Pc, Grp
    <3> QED
      BY <3>1, <3>2, <3>3, <3>4 DEF Held
  <2>2. CASE StorePending(k) /\ Finishes(k)
    <3>1. /\ Pc(k) = "store" /\ ~th[k].stopped /\ pending' = Grp(k)
          /\ UNCHANGED <<active, ngroups, gst>>
      BY <2>2 DEF StorePending, groups
    <3>2. pending = None
      BY <3>1 DEF OneAttempt, Trying, AttemptPcs
    <3>3. \A g \in 1..ngroups : Holds(k, g) => g = pending'
      BY <3>1 DEF Holds
    <3>4. \A g \in 1..ngroups, j \in Calls \ {k} : Holds(j, g) => Holds(j, g)'
      BY <2>2 DEF Finishes, Becomes, Holds, Pc, Grp
    <3> QED
      BY <3>1, <3>2, <3>3, <3>4 DEF Held
  <2>3. CASE Commit(k) /\ Moves(k, "wire")
    <3>1. /\ Pc(k) = "commit" /\ ~th[k].stopped /\ active' = Grp(k)
          /\ UNCHANGED <<pending, ngroups, gst>>
      BY <2>3 DEF Commit, groups
    <3>2. active = None
      BY <3>1 DEF OneAttempt, Trying, AttemptPcs, StateAgrees
    <3>3. \A g \in 1..ngroups : Holds(k, g) => g = active'
      BY <3>1 DEF Holds
    <3>4. \A g \in 1..ngroups, j \in Calls \ {k} : Holds(j, g) => Holds(j, g)'
      BY <2>3 DEF Moves, Becomes, Holds, Pc, Grp
    <3> QED
      BY <3>1, <3>2, <3>3, <3>4 DEF Held
  <2>4. CASE Wire(k) /\ Finishes(k)
    <3>1. Pc(k) = "wire" /\ UNCHANGED <<active, pending, ngroups, gst>>
      BY <2>4 DEF Wire, refs
    <3>2. \A g \in 1..ngroups : ~Holds(k, g)
      BY <3>1 DEF Holds, HoldPcs
    <3> QED
      BY <1>1, <2>4, <3>1, <3>2 DEF Finishes, Becomes
  <2>5. CASE Swap(k) /\ running /\ tunnel # None /\ Moves(k, "old")
    <3>1. /\ Pc(k) = "swap" /\ ~th[k].stopped /\ active' = Grp(k)
          /\ UNCHANGED <<pending, ngroups, gst>>
      BY <2>5 DEF Swap
    <3>2. th[k].old = active
      BY <3>1 DEF OneRevival, Reviving, RevivePcs
    <3>3. ASSUME NEW g \in 1..ngroups, gst'[g] # "stopped"
          PROVE  g \in {active', pending'} \/ \E j \in Calls : Holds(j, g)'
      <4>1. CASE g = active
        <5>1. Holds(k, g)'
          BY <2>5, <3>2, <4>1 DEF Moves, Becomes, Holds, Pc
        <5> QED
          BY <5>1
      <4>2. CASE g = pending \/ Holds(k, g)
        BY <3>1, <4>2 DEF Holds
      <4>3. CASE \E j \in Calls \ {k} : Holds(j, g)
        BY <2>5, <4>3 DEF Moves, Becomes, Holds, Pc, Grp
      <4> QED
        BY <3>1, <3>3, <4>1, <4>2, <4>3 DEF Held
    <3> QED
      BY <3>1, <3>3 DEF Held
  <2> QED
    BY <1>6, <2>1, <2>2, <2>3, <2>4, <2>5 DEF Publishes
<1>7. ASSUME NEW k \in Calls, Begins(k) \/ Tunnels(k) PROVE Held'
  <2>1. Pc(k) = "idle" /\ \A j \in Calls \ {k} : th'[j] = th[j]
    <3>1. k = ncalls + 1 /\ \A j \in Calls \ {k} : th'[j] = th[j]
      BY <1>7, Zenon DEF Begins, Tunnels, Becomes
    <3>2. k > ncalls
      BY <3>1 DEF Typed
    <3> QED
      BY <3>1, <3>2 DEF Known, KnownThread
  <2>2. \A g \in 1..ngroups : ~Holds(k, g)
    BY <2>1 DEF Holds, HoldPcs
  <2>3. UNCHANGED <<active, ngroups, gst>>
    BY <1>7 DEF Begins, Tunnels
  <2>4. CASE Begins(k)
    BY <1>1, <2>1, <2>2, <2>3, <2>4 DEF Begins
  <2>5. CASE Tunnels(k)
    <3>1. PICK p \in Groups \cup {None} : p = pending
      BY DEF Typed
    <3>2. Holds(k, p)'
      BY <2>5, <3>1 DEF Tunnels, Becomes, Holds, HoldPcs, Pc, Grp
    <3>3. \A g \in 1..ngroups, j \in Calls : Holds(j, g) => Holds(j, g)'
      BY <2>1, <2>2 DEF Holds, Pc, Grp
    <3> QED
      BY <2>3, <3>1, <3>2, <3>3 DEF Held
  <2> QED
    BY <1>7, <2>4, <2>5
<1>8. ASSUME NEW k \in Calls \cup {None}, StopClient(k), k \in Calls => Pc(k) = "stop" PROVE Held'
  <2>1. \A g \in 1..ngroups : gst'[g] # "stopped" => gst[g] # "stopped" /\ g \notin {active, pending}
    <3>1. CASE running
      <4>1. pending = None
        BY <3>1 DEF OneAttempt
      <4>2. StopGroups({active} \cup (IF connecting THEN {pending} ELSE {}))
        BY <1>8, <3>1 DEF StopClient, StopGroups
      <4> QED
        BY <1>a, <4>1, <4>2
    <3>2. CASE ~running
      <4>1. active = None
        BY <3>2 DEF StateAgrees
      <4>2. StopGroups(IF connecting THEN {pending} ELSE {})
        BY <1>8, <3>2 DEF StopClient, StopGroups
      <4>3. ~connecting => pending = None
        BY DEF OneAttempt
      <4> QED
        BY <1>a, <4>1, <4>2, <4>3
    <3> QED
      BY <3>1, <3>2
  <2>2. \A j \in Calls, g \in 1..ngroups : Holds(j, g) => Holds(j, g)'
    <3> SUFFICES ASSUME NEW j \in Calls, NEW g \in 1..ngroups, Holds(j, g) PROVE Holds(j, g)'
      OBVIOUS
    <3>1. j # k
      BY <1>8 DEF Holds, HoldPcs
    <3>2. th'[j].pc = th[j].pc /\ th'[j].grp = th[j].grp /\ th'[j].old = th[j].old
      BY <1>8, <3>1, StopBecomes
    <3> QED
      BY <3>2 DEF Holds, Pc, Grp
  <2> QED
    BY <1>8, <2>1, <2>2 DEF Held, StopClient
<1>9. ASSUME NEW g \in Groups, Rises(g) PROVE Held'
  BY <1>0, <1>9 DEF Rises, Held, Holds, Pc, Grp, Typed
<1>10. ASSUME NEW g \in Groups, Fades(g) PROVE Held'
  <2>1. \A h \in 1..ngroups : gst'[h] # "stopped" => gst[h] # "stopped"
    BY <1>0, <1>10 DEF Fades, Typed
  <2>2. CASE UNCHANGED <<ncalls, th>>
    BY <1>10, <2>1, <2>2 DEF Fades, Held, Holds, Pc, Grp
  <2>3. CASE ncalls + 1 \in Calls /\ Becomes(ncalls + 1, "begin", None, None, None, FALSE)
    <3>1. PICK n \in Calls : n = ncalls + 1
      BY <2>3
    <3>2. Pc(n) = "idle"
      BY <3>1 DEF Known, KnownThread, Typed
    <3>3. \A h \in 1..ngroups : ~Holds(n, h)
      BY <3>2 DEF Holds, HoldPcs
    <3> QED
      BY <1>1, <1>10, <2>1, <2>3, <3>1, <3>3 DEF Fades, Becomes
  <2> QED
    BY <1>10, <2>2, <2>3 DEF Fades
<1>11. CASE UNCHANGED <<core, gst, th>>
  BY <1>11 DEF Held, Holds, Pc, Grp
<1> QED
  BY <1>2, <1>3, <1>4, <1>5, <1>6, <1>7, <1>8, <1>9, <1>10, <1>11, StepCases

(* A late write is not forgotten. *)
LEMMA LateStays ==
    ASSUME Typed, [Next]_vars, lateWrite
    PROVE  lateWrite'
<1> USE DEF core
<1>1. ASSUME NEW k \in Calls, Publishes(k) PROVE lateWrite'
  <2>1. CASE ConnectFails(k)
    BY <2>1 DEF ConnectFails
  <2>2. CASE StorePending(k)
    BY <2>2 DEF StorePending
  <2>3. CASE Commit(k)
    BY <2>3 DEF Commit
  <2>4. CASE Wire(k)
    BY <2>4 DEF Wire
  <2>5. CASE Swap(k) /\ running /\ tunnel # None
    BY <2>5 DEF Swap
  <2> QED
    BY <1>1, <2>1, <2>2, <2>3, <2>4, <2>5 DEF Publishes
<1>2. ASSUME NEW k \in Calls,
             \/ Goes(k) \/ Creates(k) \/ Reads(k) \/ Revives(k) \/ Ends(k) \/ Begins(k)
             \/ Tunnels(k)
      PROVE  lateWrite'
  BY <1>2 DEF Goes, Creates, Reads, Revives, Ends, Begins, Tunnels
<1>3. ASSUME NEW k \in Calls \cup {None}, StopClient(k) PROVE lateWrite'
  BY <1>3 DEF StopClient
<1>4. ASSUME NEW g \in Groups, Rises(g) \/ Fades(g) PROVE lateWrite'
  BY <1>4 DEF Rises, Fades
<1>5. CASE UNCHANGED <<core, gst, th>>
  BY <1>5
<1> QED
  BY <1>1, <1>2, <1>3, <1>4, <1>5, StepCases

(* The inductive invariant. *)
ClientInv ==
    /\ Typed /\ Known /\ StateAgrees
    /\ ~lateWrite => OneAttempt /\ OneRevival /\ Held

(* It holds before the first call. *)
LEMMA ClientInit == Init => ClientInv
<1> SUFFICES ASSUME Init PROVE ClientInv
  OBVIOUS
<1> USE BoundsAssumption DEF Init
<1>1. Idle \in Thread
  BY DEF Idle, Thread, Pcs
<1>2. \A k \in Calls : /\ Pc(k) = "idle" /\ th[k].old = None /\ th[k].ctx = None
                       /\ ~th[k].stopped
  BY DEF Pc, Idle
<1>3. Typed
  BY <1>1 DEF Typed, GroupStates
<1>4. Known
  BY <1>2 DEF Known, KnownThread, WasUp, HoldPcs, UpPcs, Groups
<1>5. StateAgrees
  BY DEF StateAgrees
<1>6. OneAttempt
  BY <1>2 DEF OneAttempt, Trying, AttemptPcs
<1>7. OneRevival
  BY <1>2 DEF OneRevival, Reviving, RevivePcs
<1>8. Held
  BY DEF Held
<1> QED
  BY <1>3, <1>4, <1>5, <1>6, <1>7, <1>8 DEF ClientInv

(* Every step keeps it; where no late write has happened after the step, none had *)
(* before.                                                                        *)
LEMMA ClientStep == ClientInv /\ [Next]_vars => ClientInv'
<1> SUFFICES ASSUME ClientInv, [Next]_vars PROVE ClientInv'
  OBVIOUS
<1>1. Typed /\ Known /\ StateAgrees
  BY DEF ClientInv
<1>2. Typed' /\ Known' /\ StateAgrees'
  BY <1>1, TypedStep, KnownStep, StateStep
<1>3. ASSUME ~lateWrite' PROVE OneAttempt' /\ OneRevival' /\ Held'
  <2>1. OneAttempt /\ OneRevival /\ Held
    BY <1>1, <1>3, LateStays DEF ClientInv
  <2> QED
    BY <1>1, <1>3, <2>1, AttemptStep, RevivalStep, HeldStep
<1> QED
  BY <1>2, <1>3 DEF ClientInv

(* The flags, the groups and the threads of the client agree in every reachable *)
(* state of StartClient, ConnectWebRTC, StartTunnel, attemptFastReconnect and   *)
(* StopClient, in any interleaving of their sections under mu.                  *)
THEOREM ClientInvariant == Spec => []ClientInv
<1> QED
  BY ClientInit, ClientStep, PTL DEF Spec

(* While the client runs its tunnel dials the active group, and a stopped client has *)
(* no tunnel, also after late writes: Commit, Swap and StopClient change             *)
(* activeTunnel and activeWebRTCClientGroup in one section.                          *)
THEOREM TunnelFollowsActive == Spec => []TunnelDialsActive
<1>1. ClientInv => TunnelDialsActive
  BY DEF ClientInv, StateAgrees, TunnelDialsActive
<1> QED
  BY <1>1, ClientInvariant, PTL

(* The context that StartClient reads from clientConnectCtx after dropping mu is its *)
(* own, unless StopClient has overtaken it or a late write has happened.             *)
THEOREM ContextsOwn == Spec => []OwnContext
<1>1. ASSUME ClientInv PROVE OwnContext
  <2>1. UnderWay \subseteq Calls
    BY <1>1, BoundsAssumption DEF ClientInv, Typed, UnderWay, Calls
  <2> QED
    BY <1>1, <2>1 DEF ClientInv, OneAttempt, OwnContext
<1> QED
  BY <1>1, ClientInvariant, PTL

(* Without a late write, every group with open sockets is active, pending or held by *)
(* a call under way, and so will be stopped.                                         *)
THEOREM GroupsHeld == Spec => []NoGroupLeaked
<1>1. ASSUME ClientInv PROVE NoGroupLeaked
  <2>1. ASSUME NEW k \in Calls, NEW g \in 1..ngroups, Holds(k, g)
        PROVE  k \in UnderWay /\ g \in {Grp(k), th[k].old}
    <3>1. Pc(k) # "idle" /\ Pc(k) # "done"
      BY <2>1 DEF Holds, HoldPcs
    <3>2. k \in 1..ncalls
      BY <1>1, <3>1 DEF ClientInv, Known, KnownThread, Calls, Typed
    <3> QED
      BY <2>1, <3>1, <3>2 DEF UnderWay, Holds
  <2> QED
    BY <1>1, <2>1 DEF ClientInv, Held, NoGroupLeaked, InUse
<1> QED
  BY <1>1, ClientInvariant, PTL
=============================================================================
