-------------------------- MODULE DiscoveryProofs ---------------------------
(***************************************************************************)
(* The stop channels of the heartbeat goroutines, for any number of calls, *)
(* listings and faults and any ttl: none is closed twice, and none is      *)
(* forgotten unless two registrations overlap.  A listing that expires     *)
(* under its goroutine has gone without heartbeats.                        *)
(***************************************************************************)
EXTENDS Discovery, WellFoundedInduction, TLAPS

(* The fields of a call; the listing ids play no part. *)
CallOf(t) ==
    [kind |-> t.kind, pc |-> t.pc, id |-> t.id, url |-> t.url, stop |-> t.stop]

Shape ==
    /\ DOMAIN th = Calls /\ th = [k \in Calls |-> CallOf(th[k])]
    /\ stop \in Calls \cup {None} /\ closed \subseteq Calls
    /\ \A k \in Calls : th[k].stop \in Calls \cup {None}

(* Calls begin in the order of their numbers. *)
NotBegun == ncalls \in Nat /\ \A k \in Calls : k > ncalls => th[k] = NoCall

(* The channel of call k exists: somebody can close it, or did. *)
Issued(k) == k \in closed \/ stop = k \/ \E j \in Calls : Closing(j) /\ th[j].stop = k

(* The channel is made in the last step of a call, and no call begins twice. *)
IssuedLate == \A k \in Calls : Issued(k) => th[k].pc = "done"

StopInv == Shape /\ NotBegun /\ IssuedLate /\ CloseOnce

(* The part of the state that StopInv is about. *)
stops == <<th, stop, closed, ncalls>>

LEMMA NoneIsNoCall == None \notin Calls
BY BoundsAssumption DEF None, Calls

LEMMA StopInit == Init => StopInv
<1> SUFFICES ASSUME Init
             PROVE  StopInv
    OBVIOUS
<1>1. Shape
    BY DEF Init, Shape, CallOf, NoCall, None
<1>2. NotBegun
    BY DEF Init, NotBegun
<1>3. \A k \in Calls : ~Closing(k)
    BY DEF Init, Closing, NoCall
<1>4. IssuedLate
    BY <1>3, NoneIsNoCall DEF Init, IssuedLate, Issued
<1>5. CloseOnce
    BY <1>3 DEF Init, CloseOnce
<1> QED
    BY <1>1, <1>2, <1>4, <1>5 DEF StopInv

(* What a step does to a call k other than its beginning: its control state  *)
(* moves on, it may have closed its channel, and it keeps no other.          *)
Advances(k) ==
    /\ th' = [th EXCEPT ![k] = th'[k]]
    /\ th'[k] = CallOf(th'[k]) /\ ~Closing(k)'
    /\ th'[k].stop \in {th[k].stop, None}
    /\ th[k] # NoCall

LEMMA CloseStopAdvances ==
    ASSUME StopInv, NEW k \in Calls, CloseStop(k) \/ Deregister(k) \/ Register(k) \/ Store(k)
    PROVE  Advances(k)
<1> USE DEF StopInv
<1>1. th[k] = CallOf(th[k]) /\ DOMAIN th = Calls
    BY DEF Shape
<1>2. th[k] # NoCall
    BY DEF CloseStop, Deregister, Register, Store, NoCall
<1>3. CASE Return(k)
    BY <1>1, <1>2, <1>3 DEF Return, Ended, NoCall, Advances, CallOf, Closing
<1>4. CASE GoOn(k)
    BY <1>1, <1>2, <1>4 DEF GoOn, Return, Ended, NoCall, Advances, CallOf, Closing
<1>5. CASE th' = [th EXCEPT ![k].pc = "deregister"]
    BY <1>1, <1>2, <1>5 DEF Advances, CallOf, Closing
<1>6. CASE th' = [th EXCEPT ![k].pc = "store", ![k].id = FreshId]
    BY <1>1, <1>2, <1>6 DEF Advances, CallOf, Closing
<1> QED
    BY <1>3, <1>4, <1>5, <1>6 DEF CloseStop, Deregister, Register, RegisterServer, Store

(* A call that advances leaves the others, and their channels, alone. *)
LEMMA AdvanceKeeps ==
    ASSUME StopInv, NEW k \in Calls, Advances(k), ncalls' = ncalls,
           stop' \in Calls \cup {None}, closed' \subseteq Calls
    PROVE  /\ Shape' /\ NotBegun'
           /\ \A j \in Calls : Closing(j)' => Closing(j) /\ j # k /\ th'[j] = th[j]
<1> USE DEF StopInv
<1>1. DOMAIN th' = Calls /\ \A j \in Calls : th'[j] = IF j = k THEN th'[k] ELSE th[j]
    BY DEF Advances, Shape
<1>2. \A j \in Calls : th'[j] = CallOf(th'[j])
    BY <1>1 DEF Advances, Shape
<1>3. \A j \in Calls : th'[j].stop \in Calls \cup {None}
    BY <1>1 DEF Advances, Shape
<1>4. th' = [j \in Calls |-> th'[j]]
    BY <1>1 DEF Advances, Shape
<1>5. Shape'
    BY <1>1, <1>2, <1>3, <1>4 DEF Shape
<1>6. NotBegun'
    BY <1>1 DEF NotBegun, Advances
<1>7. \A j \in Calls : Closing(j)' => Closing(j) /\ j # k /\ th'[j] = th[j]
    BY <1>1 DEF Closing, Advances
<1> QED
    BY <1>5, <1>6, <1>7

LEMMA CallKeepsStops ==
    ASSUME StopInv, NEW k \in Calls, CallStep(k)
    PROVE  StopInv'
<1> USE DEF StopInv
<1>1. Advances(k) /\ ncalls' = ncalls
    BY CloseStopAdvances DEF CallStep, CloseStop, Deregister, Register, Store
<1>2. \A j \in Calls : j # k => th'[j] = th[j]
    BY <1>1 DEF Advances, Shape
<1>3. CASE CloseStop(k)
  <2>1. closed' = closed \cup ({th[k].stop} \ {None}) /\ stop' = stop /\ th[k].pc = "close"
      BY <1>3 DEF CloseStop
  <2>2. stop' \in Calls \cup {None} /\ closed' \subseteq Calls
      BY <2>1 DEF Shape
  <2>3. /\ Shape' /\ NotBegun'
        /\ \A j \in Calls : Closing(j)' => Closing(j) /\ j # k /\ th'[j] = th[j]
      BY <1>1, <2>2, AdvanceKeeps
  <2>4. \A j \in Calls : Issued(j)' => Issued(j)
      BY <2>1, <2>3 DEF Issued, Closing
  <2>5. IssuedLate'
      BY <1>2, <2>1, <2>4 DEF IssuedLate
  <2>6. CloseOnce'
    <3>1. stop' \notin closed'
        BY <2>1 DEF CloseOnce, Closing
    <3>2. \A j \in Calls : Closing(j)' => th'[j].stop \notin closed' \cup {stop'}
        BY <2>1, <2>3 DEF CloseOnce, Closing
    <3>3. \A i, j \in Calls : Closing(i)' /\ Closing(j)' /\ th'[j].stop = th'[i].stop => j = i
        BY <2>3 DEF CloseOnce
    <3> QED
        BY <3>1, <3>2, <3>3 DEF CloseOnce
  <2> QED
      BY <2>3, <2>5, <2>6
<1>4. CASE Deregister(k) \/ Register(k)
  <2>1. closed' = closed /\ stop' = stop /\ th[k].pc # "done"
      BY <1>4 DEF Deregister, Register, globals
  <2>2. stop' \in Calls \cup {None} /\ closed' \subseteq Calls
      BY <2>1 DEF Shape
  <2>3. /\ Shape' /\ NotBegun'
        /\ \A j \in Calls : Closing(j)' => Closing(j) /\ j # k /\ th'[j] = th[j]
      BY <1>1, <2>2, AdvanceKeeps
  <2>4. \A j \in Calls : Issued(j)' => Issued(j)
      BY <2>1, <2>3 DEF Issued
  <2>5. IssuedLate'
      BY <1>2, <2>1, <2>4 DEF IssuedLate
  <2>6. CloseOnce'
      BY <2>1, <2>3 DEF CloseOnce
  <2> QED
      BY <2>3, <2>5, <2>6
<1>5. CASE Store(k)
  <2>1. closed' = closed /\ stop' = k /\ th[k].pc = "store" /\ th'[k].pc = "done"
      BY <1>5 DEF Store, Return, Ended, NoCall, Shape
  <2>2. stop' \in Calls \cup {None} /\ closed' \subseteq Calls
      BY <2>1 DEF Shape
  <2>3. /\ Shape' /\ NotBegun'
        /\ \A j \in Calls : Closing(j)' => Closing(j) /\ j # k /\ th'[j] = th[j]
      BY <1>1, <2>2, AdvanceKeeps
  <2>4. ~Issued(k)
      BY <2>1 DEF IssuedLate
  <2>5. \A j \in Calls : Issued(j)' => Issued(j) \/ j = k
      BY <2>1, <2>3 DEF Issued
  <2>6. IssuedLate'
      BY <1>2, <2>1, <2>5 DEF IssuedLate
  <2>7. CloseOnce'
      BY <2>1, <2>3, <2>4 DEF CloseOnce, Issued
  <2> QED
      BY <2>3, <2>6, <2>7
<1> QED
    BY <1>3, <1>4, <1>5 DEF CallStep

LEMMA StopServerKeepsStops ==
    ASSUME StopInv, StopServer
    PROVE  StopInv'
<1> USE DEF StopInv
<1>1. th' = th /\ ncalls' = ncalls
    BY DEF StopServer
<1>2. \A j \in Calls : Closing(j)' <=> Closing(j)
    BY <1>1 DEF Closing
<1>3. CASE stop' = stop /\ closed' = closed
    BY <1>1, <1>2, <1>3 DEF Shape, NotBegun, IssuedLate, Issued, CloseOnce
<1>4. CASE stop' = None /\ closed' = closed \cup ({stop} \ {None})
  <2>1. Shape' /\ NotBegun'
      BY <1>1, <1>4 DEF Shape, NotBegun
  <2>2. \A j \in Calls : Issued(j)' => Issued(j)
      BY <1>1, <1>2, <1>4, NoneIsNoCall DEF Issued
  <2>3. IssuedLate'
      BY <1>1, <2>2 DEF IssuedLate
  <2>4. None \notin closed'
      BY <1>4, NoneIsNoCall DEF Shape
  <2>5. \A j \in Calls : Closing(j) => th[j].stop \notin closed' \cup {None}
      BY <1>4 DEF CloseOnce, Closing
  <2>6. CloseOnce'
      BY <1>1, <1>2, <1>4, <2>4, <2>5 DEF CloseOnce
  <2> QED
      BY <2>1, <2>3, <2>6
<1> QED
    BY <1>3, <1>4 DEF StopServer

LEMMA BeginKeepsStops ==
    ASSUME StopInv, NEW k \in Calls, NEW what \in {"register", "unregister"}, Begin(k, what)
    PROVE  StopInv'
<1> USE DEF StopInv
<1>1. /\ closed' = closed /\ stop' = None /\ ncalls' = k /\ k > ncalls /\ k \in Nat
      /\ th' = [th EXCEPT ![k] = [kind |-> what, pc |-> "close", id |-> id, url |-> url,
                                  stop |-> stop]]
    BY DEF Begin, Calls, NotBegun
<1>2. th[k] = NoCall
    BY <1>1 DEF NotBegun
<1>3. /\ DOMAIN th' = Calls /\ th'[k].pc = "close" /\ th'[k].stop = stop
      /\ th'[k] = CallOf(th'[k]) /\ \A j \in Calls : j # k => th'[j] = th[j]
    BY <1>1 DEF Shape, CallOf
<1>4. th' = [j \in Calls |-> th'[j]]
    BY <1>1 DEF Shape
<1>5. Shape'
    BY <1>1, <1>3, <1>4 DEF Shape
<1>6. NotBegun'
    BY <1>1, <1>3 DEF NotBegun, Calls
<1>7. ~Closing(k) /\ ~Issued(k)
    BY <1>2 DEF Closing, NoCall, IssuedLate
<1>8. Closing(k)' <=> stop # None
    BY <1>3 DEF Closing
<1>9. \A j \in Calls : j # k => (Closing(j)' <=> Closing(j))
    BY <1>3 DEF Closing
<1>10. \A j \in Calls : Issued(j)' => Issued(j)
    BY <1>1, <1>3, <1>8, <1>9, NoneIsNoCall DEF Issued
<1>11. IssuedLate'
    BY <1>3, <1>7, <1>10 DEF IssuedLate
<1>12. None \notin closed'
    BY <1>1, NoneIsNoCall DEF Shape
<1>13. \A j \in Calls : Closing(j)' => th'[j].stop \notin closed' \cup {None}
    BY <1>1, <1>3, <1>8, <1>9 DEF CloseOnce, Closing
<1>14. \A i, j \in Calls : Closing(i)' /\ Closing(j)' /\ th'[j].stop = th'[i].stop => j = i
    BY <1>3, <1>8, <1>9 DEF CloseOnce
<1>15. CloseOnce'
    BY <1>1, <1>12, <1>13, <1>14 DEF CloseOnce
<1> QED
    BY <1>5, <1>6, <1>11, <1>15

LEMMA OthersKeepStops ==
    ASSUME StopInv, UNCHANGED stops
    PROVE  StopInv'
<1>1. \A j \in Calls : Closing(j)' <=> Closing(j)
    BY DEF stops, Closing
<1> QED
    BY <1>1 DEF stops, StopInv, Shape, NotBegun, IssuedLate, Issued, CloseOnce

LEMMA StopStep == StopInv /\ [Next]_vars => StopInv'
<1> SUFFICES ASSUME StopInv, [Next]_vars
             PROVE  StopInv'
    OBVIOUS
<1>1. ASSUME NEW k \in Calls, BeatStep(k)
      PROVE  UNCHANGED stops
    BY <1>1 DEF BeatStep, Exit, Beat, Reregister, StoreNew, globals, stops
<1>2. CASE StartServer \/ Tick \/ GcTick \/ Restart \/ UNCHANGED vars
    BY <1>2, OthersKeepStops
    DEF StartServer, Tick, GcTick, Restart, vars, globals, stops
<1> QED
    BY <1>1, <1>2, CallKeepsStops, StopServerKeepsStops, BeginKeepsStops, OthersKeepStops DEF Next

(* No stop channel of a heartbeat is closed twice, which would panic,        *)
(* however RegisterServerDiscovery, UnregisterServerDiscovery and StopServer *)
(* overlap.                                                                  *)
THEOREM ClosedOnce == Spec => []CloseOnce
<1>1. StopInv => CloseOnce
    BY DEF StopInv
<1> QED
    BY <1>1, StopInit, StopStep, PTL DEF Spec

-----------------------------------------------------------------------------
(* Heartbeats.                                                             *)

(* The fields of a goroutine. *)
BeatOf(h) == [pc |-> h.pc, id |-> h.id, due |-> h.due, missed |-> h.missed]

BeatShape == DOMAIN hb = Calls /\ hb = [k \in Calls |-> BeatOf(hb[k])]

Registering(k) == th[k].kind = "register" /\ th[k].pc # "done"

(* While registrations do not overlap, the one that is under way is alone and  *)
(* the place for its channel is free.                                          *)
Alone ==
    \A k \in Calls : Registering(k) =>
        overlap \/ (stop = None /\ \A j \in Calls : Registering(j) => j = k)

StoresRegister == \A k \in Calls : th[k].pc \in {"register", "store"} => th[k].kind = "register"

OwnInv == StopInv /\ BeatShape /\ Alone /\ StoresRegister /\ HeartbeatOwned

LEMMA OwnInit == Init => OwnInv
<1> SUFFICES ASSUME Init
             PROVE  OwnInv
    OBVIOUS
<1>1. \A k \in Calls : ~Registering(k) /\ ~Beating(k) /\ th[k].pc = "idle"
    BY DEF Init, Registering, Beating, NoCall, NoBeat
<1>2. BeatShape
    BY DEF Init, BeatShape, BeatOf, NoBeat
<1> QED
    BY <1>1, <1>2, StopInit DEF OwnInv, Alone, StoresRegister, HeartbeatOwned

(* A step of a call goes on with what it is doing. *)
LEMMA CallGoesOn ==
    ASSUME OwnInv, NEW k \in Calls, CallStep(k)
    PROVE  /\ Registering(k)' => Registering(k)
           /\ th'[k].pc \in {"register", "store"} => th'[k].kind = "register"
           /\ \A j \in Calls : j # k => th'[j] = th[j]
<1>1. th[k] = CallOf(th[k]) /\ DOMAIN th = Calls /\ th[k].pc # "done"
    BY DEF OwnInv, StopInv, Shape, CallStep, CloseStop, Deregister, Register, Store
<1>2. CASE Return(k)
    BY <1>1, <1>2 DEF Return, Ended, NoCall, Registering
<1>3. CASE GoOn(k)
    BY <1>1, <1>3 DEF GoOn, Return, Ended, NoCall, Registering
<1>4. CASE th' = [th EXCEPT ![k].pc = "deregister"]
    BY <1>1, <1>4 DEF Registering, CallOf
<1>5. CASE th' = [th EXCEPT ![k].pc = "store", ![k].id = FreshId] /\ th[k].pc = "register"
    BY <1>1, <1>5 DEF Registering, CallOf, OwnInv, StoresRegister
<1> QED
    BY <1>2, <1>3, <1>4, <1>5
    DEF CallStep, CloseStop, Deregister, Register, RegisterServer, Store

LEMMA CallKeepsOwned ==
    ASSUME OwnInv, NEW k \in Calls, CallStep(k)
    PROVE  OwnInv'
<1>1. StopInv' /\ StopInv
    BY CallKeepsStops DEF OwnInv
<1>2. /\ Registering(k)' => Registering(k)
      /\ th'[k].pc \in {"register", "store"} => th'[k].kind = "register"
      /\ \A j \in Calls : j # k => th'[j] = th[j]
    BY CallGoesOn
<1>3. StoresRegister'
    BY <1>2 DEF OwnInv, StoresRegister
<1>4. \A j \in Calls : Registering(j)' => Registering(j)
    BY <1>2 DEF Registering
<1>5. overlap' = overlap
    BY DEF CallStep, CloseStop, Deregister, Register, Store
<1>6. CASE Store(k)
  <2>1. /\ stop' = k /\ closed' = closed /\ th[k].pc = "store"
        /\ hb' = [hb EXCEPT ![k] = BeatOf(hb'[k])] /\ ~Registering(k)'
    <3>1. ~Registering(k)'
        BY <1>1, <1>6 DEF Store, Return, Ended, NoCall, Registering, Shape, StopInv
    <3>2. hb' = [hb EXCEPT ![k] = BeatOf(hb'[k])]
      <4>1. PICK g, i, m : /\ hb' = [hb EXCEPT ![k] = g]
                           /\ g = [NoBeat EXCEPT !.pc = "idle", !.id = i, !.missed = m]
          BY <1>6, ZenonT(30) DEF Store
      <4>2. DOMAIN g = {"pc", "id", "due", "missed"}
          BY <4>1 DEF NoBeat
      <4>3. g = [x \in DOMAIN g |-> g[x]]
          BY <4>1 DEF NoBeat
      <4>4. g = BeatOf(g)
          BY <4>2, <4>3 DEF BeatOf
      <4> QED
          BY <4>1, <4>4 DEF OwnInv, BeatShape
    <3> QED
        BY <1>6, <3>1, <3>2 DEF Store
  <2>2. Registering(k)
      BY <2>1 DEF OwnInv, StoresRegister, Registering
  <2>3. Alone'
      BY <1>4, <1>5, <2>1, <2>2 DEF OwnInv, Alone
  <2>4. BeatShape'
      BY <2>1 DEF OwnInv, BeatShape, BeatOf
  <2>5. \A j \in Calls : j # k => (Closing(j)' <=> Closing(j)) /\ (Beating(j)' <=> Beating(j))
      BY <1>2, <2>1 DEF Closing, Beating, OwnInv, BeatShape
  <2>6. ~Closing(k)
      BY <2>1 DEF Closing
  <2>7. overlap \/ stop = None
      BY <2>2 DEF OwnInv, Alone
  <2>8. HeartbeatOwned'
      BY <1>2, <1>5, <2>1, <2>5, <2>6, <2>7, NoneIsNoCall DEF OwnInv, HeartbeatOwned
  <2> QED
      BY <1>1, <1>3, <2>3, <2>4, <2>8 DEF OwnInv
<1>7. CASE CloseStop(k) \/ Deregister(k) \/ Register(k)
  <2>1. /\ stop' = stop /\ hb' = hb
        /\ closed' = closed \cup (IF Closing(k) THEN {th[k].stop} ELSE {})
      BY <1>7 DEF CloseStop, Deregister, Register, Closing, globals
  <2>2. Alone'
      BY <1>4, <1>5, <2>1 DEF OwnInv, Alone
  <2>3. BeatShape'
      BY <2>1 DEF OwnInv, BeatShape
  <2>4. \A j \in Calls : /\ j # k => (Closing(j)' <=> Closing(j))
                         /\ Beating(j)' <=> Beating(j)
      BY <1>2, <2>1 DEF Closing, Beating
  <2>5. HeartbeatOwned'
      BY <1>2, <1>5, <2>1, <2>4 DEF OwnInv, HeartbeatOwned
  <2> QED
      BY <1>1, <1>3, <2>2, <2>3, <2>5 DEF OwnInv
<1> QED
    BY <1>6, <1>7 DEF CallStep

LEMMA StopServerKeepsOwned ==
    ASSUME OwnInv, StopServer
    PROVE  OwnInv'
<1>1. StopInv' /\ BeatShape' /\ StoresRegister'
    BY StopServerKeepsStops DEF OwnInv, StopServer, BeatShape, StoresRegister
<1>2. th' = th /\ hb' = hb /\ overlap' = overlap
    BY DEF StopServer
<1>3. \A k \in Calls : /\ Closing(k)' <=> Closing(k)
                       /\ Beating(k)' <=> Beating(k)
                       /\ Registering(k)' <=> Registering(k)
    BY <1>2 DEF Closing, Beating, Registering
<1>4. \/ stop' = stop /\ closed' = closed
      \/ stop' = None /\ closed' = closed \cup ({stop} \ {None})
    BY DEF StopServer
<1>5. Alone'
    BY <1>2, <1>3, <1>4 DEF OwnInv, Alone
<1>6. HeartbeatOwned'
    BY <1>2, <1>3, <1>4, NoneIsNoCall DEF OwnInv, HeartbeatOwned
<1> QED
    BY <1>1, <1>5, <1>6 DEF OwnInv

LEMMA BeginKeepsOwned ==
    ASSUME OwnInv, NEW k \in Calls, NEW what \in {"register", "unregister"}, Begin(k, what)
    PROVE  OwnInv'
<1>1. StopInv /\ StopInv' /\ BeatShape'
    BY BeginKeepsStops DEF OwnInv, Begin, BeatShape
<1>2. /\ closed' = closed /\ stop' = None /\ hb' = hb /\ k > ncalls
      /\ th' = [th EXCEPT ![k] = [kind |-> what, pc |-> "close", id |-> id, url |-> url,
                                  stop |-> stop]]
    BY <1>1 DEF Begin, StopInv, NotBegun, Calls
<1>3. /\ th'[k].pc = "close" /\ th'[k].stop = stop /\ th'[k].kind = what
      /\ \A j \in Calls : j # k => th'[j] = th[j]
    BY <1>1, <1>2 DEF StopInv, Shape
<1>4. ~Closing(k)
    BY <1>1, <1>2 DEF StopInv, NotBegun, Closing, NoCall
<1>5. StoresRegister'
    BY <1>3 DEF OwnInv, StoresRegister
<1>6. \A j \in Calls : /\ j # k => (Registering(j)' <=> Registering(j))
                       /\ j # k => (Closing(j)' <=> Closing(j))
                       /\ Beating(j)' <=> Beating(j)
    BY <1>2, <1>3 DEF Registering, Closing, Beating
<1>7. /\ Closing(k)' <=> stop # None
      /\ Registering(k)' <=> what = "register"
    BY <1>3 DEF Closing, Registering
<1>8. /\ overlap => overlap'
      /\ what = "register" /\ (\E j \in Calls : Registering(j)) => overlap'
    BY DEF Begin, Registering
<1>9. Alone'
    BY <1>2, <1>6, <1>7, <1>8 DEF OwnInv, Alone
<1>10. HeartbeatOwned'
    BY <1>2, <1>3, <1>4, <1>6, <1>7, <1>8, NoneIsNoCall DEF OwnInv, HeartbeatOwned
<1> QED
    BY <1>1, <1>5, <1>9, <1>10 DEF OwnInv

(* Nothing but a registration starts a goroutine. *)
LEMMA OthersKeepOwned ==
    ASSUME OwnInv, UNCHANGED <<stops, overlap>>, BeatShape',
           \A k \in Calls : Beating(k)' => Beating(k)
    PROVE  OwnInv'
<1>1. StopInv'
    BY OthersKeepStops DEF OwnInv
<1>2. \A k \in Calls : /\ Closing(k)' <=> Closing(k)
                       /\ Registering(k)' <=> Registering(k)
    BY DEF stops, Closing, Registering
<1>3. HeartbeatOwned'
    BY <1>2 DEF OwnInv, HeartbeatOwned, stops
<1> QED
    BY <1>1, <1>2, <1>3 DEF OwnInv, Alone, StoresRegister, stops

LEMMA BeatKeepsOwned ==
    ASSUME OwnInv, NEW k \in Calls, BeatStep(k)
    PROVE  OwnInv'
<1>1. UNCHANGED <<stops, overlap>>
    BY DEF BeatStep, Exit, Beat, Reregister, StoreNew, globals, stops
<1>2. /\ hb[k] = BeatOf(hb[k]) /\ DOMAIN hb = Calls
      /\ \A j \in Calls : hb[j] = BeatOf(hb[j])
    BY DEF OwnInv, BeatShape
<1>3. /\ hb' = [hb EXCEPT ![k] = hb'[k]] /\ hb'[k] = BeatOf(hb'[k])
      /\ Beating(k)' => Beating(k)
  <2>1. CASE Exit(k)
      BY <1>2, <2>1 DEF Exit, NoBeat, BeatOf, Beating
  <2>2. CASE Beat(k)
      BY <1>2, <2>2 DEF Beat, BeatOf, Beating
  <2>3. CASE Reregister(k)
      BY <1>2, <2>3 DEF Reregister, RegisterServer, BeatOf, Beating
  <2>4. CASE StoreNew(k)
      BY <1>2, <2>4 DEF StoreNew, BeatOf, Beating
  <2> QED
      BY <2>1, <2>2, <2>3, <2>4 DEF BeatStep
<1>4. \A j \in Calls : j # k => hb'[j] = hb[j]
    BY <1>2, <1>3
<1>5. BeatShape'
    BY <1>2, <1>3, <1>4 DEF BeatShape
<1>6. \A j \in Calls : Beating(j)' => Beating(j)
    BY <1>3, <1>4 DEF Beating
<1> QED
    BY <1>1, <1>5, <1>6, OthersKeepOwned

LEMMA TickKeepsOwned ==
    ASSUME OwnInv, Tick
    PROVE  OwnInv'
<1>1. UNCHANGED <<stops, overlap>>
    BY DEF Tick, globals, stops
<1>2. \A j \in Calls : hb[j] = BeatOf(hb[j])
    BY DEF OwnInv, BeatShape
<1>3. \A j \in Calls : \/ hb'[j] = hb[j]
                       \/ hb'[j] = [hb[j] EXCEPT !.due = TRUE]
                       \/ \E n : hb'[j] = [hb[j] EXCEPT !.missed = n]
    BY DEF Tick
<1>4. \A j \in Calls : hb'[j] = BeatOf(hb'[j]) /\ hb'[j].pc = hb[j].pc
    BY <1>2, <1>3 DEF BeatOf
<1>5. DOMAIN hb' = Calls /\ hb' = [j \in Calls |-> hb'[j]]
    BY DEF Tick
<1>6. BeatShape'
    BY <1>4, <1>5 DEF BeatShape
<1> QED
    BY <1>1, <1>4, <1>6, OthersKeepOwned DEF Beating

LEMMA OwnStep == OwnInv /\ [Next]_vars => OwnInv'
<1> SUFFICES ASSUME OwnInv, [Next]_vars
             PROVE  OwnInv'
    OBVIOUS
<1>1. CASE StartServer \/ GcTick \/ Restart \/ UNCHANGED vars
  <2>1. UNCHANGED <<stops, overlap, hb>>
      BY <1>1 DEF StartServer, GcTick, Restart, vars, globals, stops
  <2> QED
      BY <2>1, OthersKeepOwned DEF OwnInv, BeatShape, Beating
<1> QED
    BY <1>1, CallKeepsOwned, StopServerKeepsOwned, BeginKeepsOwned, BeatKeepsOwned,
       TickKeepsOwned DEF Next

(* A heartbeat goroutine that runs on can be told to stop: its channel is in *)
(* heartbeatStop or in a call that closes it, unless two calls of            *)
(* RegisterServerDiscovery have overlapped.                                  *)
THEOREM HeartbeatHasOwner == Spec => []HeartbeatOwned
<1>1. OwnInv => HeartbeatOwned
    BY DEF OwnInv
<1> QED
    BY <1>1, OwnInit, OwnStep, PTL DEF Spec

-----------------------------------------------------------------------------
(* Ages of listings.                                                       *)

(* Ages and counts are numbers. *)
AgeShape ==
    /\ listed \in [Ids -> {Absent} \cup Nat]
    /\ \A k \in Calls : hb[k].missed \in Nat

(* The goroutine has counted the age of its listing, but for the interval that *)
(* ended with the tick it has not served yet; the count stops at the ttl.      *)
Aged(k) ==
    Beating(k) /\ Present(hb[k].id) =>
        \/ hb[k].missed >= TTL
        \/ listed[hb[k].id] <= hb[k].missed
        \/ hb[k].due /\ listed[hb[k].id] <= hb[k].missed + 1

AgeInv == OwnInv /\ AgeShape /\ \A k \in Calls : Aged(k)

(* A step in which listings vanish, are refreshed or are made, under free ids. *)
Younger ==
    /\ listed' \in [Ids -> {Absent} \cup Nat]
    /\ \A i \in Ids : \/ listed'[i] \in {listed[i], Absent}
                      \/ listed'[i] = 0 /\ (i \in Free \/ Present(i))

(* The hub finds an id that nobody holds, if there is one. *)
LEMMA FreshIsFree ==
    ASSUME Free # {}
    PROVE  FreshId \in Free
<1>1. Free \subseteq Nat
    BY BoundsAssumption DEF Free, Ids
<1>2. PICK i \in Free : \A j \in Free : ~(<<j, i>> \in OpToRel(<, Nat))
    BY <1>1, NatLessThanWellFounded, WFMin
<1>3. \A j \in Free : ~(j < i)
    BY <1>1, <1>2, Zenon DEF OpToRel
<1>4. \A j \in Free : i <= j
    BY <1>1, <1>3
<1> QED
    BY <1>4 DEF FreshId

(* Every request that takes effect or is lost is such a step. *)
LEMMA RequestsYounger ==
    ASSUME AgeShape
    PROVE  /\ UNCHANGED listed => Younger
           /\ \A i : remove(i) => Younger
           /\ register => Younger
<1>1. ASSUME register PROVE Younger
  <2>1. FreshId \in Free /\ FreshId \in Ids
      BY <1>1, FreshIsFree DEF register, Free
  <2> QED
      BY <1>1, <2>1 DEF register, Younger, AgeShape
<1> QED
    BY <1>1 DEF AgeShape, Younger, remove

(* A goroutine that keeps its listing in such a step loses nothing by it: nobody *)
(* makes a listing under an id that a goroutine holds.                           *)
LEMMA AgeAfterMove ==
    ASSUME AgeInv, Younger, NEW k \in Calls, Beating(k)' => Beating(k),
           hb'[k].id = hb[k].id, hb'[k].due = hb[k].due, hb'[k].missed = hb[k].missed
    PROVE  Aged(k)'
<1>1. hb[k].id \notin Free
    BY DEF Free
<1>2. CASE Present(hb[k].id)'
  <2>1. hb[k].id \in Ids /\ listed'[hb[k].id] # Absent
      BY <1>2 DEF Present
  <2>2. Present(hb[k].id) /\ listed'[hb[k].id] \in {0, listed[hb[k].id]}
      BY <1>1, <2>1 DEF Younger, Present
  <2>3. listed[hb[k].id] \in Nat /\ hb[k].missed \in Nat
      BY <2>1, <2>2 DEF AgeInv, AgeShape, Present
  <2> QED
      BY <2>2, <2>3 DEF AgeInv, Aged
<1>3. CASE ~Present(hb[k].id)'
    BY <1>3 DEF Aged, Present
<1> QED
    BY <1>2, <1>3

LEMMA YoungerKeeps ==
    ASSUME AgeInv, Younger, NEW k \in Calls, hb'[k] = hb[k]
    PROVE  Aged(k)'
BY AgeAfterMove DEF Beating

LEMMA AgeInit == Init => AgeInv
<1> SUFFICES ASSUME Init
             PROVE  AgeInv
    OBVIOUS
<1>1. \A k \in Calls : ~Beating(k) /\ hb[k].missed = 0
    BY DEF Init, Beating, NoBeat
<1>2. AgeShape
    BY <1>1 DEF Init, AgeShape
<1> QED
    BY <1>1, <1>2, OwnInit DEF AgeInv, Aged

(* A goroutine starts with the age that its listing has by then. *)
LEMMA CallKeepsAges ==
    ASSUME AgeInv, NEW k \in Calls, CallStep(k)
    PROVE  AgeShape' /\ \A j \in Calls : Aged(j)'
<1>1. AgeShape /\ BeatShape
    BY DEF AgeInv, OwnInv
<1>2. CASE CloseStop(k) \/ Deregister(k) \/ Register(k)
  <2>1. UNCHANGED hb /\ Younger
      BY <1>1, <1>2, RequestsYounger
      DEF CloseStop, Deregister, DeregisterServer, Register, RegisterServer
  <2> QED
      BY <1>1, <2>1, YoungerKeeps DEF AgeShape, Younger
<1>3. CASE Store(k)
  <2>1. UNCHANGED listed /\ Younger
      BY <1>1, <1>3, RequestsYounger DEF Store
  <2>2. \A j \in Calls : j # k => hb'[j] = hb[j]
      BY <1>1, <1>3 DEF Store, BeatShape
  <2>3. /\ hb'[k].id = th[k].id
        /\ hb'[k].missed = IF Present(th[k].id) THEN listed[th[k].id] ELSE 0
      BY <1>1, <1>3 DEF Store, BeatShape, NoBeat
  <2>4. Present(th[k].id) => listed[th[k].id] \in Nat
      BY <1>1 DEF Present, AgeShape
  <2>5. hb'[k].missed \in Nat
      BY <2>3, <2>4
  <2>6. Aged(k)'
      BY <2>1, <2>3, <2>4 DEF Aged, Present
  <2> QED
      BY <1>1, <2>1, <2>2, <2>5, <2>6, YoungerKeeps DEF AgeShape
<1> QED
    BY <1>2, <1>3 DEF CallStep

(* A heartbeat that arrives resets both counts, one that is lost is counted. *)
LEMMA BeatKeepsAges ==
    ASSUME AgeInv, NEW k \in Calls, BeatStep(k)
    PROVE  AgeShape' /\ \A j \in Calls : Aged(j)'
<1>1. AgeShape /\ BeatShape /\ hb[k].missed \in Nat /\ hb[k] = BeatOf(hb[k])
    BY DEF AgeInv, OwnInv, AgeShape, BeatShape
<1>2. \A j \in Calls : j # k => hb'[j] = hb[j]
    BY <1>1 DEF BeatStep, Exit, Beat, Reregister, RegisterServer, StoreNew, BeatShape
<1>3. SUFFICES Younger /\ hb'[k].missed \in Nat /\ Aged(k)'
    BY <1>1, <1>2, YoungerKeeps DEF AgeShape, Younger
<1>4. CASE Exit(k)
  <2>1. hb'[k].pc = "exited" /\ hb'[k].missed = 0
      BY <1>1, <1>4 DEF Exit, NoBeat, BeatShape
  <2> QED
      BY <1>1, <1>4, <2>1, RequestsYounger DEF Exit, Aged, Beating
<1>5. CASE Beat(k)
  <2>1. CASE Present(hb[k].id) /\ listed' = [listed EXCEPT ![hb[k].id] = 0]
             /\ hb' = [hb EXCEPT ![k].due = FALSE, ![k].missed = 0]
    <3>1. hb'[k].missed = 0 /\ hb'[k].id = hb[k].id
        BY <1>1, <2>1 DEF BeatShape, BeatOf
    <3>2. Younger /\ listed'[hb[k].id] = 0
        BY <1>1, <2>1 DEF Younger, AgeShape, Present
    <3> QED
        BY <3>1, <3>2 DEF Aged
  <2>2. CASE ~Present(hb[k].id) /\ UNCHANGED listed
             /\ hb' = [hb EXCEPT ![k].due = FALSE, ![k].pc = "register"]
    <3>1. hb'[k].missed = hb[k].missed /\ hb'[k].id = hb[k].id
        BY <1>1, <2>2 DEF BeatShape, BeatOf
    <3> QED
        BY <1>1, <2>2, <3>1, RequestsYounger DEF Aged, Present
  <2>3. CASE /\ UNCHANGED listed
             /\ hb' = [hb EXCEPT ![k].due = FALSE, ![k].missed = @ + 1]
    <3>1. hb'[k].missed = hb[k].missed + 1 /\ hb'[k].id = hb[k].id
        BY <1>1, <2>3 DEF BeatShape, BeatOf
    <3>2. hb[k].pc = "idle"
        BY <1>5 DEF Beat
    <3>3. Present(hb[k].id) => \/ hb[k].missed >= TTL
                               \/ listed[hb[k].id] <= hb[k].missed + 1
      <4>1. Present(hb[k].id) => listed[hb[k].id] \in Nat
          BY <1>1 DEF AgeShape, Present
      <4> QED
          BY <1>1, <3>2, <4>1 DEF AgeInv, Aged, Beating
    <3>4. Aged(k)'
        BY <1>1, <2>3, <3>1, <3>3, TTLAssumption DEF Aged, Present
    <3> QED
        BY <1>1, <2>3, <3>1, <3>4, RequestsYounger
  <2> QED
      BY <1>5, <2>1, <2>2, <2>3 DEF Beat
<1>6. CASE Reregister(k)
  <2>1. CASE register /\ hb' = [hb EXCEPT ![k].pc = "store", ![k].id = FreshId, ![k].missed = 0]
    <3>1. hb'[k].missed = 0 /\ hb'[k].id = FreshId
        BY <1>1, <2>1 DEF BeatShape, BeatOf
    <3>2. FreshId \in Ids
        BY <2>1, FreshIsFree DEF register, Free
    <3>3. listed'[FreshId] = 0
        BY <1>1, <2>1, <3>2 DEF register, AgeShape
    <3> QED
        BY <1>1, <2>1, <3>1, <3>3, RequestsYounger DEF Aged
  <2>2. CASE Younger /\ hb' = [hb EXCEPT ![k].pc = "idle"]
    <3>1. hb'[k].missed = hb[k].missed /\ hb'[k].id = hb[k].id /\ hb'[k].due = hb[k].due
        BY <1>1, <2>2 DEF BeatShape, BeatOf
    <3>2. Aged(k)'
        BY <1>6, <2>2, <3>1, AgeAfterMove DEF Reregister, Beating
    <3> QED
        BY <1>1, <2>2, <3>1, <3>2
  <2> QED
      BY <1>1, <1>6, <2>1, <2>2, RequestsYounger DEF Reregister, RegisterServer
<1>7. CASE StoreNew(k)
  <2>1. hb'[k].missed = hb[k].missed /\ hb'[k].id = hb[k].id /\ hb'[k].due = hb[k].due
      BY <1>1, <1>7 DEF StoreNew, BeatShape, BeatOf
  <2>2. Younger
      BY <1>1, <1>7, RequestsYounger DEF StoreNew
  <2>3. Aged(k)'
      BY <1>7, <2>1, <2>2, AgeAfterMove DEF StoreNew, Beating
  <2> QED
      BY <1>1, <2>1, <2>2, <2>3
<1> QED
    BY <1>4, <1>5, <1>6, <1>7 DEF BeatStep

(* Time makes every listing older by one interval, and the goroutines count it. *)
LEMMA TickKeepsAges ==
    ASSUME AgeInv, Tick
    PROVE  AgeShape' /\ \A k \in Calls : Aged(k)'
<1>1. AgeShape /\ BeatShape
    BY DEF AgeInv, OwnInv
<1>2. \A i \in Ids : listed'[i] = IF Present(i) THEN listed[i] + 1 ELSE Absent
    BY DEF Tick
<1>3. listed' \in [Ids -> {Absent} \cup Nat]
    BY <1>1 DEF Tick, AgeShape, Present
<1>4. ASSUME NEW k \in Calls PROVE hb'[k].missed \in Nat /\ Aged(k)'
  <2>1. hb[k].missed \in Nat /\ hb[k] = BeatOf(hb[k])
      BY <1>1 DEF AgeShape, BeatShape
  <2>2. /\ hb[k].id \in Ids /\ listed'[hb[k].id] # Absent => Present(hb[k].id)
        /\ Present(hb[k].id) => /\ listed[hb[k].id] \in Nat
                                /\ listed'[hb[k].id] = listed[hb[k].id] + 1
      BY <1>1, <1>2 DEF Present, AgeShape
  <2>3. CASE hb[k].pc \in {"idle", "store"} /\ ~hb[k].due
    <3>1. hb'[k] = [hb[k] EXCEPT !.due = TRUE]
        BY <2>3 DEF Tick
    <3>2. hb'[k].missed = hb[k].missed /\ hb'[k].id = hb[k].id /\ hb'[k].due
        BY <2>1, <3>1 DEF BeatOf
    <3>3. Present(hb[k].id) => hb[k].missed >= TTL \/ listed[hb[k].id] <= hb[k].missed
        BY <2>3 DEF AgeInv, Aged, Beating
    <3> QED
        BY <2>1, <2>2, <3>2, <3>3 DEF Aged, Present
  <2>4. CASE hb[k].pc = "store" /\ hb[k].due
    <3>1. hb'[k] = [hb[k] EXCEPT !.missed = IF hb[k].missed < TTL THEN hb[k].missed + 1
                                            ELSE hb[k].missed]
        BY <2>4 DEF Tick
    <3>2. /\ hb'[k].missed = (IF hb[k].missed < TTL THEN hb[k].missed + 1 ELSE hb[k].missed)
          /\ hb'[k].id = hb[k].id /\ hb'[k].due
        BY <2>1, <2>4, <3>1 DEF BeatOf
    <3>3. Present(hb[k].id) => hb[k].missed >= TTL \/ listed[hb[k].id] <= hb[k].missed + 1
        BY <2>1, <2>2, <2>4 DEF AgeInv, Aged, Beating
    <3> QED
        BY <2>1, <2>2, <3>2, <3>3, TTLAssumption DEF Aged, Present
  <2>5. CASE ~Beating(k)
    <3>1. hb'[k] = hb[k]
        BY <2>5 DEF Tick, Beating
    <3> QED
        BY <2>1, <2>5, <3>1 DEF Aged, Beating
  <2> QED
      BY <2>3, <2>4, <2>5 DEF Tick, Beating
<1> QED
    BY <1>3, <1>4 DEF AgeShape

LEMMA AgeStep == AgeInv /\ [Next]_vars => AgeInv'
<1> SUFFICES ASSUME AgeInv, [Next]_vars
             PROVE  AgeInv'
    OBVIOUS
<1>1. OwnInv'
    BY OwnStep DEF AgeInv
<1>2. ASSUME UNCHANGED hb, Younger PROVE AgeInv'
    BY <1>1, <1>2, YoungerKeeps DEF AgeInv, AgeShape, Younger
<1>3. AgeShape
    BY DEF AgeInv
<1>4. CASE StartServer \/ UNCHANGED vars
    BY <1>2, <1>3, <1>4, RequestsYounger DEF StartServer, vars
<1>5. CASE StopServer
    BY <1>2, <1>3, <1>5, RequestsYounger DEF StopServer, DeregisterServer
<1>6. CASE \E k \in Calls, what \in {"register", "unregister"} : Begin(k, what)
    BY <1>2, <1>3, <1>6, RequestsYounger DEF Begin
<1>7. CASE GcTick \/ Restart
  <2>1. UNCHANGED hb /\ Younger
      BY <1>3, <1>7 DEF GcTick, Restart, Younger, AgeShape
  <2> QED
      BY <1>2, <2>1
<1>8. CASE \E k \in Calls : CallStep(k) \/ BeatStep(k)
    BY <1>1, <1>8, CallKeepsAges, BeatKeepsAges DEF AgeInv
<1>9. CASE Tick
    BY <1>1, <1>9, TickKeepsAges DEF AgeInv
<1> QED
    BY <1>4, <1>5, <1>6, <1>7, <1>8, <1>9 DEF Next

(* A listing that reaches its ttl under its heartbeat goroutine has gone without *)
(* heartbeat for all the intervals of the ttl but the last, for every ttl        *)
(* longer than the interval, however re-registrations, stops and restarts of the *)
(* signaling server interleave.                                                  *)
THEOREM ExpiryMeansMisses == Spec => []ExpiryNeedsMisses
<1>1. ASSUME AgeInv PROVE ExpiryNeedsMisses
  <2>1. \A k \in Calls : Present(hb[k].id) => listed[hb[k].id] \in Nat
      BY <1>1 DEF AgeInv, AgeShape, Present
  <2>2. \A k \in Calls : hb[k].missed \in Nat
      BY <1>1 DEF AgeInv, AgeShape
  <2> QED
      BY <1>1, <2>1, <2>2, TTLAssumption DEF AgeInv, Aged, ExpiryNeedsMisses
<1> QED
    BY <1>1, AgeInit, AgeStep, PTL DEF Spec
=============================================================================
